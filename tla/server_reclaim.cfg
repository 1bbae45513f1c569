\* server_reclaim
CONSTANTS
  s1 = s1
  s2 = s2
  a = a
  b = b
  leafA1 = leafA1
  leafA2 = leafA2
  leafB = leafB
  pA1 = pA1
  pA2 = pA2
  pB1 = pB1
  pB2 = pB2
  None = None
  Services = {s1, s2}
  Layer <- AllRouted
  Racks = {a, b}
  Leafs = {leafA1, leafA2, leafB}
  Ports = {pA1, pA2, pB1}
  RackOf <- RackOfLeaf
  LeafOf <- LeafOfPort
  Rank <- Order
  InitialAsks <- Pinned
  Edits = {pA1}
  RefuseSecondCable = TRUE
  FailAt = {}
  MayDelete = TRUE
  MayActDuringRun = FALSE
  RepeatsFirst = FALSE
  MaxChanges = 2
  Members <- Cluster
  MaxFailures = 0
SPECIFICATION Spec
CHECK_DEADLOCK FALSE
PROPERTIES NoTheft
