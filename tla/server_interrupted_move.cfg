\* server_interrupted_move
CONSTANTS
  s1 = s1
  s2 = s2
  a = a
  b = b
  leafA1 = leafA1
  leafA2 = leafA2
  leafB = leafB
  pA1 = pA1
  pA2 = pA2
  pB1 = pB1
  pB2 = pB2
  None = None
  Services = {s1}
  Layer <- LayerOf
  Racks = {a, b}
  Leafs = {leafA1, leafA2, leafB}
  Ports = {pA1, pA2, pB1}
  RackOf <- RackOfLeaf
  LeafOf <- LeafOfPort
  Rank <- Order
  InitialAsks <- Pinned
  Edits = {pB1}
  RefuseSecondCable = TRUE
  FailAt = {"asn", "prefix", "up", "record"}
  MayDelete = FALSE
  MayActDuringRun = FALSE
  RepeatsFirst = FALSE
  MaxChanges = 1
  Members <- Cluster
  MaxFailures = 1
SPECIFICATION FairSpec
CHECK_DEADLOCK FALSE
PROPERTIES EventuallyAttached
