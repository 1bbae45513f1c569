\* server_lost_edit
CONSTANTS
  s1 = s1
  s2 = s2
  a = a
  b = b
  leafA1 = leafA1
  leafA2 = leafA2
  leafB = leafB
  pA1 = pA1
  pA2 = pA2
  pB1 = pB1
  pB2 = pB2
  None = None
  Services = {s1}
  Layer <- LayerOf
  Racks = {a, b}
  Leafs = {leafA1, leafA2, leafB}
  Ports = {pA1, pA2, pB1}
  RackOf <- RackOfLeaf
  LeafOf <- LeafOfPort
  Rank <- Order
  InitialAsks <- Automatic
  Edits = {pA2, pB1, b}
  RefuseSecondCable = TRUE
  FailAt = {}
  MayDelete = FALSE
  MayActDuringRun = TRUE
  RepeatsFirst = FALSE
  MaxChanges = 1
  Members <- Cluster
  MaxFailures = 0
SPECIFICATION Spec
CHECK_DEADLOCK FALSE
INVARIANTS EditsHonored
