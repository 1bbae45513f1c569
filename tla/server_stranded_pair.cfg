\* server_stranded_pair: a move within a leaf dies, then the service moves to another leaf
CONSTANTS
  s1 = s1
  s2 = s2
  a = a
  b = b
  leafA1 = leafA1
  leafA2 = leafA2
  leafB = leafB
  pA1 = pA1
  pA2 = pA2
  pB1 = pB1
  pB2 = pB2
  None = None
  Services = {s1}
  Layer <- LayerOf
  Racks = {a}
  Leafs = {leafA1, leafA2, leafB}
  Ports = {pA1, pA2, pB1, pB2}
  RackOf <- OneRack
  LeafOf <- LeafOfPort
  Rank <- Order
  InitialAsks <- Crossed
  Edits = {pA2, pB2}
  RefuseSecondCable = TRUE
  FailAt = {"cable"}
  MayDelete = FALSE
  MayActDuringRun = FALSE
  RepeatsFirst = FALSE
  MaxChanges = 2
  Members <- Cluster
  MaxFailures = 1
SPECIFICATION Spec
CHECK_DEADLOCK FALSE
INVARIANTS SettledMeansAttached
