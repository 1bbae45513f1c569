\* server_live
CONSTANTS
  s1 = s1
  s2 = s2
  a = a
  b = b
  leafA1 = leafA1
  leafA2 = leafA2
  leafB = leafB
  pA1 = pA1
  pA2 = pA2
  pB1 = pB1
  pB2 = pB2
  None = None
  Services = {s1, s2}
  Layer <- LayerOf
  Racks = {a}
  Leafs = {leafA1, leafA2, leafB}
  Ports = {pA1, pA2, pB1, pB2}
  RackOf <- OneRack
  LeafOf <- LeafOfPort
  Rank <- Order
  InitialAsks <- Crossed
  Edits = {pA2, pB2}
  RefuseSecondCable = TRUE
  FailAt = {"cable", "asn", "prefix", "serverend", "up", "down", "attach", "record", "stamp"}
  MayDelete = TRUE
  MayActDuringRun = FALSE
  RepeatsFirst = FALSE
  MaxChanges = 1
  Members <- Cluster
  MaxFailures = 2
SPECIFICATION FairSpec
CHECK_DEADLOCK FALSE
INVARIANTS SettledMeansAttached PeersAreAnswered SettledMeansPeered
PROPERTIES SelfTriggerSettles EventuallyAttached
