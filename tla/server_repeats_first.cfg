\* server_repeats_first: the instance of server_stranded_pair with two services, and every failed run repeated before the next edit
CONSTANTS
  s1 = s1
  s2 = s2
  a = a
  b = b
  leafA1 = leafA1
  leafA2 = leafA2
  leafB = leafB
  pA1 = pA1
  pA2 = pA2
  pB1 = pB1
  pB2 = pB2
  None = None
  Services = {s1, s2}
  Layer <- LayerOf
  Racks = {a}
  Leafs = {leafA1, leafA2, leafB}
  Ports = {pA1, pA2, pB1, pB2}
  RackOf <- OneRack
  LeafOf <- LeafOfPort
  Rank <- Order
  InitialAsks <- Crossed
  Edits = {pA2, pB2}
  RefuseSecondCable = TRUE
  FailAt = {"cable", "asn", "record"}
  MayDelete = FALSE
  MayActDuringRun = FALSE
  RepeatsFirst = TRUE
  MaxChanges = 2
  Members <- Cluster
  MaxFailures = 2
SPECIFICATION Spec
CHECK_DEADLOCK FALSE
INVARIANTS SettledMeansAttached PeersAreAnswered
