\* cabling_moved_pod
CONSTANTS
  f = f
  p1 = p1
  p2 = p2
  r1 = r1
  r2 = r2
  Fabric = f
  Pods = {p1, p2}
  Racks = {}
  PodOf <- FirstPod
  Sizes <- FixedSizes
  Indexes <- MovingIndexes
  InitialIndex <- TwoFirstIndexes
  InitialSize <- OneSizes
  UpPorts = 2
  DownPorts = 9
  Descending = {"up"}
  RefuseSecondCable = FALSE
  MayActDuringRun = FALSE
  MayMove = TRUE
  Workers = 2
  MaxEdits = 1
  MaxFailures = 0
SPECIFICATION Spec
INVARIANTS PortsStay
CHECK_DEADLOCK FALSE
