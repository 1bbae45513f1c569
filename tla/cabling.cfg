\* cabling
CONSTANTS
  f = f
  p1 = p1
  p2 = p2
  r1 = r1
  r2 = r2
  Fabric = f
  Pods = {p1, p2}
  Racks = {r1, r2}
  PodOf <- FirstPod
  Sizes <- SomeSizes
  Indexes <- SomeIndexes
  InitialIndex <- FirstIndexes
  InitialSize <- FirstSizes
  UpPorts = 2
  DownPorts = 9
  Descending = {"up"}
  RefuseSecondCable = FALSE
  MayActDuringRun = FALSE
  MayMove = FALSE
  Workers = 2
  MaxEdits = 1
  MaxFailures = 1
SPECIFICATION Spec
INVARIANTS TypeOK QuietMeansCabled RangesDisjoint PortsStay
PROPERTIES CablesStay
CHECK_DEADLOCK FALSE
