\* cabling_counted_gate
CONSTANTS
  f = f
  p1 = p1
  p2 = p2
  r1 = r1
  r2 = r2
  Fabric = f
  Pods = {p1, p2}
  Racks = {}
  PodOf <- FirstPod
  Sizes <- ShrinkingSizes
  Indexes <- TwoIndexes
  InitialIndex <- TwoFirstIndexes
  InitialSize <- LargeSizes
  UpPorts = 2
  DownPorts = 9
  Descending = {"up"}
  RefuseSecondCable = FALSE
  MayActDuringRun = FALSE
  MayMove = TRUE
  Workers = 2
  MaxEdits = 2
  MaxFailures = 0
SPECIFICATION Spec
PROPERTIES CablesStay
CHECK_DEADLOCK FALSE
