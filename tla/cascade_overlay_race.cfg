\* cascade_overlay_race
CONSTANTS
  f = f
  f0 = f0
  p1 = p1
  r1 = r1
  w1 = w1
  w2 = w2
  Fabric = f
  Pods = {f0, p1}
  Racks = {r1}
  FabricPods = {f0}
  PodOf <- PodOfRack
  Workers = {w1, w2}
  Uplinks <- OneLeafUplink
  ScarcePorts = FALSE
  InitialAmounts <- SmallFabric
  MaxAmount = 2
  MaxEdits = 0
  MaxFailures = 0
  AllowShrink = FALSE
  OneRunPerTarget = TRUE
  NoDigest = NoDigest
SPECIFICATION Spec
CHECK_DEADLOCK FALSE
INVARIANT QuietMeansOverlayBuilt
SYMMETRY Interchangeable
