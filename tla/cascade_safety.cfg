\* cascade_safety
CONSTANTS
  f = f
  f0 = f0
  p1 = p1
  r1 = r1
  w1 = w1
  w2 = w2
  Fabric = f
  Pods = {f0, p1}
  Racks = {r1}
  FabricPods = {f0}
  PodOf <- PodOfRack
  Workers = {w1, w2}
  Uplinks <- OneLeafUplink
  ScarcePorts = TRUE
  InitialAmounts <- AnyFabric
  MaxAmount = 2
  MaxEdits = 1
  MaxFailures = 1
  AllowShrink = TRUE
  OneRunPerTarget = TRUE
  NoDigest = NoDigest
SPECIFICATION Spec
CHECK_DEADLOCK FALSE
INVARIANTS TierOrder SessionsFollowCabling AsnAgreement
SYMMETRY Interchangeable
