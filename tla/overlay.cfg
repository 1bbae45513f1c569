\* overlay
CONSTANTS
  blue = blue
  green = green
  vb = vb
  vg = vg
  sb1 = sb1
  sg = sg
  a = a
  b = b
  leafA = leafA
  leafB = leafB
  Unstamped = Unstamped
  Tenants = {blue, green}
  Vrfs = {vb, vg}
  Segments = {sb1, sg}
  TenantOf <- TenantOfVrf
  VrfOf <- VrfOfSegment
  Routed = {sb1}
  Racks = {a, b}
  Leafs = {leafA, leafB}
  RackOf <- RackOfLeaf
  InitialSegments = {sb1}
  InitialLeafs = {leafA}
  MaxChanges = 1
  MaxFailures = 1
SPECIFICATION FairSpec
CHECK_DEADLOCK FALSE
INVARIANTS TypeOK SettledMeansMaterialized
PROPERTIES OthersUntouched IdentifiersStable EventuallyMaterialized
