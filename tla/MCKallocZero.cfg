CONSTANTS
  MaxPages = 3
  PRamStart = 10
  VRamStart = 2
  VRamEnd = 6
  MaxAllocs = 2
  NumTables = 1
  PageSize = 2
  UintMod = 16
  Requests = {0, 1, 3, 5, 15}
  x = x
  y = y
  Value <- TwoValues
  Stores <- StoredValue
  Junk <- SomeDiffer
  Windows <- AllOfVRam
SPECIFICATION Spec
INVARIANTS
  ZeroSizeIsServed
