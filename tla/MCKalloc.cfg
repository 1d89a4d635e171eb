CONSTANTS
  MaxPages = 4
  PRamStart = 10
  VRamStart = 2
  VRamEnd = 6
  MaxAllocs = 2
  NumTables = 1
  PageSize = 2
  UintMod = 16
  Requests = {1, 3, 15}
  x = x
  y = y
  Value <- TwoValues
  Stores <- StoredValue
  Junk <- SomeDiffer
  Windows <- AllOrFirst
SPECIFICATION FairSpec
INVARIANTS
  TypeOK
  NoAliasing
  FreePagesUnreachable
  Accounted
  AssertsNeverFire
  RefusesOnlyWhenFragmented
  GrantCoversRequest
  OnlyTheSearchFaults
PROPERTIES
  OwnedPagesStay
  ImplementsHeap
  CallsReturn
