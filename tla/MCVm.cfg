CONSTANTS
  MaxPages = 14
  PRamStart = 18
  Fanout = 3
  PageSize = 2
  StackBottom = 1
  StackTop = 3
  TextStart = 3
  TextSizes = {1, 3, 4, 9}
  DataSizes = {0, 1, 4, 5}
  PeripheralBase = 40
  PeripheralEnd = 43
  GicBase = 47
  GicEnd = 49
  Junk <- JunkContents
SPECIFICATION Spec
INVARIANTS
  TypeOK
  TablesAreATree
  EntriesAreFree
  KernelIsMapped
PROPERTIES
  ImplementsAddressSpace
