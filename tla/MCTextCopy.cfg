CONSTANTS
  Nul = 0
  Letter <- MCLetter
  MemSize = 6
  IntBits = 8
  LongBits = 12
  PtrBytes = 2
  TmpSize = 10
  Ptr <- MCPtr
  MaxPieces = 2
  MaxTokens = 3
  MaxInput = 4
SPECIFICATION Spec
INVARIANT CopiesTheString
