CONSTANTS
  UintMod = 32
  TicksPerMs = 4
  Ms = {1, 2, 3, 4, 5, 6, 7, 8}
SPECIFICATION Spec
INVARIANT NoStaleInterrupt
