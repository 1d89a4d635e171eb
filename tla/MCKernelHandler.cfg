CONSTANTS
  ArmcId = {0, 1}
  Handler = {"timer_handleIRQ"}
  NoHandler = "NULL"
  Junk = "junk"
  BssSize = 32
  HandlersWord = 2
  FifoDepth = 2
  MessageLength = 3
  UintMod = 16
  TicksPerMs = 4
SPECIFICATION Spec
INVARIANTS
  EveryIrqHasHandler
