CONSTANTS
  MaxPages = 4
  PRamStart = 4
SPECIFICATION Spec
INVARIANTS
  TypeOK
  OneOwner
  PanicsOnlyWhenExhausted
PROPERTIES
  ImplementsPool
