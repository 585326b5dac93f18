SPECIFICATION Spec
CONSTANTS
  a = a
  Addr = a
  ReadCap = 1
  MaxChanges = 2
  MaxEvents = 1
  MaxLeds = 2
INVARIANTS OneCurrent LedsArrive
PROPERTIES HandlersEnd
CHECK_DEADLOCK FALSE
