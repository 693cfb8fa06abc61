SPECIFICATION Spec
CONSTANTS
  Dirs = {d1, d2}
  Home = home
  NoDir = nodir
  MaxCalls = 2
  MaxRefusals = 1
  MaxDrops = 2
  MaxInterrupts = 1
INVARIANTS
  InStep
  ClientIsRight
PROPERTY
  CallsEnd
CHECK_DEADLOCK FALSE
