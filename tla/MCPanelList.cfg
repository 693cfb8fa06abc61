SPECIFICATION Spec
CONSTANTS
  TopNames = {1, 2}
  Sub = 2
  SubNames = {1}
INVARIANTS
  PanelsAreConsistent
PROPERTIES
  ReloadKeeps
  OperatesOnAsked
