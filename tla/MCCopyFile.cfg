SPECIFICATION Spec
CONSTANTS
  N = 2
  SrcLen = 3
  BufSize = 2
  MaxErrors = 2
  Operations = {"copy", "move"}
INVARIANTS
  UntaggedIsDone
  NothingCarriesOver
PROPERTIES
  KeepsOthersFiles
