SPECIFICATION BufferSpec
CONSTANTS
  Contents <- OneText
  Chars <- TypedChars
  EDIT_BUF_SIZE = 2
  MAXBUFF = 5
  START_STACK_SIZE = 8
  MaxUndo = 16
  Slack = 5
  MaxKeys = 4
  MaxScrolls = 1
INVARIANTS
  BufferIsConsistent
  CommandsExact
PROPERTIES
  ImplementsUndo
CHECK_DEADLOCK FALSE
