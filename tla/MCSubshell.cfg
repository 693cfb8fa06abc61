SPECIFICATION Spec
CONSTANTS
  home = home
  work = work
  Dirs = {home, work}
  Home = home
  Chunks <- TwoKeys
  MaxTty = 3
  MaxKills = 1
CHECK_DEADLOCK FALSE
INVARIANTS
  ShellIsAsBelieved
PROPERTIES
  FlushSparesCommands
  WaitsEnd
