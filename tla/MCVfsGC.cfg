SPECIFICATION GCSpec
CONSTANTS
  ftp = ftp
  tar = tar
  sfs = sfs
  FS <- MCFS
  Archives = {tar}
  Local = Local
  Timeout = 1
  MaxOpen = 2
INVARIANTS
  GCTypeOK
  StampsAreLive
  CurrentNotStamped
  PanelsNotStamped
  OpenFilesKeepSuper
  UnneededIsStamped
  QuitFreesAll
PROPERTIES
  UnneededIsFreed
