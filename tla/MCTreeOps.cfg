SPECIFICATION TreeSpec
CONSTANTS
  Dirs <- MCDirs
  Files <- MCFiles
  Hard <- MCHard
  Links <- MCLinks
  Tagged <- MCTagged
  Targets <- MCTargets
  NewFiles <- MCNewFiles
  Operations = {"copy", "move", "delete"}
  MaxErrors = 2
INVARIANTS
  TreesAreKept
  UntaggedIsErased
PROPERTIES
  AbortStops
