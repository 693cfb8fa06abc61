SPECIFICATION Spec
CONSTANTS
  ann = ann
  bob = bob
  fa = fa
  None = None
  fb = fb
  Editors = {ann}
  Files = {fa, fb}
  SaveModes = {"quick", "safe", "backup"}
  LineBreaks = TRUE
  Drafts = 2
  MayCrash = {ann}
INVARIANTS
  SavesAreKept
PROPERTIES
  NeverDeletesText
