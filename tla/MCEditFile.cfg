SPECIFICATION Spec
CONSTANTS
  ann = ann
  bob = bob
  fa = fa
  None = None
  fb = fb
  Editors = {ann, bob}
  Files = {fa}
  SaveModes = {"quick"}
  LineBreaks = FALSE
  Drafts = 1
  MayCrash = {ann, bob}
INVARIANTS
  LocksFollowBuffers
SYMMETRY Alike
