SPECIFICATION Spec
CONSTANTS
  local = local
  ftpfs = ftpfs
  i1 = i1
  i2 = i2
  i3 = i3
  i4 = i4
  Class <- MCClass
  Info <- MCInfo
  MaxSlots = 4
INVARIANTS
  TypeOK
  HeldHandlesResolve
  FreeListComplete
PROPERTIES
  GrowsOnlyWhenFull
  ImplementsMap
