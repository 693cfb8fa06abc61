SPECIFICATION CacheSpec
CONSTANTS
  Dirs = {d1}
  Files = {f}
  Streams = {s1}
  Handles = {x1, x2}
  Root = root
  NoPtr = noptr
SYMMETRY Slots
INVARIANTS
  MemoryIsAccounted
  ListingIsCurrent
PROPERTY
  StreamsAreStable
CHECK_DEADLOCK FALSE
