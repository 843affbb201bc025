SPECIFICATION Spec
CONSTANTS
  Alloc = {a, b, c}
  Size = {4, 8, 16, 24}
  HeapSize = 64
  BOOTSTRAPBYTES = 16
  None = None
INVARIANT AllocationsDisjoint
CHECK_DEADLOCK FALSE
