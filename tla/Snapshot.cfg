SPECIFICATION Spec
CONSTANTS
  Page = {1, 2, 3}
  Shared = {3}
  Content = {0, 1}
  MaxBackingPages = 5
  MaxSnapShots = 3
  MaxRegions = 2
  Heap = {1}
  Maps <- MCMaps
  Binary = "program"
  NoName = "none"
INVARIANT CopiedOnce
INVARIANT OneTakesOver
PROPERTY ImplementsSavedMemory
CHECK_DEADLOCK FALSE
