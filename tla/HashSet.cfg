SPECIFICATION Spec
CONSTANTS
  Key = {0, 1, 2, 5, 9}
  Hash <- MCHash
  InitialCapacity = 4
  NoKey = NoKey
  Null = Null
  Removed = Removed
INVARIANT LookupsAgree
INVARIANT PutEnds
PROPERTY ImplementsOrderedSet
