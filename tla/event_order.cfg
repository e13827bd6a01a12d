SPECIFICATION Spec
CONSTANTS
  None = None
  Ids = {1, 2}
  Listed = 1
  Starts = {0, 1}
  Offsets <- MCOffsets
  Stock <- MCStock
  Stocked = {}
  Limits = {2}
  QueryItems = 3
  MaxWrites = 2
INVARIANT NewestFirst
