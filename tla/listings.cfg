SPECIFICATION FairSpec
CONSTANTS
  None = None
  Ids = {1, 2, 3}
  Listed = 1
  Starts = {0, 1}
  Offsets = {0, 1}
  Stock <- MCStock
  Stocked = {1, 2}
  Limits = {1, 2}
  QueryItems = 3
  MaxWrites = 2
INVARIANT ShownOnce
PROPERTIES
  WalkEnds
  ImplementsSweep
  MovesForward
