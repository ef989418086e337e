CONSTANTS
  Width = 3
  Height = 3
  MAX_ITERATION = 8
  Grids <- SmallGrids
  SearchMax = 2
SPECIFICATION PathSpec
INVARIANTS PathIsWalkable PathIsShortest FailsOnlyUnreachable
CHECK_DEADLOCK FALSE
