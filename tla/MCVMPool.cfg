SPECIFICATION Spec
CONSTANTS
  PageSize = 2
  TableSize = 2
  NFrames = 10
  Base <- MCBase
  Size <- MCSize
  MaxEntry = 3
  Array = {arr1, arr2}
  Request = {1, 5}
INVARIANTS
  TypeOK
  FramesAccounted
  LegitimateIsAllocated
  WholePagesKept
PROPERTIES
  AssertsOnlyWhenUnwritten
  ImplementsRegions
SYMMETRY MCSymmetry
CHECK_DEADLOCK FALSE
