SPECIFICATION Spec
CONSTANTS
  Records <- LevelsOfDetail
  Cloned <- OnlyLevelsOfDetail
  Colors = 3
  Names <- MCNames
INVARIANT BitwiseCopy
CHECK_DEADLOCK FALSE
