SPECIFICATION Spec
CONSTANTS
  Records <- SoundRecords
  Cloned <- Clonable
  Colors = 3
  Names <- MCNames
INVARIANTS InBounds BitwiseCopy
CHECK_DEADLOCK FALSE
