\* Two states, failing allocations.
SPECIFICATION Spec
CONSTANTS
  Handle = {s1, s2}
  Matrix = {0, 1, 2}
  Identity = 0
  Mult <- MCMult
  Inverted <- MCInverse
  None = none
  Junk = junk
  MaxLevel = 2
  MayFail = TRUE
INVARIANTS LevelInStep CleanInverse
PROPERTIES StackUntilFailure
\* A use of memory beyond the array ends everything.
CHECK_DEADLOCK FALSE
SYMMETRY Interchange
