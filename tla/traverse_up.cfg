\* A callback that asks for the rest of the siblings to be skipped.
SPECIFICATION TSpec
CONSTANTS
  Kinds = {"plain", "push", "pop", "anc"}
  Roots = {"header"}
  MaxNodes = 5
  InitSize = 8
  Jobs = {"user"}
  Codes = {"CONTINUE", "UP"}
  MaxAnswers = 1
  MaxFlagged = 0
INVARIANTS UpSkipsSiblings
CHECK_DEADLOCK FALSE
