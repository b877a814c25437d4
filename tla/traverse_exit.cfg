\* A callback that stops the traversal below the root.
SPECIFICATION TSpec
CONSTANTS
  Kinds = {"plain", "push", "pop", "anc"}
  Roots = {"plain"}
  MaxNodes = 4
  InitSize = 8
  Jobs = {"user"}
  Codes = {"CONTINUE", "EXIT"}
  MaxAnswers = 2
  MaxFlagged = 0
INVARIANTS ExitLeavesModel
CHECK_DEADLOCK FALSE
