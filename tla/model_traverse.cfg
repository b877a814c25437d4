\* Models of up to five nodes: traversals in order and breadth first, with up to
\* two answers other than CONTINUE, saving and cloning, one after the other.
SPECIFICATION BSpec
CONSTANTS
  Kinds = {"plain", "header", "push", "pop", "anc"}
  Roots = {"header", "plain"}
  MaxNodes = 5
  InitSize = 8
  Jobs = {"user", "save", "clone"}
  Codes = {"EXIT", "CONTINUE", "SIBLING", "POP", "UP"}
  MaxAnswers = 2
  MaxFlagged = 1
INVARIANTS NoBadAccess VisitsInFileOrder  LevelsInStep CloneIsEqual BreadthReleases BreadthInOrder
PROPERTIES TraversalEnds
\* A load that failed, or a crash, ends everything.
CHECK_DEADLOCK FALSE
