\* Models of up to six nodes, traversed depth-first and destroyed; arrays of
\* one element at first, so that lists have been moved while they grew.
SPECIFICATION DSpec
CONSTANTS
  Kinds = {"plain", "push", "pop", "xpop", "anc", "bogus", "unknown", "bad"}
  Roots = {"plain", "push", "pop", "xpop", "anc", "bogus", "unknown", "bad"}
  MaxNodes = 6
  InitSize = 1
  Codes = {"EXIT", "CONTINUE", "SIBLING", "POP"}
  MaxAnswers = 1
INVARIANTS LoadKeepsLists TreeAsRecorded DestroyIsSafe NothingLeaks ChildrenFirst ScopeOfDescent
PROPERTIES DestroyEnds
\* A destroyed model, a failed load or a crash ends everything.
CHECK_DEADLOCK FALSE
