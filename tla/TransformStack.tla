--------------------------- MODULE TransformStack ---------------------------
(***************************************************************************)
(* What a traversal state promises about transforms: scopes that nest, a   *)
(* product of matrices for each, the inverse of the innermost one on       *)
(* demand, and states that can be duplicated.                              *)
(***************************************************************************)
EXTENDS Sequences, Naturals

CONSTANTS Handle, Matrix, Identity, Mult(_, _), Inverted(_), None

VARIABLES
  scopes,  \* state -> the products of its open scopes, <<>> for no state
  answer   \* what the last question for an inverse was told

Exists(h) == scopes[h] # <<>>
Inner(h) == scopes[h][Len(scopes[h])]
Becomes(h, s) == scopes' = [scopes EXCEPT ![h] = s]

Init == scopes = [h \in Handle |-> <<>>] /\ answer = None

Create(h) == ~Exists(h) /\ Becomes(h, <<Identity>>) /\ answer' = None
Restart(h) == Exists(h) /\ Becomes(h, <<Identity>>) /\ answer' = None
Push(h) == Exists(h) /\ Becomes(h, Append(scopes[h], Inner(h))) /\ answer' = None
Pop(h) ==
  /\ Len(scopes[h]) > 1
  /\ Becomes(h, SubSeq(scopes[h], 1, Len(scopes[h]) - 1))
  /\ answer' = None
Multiply(h, m) ==
  /\ Exists(h)
  /\ Becomes(h, [scopes[h] EXCEPT ![Len(scopes[h])] = Mult(@, m)])
  /\ answer' = None
Duplicate(g, h) == Exists(g) /\ Becomes(h, scopes[g]) /\ answer' = None
Destroy(h) == Exists(h) /\ Becomes(h, <<>>) /\ answer' = None
\* The inverse, or None for a matrix that has none.
AskInverse(h) == Exists(h) /\ UNCHANGED scopes /\ answer' = Inverted(Inner(h))

Next ==
  \E h \in Handle :
    \/ Create(h) \/ Restart(h) \/ Push(h) \/ Pop(h) \/ Destroy(h) \/ AskInverse(h)
    \/ \E m \in Matrix : Multiply(h, m)
    \/ \E g \in Handle : Duplicate(g, h)

Spec == Init /\ [][Next]_<<scopes, answer>>
=============================================================================
