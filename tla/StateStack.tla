----------------------------- MODULE StateStack -----------------------------
(***************************************************************************)
(* The transform part of a traversal state (src/state.c).  The matrices    *)
(* are kept in an array that only grows; state_push_level says which of    *)
(* them is current, and inv_matrix caches the inverse of the current one   *)
(* until inv_dirty is set.  States are cloned and copied by the            *)
(* breadth-first traversal.                                                *)
(***************************************************************************)
EXTENDS Integers, Sequences

CONSTANTS
  Handle,      \* the states
  Matrix,      \* the values of a matrix
  Identity,
  Mult(_, _),  \* prf_state_matrix_mult_right
  Inverted(_),  \* what the elimination computes, None for a singular matrix
  None,
  Junk,        \* what is left in inv_matrix by malloc or a failed elimination
  MaxLevel,    \* bound: how deep a client pushes
  MayFail      \* TRUE when malloc may return NULL

ASSUME MatrixAssumption ==
  /\ Identity \in Matrix
  /\ \A a, b \in Matrix : Mult(a, b) \in Matrix
  /\ \A a \in Matrix : Inverted(a) \in Matrix \cup {None}
  /\ None \notin Matrix /\ Junk \notin Matrix
  /\ MaxLevel \in Nat /\ MaxLevel < 65535
  /\ MayFail \in BOOLEAN

VARIABLES
  matrix,      \* state -> matrix[0..], matrix[l] at l + 1; <<>> for no state
  level,       \* state -> state_push_level, a uint16_t
  inv_dirty,   \* state -> "TRUE" or "FALSE"
  inv_matrix,  \* state -> the cached inverse
  depth,       \* state -> auxiliary: pushes without pop, as its client counts
  failed,      \* auxiliary: the states for which an allocation has failed
  answer,      \* what the last prf_state_get_inverse_matrix returned
  halted       \* "no", or "stray": a matrix beyond the array was used

vars == <<matrix, level, inv_dirty, inv_matrix, depth, failed, answer, halted>>

Exists(h) == matrix[h] # <<>>
Alive(h) == halted = "no" /\ Exists(h)
InArray(h) == level[h] < Len(matrix[h])
Current(h) == matrix[h][level[h] + 1]
AnswerNothing == answer' = None

Init ==
  /\ matrix = [h \in Handle |-> <<>>]
  /\ level = [h \in Handle |-> 0]
  /\ inv_dirty = [h \in Handle |-> "TRUE"]
  /\ inv_matrix = [h \in Handle |-> Junk]
  /\ depth = [h \in Handle |-> 0]
  /\ failed = {} /\ answer = None /\ halted = "no"

prf_state_create(h) ==
  /\ halted = "no" /\ ~Exists(h)
  /\ matrix' = [matrix EXCEPT ![h] = <<Identity>>]
  /\ level' = [level EXCEPT ![h] = 0]
  /\ inv_dirty' = [inv_dirty EXCEPT ![h] = "TRUE"]
  /\ inv_matrix' = [inv_matrix EXCEPT ![h] = Junk]
  /\ depth' = [depth EXCEPT ![h] = 0]
  /\ failed' = failed \ {h}
  /\ AnswerNothing /\ UNCHANGED halted
\* Mutation of Reset: the level stays.
ResetKeepsLevel(h) ==
  /\ matrix' = [matrix EXCEPT ![h][1] = Identity]
  /\ inv_dirty' = [inv_dirty EXCEPT ![h] = "TRUE"]
  /\ UNCHANGED level

\* The assignments of prf_state_reset; the rest of the array stays.
Reset(h) ==
  /\ matrix' = [matrix EXCEPT ![h][1] = Identity]
  /\ level' = [level EXCEPT ![h] = 0]
  /\ inv_dirty' = [inv_dirty EXCEPT ![h] = "TRUE"]

prf_state_reset(h) ==
  /\ Alive(h)
  /\ Reset(h)
  /\ depth' = [depth EXCEPT ![h] = 0]
  /\ AnswerNothing /\ UNCHANGED <<inv_matrix, failed, halted>>
\* Mutation of prf_state_push: a used matrix is not overwritten.
PushReusesOld(h) ==
  /\ Alive(h) /\ InArray(h) /\ depth[h] < MaxLevel
  /\ level' = [level EXCEPT ![h] = (@ + 1) % 65536]
  /\ matrix' = [matrix EXCEPT ![h] = IF Len(@) <= level[h] + 1 THEN Append(@, Current(h)) ELSE @]
  /\ depth' = [depth EXCEPT ![h] = @ + 1]
  /\ AnswerNothing /\ UNCHANGED <<inv_dirty, inv_matrix, failed, halted>>

\* A new matrix at the end of the array, or a used one again; either becomes a
\* copy of the current one.
prf_state_push(h) ==
  /\ Alive(h) /\ InArray(h) /\ depth[h] < MaxLevel
  /\ level' = [level EXCEPT ![h] = (@ + 1) % 65536]
  /\ matrix' = [matrix EXCEPT ![h] =
                  IF Len(@) <= level[h] + 1 THEN Append(@, Current(h))
                  ELSE [@ EXCEPT ![level[h] + 2] = Current(h)]]
  /\ depth' = [depth EXCEPT ![h] = @ + 1]
  /\ AnswerNothing /\ UNCHANGED <<inv_dirty, inv_matrix, failed, halted>>

\* malloc fails: the state is reset, and the client pops later all the same.
PushFails(h) ==
  /\ MayFail /\ Alive(h) /\ InArray(h) /\ depth[h] < MaxLevel
  /\ Len(matrix[h]) <= level[h] + 1
  /\ Reset(h)
  /\ depth' = [depth EXCEPT ![h] = @ + 1]
  /\ failed' = failed \cup {h}
  /\ AnswerNothing /\ UNCHANGED <<inv_matrix, halted>>

\* The cached inverse stays valid when both matrices have the same bytes; the
\* level is a uint16_t.
StaysClean(h) == level[h] > 1 /\ matrix[h][level[h]] = Current(h)
prf_state_pop(h) ==
  /\ Alive(h) /\ InArray(h) /\ depth[h] > 0
  /\ inv_dirty' = [inv_dirty EXCEPT ![h] =
                     IF @ = "FALSE" /\ StaysClean(h) THEN "FALSE" ELSE "TRUE"]
  /\ level' = [level EXCEPT ![h] = (@ - 1) % 65536]
  /\ depth' = [depth EXCEPT ![h] = @ - 1]
  /\ AnswerNothing /\ UNCHANGED <<matrix, inv_matrix, failed, halted>>
\* Mutation of prf_state_matrix_mult_right: inv_dirty is not set.
MultKeepsCache(h, m) ==
  /\ Alive(h) /\ InArray(h)
  /\ matrix' = [matrix EXCEPT ![h][level[h] + 1] = Mult(@, m)]
  /\ AnswerNothing /\ UNCHANGED <<level, inv_dirty, inv_matrix, depth, failed, halted>>

prf_state_matrix_mult_right(h, m) ==
  /\ Alive(h) /\ InArray(h)
  /\ matrix' = [matrix EXCEPT ![h][level[h] + 1] = Mult(@, m)]
  /\ inv_dirty' = [inv_dirty EXCEPT ![h] = "TRUE"]
  /\ AnswerNothing /\ UNCHANGED <<level, inv_matrix, depth, failed, halted>>

\* A singular matrix leaves inv_matrix half eliminated, and inv_dirty set.
prf_state_get_inverse_matrix(h) ==
  /\ Alive(h) /\ InArray(h)
  /\ \/ /\ inv_dirty[h] = "FALSE"
        /\ answer' = inv_matrix[h]
        /\ UNCHANGED <<inv_dirty, inv_matrix>>
     \/ /\ inv_dirty[h] = "TRUE" /\ Inverted(Current(h)) # None
        /\ answer' = Inverted(Current(h))
        /\ inv_matrix' = [inv_matrix EXCEPT ![h] = answer']
        /\ inv_dirty' = [inv_dirty EXCEPT ![h] = "FALSE"]
     \/ /\ inv_dirty[h] = "TRUE" /\ Inverted(Current(h)) = None
        /\ answer' = None
        /\ inv_matrix' = [inv_matrix EXCEPT ![h] = Junk]
        /\ UNCHANGED inv_dirty
  /\ UNCHANGED <<matrix, level, depth, failed, halted>>

\* The first level + 1 matrices of g over those of `old', which may be longer.
Overlay(g, old) ==
  [l \in 1..(IF Len(old) > level[g] THEN Len(old) ELSE level[g] + 1) |->
     IF l <= level[g] + 1 THEN matrix[g][l] ELSE old[l]]
CopyRest(g, h) ==
  /\ inv_dirty' = [inv_dirty EXCEPT ![h] = inv_dirty[g]]
  /\ inv_matrix' = [inv_matrix EXCEPT ![h] = IF inv_dirty[g] = "FALSE" THEN inv_matrix[g] ELSE @]
  /\ level' = [level EXCEPT ![h] = level[g]]
  /\ depth' = [depth EXCEPT ![h] = depth[g]]
  /\ failed' = IF g \in failed THEN failed \cup {h} ELSE failed \ {h}
  /\ AnswerNothing /\ UNCHANGED halted

\* prf_state_clone: prf_state_create, then a copy; a failed malloc destroys it.
prf_state_clone(g, h) ==
  /\ Alive(g) /\ InArray(g) /\ ~Exists(h)
  /\ matrix' = [matrix EXCEPT ![h] = Overlay(g, <<Identity>>)]
  /\ CopyRest(g, h)

prf_state_copy(g, h) ==
  /\ Alive(g) /\ InArray(g) /\ Exists(h) /\ g # h
  /\ matrix' = [matrix EXCEPT ![h] = Overlay(g, @)]
  /\ CopyRest(g, h)

\* prf_state_copy returns when a malloc fails, with n matrices copied, of which
\* the last ones may be new: inv_dirty is the original's by then, inv_matrix and
\* the level are not.
CopyFails(g, h) ==
  /\ MayFail /\ Alive(g) /\ InArray(g) /\ Exists(h) /\ g # h
  /\ inv_dirty' = [inv_dirty EXCEPT ![h] = inv_dirty[g]]
  /\ \E n \in Len(matrix[h])..level[g] :
       matrix' = [matrix EXCEPT ![h] = SubSeq(matrix[g], 1, n)]
  /\ failed' = failed \cup {h}
  /\ AnswerNothing /\ UNCHANGED <<level, inv_matrix, depth, halted>>

prf_state_destroy(h) ==
  /\ Alive(h)
  /\ matrix' = [matrix EXCEPT ![h] = <<>>]
  /\ level' = [level EXCEPT ![h] = 0]
  /\ inv_dirty' = [inv_dirty EXCEPT ![h] = "TRUE"]
  /\ inv_matrix' = [inv_matrix EXCEPT ![h] = Junk]
  /\ depth' = [depth EXCEPT ![h] = 0]
  /\ failed' = failed \ {h}
  /\ AnswerNothing /\ UNCHANGED halted

\* Any use of matrix[state_push_level] beyond the array.
Stray(h) ==
  /\ Alive(h) /\ ~InArray(h)
  /\ halted' = "stray"
  /\ AnswerNothing
  /\ UNCHANGED <<matrix, level, inv_dirty, inv_matrix, depth, failed>>

Next ==
  \E h \in Handle :
    \/ prf_state_create(h) \/ prf_state_reset(h) \/ prf_state_destroy(h)
    \/ prf_state_push(h) \/ PushFails(h) \/ prf_state_pop(h)
    \/ \E m \in Matrix : prf_state_matrix_mult_right(h, m)
    \/ prf_state_get_inverse_matrix(h)
    \/ \E g \in Handle : prf_state_clone(g, h) \/ prf_state_copy(g, h) \/ CopyFails(g, h)
    \/ Stray(h)

Spec == Init /\ [][Next]_vars
-----------------------------------------------------------------------------
\* The variables have their types.
TypeOK ==
  /\ matrix \in [Handle -> Seq(Matrix)]
  /\ level \in [Handle -> Nat]
  /\ inv_dirty \in [Handle -> {"TRUE", "FALSE"}]
  /\ inv_matrix \in [Handle -> Matrix \cup {Junk}]
  /\ depth \in [Handle -> 0..MaxLevel]
  /\ failed \subseteq Handle
  /\ answer \in Matrix \cup {None, Junk}
  /\ halted \in {"no", "stray"}

\* As long as no allocation failed, state_push_level is the number of pushes
\* its client has still to pop, and lies in the array.
LevelInStep ==
  \A h \in Handle : (Exists(h) /\ h \notin failed) => (level[h] = depth[h] /\ InArray(h))

\* inv_dirty is never FALSE for an inverse that is not the current matrix's:
\* push, pop, multiply, reset, clone and copy each keep or drop the cache.
CleanInverse ==
  \A h \in Handle :
    (Exists(h) /\ h \notin failed /\ inv_dirty[h] = "FALSE") => inv_matrix[h] = Inverted(Current(h))

\* A state is a stack of scopes: see TransformStack.  What lies in the array
\* beyond the current level does not matter.
Scope(h) == IF Exists(h) THEN SubSeq(matrix[h], 1, level[h] + 1) ELSE <<>>
Scopes == [h \in Handle |-> Scope(h)]
Stack == INSTANCE TransformStack WITH scopes <- Scopes
StackSpec == Stack!Spec

\* From the first state on, and again whenever the states an allocation failed
\* for have been destroyed or copied over, every call is a step of that stack: a
\* failure in one state leaves no trace in the others.
StackUntilFailure ==
  /\ Stack!Init
  /\ [][(failed = {} /\ failed' = {}) => Stack!Next]_vars
=============================================================================
