---------------------------- MODULE StateProofs ----------------------------
(***************************************************************************)
(* What a model keeps between calls: the matrices of its traversal states, *)
(* and the palette its vertex lists point into.                            *)
(*                                                                         *)
(* The cached inverse of a traversal state is never stale, for every set   *)
(* of matrices, any number of states and any depth, also when allocations  *)
(* fail (of the states for which none has failed).                         *)
(*                                                                         *)
(* The offsets in the vertex lists, and those the application was given,   *)
(* name their vertices for any number of vertices, blocks and lists,       *)
(* through additions, compactions, saves, loads and clones.                *)
(***************************************************************************)
EXTENDS StateStack, VertexPalette, SequenceTheorems, FiniteSetTheorems,
        WellFoundedInduction, TLAPS

-----------------------------------------------------------------------------
(* The traversal states *)


(***************************************************************************)
(* The invariants of the module are inductive together: that a pop may     *)
(* keep the cache needs the level to lie in the array, which needs the     *)
(* level to be the client's depth.                                         *)
(***************************************************************************)
IInv == TypeOK /\ LevelInStep /\ CleanInverse

\* Replacing an element of a sequence.
LEMMA ReplaceElement ==
  ASSUME NEW S, NEW s \in Seq(S), NEW i \in 1..Len(s), NEW x \in S
  PROVE  /\ [s EXCEPT ![i] = x] \in Seq(S)
         /\ Len([s EXCEPT ![i] = x]) = Len(s)
         /\ [s EXCEPT ![i] = x][i] = x
  OBVIOUS

\* Replacing an element of one state's array.
LEMMA ReplaceMatrix ==
  ASSUME NEW f \in [Handle -> Seq(Matrix)], NEW h \in Handle, NEW i \in 1..Len(f[h]), NEW x \in Matrix
  PROVE  /\ [f EXCEPT ![h][i] = x] \in [Handle -> Seq(Matrix)]
         /\ [f EXCEPT ![h][i] = x][h] = [f[h] EXCEPT ![i] = x]
         /\ \A g \in Handle \ {h} : [f EXCEPT ![h][i] = x][g] = f[g]
  <1>1. [f[h] EXCEPT ![i] = x] \in Seq(Matrix)
    BY ReplaceElement
  <1> QED BY <1>1

\* The matrices prf_state_copy leaves: the original's, then what was there.
LEMMA OverlayFacts ==
  ASSUME TypeOK, NEW g \in Handle, InArray(g), NEW old \in Seq(Matrix)
  PROVE  /\ Overlay(g, old) \in Seq(Matrix)
         /\ level[g] < Len(Overlay(g, old))
         /\ Overlay(g, old)[level[g] + 1] = Current(g)
  <1> DEFINE n == IF Len(old) > level[g] THEN Len(old) ELSE level[g] + 1
  <1>0. level[g] \in Nat /\ matrix[g] \in Seq(Matrix)
    BY DEF TypeOK
  <1>1. level[g] \in Nat /\ matrix[g] \in Seq(Matrix) /\ Len(matrix[g]) \in Nat /\ Len(old) \in Nat
    BY <1>0
  <1>2. n \in Nat /\ level[g] < n
    BY <1>1
  <1>3. \A l \in 1..n : (IF l <= level[g] + 1 THEN matrix[g][l] ELSE old[l]) \in Matrix
    BY <1>1 DEF InArray
  <1>4. Overlay(g, old) \in [1..n -> Matrix]
    BY <1>3 DEF Overlay
  <1>5. Overlay(g, old) \in Seq(Matrix) /\ Len(Overlay(g, old)) = n
    BY <1>2, <1>4
  <1>6. Overlay(g, old)[level[g] + 1] = Current(g)
    BY <1>1, <1>2 DEF Overlay, Current
  <1> QED BY <1>2, <1>5, <1>6

\* Init establishes the invariant.
LEMMA InitIInv == Init => IInv
  <1> SUFFICES ASSUME Init PROVE IInv
    OBVIOUS
  <1>1. <<>> \in Seq(Matrix)
    OBVIOUS
  <1>2. TypeOK
    <2>1. matrix \in [Handle -> Seq(Matrix)]
      BY <1>1 DEF Init
    <2> QED BY <2>1, MatrixAssumption DEF Init, TypeOK
  <1>3. \A h \in Handle : ~Exists(h)
    BY DEF Init, Exists
  <1> QED BY <1>2, <1>3 DEF IInv, LevelInStep, CleanInverse

(***************************************************************************)
(* One lemma for what every action has to do for the state it changes.     *)
(***************************************************************************)

\* The part of the invariant that speaks of one state.
Sound(h) ==
  (Exists(h) /\ h \notin failed) =>
    /\ level[h] = depth[h] /\ InArray(h)
    /\ inv_dirty[h] = "FALSE" => inv_matrix[h] = Inverted(Current(h))

\* The invariant says that every state is sound.
LEMMA SoundStates == IInv <=> (TypeOK /\ \A h \in Handle : Sound(h))
  BY DEF IInv, LevelInStep, CleanInverse, Sound

\* An action that leaves a state and its failures alone leaves it sound.
LEMMA OthersStay ==
  ASSUME NEW h \in Handle, Sound(h),
         matrix'[h] = matrix[h], level'[h] = level[h], depth'[h] = depth[h],
         inv_dirty'[h] = inv_dirty[h], inv_matrix'[h] = inv_matrix[h],
         h \in failed => h \in failed'
  PROVE  Sound(h)'
  BY DEF Sound, Exists, InArray, Current

\* Every step preserves the invariant.
LEMMA NextIInv == IInv /\ [Next]_vars => IInv'
  <1> SUFFICES ASSUME TypeOK, \A g \in Handle : Sound(g), [Next]_vars
               PROVE  TypeOK' /\ \A g \in Handle : Sound(g)'
    BY SoundStates DEF IInv, TypeOK, LevelInStep, CleanInverse, Sound, Exists, InArray, Current
  <1>1. ASSUME NEW h \in Handle, prf_state_create(h)
        PROVE  TypeOK' /\ \A g \in Handle : Sound(g)'
    <2>1. <<Identity>> \in Seq(Matrix)
      BY MatrixAssumption
    <2>2. TypeOK'
      BY <1>1, <2>1, MatrixAssumption DEF TypeOK, prf_state_create, AnswerNothing
    <2>3. Sound(h)'
      BY <1>1 DEF TypeOK, prf_state_create, Sound, InArray
    <2>4. ASSUME NEW g \in Handle, g # h PROVE Sound(g)'
      BY <1>1, <2>4, OthersStay DEF TypeOK, prf_state_create
    <2> QED BY <2>2, <2>3, <2>4
  <1>2. ASSUME NEW h \in Handle, prf_state_reset(h)
        PROVE  TypeOK' /\ \A g \in Handle : Sound(g)'
    <2>1. 1 \in 1..Len(matrix[h])
      BY <1>2 DEF TypeOK, prf_state_reset, Alive, Exists
    <2>2. /\ matrix' \in [Handle -> Seq(Matrix)]
          /\ matrix'[h] = [matrix[h] EXCEPT ![1] = Identity]
          /\ \A g \in Handle \ {h} : matrix'[g] = matrix[g]
      BY <1>2, <2>1, ReplaceMatrix, MatrixAssumption DEF TypeOK, prf_state_reset, Reset
    <2>3. Len(matrix'[h]) = Len(matrix[h])
      BY <2>1, <2>2, ReplaceElement, MatrixAssumption DEF TypeOK
    <2>4. TypeOK'
      BY <1>2, <2>2, MatrixAssumption DEF TypeOK, prf_state_reset, Reset, AnswerNothing
    <2>5. Sound(h)'
      BY <1>2, <2>1, <2>3 DEF TypeOK, prf_state_reset, Reset, Sound, InArray
    <2>6. ASSUME NEW g \in Handle, g # h PROVE Sound(g)'
      BY <1>2, <2>2, <2>6, OthersStay DEF TypeOK, prf_state_reset, Reset
    <2> QED BY <2>4, <2>5, <2>6
  <1>3. ASSUME NEW h \in Handle, prf_state_destroy(h)
        PROVE  TypeOK' /\ \A g \in Handle : Sound(g)'
    <2>1. <<>> \in Seq(Matrix)
      OBVIOUS
    <2>2. TypeOK'
      BY <1>3, <2>1, MatrixAssumption DEF TypeOK, prf_state_destroy, AnswerNothing
    <2>3. Sound(h)'
      BY <1>3 DEF TypeOK, prf_state_destroy, Sound, Exists
    <2>4. ASSUME NEW g \in Handle, g # h PROVE Sound(g)'
      BY <1>3, <2>4, OthersStay DEF TypeOK, prf_state_destroy
    <2> QED BY <2>2, <2>3, <2>4
  <1>4. ASSUME NEW h \in Handle, prf_state_push(h)
        PROVE  TypeOK' /\ \A g \in Handle : Sound(g)'
    <2> DEFINE l == level[h]
               s == matrix[h]
    <2>1. /\ s \in Seq(Matrix) /\ l \in Nat /\ Len(s) \in Nat /\ l < Len(s)
          /\ Current(h) \in Matrix /\ Current(h) = s[l + 1]
      BY <1>4 DEF TypeOK, prf_state_push, InArray, Current
    <2>2. matrix'[h] = IF Len(s) <= l + 1 THEN Append(s, Current(h))
                       ELSE [s EXCEPT ![l + 2] = Current(h)]
      BY <1>4 DEF TypeOK, prf_state_push
    <2>3. /\ matrix'[h] \in Seq(Matrix) /\ l + 1 < Len(matrix'[h])
          /\ matrix'[h][l + 2] = Current(h)
      <3>1. CASE Len(s) <= l + 1
        BY <2>1, <2>2, <3>1
      <3>2. CASE ~(Len(s) <= l + 1)
        <4>1. l + 2 \in 1..Len(s)
          BY <2>1, <3>2
        <4> QED BY <2>1, <2>2, <3>2, <4>1, ReplaceElement
      <3> QED BY <3>1, <3>2
    <2>4. TypeOK'
      <3>1. matrix' \in [Handle -> Seq(Matrix)]
        BY <1>4, <2>2, <2>3 DEF TypeOK, prf_state_push
      <3>2. level' \in [Handle -> Nat]
        BY <1>4 DEF TypeOK, prf_state_push
      <3>3. depth' \in [Handle -> 0..MaxLevel]
        BY <1>4, MatrixAssumption DEF TypeOK, prf_state_push
      <3> QED BY <1>4, <3>1, <3>2, <3>3 DEF TypeOK, prf_state_push, AnswerNothing
    <2>5. Sound(h)'
      <3> SUFFICES ASSUME Exists(h)', h \notin failed'
                   PROVE  /\ level'[h] = depth'[h] /\ InArray(h)'
                          /\ inv_dirty'[h] = "FALSE" => inv_matrix'[h] = Inverted(Current(h)')
        BY DEF Sound
      <3>1. Exists(h) /\ h \notin failed /\ l = depth[h] /\ l < MaxLevel
        BY <1>4 DEF prf_state_push, Alive, Sound
      <3>2. level'[h] = l + 1
        BY <1>4, <2>1, <3>1, MatrixAssumption DEF TypeOK, prf_state_push
      <3>3. Current(h)' = Current(h)
        BY <2>1, <2>3, <3>2 DEF Current
      <3>4. depth'[h] = l + 1 /\ inv_dirty'[h] = inv_dirty[h] /\ inv_matrix'[h] = inv_matrix[h]
        BY <1>4, <3>1 DEF TypeOK, prf_state_push
      <3> QED BY <2>3, <3>1, <3>2, <3>3, <3>4 DEF Sound, InArray
    <2>6. ASSUME NEW g \in Handle, g # h PROVE Sound(g)'
      BY <1>4, <2>6, OthersStay DEF TypeOK, prf_state_push
    <2> QED BY <2>4, <2>5, <2>6
  <1>5. ASSUME NEW h \in Handle, PushFails(h)
        PROVE  TypeOK' /\ \A g \in Handle : Sound(g)'
    <2>1. 1 \in 1..Len(matrix[h])
      BY <1>5 DEF TypeOK, PushFails, Alive, Exists
    <2>2. /\ matrix' \in [Handle -> Seq(Matrix)]
          /\ \A g \in Handle \ {h} : matrix'[g] = matrix[g]
      BY <1>5, <2>1, ReplaceMatrix, MatrixAssumption DEF TypeOK, PushFails, Reset
    <2>3. TypeOK'
      <3>1. depth' \in [Handle -> 0..MaxLevel]
        BY <1>5, MatrixAssumption DEF TypeOK, PushFails
      <3> QED BY <1>5, <2>2, <3>1 DEF TypeOK, PushFails, Reset, AnswerNothing
    <2>4. Sound(h)'
      BY <1>5 DEF PushFails, Sound
    <2>5. ASSUME NEW g \in Handle, g # h PROVE Sound(g)'
      BY <1>5, <2>2, <2>5, OthersStay DEF TypeOK, PushFails, Reset
    <2> QED BY <2>3, <2>4, <2>5
  <1>6. ASSUME NEW h \in Handle, prf_state_pop(h)
        PROVE  TypeOK' /\ \A g \in Handle : Sound(g)'
    <2>1. level[h] \in Nat /\ depth[h] \in Nat /\ depth[h] > 0 /\ matrix' = matrix
      BY <1>6 DEF TypeOK, prf_state_pop
    <2>2. (level[h] - 1) % 65536 \in Nat
      BY <2>1
    <2>3. TypeOK'
      <3>1. depth' \in [Handle -> 0..MaxLevel]
        BY <1>6, MatrixAssumption DEF TypeOK, prf_state_pop
      <3>2. level' \in [Handle -> Nat]
        BY <1>6, <2>2 DEF TypeOK, prf_state_pop
      <3> QED BY <1>6, <3>1, <3>2 DEF TypeOK, prf_state_pop, AnswerNothing
    <2>4. Sound(h)'
      <3> SUFFICES ASSUME Exists(h)', h \notin failed'
                   PROVE  /\ level'[h] = depth'[h] /\ InArray(h)'
                          /\ inv_dirty'[h] = "FALSE" => inv_matrix'[h] = Inverted(Current(h)')
        BY DEF Sound
      <3>1. Exists(h) /\ h \notin failed /\ level[h] = depth[h] /\ level[h] < Len(matrix[h])
        BY <1>6 DEF prf_state_pop, Alive, Sound, InArray
      <3>2. level[h] < 65536
        BY <3>1, MatrixAssumption DEF TypeOK
      <3>3. level'[h] = level[h] - 1 /\ depth'[h] = depth[h] - 1
        <4>1. (level[h] - 1) % 65536 = level[h] - 1
          BY <2>1, <3>1, <3>2
        <4> QED BY <1>6, <4>1 DEF TypeOK, prf_state_pop
      <3>4. ASSUME inv_dirty'[h] = "FALSE" PROVE inv_matrix'[h] = Inverted(Current(h)')
        <4>1. inv_dirty[h] = "FALSE" /\ StaysClean(h)
          BY <1>6, <3>4 DEF TypeOK, prf_state_pop
        <4>2. Current(h)' = matrix[h][level[h]]
          BY <2>1, <3>3 DEF Current
        <4>3. inv_matrix'[h] = Inverted(Current(h))
          BY <1>6, <3>1, <4>1 DEF prf_state_pop, Sound
        <4> QED BY <4>1, <4>2, <4>3 DEF StaysClean
      <3> QED BY <2>1, <3>1, <3>3, <3>4 DEF InArray, TypeOK
    <2>5. ASSUME NEW g \in Handle, g # h PROVE Sound(g)'
      BY <1>6, <2>5, OthersStay DEF TypeOK, prf_state_pop
    <2> QED BY <2>3, <2>4, <2>5
  <1>7. ASSUME NEW h \in Handle, NEW m \in Matrix, prf_state_matrix_mult_right(h, m)
        PROVE  TypeOK' /\ \A g \in Handle : Sound(g)'
    <2> DEFINE i == level[h] + 1
    <2>1. i \in 1..Len(matrix[h]) /\ matrix[h][i] \in Matrix
      BY <1>7 DEF TypeOK, prf_state_matrix_mult_right, InArray
    <2>2. Mult(matrix[h][i], m) \in Matrix
      BY <2>1, MatrixAssumption
    <2>3. matrix' = [matrix EXCEPT ![h][i] = Mult(matrix[h][i], m)]
      BY <1>7 DEF TypeOK, prf_state_matrix_mult_right
    <2>4. /\ matrix' \in [Handle -> Seq(Matrix)]
          /\ matrix'[h] = [matrix[h] EXCEPT ![i] = Mult(matrix[h][i], m)]
          /\ \A g \in Handle \ {h} : matrix'[g] = matrix[g]
      BY <2>1, <2>2, <2>3, ReplaceMatrix DEF TypeOK
    <2>5. Len(matrix'[h]) = Len(matrix[h])
      BY <2>1, <2>2, <2>4, ReplaceElement DEF TypeOK
    <2>6. TypeOK'
      BY <1>7, <2>4 DEF TypeOK, prf_state_matrix_mult_right, AnswerNothing
    <2>7. Sound(h)'
      BY <1>7, <2>5 DEF TypeOK, prf_state_matrix_mult_right, Sound, Alive, InArray
    <2>8. ASSUME NEW g \in Handle, g # h PROVE Sound(g)'
      BY <1>7, <2>4, <2>8, OthersStay DEF TypeOK, prf_state_matrix_mult_right
    <2> QED BY <2>6, <2>7, <2>8
  <1>8. ASSUME NEW h \in Handle, prf_state_get_inverse_matrix(h)
        PROVE  TypeOK' /\ \A g \in Handle : Sound(g)'
    <2>1. Current(h) \in Matrix /\ Inverted(Current(h)) \in Matrix \cup {None}
      BY <1>8, MatrixAssumption DEF TypeOK, prf_state_get_inverse_matrix, InArray, Current
    <2>2. Current(h)' = Current(h) /\ (InArray(h)' <=> InArray(h)) /\ (Exists(h)' <=> Exists(h))
      BY <1>8 DEF prf_state_get_inverse_matrix, Current, InArray, Exists
    <2>3. TypeOK'
      <3>1. inv_matrix' \in [Handle -> Matrix \cup {Junk}]
        BY <1>8, <2>1 DEF TypeOK, prf_state_get_inverse_matrix
      <3>2. inv_dirty' \in [Handle -> {"TRUE", "FALSE"}]
        BY <1>8 DEF TypeOK, prf_state_get_inverse_matrix
      <3>3. answer' \in Matrix \cup {None, Junk}
        BY <1>8, <2>1 DEF TypeOK, prf_state_get_inverse_matrix
      <3> QED BY <1>8, <3>1, <3>2, <3>3 DEF TypeOK, prf_state_get_inverse_matrix
    <2>4. Sound(h)'
      BY <1>8, <2>1, <2>2 DEF TypeOK, prf_state_get_inverse_matrix, Sound
    <2>5. ASSUME NEW g \in Handle, g # h PROVE Sound(g)'
      BY <1>8, <2>5, OthersStay DEF TypeOK, prf_state_get_inverse_matrix
    <2> QED BY <2>3, <2>4, <2>5
  <1>9. ASSUME NEW g \in Handle, NEW h \in Handle, NEW old \in Seq(Matrix), g # h,
               InArray(g), Exists(g),
               matrix' = [matrix EXCEPT ![h] = Overlay(g, old)], CopyRest(g, h)
        PROVE  TypeOK' /\ \A k \in Handle : Sound(k)'
    <2>1. /\ Overlay(g, old) \in Seq(Matrix)
          /\ level[g] < Len(Overlay(g, old))
          /\ Overlay(g, old)[level[g] + 1] = Current(g)
      BY <1>9, OverlayFacts
    <2>2. matrix'[h] = Overlay(g, old)
      BY <1>9 DEF TypeOK
    <2>3. TypeOK'
      BY <1>9, <2>1 DEF TypeOK, CopyRest, AnswerNothing
    <2>4. Sound(h)'
      <3>1. level'[h] = level[g] /\ depth'[h] = depth[g] /\ inv_dirty'[h] = inv_dirty[g]
        BY <1>9 DEF TypeOK, CopyRest
      <3>2. InArray(h)' /\ Current(h)' = Current(g)
        BY <2>1, <2>2, <3>1 DEF InArray, Current
      <3>3. inv_dirty[g] = "FALSE" => inv_matrix'[h] = inv_matrix[g]
        BY <1>9 DEF TypeOK, CopyRest
      <3>4. h \notin failed' => g \notin failed
        BY <1>9 DEF CopyRest
      <3> QED BY <1>9, <3>1, <3>2, <3>3, <3>4 DEF Sound
    <2>5. ASSUME NEW k \in Handle, k # h PROVE Sound(k)'
      BY <1>9, <2>5, OthersStay DEF TypeOK, CopyRest
    <2> QED BY <2>3, <2>4, <2>5
  <1>10. ASSUME NEW g \in Handle, NEW h \in Handle, prf_state_clone(g, h)
         PROVE  TypeOK' /\ \A k \in Handle : Sound(k)'
    <2>1. <<Identity>> \in Seq(Matrix)
      BY MatrixAssumption
    <2> QED BY <1>9, <1>10, <2>1 DEF prf_state_clone, Alive
  <1>11. ASSUME NEW g \in Handle, NEW h \in Handle, prf_state_copy(g, h)
         PROVE  TypeOK' /\ \A k \in Handle : Sound(k)'
    <2>1. matrix[h] \in Seq(Matrix)
      BY DEF TypeOK
    <2>2. matrix' = [matrix EXCEPT ![h] = Overlay(g, matrix[h])]
      BY <1>11 DEF prf_state_copy, TypeOK
    <2> QED BY <1>9, <1>11, <2>1, <2>2 DEF prf_state_copy, Alive
  <1>12. ASSUME NEW g \in Handle, NEW h \in Handle, CopyFails(g, h)
         PROVE  TypeOK' /\ \A k \in Handle : Sound(k)'
    <2>1. matrix[g] \in Seq(Matrix) /\ matrix[h] \in Seq(Matrix)
      BY DEF TypeOK
    <2>2. PICK n \in Len(matrix[h])..level[g] :
            matrix' = [matrix EXCEPT ![h] = SubSeq(matrix[g], 1, n)]
      BY <1>12 DEF CopyFails
    <2>3. n \in Nat /\ n <= Len(matrix[g])
      BY <1>12, <2>1 DEF TypeOK, CopyFails, InArray
    <2>4. SubSeq(matrix[g], 1, n) \in Seq(Matrix)
      BY <2>1, <2>3
    <2>5. TypeOK'
      BY <1>12, <2>2, <2>4 DEF TypeOK, CopyFails, AnswerNothing
    <2>6. Sound(h)'
      BY <1>12 DEF CopyFails, Sound
    <2>7. ASSUME NEW k \in Handle, k # h PROVE Sound(k)'
      BY <1>12, <2>2, <2>7, OthersStay DEF TypeOK, CopyFails
    <2> QED BY <2>5, <2>6, <2>7
  <1>13. ASSUME NEW h \in Handle, Stray(h)
         PROVE  TypeOK' /\ \A g \in Handle : Sound(g)'
    <2>1. TypeOK'
      BY <1>13 DEF TypeOK, Stray, AnswerNothing
    <2> QED BY <1>13, <2>1, OthersStay DEF Stray
  <1>14. CASE UNCHANGED vars
    <2>1. TypeOK'
      BY <1>14 DEF TypeOK, vars
    <2> QED BY <1>14, <2>1, OthersStay DEF vars
  <1> QED
    BY <1>1, <1>2, <1>3, <1>4, <1>5, <1>6, <1>7, <1>8, <1>10, <1>11, <1>12, <1>13, <1>14 DEF Next

\* The invariant holds in every reachable state.
THEOREM Invariance == Spec => []IInv
  <1>1. Init => IInv
    BY InitIInv
  <1>2. IInv /\ [Next]_vars => IInv'
    BY NextIInv
  <1> QED BY <1>1, <1>2, PTL DEF Spec

\* The variables of a state keep their types.
THEOREM TypeCorrect == Spec => []TypeOK
  <1>1. IInv => TypeOK
    BY DEF IInv
  <1> QED BY <1>1, Invariance, PTL

\* prf_state_push and prf_state_pop: state_push_level is what the client has
\* still to pop, and the current matrix exists.
THEOREM LevelStaysInStep == Spec => []LevelInStep
  <1>1. IInv => LevelInStep
    BY DEF IInv
  <1> QED BY <1>1, Invariance, PTL

\* prf_state_get_inverse_matrix: a cache that is not dirty is the inverse of
\* the current matrix.
THEOREM CacheIsNeverStale == Spec => []CleanInverse
  <1>1. IInv => CleanInverse
    BY DEF IInv
  <1> QED BY <1>1, Invariance, PTL
-----------------------------------------------------------------------------
(* The state is a stack of scopes. *)

\* A prefix of a sequence.
LEMMA PrefixFacts ==
  ASSUME NEW S, NEW s \in Seq(S), NEW n \in Nat, n <= Len(s)
  PROVE  /\ SubSeq(s, 1, n) \in Seq(S)
         /\ Len(SubSeq(s, 1, n)) = n
         /\ \A i \in 1..n : SubSeq(s, 1, n)[i] = s[i]
  OBVIOUS

\* Sequences with the same elements are the same.
LEMMA SameElements ==
  ASSUME NEW S, NEW s \in Seq(S), NEW t \in Seq(S), Len(s) = Len(t),
         \A i \in 1..Len(s) : s[i] = t[i]
  PROVE  s = t
  OBVIOUS

\* The first element alone.
LEMMA FirstElement ==
  ASSUME NEW S, NEW s \in Seq(S), 1 <= Len(s)
  PROVE  SubSeq(s, 1, 0 + 1) = <<s[1]>>
  <1>1. s[1] \in S
    OBVIOUS
  <1>2. <<s[1]>> \in Seq(S) /\ Len(<<s[1]>>) = 1 /\ <<s[1]>>[1] = s[1]
    BY <1>1
  <1>3. /\ SubSeq(s, 1, 1) \in Seq(S) /\ Len(SubSeq(s, 1, 1)) = 1
        /\ \A i \in 1..1 : SubSeq(s, 1, 1)[i] = s[i]
    BY PrefixFacts
  <1>4. \A i \in 1..1 : SubSeq(s, 1, 1)[i] = <<s[1]>>[i]
    BY <1>2, <1>3
  <1>5. SubSeq(s, 1, 1) = <<s[1]>>
    BY <1>2, <1>3, <1>4, SameElements
  <1> QED BY <1>5

\* No allocation fails when none may.
Healthy == IInv /\ failed = {}
LEMMA HealthyStays ==
  ASSUME MayFail = FALSE
  PROVE  Healthy /\ [Next]_vars => Healthy'
  <1> SUFFICES ASSUME Healthy, [Next]_vars PROVE Healthy'
    OBVIOUS
  <1>1. IInv'
    BY NextIInv DEF Healthy
  <1>2. failed' = {}
    BY DEF Healthy, Next, vars, prf_state_create, prf_state_reset, prf_state_destroy, prf_state_push,
           PushFails, prf_state_pop, prf_state_matrix_mult_right, prf_state_get_inverse_matrix,
           prf_state_clone, prf_state_copy, CopyRest, CopyFails, Stray
  <1> QED BY <1>1, <1>2 DEF Healthy

\* The scopes of a state that exists.
LEMMA ScopeFacts ==
  ASSUME Healthy, NEW h \in Handle, Exists(h)
  PROVE  /\ level[h] \in Nat /\ matrix[h] \in Seq(Matrix) /\ level[h] + 1 <= Len(matrix[h])
         /\ level[h] = depth[h]
         /\ Scope(h) \in Seq(Matrix)
         /\ Len(Scope(h)) = level[h] + 1
         /\ \A i \in 1..(level[h] + 1) : Scope(h)[i] = matrix[h][i]
         /\ Scope(h) # <<>>
         /\ Scope(h)[Len(Scope(h))] = Current(h)
  <1>1. level[h] \in Nat /\ matrix[h] \in Seq(Matrix) /\ level[h] < Len(matrix[h]) /\ level[h] = depth[h]
    BY DEF Healthy, IInv, TypeOK, LevelInStep, InArray
  <1>2. level[h] + 1 \in Nat /\ level[h] + 1 <= Len(matrix[h])
    BY <1>1
  <1>3. /\ Scope(h) \in Seq(Matrix) /\ Len(Scope(h)) = level[h] + 1
        /\ \A i \in 1..(level[h] + 1) : Scope(h)[i] = matrix[h][i]
    BY <1>1, <1>2, PrefixFacts DEF Scope
  <1> QED BY <1>1, <1>2, <1>3 DEF Current

\* A step that touches the matrices of one state.
LEMMA OneScope ==
  ASSUME TypeOK, NEW h \in Handle,
         \A g \in Handle \ {h} : matrix'[g] = matrix[g] /\ level'[g] = level[g]
  PROVE  Scopes' = [Scopes EXCEPT ![h] = Scope(h)']
  <1>1. ASSUME NEW g \in Handle \ {h} PROVE Scope(g)' = Scope(g)
    BY DEF Scope, Exists
  <1> QED BY <1>1 DEF Scopes

\* Without failures every step is a step of the abstract stack.
LEMMA StepIsAbstract ==
  ASSUME Healthy, Healthy', Next
  PROVE  Stack!Next
  <1> USE DEF Stack!Becomes, Stack!Exists, Stack!Inner
  <1>a. TypeOK /\ \A h \in Handle : Scopes[h] = Scope(h)
    BY DEF Healthy, IInv, Scopes
  <1>b. \A h \in Handle : Scopes'[h] = Scope(h)'
    BY DEF Scopes
  <1>0. \A h \in Handle : Exists(h) <=> Scopes[h] # <<>>
    BY <1>a, ScopeFacts DEF Scope
  <1>1. ASSUME NEW h \in Handle, prf_state_create(h) PROVE Stack!Create(h)
    <2>1. Scope(h)' = <<Identity>>
      <3>1. matrix'[h] = <<Identity>> /\ level'[h] = 0
        BY <1>1, <1>a DEF prf_state_create, TypeOK
      <3>2. SubSeq(<<Identity>>, 1, 0 + 1) = <<Identity>>
        <4>1. <<Identity>> \in Seq(Matrix) /\ 1 <= Len(<<Identity>>) /\ <<Identity>>[1] = Identity
          BY MatrixAssumption
        <4> QED BY <4>1, FirstElement
      <3> QED BY <3>1, <3>2 DEF Scope, Exists
    <2>2. Scopes' = [Scopes EXCEPT ![h] = <<Identity>>]
      BY <1>1, <1>a, <2>1, OneScope DEF prf_state_create, TypeOK
    <2> QED BY <1>0, <1>1, <2>2 DEF Stack!Create, prf_state_create, AnswerNothing
  <1>2. ASSUME NEW h \in Handle, prf_state_reset(h) PROVE Stack!Restart(h)
    <2>1. 1 \in 1..Len(matrix[h])
      BY <1>2, <1>a DEF TypeOK, prf_state_reset, Alive, Exists
    <2>2. /\ matrix'[h] = [matrix[h] EXCEPT ![1] = Identity]
          /\ \A g \in Handle \ {h} : matrix'[g] = matrix[g]
      BY <1>2, <1>a, <2>1, ReplaceMatrix, MatrixAssumption DEF TypeOK, prf_state_reset, Reset
    <2>3. Scope(h)' = <<Identity>>
      <3>1. /\ matrix'[h] \in Seq(Matrix) /\ 1 <= Len(matrix'[h]) /\ matrix'[h][1] = Identity
            /\ level'[h] = 0
        BY <1>2, <1>a, <2>1, <2>2, ReplaceElement, MatrixAssumption DEF TypeOK, prf_state_reset, Reset
      <3>2. SubSeq(matrix'[h], 1, 0 + 1) = <<Identity>>
        BY <3>1, FirstElement
      <3>3. Exists(h)'
        BY <3>1 DEF Exists
      <3> QED BY <3>1, <3>2, <3>3 DEF Scope
    <2>4. Scopes' = [Scopes EXCEPT ![h] = <<Identity>>]
      BY <1>2, <1>a, <2>2, <2>3, OneScope DEF prf_state_reset, Reset, TypeOK
    <2> QED BY <1>0, <1>2, <2>4 DEF Stack!Restart, prf_state_reset, Alive, AnswerNothing
  <1>3. ASSUME NEW h \in Handle, prf_state_destroy(h) PROVE Stack!Destroy(h)
    <2>1. Scope(h)' = <<>>
      BY <1>3, <1>a DEF prf_state_destroy, TypeOK, Scope, Exists
    <2>2. Scopes' = [Scopes EXCEPT ![h] = <<>>]
      BY <1>3, <1>a, <2>1, OneScope DEF prf_state_destroy, TypeOK
    <2> QED BY <1>0, <1>3, <2>2 DEF Stack!Destroy, prf_state_destroy, Alive, AnswerNothing
  <1>4. ASSUME NEW h \in Handle, prf_state_push(h) PROVE Stack!Push(h)
    <2> DEFINE l == level[h]
               s == matrix[h]
    <2>0. Exists(h)
      BY <1>4 DEF prf_state_push, Alive
    <2>1. /\ l \in Nat /\ s \in Seq(Matrix) /\ l + 1 <= Len(s) /\ l = depth[h]
          /\ Scope(h) \in Seq(Matrix) /\ Len(Scope(h)) = l + 1
          /\ \A i \in 1..(l + 1) : Scope(h)[i] = s[i]
          /\ Scope(h)[Len(Scope(h))] = Current(h)
          /\ Current(h) \in Matrix
      <3>1. Current(h) \in Matrix
        BY <2>0, ScopeFacts DEF Current
      <3> QED BY <2>0, <3>1, ScopeFacts
    <2>2. level'[h] = l + 1
      BY <1>4, <1>a, <2>1, MatrixAssumption DEF prf_state_push, TypeOK
    <2>3. /\ matrix'[h] \in Seq(Matrix) /\ l + 2 <= Len(matrix'[h])
          /\ \A i \in 1..(l + 1) : matrix'[h][i] = s[i]
          /\ matrix'[h][l + 2] = Current(h)
      <3>1. matrix'[h] = IF Len(s) <= l + 1 THEN Append(s, Current(h))
                         ELSE [s EXCEPT ![l + 2] = Current(h)]
        BY <1>4, <1>a DEF TypeOK, prf_state_push
      <3>2. CASE Len(s) <= l + 1
        BY <2>1, <3>1, <3>2
      <3>3. CASE ~(Len(s) <= l + 1)
        <4>1. l + 2 \in 1..Len(s)
          BY <2>1, <3>3
        <4>2. \A i \in 1..(l + 1) : [s EXCEPT ![l + 2] = Current(h)][i] = s[i]
          BY <2>1, <3>3
        <4> QED BY <2>1, <3>1, <3>3, <4>1, <4>2, ReplaceElement
      <3> QED BY <3>2, <3>3
    <2>4. Exists(h)'
      BY <2>1, <2>3 DEF Exists
    <2>5. /\ Scope(h)' \in Seq(Matrix) /\ Len(Scope(h)') = l + 2
          /\ \A i \in 1..(l + 2) : Scope(h)'[i] = matrix'[h][i]
      <3>1. l + 2 \in Nat /\ (l + 1) + 1 = l + 2
        BY <2>1
      <3> QED BY <2>2, <2>3, <2>4, <3>1, PrefixFacts DEF Scope
    <2>6. Scope(h)' = Append(Scope(h), Current(h))
      <3> DEFINE t == Append(Scope(h), Current(h))
      <3>1. t \in Seq(Matrix) /\ Len(t) = l + 2
        BY <2>1
      <3>2. \A i \in 1..(l + 2) : Scope(h)'[i] = t[i]
        BY <2>1, <2>3, <2>5
      <3> HIDE DEF t
      <3>3. Scope(h)' = t
        BY <2>5, <3>1, <3>2, SameElements
      <3> QED BY <3>3 DEF t
    <2>7. Scopes' = [Scopes EXCEPT ![h] = Append(Scope(h), Current(h))]
      BY <1>4, <1>a, <2>6, OneScope DEF prf_state_push, TypeOK
    <2>8. Scopes[h] = Scope(h) /\ Scopes[h] # <<>> /\ Scopes[h][Len(Scopes[h])] = Current(h)
      BY <1>0, <1>a, <2>0, <2>1
    <2>9. answer' = None
      BY <1>4 DEF prf_state_push, AnswerNothing
    <2> QED BY <2>7, <2>8, <2>9 DEF Stack!Push
  <1>5. ASSUME NEW h \in Handle, prf_state_pop(h) PROVE Stack!Pop(h)
    <2> DEFINE l == level[h]
               s == matrix[h]
    <2>0. Exists(h)
      BY <1>5 DEF prf_state_pop, Alive
    <2>1. /\ l \in Nat /\ s \in Seq(Matrix) /\ l + 1 <= Len(s) /\ l = depth[h]
          /\ Scope(h) \in Seq(Matrix) /\ Len(Scope(h)) = l + 1
          /\ \A i \in 1..(l + 1) : Scope(h)[i] = s[i]
      BY <2>0, ScopeFacts
    <2>2. l > 0 /\ level'[h] = l - 1 /\ matrix' = matrix
      <3>1. l > 0 /\ l < 65536
        BY <1>5, <1>a, <2>1, MatrixAssumption DEF prf_state_pop, TypeOK
      <3>2. (l - 1) % 65536 = l - 1
        BY SMTT(30), <2>1, <3>1
      <3> QED BY <1>5, <1>a, <3>1, <3>2 DEF prf_state_pop, TypeOK
    <2>3. Exists(h)' /\ Scope(h)' = SubSeq(s, 1, l)
      <3>1. (l - 1) + 1 = l
        BY <2>1
      <3> QED BY <2>0, <2>2, <3>1 DEF Scope, Exists
    <2>4. SubSeq(s, 1, l) \in Seq(Matrix) /\ Len(SubSeq(s, 1, l)) = l /\ \A i \in 1..l : SubSeq(s, 1, l)[i] = s[i]
      BY <2>1, PrefixFacts
    <2>5. /\ SubSeq(Scope(h), 1, l) \in Seq(Matrix) /\ Len(SubSeq(Scope(h), 1, l)) = l
          /\ \A i \in 1..l : SubSeq(Scope(h), 1, l)[i] = Scope(h)[i]
      BY <2>1, PrefixFacts
    <2>6. \A i \in 1..l : SubSeq(s, 1, l)[i] = SubSeq(Scope(h), 1, l)[i]
      BY <2>1, <2>4, <2>5
    <2>7. SubSeq(s, 1, l) = SubSeq(Scope(h), 1, l)
      BY <2>4, <2>5, <2>6, SameElements
    <2>8. Scopes' = [Scopes EXCEPT ![h] = SubSeq(Scope(h), 1, l)]
      BY <1>5, <1>a, <2>2, <2>3, <2>7, OneScope DEF prf_state_pop, TypeOK
    <2>9. Scopes[h] = Scope(h) /\ Len(Scopes[h]) - 1 = l /\ Len(Scopes[h]) > 1
      BY <1>a, <2>1, <2>2
    <2>10. answer' = None
      BY <1>5 DEF prf_state_pop, AnswerNothing
    <2> QED BY <2>8, <2>9, <2>10 DEF Stack!Pop
  <1>6. ASSUME NEW h \in Handle, NEW m \in Matrix, prf_state_matrix_mult_right(h, m)
        PROVE  Stack!Multiply(h, m)
    <2> DEFINE i == level[h] + 1
               x == Mult(matrix[h][i], m)
               t == [Scope(h) EXCEPT ![i] = x]
    <2>0. Exists(h)
      BY <1>6 DEF prf_state_matrix_mult_right, Alive
    <2>1. /\ i \in Nat /\ i \in 1..Len(matrix[h]) /\ matrix[h] \in Seq(Matrix) /\ matrix[h][i] \in Matrix
          /\ Scope(h) \in Seq(Matrix) /\ Len(Scope(h)) = i /\ i \in 1..Len(Scope(h))
          /\ \A k \in 1..i : Scope(h)[k] = matrix[h][k]
      <3>1. /\ level[h] \in Nat /\ matrix[h] \in Seq(Matrix) /\ i <= Len(matrix[h])
            /\ Scope(h) \in Seq(Matrix) /\ Len(Scope(h)) = i
            /\ \A k \in 1..i : Scope(h)[k] = matrix[h][k]
        BY <2>0, ScopeFacts
      <3>2. Len(matrix[h]) \in Nat
        BY <3>1, LenProperties
      <3>3. i \in Nat /\ i \in 1..Len(matrix[h]) /\ i \in 1..Len(Scope(h))
        BY ONLY <3>1, <3>2
      <3>4. matrix[h][i] \in Matrix
        BY ONLY <3>1, <3>3, ElementOfSeq
      <3> QED
        BY <3>1, <3>3, <3>4
    <2>2. x \in Matrix
      BY <2>1, MatrixAssumption
    <2>3. matrix' = [matrix EXCEPT ![h][i] = x] /\ level' = level
      BY <1>6, <1>a DEF TypeOK, prf_state_matrix_mult_right
    <2> HIDE DEF x
    <2>4. /\ matrix'[h] = [matrix[h] EXCEPT ![i] = x]
          /\ \A g \in Handle \ {h} : matrix'[g] = matrix[g]
      BY <1>a, <2>1, <2>2, <2>3, ReplaceMatrix DEF TypeOK
    <2>5. matrix'[h] \in Seq(Matrix) /\ Len(matrix'[h]) = Len(matrix[h])
      BY <2>1, <2>2, <2>4, ReplaceElement
    <2>6. Exists(h)' /\ Scope(h)' = SubSeq(matrix'[h], 1, i)
      BY <2>1, <2>3, <2>5 DEF Exists, Scope
    <2>7. /\ Scope(h)' \in Seq(Matrix) /\ Len(Scope(h)') = i
          /\ \A k \in 1..i : Scope(h)'[k] = matrix'[h][k]
      BY <2>1, <2>5, <2>6, PrefixFacts
    <2>8. t \in Seq(Matrix) /\ Len(t) = i
      BY <2>1, <2>2, ReplaceElement
    <2>9. \A k \in 1..i : Scope(h)'[k] = t[k]
      BY <2>1, <2>4, <2>7
    <2>10. Scope(h)' = t
      BY <2>7, <2>8, <2>9, SameElements
    <2>11. Scopes' = [Scopes EXCEPT ![h] = t]
      BY <1>a, <2>3, <2>4, <2>10, OneScope
    <2>12. Scopes[h] = Scope(h) /\ Len(Scopes[h]) = i /\ Scopes[h] # <<>> /\ Scopes[h][i] = matrix[h][i]
      BY <1>0, <1>a, <2>0, <2>1
    <2>13. answer' = None
      BY <1>6 DEF prf_state_matrix_mult_right, AnswerNothing
    <2> QED BY <2>11, <2>12, <2>13 DEF Stack!Multiply, x
  <1>7. ASSUME NEW h \in Handle, prf_state_get_inverse_matrix(h) PROVE Stack!AskInverse(h)
    <2>1. Exists(h) /\ matrix' = matrix /\ level' = level
      BY <1>7 DEF prf_state_get_inverse_matrix, Alive
    <2>2. Scopes' = Scopes
      BY <2>1 DEF Scopes, Scope, Exists
    <2>3. inv_dirty[h] = "FALSE" => inv_matrix[h] = Inverted(Current(h))
      BY <2>1 DEF Healthy, IInv, CleanInverse
    <2>4. answer' = Inverted(Current(h))
      BY <1>7, <2>3 DEF prf_state_get_inverse_matrix
    <2>5. Scopes[h] # <<>> /\ Scopes[h][Len(Scopes[h])] = Current(h)
      BY <1>0, <1>a, <2>1, ScopeFacts
    <2> QED BY <2>2, <2>4, <2>5 DEF Stack!AskInverse
  <1>8. ASSUME NEW g \in Handle, NEW h \in Handle, NEW old \in Seq(Matrix), g # h, Exists(g),
               matrix' = [matrix EXCEPT ![h] = Overlay(g, old)], CopyRest(g, h)
        PROVE  Stack!Duplicate(g, h)
    <2> DEFINE n == level[g] + 1
               t == Overlay(g, old)
    <2>1. /\ n \in Nat /\ InArray(g) /\ Scope(g) \in Seq(Matrix) /\ Len(Scope(g)) = n
          /\ level[g] \in Nat
          /\ \A k \in 1..n : Scope(g)[k] = matrix[g][k]
      BY <1>8, ScopeFacts DEF InArray
    <2>2. t \in Seq(Matrix) /\ n <= Len(t)
      BY <1>a, <1>8, <2>1, OverlayFacts
    <2>3. \A k \in 1..n : t[k] = matrix[g][k]
      BY <1>8, <2>1 DEF Overlay
    <2> HIDE DEF t
    <2>4. matrix'[h] = t /\ level'[h] = level[g]
      BY <1>8, <1>a DEF TypeOK, CopyRest, t
    <2>5. Exists(h)' /\ Scope(h)' = SubSeq(t, 1, n)
      BY <2>1, <2>2, <2>4 DEF Exists, Scope
    <2>6. /\ Scope(h)' \in Seq(Matrix) /\ Len(Scope(h)') = n
          /\ \A k \in 1..n : Scope(h)'[k] = t[k]
      BY <2>1, <2>2, <2>5, PrefixFacts
    <2>7. \A k \in 1..n : Scope(h)'[k] = Scope(g)[k]
      BY <2>1, <2>3, <2>6
    <2>8. Scope(h)' = Scope(g)
      BY <2>1, <2>6, <2>7, SameElements
    <2>9. Scopes' = [Scopes EXCEPT ![h] = Scope(g)]
      BY <1>8, <1>a, <2>8, OneScope DEF TypeOK, CopyRest
    <2>10. Scopes[g] = Scope(g) /\ Scopes[g] # <<>>
      BY <1>0, <1>a, <1>8
    <2>11. answer' = None
      BY <1>8 DEF CopyRest, AnswerNothing
    <2> QED BY <2>9, <2>10, <2>11 DEF Stack!Duplicate
  <1>9. ASSUME NEW g \in Handle, NEW h \in Handle, prf_state_clone(g, h) PROVE Stack!Duplicate(g, h)
    <2>1. <<Identity>> \in Seq(Matrix)
      BY MatrixAssumption
    <2> QED BY <1>8, <1>9, <2>1 DEF prf_state_clone, Alive
  <1>10. ASSUME NEW g \in Handle, NEW h \in Handle, prf_state_copy(g, h) PROVE Stack!Duplicate(g, h)
    <2>1. matrix[h] \in Seq(Matrix)
      BY <1>a DEF TypeOK
    <2>2. matrix' = [matrix EXCEPT ![h] = Overlay(g, matrix[h])]
      BY <1>10, <1>a DEF prf_state_copy, TypeOK
    <2> QED BY <1>8, <1>10, <2>1, <2>2 DEF prf_state_copy, Alive
  <1>11. \A g, h \in Handle : ~PushFails(h) /\ ~CopyFails(g, h)
    BY DEF PushFails, CopyFails, Healthy
  <1>12. \A h \in Handle : ~Stray(h)
    BY DEF Healthy, IInv, LevelInStep, Stray, Alive
  <1> QED
    BY <1>1, <1>2, <1>3, <1>4, <1>5, <1>6, <1>7, <1>9, <1>10, <1>11, <1>12 DEF Next, Stack!Next

\* Whatever fails, the steps between states without a failed allocation are steps
\* of the abstract stack.
THEOREM StackBetweenFailures == Spec => StackUntilFailure
  <1>1. Init => Stack!Init
    BY DEF Init, Stack!Init, Scopes, Scope, Exists
  <1>2. IInv /\ IInv' /\ [Next]_vars => [(failed = {} /\ failed' = {}) => Stack!Next]_vars
    BY StepIsAbstract DEF Healthy
  <1> QED BY <1>1, <1>2, Invariance, PTL DEF Spec, StackUntilFailure

\* A state without failing allocations implements the abstract stack of
\* scopes: every answer of prf_state_get_inverse_matrix is the inverse of what
\* the open scopes multiply to, whatever was pushed, popped, cloned or copied.
THEOREM StateIsAStack ==
  ASSUME MayFail = FALSE
  PROVE  Spec => StackSpec
  <1>1. Init => Healthy
    BY InitIInv DEF Healthy, Init
  <1>2. Healthy /\ [Next]_vars => Healthy'
    BY HealthyStays
  <1>3. Init => Stack!Init
    BY DEF Init, Stack!Init, Scopes, Scope, Exists
  <1>4. Healthy /\ Healthy' /\ [Next]_vars => [Stack!Next]_<<Scopes, answer>>
    <2>1. CASE UNCHANGED vars
      BY <2>1 DEF vars, Scopes, Scope, Exists
    <2>2. ASSUME Healthy, Healthy', Next PROVE Stack!Next
      BY <2>2, StepIsAbstract
    <2> QED BY <2>1, <2>2
  <1> QED BY <1>1, <1>2, <1>3, <1>4, PTL DEF Spec, StackSpec, Stack!Spec

-----------------------------------------------------------------------------
(* The vertex palette.

   Offsets are sums of the lengths before them (Sums), which only rise, so one record at
   most starts at an offset (AtIs).  An offset names a vertex (Named) when the vertex
   starts there in the palette, or in a block, past the palette and the blocks before.
   PInv asks that of every offset in a list and of every one handed out; a lookup then
   finds the vertex (LookupIs), and each operation leaves it named: records that are
   appended move nothing (Appended, AddedIs), saving and cloning join the blocks to the
   palette where their offsets say they are (JoinedIs, StoredIs), and the compaction
   moves a kept record by the bytes dropped before it (CompactPacks, CompactMoves). *)

\* Every non-empty set of naturals has a least element.
LEMMA LeastExists ==
  ASSUME NEW S, S \subseteq Nat, S # {}
  PROVE  \E x \in S : \A y \in S : x <= y
<1>1. PICK n \in S : TRUE
  OBVIOUS
<1> DEFINE U == 0..n
           T == {0..k : k \in {s \in S : s <= n}}
<1>2. IsFiniteSet(U)
  BY FS_Interval
<1>3. IsWellFoundedOn(StrictSubsetOrdering(U), FiniteSubsetsOf(U))
  BY FS_StrictSubsetOrderingWellFounded
<1>4. T \subseteq FiniteSubsetsOf(U) /\ T # {}
  <2>1. ASSUME NEW k \in S, k <= n PROVE 0..k \in FiniteSubsetsOf(U)
    BY <2>1, FS_Interval DEF FiniteSubsetsOf
  <2> QED
    BY <2>1
<1> HIDE DEF T, U
<1>5. PICK x \in T : \A y \in T : ~(<<y, x>> \in StrictSubsetOrdering(U))
  BY <1>3, <1>4, WFMin
<1>6. PICK k \in S : k <= n /\ x = 0..k
  BY <1>5 DEF T
<1>7. ASSUME NEW y \in S PROVE k <= y
  <2>1. SUFFICES ASSUME y < k PROVE FALSE
    BY <1>6
  <2>2. 0..y \in T
    BY <1>6, <2>1 DEF T
  <2>3. 0..y \subseteq 0..k /\ 0..y # 0..k /\ 0..y \in SUBSET U /\ 0..k \in SUBSET U
    BY <1>6, <2>1 DEF U
  <2>4. <<0..y, x>> \in StrictSubsetOrdering(U)
    BY <1>6, <2>3 DEF StrictSubsetOrdering
  <2> QED
    BY <1>5, <2>2, <2>4
<1> QED
  BY <1>7

\* Induction up to n: a set with 0 and every next number holds them all.
LEMMA Climb ==
  ASSUME NEW n \in Nat, NEW S, 0 \in S, \A k \in 0..n : (k \in S /\ k < n) => k + 1 \in S
  PROVE  \A k \in 0..n : k \in S
<1> DEFINE Bad == {k \in 0..n : k \notin S}
<1>1. SUFFICES ASSUME Bad # {} PROVE FALSE
  OBVIOUS
<1>2. PICK k \in Bad : \A y \in Bad : k <= y
  <2>1. Bad \subseteq Nat
    OBVIOUS
  <2> HIDE DEF Bad
  <2> QED
    BY <1>1, <2>1, LeastExists
<1>3. k \in 0..n /\ k # 0 /\ k \notin S
  OBVIOUS
<1>4. k - 1 \in 0..n /\ k - 1 < n /\ (k - 1) + 1 = k /\ ~(k <= k - 1)
  BY <1>3
<1>5. k - 1 \in S
  BY <1>2, <1>4
<1> QED
  BY <1>3, <1>4, <1>5

-----------------------------------------------------------------------------
(* Sums *)

SumsUpTo(f, w, n) == f = [k \in 0..n |-> IF k = 0 THEN 0 ELSE f[k - 1] + w[k]]

\* The next sum.
LEMMA SumsNext ==
  ASSUME NEW w, NEW n \in Nat, NEW g, SumsUpTo(g, w, n)
  PROVE  \E f : SumsUpTo(f, w, n + 1)
<1> DEFINE f == [k \in 0..(n + 1) |-> IF k = n + 1 THEN g[n] + w[k] ELSE g[k]]
<1>1. \A k \in 0..n : f[k] = g[k]
  OBVIOUS
<1>2. \A k \in 0..n : g[k] = IF k = 0 THEN 0 ELSE g[k - 1] + w[k]
  BY DEF SumsUpTo
<1>3. ASSUME NEW k \in 0..(n + 1) PROVE f[k] = IF k = 0 THEN 0 ELSE f[k - 1] + w[k]
  <2>1. CASE k = n + 1
    <3>1. n \in 0..n /\ k - 1 = n /\ k # 0
      BY <2>1
    <3>2. f[k - 1] = g[n]
      BY <1>1, <3>1
    <3>3. f[k] = g[n] + w[k]
      BY <2>1
    <3> HIDE DEF f
    <3> QED
      BY <3>1, <3>2, <3>3
  <2>2. CASE k # n + 1
    <3>1. k \in 0..n /\ (k # 0 => k - 1 \in 0..n)
      BY <2>2
    <3> HIDE DEF f
    <3> QED
      BY <1>1, <1>2, <3>1
  <2> QED
    BY <2>1, <2>2
<1>4. f = [k \in 0..(n + 1) |-> f[k]]
  OBVIOUS
<1> HIDE DEF f
<1>5. SumsUpTo(f, w, n + 1)
  BY <1>3, <1>4 DEF SumsUpTo
<1> QED
  BY <1>5

\* The sums of a sequence are what their recursion says.
LEMMA SumsAre ==
  ASSUME NEW w, Len(w) \in Nat
  PROVE  /\ Sums(w)[0] = 0
         /\ \A n \in 1..Len(w) : Sums(w)[n] = Sums(w)[n - 1] + w[n]
<1> PICK N : N = Len(w)
  OBVIOUS
<1> DEFINE S == {n \in 0..N : \E f : SumsUpTo(f, w, n)}
<1>1. 0 \in S
  <2>1. SumsUpTo([k \in 0..0 |-> 0], w, 0)
    BY DEF SumsUpTo
  <2> QED
    BY <2>1
<1>2. \A k \in 0..N : (k \in S /\ k < N) => k + 1 \in S
  <2> SUFFICES ASSUME NEW k \in 0..N, k \in S, k < N PROVE k + 1 \in S
    OBVIOUS
  <2>1. PICK g : SumsUpTo(g, w, k)
    OBVIOUS
  <2>2. \E f : SumsUpTo(f, w, k + 1)
    BY <2>1, SumsNext
  <2> QED
    BY <2>2
<1>3. N \in S
  <2>1. N \in Nat /\ N \in 0..N
    OBVIOUS
  <2> HIDE DEF S
  <2> QED
    BY <1>1, <1>2, <2>1, Climb
<1>4. PICK f : SumsUpTo(f, w, N)
  BY <1>3
<1>5. SumsUpTo(Sums(w), w, N)
  BY <1>4, Zenon DEF Sums, SumsUpTo
<1> PICK g : g = Sums(w)
  OBVIOUS
<1>6. g = [k \in 0..N |-> IF k = 0 THEN 0 ELSE g[k - 1] + w[k]]
  BY <1>5 DEF SumsUpTo
<1> QED
  BY <1>6

\* Sums of naturals are naturals, and rise.
LEMMA SumsRise ==
  ASSUME NEW w \in Seq(Nat)
  PROVE  /\ \A n \in 0..Len(w) : Sums(w)[n] \in Nat
         /\ \A m, n \in 0..Len(w) : m <= n => Sums(w)[m] <= Sums(w)[n]
<1> PICK N : N = Len(w)
  OBVIOUS
<1> PICK g : g = Sums(w)
  OBVIOUS
<1>1. N \in Nat /\ \A n \in 1..N : w[n] \in Nat
  BY LenProperties, ElementOfSeq
<1>2. g[0] = 0 /\ \A n \in 1..N : g[n] = g[n - 1] + w[n]
  BY <1>1, SumsAre
<1>3. \A n \in 0..N : g[n] \in Nat
  <2> DEFINE S == {n \in 0..N : g[n] \in Nat}
  <2>1. 0 \in S
    BY <1>1, <1>2
  <2>2. ASSUME NEW k \in 0..N, k \in S, k < N PROVE k + 1 \in S
    <3>1. k + 1 \in 1..N /\ (k + 1) - 1 = k
      BY <1>1, <2>2
    <3>2. g[k + 1] = g[k] + w[k + 1] /\ w[k + 1] \in Nat /\ g[k] \in Nat
      BY <1>1, <1>2, <2>2, <3>1
    <3>3. k + 1 \in 0..N /\ g[k + 1] \in Nat
      BY <3>1, <3>2
    <3> QED
      BY <3>3
  <2> HIDE DEF S
  <2>3. \A k \in 0..N : k \in S
    BY <1>1, <2>1, <2>2, Climb
  <2> QED
    BY <2>3 DEF S
<1>4. ASSUME NEW m \in 0..N, NEW n \in 0..N, m <= n PROVE g[m] <= g[n]
  <2> DEFINE S == {x \in 0..N : m <= x => g[m] <= g[x]}
  <2>1. 0 \in S
    <3>1. m <= 0 => m = 0
      OBVIOUS
    <3>2. m <= 0 => g[m] <= g[0]
      BY <1>3, <3>1
    <3> QED
      BY <1>1, <3>2
  <2>2. ASSUME NEW k \in 0..N, k \in S, k < N PROVE k + 1 \in S
    <3>1. k + 1 \in 1..N /\ k + 1 \in 0..N /\ (k + 1) - 1 = k
      BY <1>1, <2>2
    <3>2. g[k + 1] = g[k] + w[k + 1] /\ w[k + 1] \in Nat /\ g[k] \in Nat /\ g[m] \in Nat
      BY <1>1, <1>2, <1>3, <3>1
    <3>3. CASE m <= k
      BY <2>2, <3>1, <3>2, <3>3
    <3>4. CASE m = k + 1
      BY <3>1, <3>2, <3>4
    <3>5. CASE m > k + 1
      BY <3>1, <3>5
    <3> QED
      BY <3>3, <3>4, <3>5
  <2> HIDE DEF S
  <2>3. \A k \in 0..N : k \in S
    BY <1>1, <2>1, <2>2, Climb
  <2> QED
    BY <1>4, <2>3 DEF S
<1> QED
  BY <1>3, <1>4

\* Sums agree as far as the sequences do.
LEMMA SumsAgree ==
  ASSUME NEW w \in Seq(Nat), NEW u \in Seq(Nat), NEW m \in Nat, m <= Len(w), m <= Len(u),
         \A k \in 1..m : w[k] = u[k]
  PROVE  \A k \in 0..m : Sums(w)[k] = Sums(u)[k]
<1> PICK f : f = Sums(w)
  OBVIOUS
<1> PICK g : g = Sums(u)
  OBVIOUS
<1>1. Len(w) \in Nat /\ Len(u) \in Nat
  BY LenProperties
<1>2. f[0] = 0 /\ \A k \in 1..Len(w) : f[k] = f[k - 1] + w[k]
  BY <1>1, SumsAre
<1>3. g[0] = 0 /\ \A k \in 1..Len(u) : g[k] = g[k - 1] + u[k]
  BY <1>1, SumsAre
<1> DEFINE S == {k \in 0..m : f[k] = g[k]}
<1>4. 0 \in S
  BY <1>2, <1>3
<1>5. ASSUME NEW k \in 0..m, k \in S, k < m PROVE k + 1 \in S
  <2>1. k + 1 \in 1..m /\ (k + 1) - 1 = k /\ k + 1 \in 1..Len(w) /\ k + 1 \in 1..Len(u) /\ k + 1 \in 0..m
    BY <1>1, <1>5
  <2>2. f[k + 1] = f[k] + w[k + 1] /\ g[k + 1] = g[k] + u[k + 1] /\ f[k] = g[k] /\ w[k + 1] = u[k + 1]
    BY <1>2, <1>3, <1>5, <2>1
  <2>3. f[k + 1] = g[k + 1]
    BY <2>2
  <2> QED
    BY <2>1, <2>3
<1> HIDE DEF S
<1>6. \A k \in 0..m : k \in S
  BY <1>4, <1>5, Climb
<1> QED
  BY <1>6 DEF S

\* The sums of a sequence behind another go on from its sum.
LEMMA SumsGoOn ==
  ASSUME NEW w \in Seq(Nat), NEW u \in Seq(Nat), NEW x \in Seq(Nat), Len(x) = Len(w) + Len(u),
         \A k \in 1..Len(w) : x[k] = w[k], \A k \in 1..Len(u) : x[Len(w) + k] = u[k]
  PROVE  \A k \in 0..Len(u) : Sums(x)[Len(w) + k] = Sums(w)[Len(w)] + Sums(u)[k]
<1> PICK f : f = Sums(x)
  OBVIOUS
<1> PICK g : g = Sums(u)
  OBVIOUS
<1> PICK b : b = Sums(w)[Len(w)]
  OBVIOUS
<1> PICK L : L = Len(w)
  OBVIOUS
<1> PICK M : M = Len(u)
  OBVIOUS
<1>1. L \in Nat /\ M \in Nat /\ Len(x) \in Nat
  BY LenProperties
<1>2. \A k \in 1..Len(x) : f[k] = f[k - 1] + x[k]
  BY <1>1, SumsAre
<1>3. g[0] = 0 /\ \A k \in 1..M : g[k] = g[k - 1] + u[k]
  BY <1>1, SumsAre
<1>4. b \in Nat /\ \A k \in 0..M : g[k] \in Nat
  <2>1. L \in 0..L
    BY <1>1
  <2> QED
    BY <2>1, SumsRise
<1>5. f[L] = b
  <2>1. L \in 0..L /\ L <= Len(x) /\ L <= Len(w)
    BY <1>1
  <2> QED
    BY <1>1, <2>1, SumsAgree
<1>12. \A k \in 1..M : u[k] \in Nat
  BY ElementOfSeq
<1> DEFINE S == {k \in 0..M : f[L + k] = b + g[k]}
<1>6. 0 \in S
  BY <1>1, <1>3, <1>4, <1>5
<1>7. ASSUME NEW k \in 0..M, k \in S, k < M PROVE k + 1 \in S
  <2>1. k + 1 \in 1..M /\ (k + 1) - 1 = k /\ L + (k + 1) \in 1..Len(x) /\ (L + (k + 1)) - 1 = L + k /\ k + 1 \in 0..M
    BY <1>1, <1>7
  <2>2. f[L + (k + 1)] = f[L + k] + x[L + (k + 1)]
    BY <1>2, <2>1
  <2>3. x[L + (k + 1)] = u[k + 1] /\ g[k + 1] = g[k] + u[k + 1] /\ f[L + k] = b + g[k]
    BY <1>3, <1>7, <2>1
  <2>4. f[L + (k + 1)] = b + g[k + 1]
    <3>1. k \in 0..M /\ g[k] \in Nat /\ u[k + 1] \in Nat
      BY <1>4, <1>12, <2>1
    <3>2. f[L + (k + 1)] = (b + g[k]) + u[k + 1]
      BY ONLY <2>2, <2>3, Zenon
    <3>3. (b + g[k]) + u[k + 1] = b + (g[k] + u[k + 1])
      BY ONLY <1>4, <3>1
    <3> QED
      BY ONLY <2>3, <3>2, <3>3, Zenon
  <2> QED
    BY <2>1, <2>4
<1> HIDE DEF S
<1>8. \A k \in 0..M : k \in S
  BY <1>1, <1>6, <1>7, Climb
<1> QED
  BY <1>8 DEF S

-----------------------------------------------------------------------------
(* Records *)

Sized == [name : 1..MaxVertices, length : Nat \ {0}]

\* The lengths of records.
LEMMA LengthsAre ==
  ASSUME NEW s \in Seq(Sized)
  PROVE  /\ Lengths(s) \in Seq(Nat) /\ Len(Lengths(s)) = Len(s) /\ Len(s) \in Nat
         /\ \A i \in 1..Len(s) : Lengths(s)[i] = s[i].length /\ s[i].length \in Nat \ {0} /\ s[i] \in Sized
<1>1. Len(s) \in Nat /\ \A i \in 1..Len(s) : s[i] \in Sized
  BY LenProperties, ElementOfSeq
<1>2. \A i \in 1..Len(s) : s[i].length \in Nat \ {0}
  BY <1>1 DEF Sized
<1>3. Lengths(s) \in [1..Len(s) -> Nat]
  BY <1>2 DEF Lengths
<1>4. Lengths(s) \in Seq(Nat) /\ Len(Lengths(s)) = Len(s)
  BY <1>1, <1>3
<1> QED
  BY <1>1, <1>2, <1>4 DEF Lengths

\* Records start one behind the other.
LEMMA StartsRise ==
  ASSUME NEW s \in Seq(Sized)
  PROVE  /\ Bytes(s) \in Nat
         /\ \A i \in 1..Len(s) : Start(s, i) \in Nat /\ Start(s, i) < Bytes(s)
         /\ \A i, j \in 1..Len(s) : i < j => Start(s, i) < Start(s, j)
<1> PICK N : N = Len(s)
  OBVIOUS
<1> PICK w : w = Lengths(s)
  OBVIOUS
<1> PICK g : g = Sums(w)
  OBVIOUS
<1>1. N \in Nat /\ w \in Seq(Nat) /\ Len(w) = N /\ \A i \in 1..N : w[i] \in Nat \ {0}
  BY LengthsAre
<1>2. /\ \A n \in 0..N : g[n] \in Nat
      /\ \A m, n \in 0..N : m <= n => g[m] <= g[n]
  BY <1>1, SumsRise
<1>3. \A n \in 1..N : g[n] = g[n - 1] + w[n]
  BY <1>1, SumsAre
<1>4. ASSUME NEW i \in 1..N, NEW n \in i..N PROVE g[i - 1] \in Nat /\ g[i - 1] < g[n]
  <2>1. i \in 0..N /\ n \in 0..N /\ i - 1 \in 0..N /\ i <= n
    BY <1>1
  <2>2. g[i] <= g[n] /\ g[i - 1] \in Nat /\ g[i] \in Nat /\ g[n] \in Nat /\ g[i] = g[i - 1] + w[i] /\ w[i] \in Nat \ {0}
    BY <1>1, <1>2, <1>3, <2>1
  <2> QED
    BY <2>2
<1>5. Bytes(s) = g[N] /\ \A i : Start(s, i) = g[i - 1]
  BY DEF Bytes, Start
<1>6. g[N] \in Nat
  <2>1. N \in 0..N
    BY <1>1
  <2> QED
    BY <1>2, <2>1
<1>7. \A i \in 1..N : g[i - 1] \in Nat /\ g[i - 1] < g[N]
  <2>1. \A i \in 1..N : N \in i..N
    BY <1>1
  <2> QED
    BY <1>4, <2>1
<1>8. \A i, j \in 1..N : i < j => g[i - 1] < g[j - 1]
  <2>1. \A i, j \in 1..N : i < j => j - 1 \in i..N
    BY <1>1
  <2> QED
    BY <1>4, <2>1
<1> QED
  BY <1>5, <1>6, <1>7, <1>8

\* So many records stand before the next one, or the end.
LEMMA PassedIs ==
  ASSUME NEW s \in Seq(Sized), NEW n \in 0..Len(s), NEW b,
         IF n = Len(s) THEN b = Bytes(s) ELSE b = Start(s, n + 1)
  PROVE  Passed(s, b) = n
<1>1. Len(s) \in Nat
  BY LenProperties
<1>2. /\ Bytes(s) \in Nat
      /\ \A i \in 1..Len(s) : Start(s, i) \in Nat /\ Start(s, i) < Bytes(s)
      /\ \A i, j \in 1..Len(s) : i < j => Start(s, i) < Start(s, j)
  BY StartsRise
<1>3. {i \in 1..Len(s) : Start(s, i) < b} = 1..n
  <2>1. CASE n = Len(s)
    BY <1>2, <2>1
  <2>2. CASE n # Len(s)
    <3>1. n + 1 \in 1..Len(s) /\ b = Start(s, n + 1)
      BY <1>1, <2>2
    <3>2. ASSUME NEW i \in 1..Len(s) PROVE Start(s, i) < b <=> i \in 1..n
      <4>1. CASE i < n + 1
        BY <1>1, <1>2, <3>1, <4>1
      <4>2. CASE i = n + 1
        BY <1>2, <3>1, <4>2
      <4>3. CASE i > n + 1
        <5>1. Start(s, n + 1) < Start(s, i) /\ Start(s, i) \in Nat /\ Start(s, n + 1) \in Nat
          BY <1>2, <3>1, <4>3
        <5>2. i \notin 1..n
          BY <4>3
        <5> QED
          BY <3>1, <5>1, <5>2
      <4> QED
        BY <1>1, <4>1, <4>2, <4>3
    <3>3. \A i : i \in 1..n => i \in 1..Len(s)
      BY <1>1
    <3> QED
      BY <3>2, <3>3
  <2> QED
    BY <2>1, <2>2
<1>4. Cardinality(1..n) = n
  <2>1. n \in Nat
    OBVIOUS
  <2> QED
    BY <2>1, FS_Interval
<1> QED
  BY <1>3, <1>4 DEF Passed

\* A walk to the end finds every record.
LEMMA WalkIsWhole == ASSUME NEW s \in Seq(Sized) PROVE Walk(s, Bytes(s)) = s
<1>1. Len(s) \in Nat /\ Len(s) \in 0..Len(s)
  BY LenProperties
<1>2. Passed(s, Bytes(s)) = Len(s)
  BY <1>1, PassedIs
<1>3. SubSeq(s, 1, Len(s)) = s
  OBVIOUS
<1> QED
  BY <1>2, <1>3 DEF Walk

\* A record with the name v starts n bytes into s.
At(s, n, v) == \E i \in 1..Len(s) : Start(s, i) = n /\ s[i].name = v

\* It is the one a lookup finds there, and the only one.
LEMMA AtIs ==
  ASSUME NEW s \in Seq(Sized), NEW n, NEW v, At(s, n, v)
  PROVE  RecordAt(s, n) = v /\ n \in Nat /\ n < Bytes(s) /\ v \in 1..MaxVertices /\ \A u : At(s, n, u) => u = v
<1>1. /\ Bytes(s) \in Nat /\ Len(s) \in Nat
      /\ \A i \in 1..Len(s) : Start(s, i) \in Nat /\ Start(s, i) < Bytes(s)
      /\ \A i, j \in 1..Len(s) : i < j => Start(s, i) < Start(s, j)
  BY StartsRise, LenProperties
<1>2. PICK i \in 1..Len(s) : Start(s, i) = n /\ s[i].name = v
  BY DEF At
<1>3. \A j \in 1..Len(s) : Start(s, j) = n => j = i
  BY <1>1, <1>2
<1>4. s[i].name \in 1..MaxVertices
  <2>1. s[i] \in Sized
    BY <1>2, ElementOfSeq
  <2> QED
    BY <2>1 DEF Sized
<1>5. DOMAIN s = 1..Len(s)
  BY LenProperties
<1>6. (CHOOSE j \in DOMAIN s : Start(s, j) = n) = i
  BY <1>2, <1>3, <1>5
<1>7. RecordAt(s, n) = s[i].name
  BY <1>2, <1>5, <1>6 DEF RecordAt
<1>8. \A u : At(s, n, u) => u = v
  BY <1>2, <1>3 DEF At
<1> QED
  BY <1>1, <1>2, <1>4, <1>7, <1>8

\* x: the records s, then the records t.
Follow(s, t, x) ==
  /\ x \in Seq(Sized) /\ Len(x) = Len(s) + Len(t) /\ Bytes(x) = Bytes(s) + Bytes(t)
  /\ \A i \in 1..Len(s) : i \in 1..Len(x) /\ x[i] = s[i] /\ Start(x, i) = Start(s, i)
  /\ \A j \in 1..Len(t) : /\ Len(s) + j \in 1..Len(x) /\ x[Len(s) + j] = t[j]
                          /\ Start(x, Len(s) + j) = Bytes(s) + Start(t, j)

\* Records behind others start where those end.
LEMMA Concatenated ==
  ASSUME NEW s \in Seq(Sized), NEW t \in Seq(Sized), NEW x, x = s \o t
  PROVE  Follow(s, t, x)
<1> PICK L : L = Len(s)
  OBVIOUS
<1> PICK M : M = Len(t)
  OBVIOUS
<1>1. /\ x \in Seq(Sized) /\ Len(x) = L + M /\ L \in Nat /\ M \in Nat
      /\ \A i \in 1..L : x[i] = s[i]
      /\ \A j \in 1..M : x[L + j] = t[j]
  BY LenProperties
<1> PICK w : w = Lengths(s)
  OBVIOUS
<1> PICK u : u = Lengths(t)
  OBVIOUS
<1> PICK y : y = Lengths(x)
  OBVIOUS
<1>2. w \in Seq(Nat) /\ Len(w) = L /\ \A i \in 1..L : w[i] = s[i].length
  BY LengthsAre
<1>3. u \in Seq(Nat) /\ Len(u) = M /\ \A i \in 1..M : u[i] = t[i].length
  BY LengthsAre
<1>4. y \in Seq(Nat) /\ Len(y) = L + M /\ \A i \in 1..(L + M) : y[i] = x[i].length
  BY <1>1, LengthsAre
<1>5. \A i \in 1..L : i \in 1..(L + M) /\ y[i] = w[i]
  <2> SUFFICES ASSUME NEW i \in 1..L PROVE i \in 1..(L + M) /\ y[i] = w[i]
    OBVIOUS
  <2>1. i \in 1..(L + M)
    BY <1>1
  <2>2. y[i] = x[i].length
    BY <1>4, <2>1
  <2> QED
    BY <1>1, <1>2, <2>1, <2>2
<1>6. \A j \in 1..M : L + j \in 1..(L + M) /\ y[L + j] = u[j]
  <2> SUFFICES ASSUME NEW j \in 1..M PROVE L + j \in 1..(L + M) /\ y[L + j] = u[j]
    OBVIOUS
  <2>1. L + j \in 1..(L + M)
    BY <1>1
  <2>2. y[L + j] = x[L + j].length
    BY <1>4, <2>1
  <2> QED
    BY <1>1, <1>3, <2>1, <2>2
<1>7. \A k \in 0..L : Sums(y)[k] = Sums(w)[k]
  <2>1. L <= Len(y) /\ L <= Len(w) /\ \A k \in 1..L : y[k] = w[k]
    BY <1>1, <1>2, <1>4, <1>5
  <2> QED
    BY <1>1, <1>2, <1>4, <2>1, SumsAgree
<1>8. \A k \in 0..M : Sums(y)[L + k] = Sums(w)[L] + Sums(u)[k]
  <2>1. Len(y) = Len(w) + Len(u) /\ \A k \in 1..Len(w) : y[k] = w[k]
    BY <1>2, <1>3, <1>4, <1>5
  <2>2. \A k \in 1..Len(u) : y[Len(w) + k] = u[k]
    BY <1>2, <1>3, <1>6
  <2>3. \A k \in 0..Len(u) : Sums(y)[Len(w) + k] = Sums(w)[Len(w)] + Sums(u)[k]
    BY <1>2, <1>3, <1>4, <2>1, <2>2, SumsGoOn, ZenonT(30)
  <2> QED
    BY <1>2, <1>3, <2>3
<1>9. Bytes(x) = Bytes(s) + Bytes(t)
  <2>1. M \in 0..M
    BY <1>1
  <2> QED
    BY <1>1, <1>8, <2>1 DEF Bytes
<1>10. \A i \in 1..L : Start(x, i) = Start(s, i)
  <2>1. \A i \in 1..L : i - 1 \in 0..L
    BY <1>1
  <2> QED
    BY <1>7, <2>1 DEF Start
<1>11. ASSUME NEW j \in 1..M PROVE Start(x, L + j) = Bytes(s) + Start(t, j)
  <2>1. j - 1 \in 0..M /\ (L + j) - 1 = L + (j - 1)
    BY <1>1
  <2> QED
    BY <1>8, <2>1 DEF Start, Bytes
<1> QED
  BY <1>1, <1>5, <1>6, <1>9, <1>10, <1>11 DEF Follow

\* Names stay where they are, or move behind.
LEMMA AtJoined ==
  ASSUME NEW s \in Seq(Sized), NEW t \in Seq(Sized), NEW n, NEW v
  PROVE  /\ At(s, n, v) => At(s \o t, n, v)
         /\ At(t, n, v) => At(s \o t, Bytes(s) + n, v)
<1> PICK x : x = s \o t
  OBVIOUS
<1>4. Follow(s, t, x)
  BY Concatenated
<1>1. /\ \A i \in 1..Len(s) : i \in 1..Len(x) /\ x[i] = s[i] /\ Start(x, i) = Start(s, i)
      /\ \A j \in 1..Len(t) : /\ Len(s) + j \in 1..Len(x) /\ x[Len(s) + j] = t[j]
                              /\ Start(x, Len(s) + j) = Bytes(s) + Start(t, j)
  BY <1>4 DEF Follow
<1>2. At(s, n, v) => At(x, n, v)
  BY <1>1 DEF At
<1>3. ASSUME At(t, n, v) PROVE At(x, Bytes(s) + n, v)
  <2>1. PICK j \in 1..Len(t) : Start(t, j) = n /\ t[j].name = v
    BY <1>3 DEF At
  <2>2. Len(s) + j \in 1..Len(x) /\ x[Len(s) + j].name = v /\ Start(x, Len(s) + j) = Bytes(s) + n
    BY <1>1, <2>1
  <2> QED
    BY <2>2 DEF At
<1> QED
  BY <1>2, <1>3

\* One record, by itself.
LEMMA SingleIs ==
  ASSUME NEW v \in Sized
  PROVE  <<v>> \in Seq(Sized) /\ Bytes(<<v>>) = v.length /\ At(<<v>>, 0, v.name)
<1> PICK s : s = <<v>>
  OBVIOUS
<1>1. s \in Seq(Sized) /\ Len(s) = 1 /\ s[1] = v
  OBVIOUS
<1> PICK w : w = Lengths(s)
  OBVIOUS
<1>2. w \in Seq(Nat) /\ Len(w) = 1 /\ w[1] = v.length /\ v.length \in Nat
  <2>1. 1 \in 1..Len(s)
    BY <1>1
  <2> QED
    BY <1>1, <2>1, LengthsAre
<1>3. Sums(w)[0] = 0 /\ Sums(w)[1] = Sums(w)[0] + w[1]
  <2>1. Len(w) \in Nat /\ 1 \in 1..Len(w) /\ 1 - 1 = 0
    BY <1>2
  <2> QED
    BY <2>1, SumsAre
<1>4. Bytes(s) = v.length
  BY <1>1, <1>2, <1>3 DEF Bytes
<1>5. Start(s, 1) = 0
  <2>1. 1 - 1 = 0
    OBVIOUS
  <2> QED
    BY <1>3, <2>1 DEF Start
<1>6. At(s, 0, v.name)
  <2>1. 1 \in 1..Len(s)
    BY <1>1
  <2> QED
    BY <1>1, <1>5, <2>1 DEF At
<1> QED
  BY <1>1, <1>4, <1>6

\* No records.
LEMMA NoneIs == <<>> \in Seq(Sized) /\ Bytes(<<>>) = 0 /\ \A n, v : ~At(<<>>, n, v)
<1> PICK s : s = <<>>
  OBVIOUS
<1>1. s \in Seq(Sized) /\ Len(s) = 0 /\ 1..0 = {}
  OBVIOUS
<1>2. Len(Lengths(s)) = 0
  BY <1>1, LengthsAre
<1>3. Sums(Lengths(s))[0] = 0
  <2>1. Len(Lengths(s)) \in Nat
    BY <1>2
  <2> QED
    BY <2>1, SumsAre
<1>4. \A n, v : ~At(s, n, v)
  BY <1>1 DEF At
<1> QED
  BY <1>1, <1>3, <1>4 DEF Bytes

\* A record is added at the end.
LEMMA Appended ==
  ASSUME NEW s \in Seq(Sized), NEW v \in Sized
  PROVE  /\ Append(s, v) \in Seq(Sized) /\ Bytes(Append(s, v)) = Bytes(s) + v.length
         /\ \A n, u : At(s, n, u) => At(Append(s, v), n, u)
         /\ At(Append(s, v), Bytes(s), v.name)
         /\ Append(s, v) # <<>>
<1> PICK t : t = <<v>>
  OBVIOUS
<1>1. t \in Seq(Sized) /\ Bytes(t) = v.length /\ At(t, 0, v.name)
  BY SingleIs
<1>2. Append(s, v) = s \o t
  OBVIOUS
<1>3. Append(s, v) \in Seq(Sized) /\ Append(s, v) # <<>>
  BY AppendProperties
<1>4. Bytes(s \o t) = Bytes(s) + Bytes(t)
  <2>1. Follow(s, t, s \o t)
    BY <1>1, Concatenated
  <2> QED
    BY <2>1 DEF Follow
<1>5. \A n, u : At(s, n, u) => At(s \o t, n, u)
  BY <1>1, AtJoined
<1>6. At(s \o t, Bytes(s) + 0, v.name)
  BY <1>1, AtJoined
<1>7. Bytes(s) + 0 = Bytes(s)
  BY StartsRise
<1> QED
  BY <1>1, <1>2, <1>3, <1>4, <1>5, <1>6, <1>7, Zenon

-----------------------------------------------------------------------------
(* Blocks *)

Block == [data : Seq(Sized), position : Nat]
Filled(pools) ==
  /\ pools \in Seq(Block)
  /\ \A k \in 1..Len(pools) : /\ pools[k].position = Bytes(pools[k].data)
                              /\ pools[k].position <= BlockSize /\ pools[k].data # <<>>

\* What a block holds.
LEMMA BlocksAre ==
  ASSUME NEW pools, Filled(pools)
  PROVE  /\ Len(pools) \in Nat /\ Counts(pools) \in Seq(Nat) /\ Len(Counts(pools)) = Len(pools)
         /\ \A k \in 1..Len(pools) : /\ pools[k].data \in Seq(Sized) /\ pools[k].position \in Nat
                                     /\ pools[k].position = Bytes(pools[k].data)
                                     /\ Counts(pools)[k] = pools[k].position
<1>1. pools \in Seq(Block) /\ \A k \in 1..Len(pools) : pools[k].position = Bytes(pools[k].data)
  BY DEF Filled
<1>2. Len(pools) \in Nat /\ \A k \in 1..Len(pools) : pools[k] \in Block
  BY <1>1, LenProperties, ElementOfSeq
<1>3. \A k \in 1..Len(pools) : pools[k].data \in Seq(Sized) /\ pools[k].position \in Nat
  BY <1>2 DEF Block
<1>4. Counts(pools) \in [1..Len(pools) -> Nat] /\ \A k \in 1..Len(pools) : Counts(pools)[k] = pools[k].position
  BY <1>3 DEF Counts
<1>5. Counts(pools) \in Seq(Nat) /\ Len(Counts(pools)) = Len(pools)
  BY <1>2, <1>4
<1> QED
  BY <1>1, <1>2, <1>3, <1>4, <1>5

JoinedUpTo(f, pools, n) ==
  f = [k \in 0..n |-> IF k = 0 THEN <<>> ELSE f[k - 1] \o Walk(pools[k].data, pools[k].position)]

\* One block more can be joined.
LEMMA JoinedNext ==
  ASSUME NEW pools, NEW n \in Nat, NEW g, JoinedUpTo(g, pools, n)
  PROVE  \E f : JoinedUpTo(f, pools, n + 1)
<1> DEFINE R(k) == Walk(pools[k].data, pools[k].position)
           f == [k \in 0..(n + 1) |-> IF k = n + 1 THEN g[n] \o R(k) ELSE g[k]]
<1>1. \A k \in 0..n : f[k] = g[k]
  OBVIOUS
<1>2. \A k \in 0..n : g[k] = IF k = 0 THEN <<>> ELSE g[k - 1] \o R(k)
  BY DEF JoinedUpTo
<1> HIDE DEF R
<1>3. ASSUME NEW k \in 0..(n + 1) PROVE f[k] = IF k = 0 THEN <<>> ELSE f[k - 1] \o R(k)
  <2>1. CASE k = n + 1
    <3>1. n \in 0..n /\ k - 1 = n /\ k # 0
      BY <2>1
    <3>2. f[k - 1] = g[n]
      BY <1>1, <3>1
    <3>3. f[k] = g[n] \o R(k)
      BY <2>1
    <3> HIDE DEF f
    <3> QED
      BY <3>1, <3>2, <3>3
  <2>2. CASE k # n + 1
    <3>1. k \in 0..n /\ (k # 0 => k - 1 \in 0..n)
      BY <2>2
    <3> HIDE DEF f
    <3> QED
      BY <1>1, <1>2, <3>1
  <2> QED
    BY <2>1, <2>2
<1>4. f = [k \in 0..(n + 1) |-> f[k]]
  OBVIOUS
<1> HIDE DEF f
<1>5. f = [k \in 0..(n + 1) |-> IF k = 0 THEN <<>> ELSE f[k - 1] \o R(k)]
  BY <1>3, <1>4
<1>6. JoinedUpTo(f, pools, n + 1)
  BY <1>5 DEF JoinedUpTo, R
<1> QED
  BY <1>6

\* What the blocks hold, one behind the other.
JoinOK(s, pools, n) ==
  /\ s \in Seq(Sized) /\ Bytes(s) = Sums(Counts(pools))[n]
  /\ \A k \in 1..n : \A b, v : At(pools[k].data, b, v) => At(s, Skipped(pools, k) + b, v)

\* Joining a block keeps every record at its offset.
LEMMA JoinStep ==
  ASSUME NEW pools, Filled(pools), NEW n \in Nat, n < Len(pools), NEW s, JoinOK(s, pools, n)
  PROVE  JoinOK(s \o Walk(pools[n + 1].data, pools[n + 1].position), pools, n + 1)
<1> PICK t : t = pools[n + 1].data
  OBVIOUS
<1> PICK c : c = Counts(pools)
  OBVIOUS
<1> PICK x : x = s \o t
  OBVIOUS
<1>1. /\ Len(pools) \in Nat /\ c \in Seq(Nat) /\ Len(c) = Len(pools) /\ n + 1 \in 1..Len(pools)
      /\ t \in Seq(Sized) /\ pools[n + 1].position = Bytes(t) /\ c[n + 1] = Bytes(t)
  <2>1. Len(pools) \in Nat
    BY BlocksAre
  <2>2. n + 1 \in 1..Len(pools)
    BY <2>1
  <2> QED
    BY <2>1, <2>2, BlocksAre
<1>2. Walk(pools[n + 1].data, pools[n + 1].position) = t
  BY <1>1, WalkIsWhole
<1>3. s \in Seq(Sized) /\ Bytes(s) = Sums(c)[n]
  BY DEF JoinOK
<1>4. x \in Seq(Sized) /\ Bytes(x) = Bytes(s) + Bytes(t)
  <2>1. Follow(s, t, x)
    BY <1>1, <1>3, Concatenated
  <2> QED
    BY <2>1 DEF Follow
<1>5. Sums(c)[n + 1] = Sums(c)[n] + c[n + 1]
  <2>1. (n + 1) - 1 = n
    OBVIOUS
  <2> QED
    BY <1>1, <2>1, SumsAre
<1>6. Bytes(x) = Sums(c)[n + 1]
  BY <1>1, <1>3, <1>4, <1>5
<1>7. ASSUME NEW k \in 1..(n + 1), NEW b, NEW v, At(pools[k].data, b, v)
      PROVE  At(x, Skipped(pools, k) + b, v)
  <2>1. CASE k \in 1..n
    <3>1. At(s, Skipped(pools, k) + b, v)
      BY <1>7, <2>1 DEF JoinOK
    <3> QED
      BY <1>1, <1>3, <3>1, AtJoined
  <2>2. CASE k = n + 1
    <3>1. Skipped(pools, k) = Bytes(s)
      <4>1. k - 1 = n
        BY <2>2
      <4> QED
        BY <1>3, <4>1 DEF Skipped
    <3>2. At(t, b, v)
      BY <1>7, <2>2
    <3>3. At(x, Bytes(s) + b, v)
      BY <1>1, <1>3, <3>2, AtJoined
    <3> QED
      BY <3>1, <3>3
  <2> QED
    BY <2>1, <2>2
<1>8. JoinOK(x, pools, n + 1)
  BY <1>4, <1>6, <1>7 DEF JoinOK
<1> QED
  BY <1>2, <1>8

\* The blocks, joined.
LEMMA JoinedIs == ASSUME NEW pools, Filled(pools) PROVE JoinOK(Joined(pools), pools, Len(pools))
<1> PICK N : N = Len(pools)
  OBVIOUS
<1>1. N \in Nat /\ N \in 0..N
  BY BlocksAre
<1> DEFINE S == {n \in 0..N : \E f : JoinedUpTo(f, pools, n)}
<1>2. 0 \in S
  <2>1. JoinedUpTo([k \in 0..0 |-> <<>>], pools, 0)
    BY DEF JoinedUpTo
  <2> QED
    BY <1>1, <2>1
<1>3. \A k \in 0..N : (k \in S /\ k < N) => k + 1 \in S
  <2> SUFFICES ASSUME NEW k \in 0..N, k \in S, k < N PROVE k + 1 \in S
    OBVIOUS
  <2>1. PICK g : JoinedUpTo(g, pools, k)
    OBVIOUS
  <2>2. \E f : JoinedUpTo(f, pools, k + 1)
    BY <2>1, JoinedNext
  <2> QED
    BY <1>1, <2>2
<1>4. N \in S
  <2> HIDE DEF S
  <2> QED
    BY <1>1, <1>2, <1>3, Climb
<1> PICK f : f = CHOOSE g : JoinedUpTo(g, pools, N)
  OBVIOUS
<1>5. JoinedUpTo(f, pools, N)
  BY <1>4
<1>6. Joined(pools) = f[N]
  BY Zenon DEF Joined, JoinedUpTo
<1> DEFINE R(k) == Walk(pools[k].data, pools[k].position)
<1>7. f[0] = <<>> /\ \A k \in 1..N : f[k] = f[k - 1] \o R(k)
  <2> HIDE DEF R
  <2>1. f = [k \in 0..N |-> IF k = 0 THEN <<>> ELSE f[k - 1] \o R(k)]
    BY <1>5 DEF JoinedUpTo, R
  <2>2. \A k \in 0..N : f[k] = IF k = 0 THEN <<>> ELSE f[k - 1] \o R(k)
    BY ONLY <2>1, Zenon
  <2>3. 0 \in 0..N /\ \A k \in 1..N : k \in 0..N /\ k # 0
    BY <1>1
  <2> QED
    BY ONLY <2>2, <2>3
<1> DEFINE T == {n \in 0..N : JoinOK(f[n], pools, n)}
<1>8. 0 \in T
  <2>1. Sums(Counts(pools))[0] = 0
    <3>1. Len(Counts(pools)) \in Nat
      BY BlocksAre
    <3> QED
      BY <3>1, SumsAre
  <2>2. 1..0 = {}
    OBVIOUS
  <2>3. JoinOK(<<>>, pools, 0)
    BY <2>1, <2>2, NoneIs DEF JoinOK
  <2> QED
    BY <1>1, <1>7, <2>3
<1>9. ASSUME NEW k \in 0..N, k \in T, k < N PROVE k + 1 \in T
  <2>1. JoinOK(f[k] \o R(k + 1), pools, k + 1)
    BY <1>1, <1>9, JoinStep
  <2>2. k + 1 \in 1..N /\ k + 1 \in 0..N /\ (k + 1) - 1 = k
    BY <1>1, <1>9
  <2>3. f[k + 1] = f[k] \o R(k + 1)
    BY <1>7, <2>2
  <2> QED
    BY <2>1, <2>2, <2>3
<1> HIDE DEF T
<1>10. \A k \in 0..N : k \in T
  BY <1>1, <1>8, <1>9, Climb
<1> QED
  BY <1>1, <1>6, <1>10 DEF T

-----------------------------------------------------------------------------
(* Offsets *)

\* The byte offset o names the vertex v: in the palette, or in a block.
Named(pal, pools, o, v) ==
  /\ o \in Nat
  /\ \/ At(pal, o - HeadSize, v)
     \/ \E k \in 1..Len(pools) : At(pools[k].data, ((o - HeadSize) - Bytes(pal)) - Skipped(pools, k), v)

\* A lookup finds it.
LEMMA LookupIs ==
  ASSUME NEW v, NEW o, known, palette \in Seq(Sized), length = HeadSize + Bytes(palette), Filled(vertextras),
         Named(palette, vertextras, o, v)
  PROVE  prf_model_vertex_palette_lookup(o) = v
<1> PICK L : L = Bytes(palette)
  OBVIOUS
<1>1. L \in Nat /\ o \in Nat /\ HeadSize = 8 /\ length = 8 + L
  BY StartsRise DEF Named, HeadSize
<1>2. CASE At(palette, o - HeadSize, v)
  <2>1. RecordAt(palette, o - HeadSize) = v /\ o - HeadSize \in Nat /\ o - HeadSize < L
    BY <1>2, AtIs
  <2>2. o < length /\ ~(o < HeadSize)
    BY <1>1, <2>1
  <2> QED
    BY <2>1, <2>2 DEF prf_model_vertex_palette_lookup
<1>3. ASSUME NEW k \in 1..Len(vertextras),
             At(vertextras[k].data, ((o - HeadSize) - Bytes(palette)) - Skipped(vertextras, k), v)
      PROVE  prf_model_vertex_palette_lookup(o) = v
  <2> DEFINE rest == o - length
             c == Counts(vertextras)
             n == rest - Skipped(vertextras, k)
             fits == {m \in DOMAIN vertextras : rest < Skipped(vertextras, m) + vertextras[m].position}
  <2>1. /\ Len(vertextras) \in Nat /\ c \in Seq(Nat) /\ Len(c) = Len(vertextras) /\ DOMAIN vertextras = 1..Len(vertextras)
        /\ \A m \in 1..Len(vertextras) : /\ vertextras[m].data \in Seq(Sized) /\ vertextras[m].position \in Nat
                                         /\ vertextras[m].position = Bytes(vertextras[m].data)
                                         /\ c[m] = vertextras[m].position
    <3>1. vertextras \in Seq(Block)
      BY DEF Filled
    <3> QED
      BY <3>1, BlocksAre, LenProperties
  <2>2. /\ \A m \in 0..Len(c) : Sums(c)[m] \in Nat
        /\ \A m, j \in 0..Len(c) : m <= j => Sums(c)[m] <= Sums(c)[j]
    BY <2>1, SumsRise
  <2>3. \A m \in 1..Len(c) : Sums(c)[m] = Sums(c)[m - 1] + c[m]
    BY <2>1, SumsAre
  <2>4. \A m \in 1..Len(vertextras) : Skipped(vertextras, m) \in Nat
    <3>1. \A m \in 1..Len(vertextras) : m - 1 \in 0..Len(c)
      BY <2>1
    <3> QED
      BY <2>2, <3>1 DEF Skipped
  <2>5. ((o - HeadSize) - Bytes(palette)) - Skipped(vertextras, k) = n
    BY <1>1, <2>4
  <2>6. RecordAt(vertextras[k].data, n) = v /\ n \in Nat /\ n < vertextras[k].position
    <3>1. At(vertextras[k].data, n, v)
      BY <1>3, <2>5
    <3> HIDE DEF n
    <3> QED
      BY <2>1, <3>1, AtIs
  <2>7. rest \in Int /\ rest = Skipped(vertextras, k) + n /\ rest >= 0
    BY <1>1, <2>4, <2>6, SMTT(30)
  <2> HIDE DEF rest
  <2>8. k \in fits
    BY <2>1, <2>4, <2>6, <2>7
  <2>9. ASSUME NEW m \in fits, m < k PROVE FALSE
    <3>1. m \in 1..Len(vertextras) /\ m - 1 \in 0..Len(c) /\ m \in 0..Len(c) /\ m <= k - 1 /\ k - 1 \in 0..Len(c)
      BY <2>1, <2>9
    <3>2. Skipped(vertextras, m) + vertextras[m].position = Sums(c)[m]
      BY <2>1, <2>3, <3>1 DEF Skipped
    <3>3. Sums(c)[m] <= Skipped(vertextras, k)
      BY <2>2, <3>1 DEF Skipped
    <3>4. rest < Skipped(vertextras, m) + vertextras[m].position
      BY <2>9
    <3>5. Sums(c)[m] \in Nat
      BY <2>2, <3>1
    <3> QED
      BY <2>4, <2>6, <2>7, <3>2, <3>3, <3>4, <3>5
  <2>10. fits \subseteq 1..Len(vertextras)
    BY <2>1
  <2>11. ~(o < length)
    BY <1>1, <2>7 DEF rest
  <2> HIDE DEF fits
  <2>12. (CHOOSE j \in fits : \A i \in fits : j <= i) = k
    <3>1. \A i \in fits : k <= i
      BY <2>1, <2>9, <2>10
    <3>2. ASSUME NEW j \in fits, \A i \in fits : j <= i PROVE j = k
      BY <2>8, <2>10, <3>1, <3>2
    <3> QED
      BY <2>8, <3>1, <3>2
  <2> HIDE DEF n
  <2>13. prf_model_vertex_palette_lookup(o) =
           IF fits = {} THEN Empty
           ELSE RecordAt(vertextras[CHOOSE j \in fits : \A i \in fits : j <= i].data,
                         rest - Skipped(vertextras, CHOOSE j \in fits : \A i \in fits : j <= i))
    BY <2>11, Zenon DEF prf_model_vertex_palette_lookup, fits, rest
  <2>14. fits # {}
    BY <2>8
  <2>15. prf_model_vertex_palette_lookup(o) = RecordAt(vertextras[k].data, rest - Skipped(vertextras, k))
    BY ONLY <2>12, <2>13, <2>14, Zenon
  <2> QED
    BY <2>6, <2>15 DEF n
<1> QED
  BY <1>2, <1>3 DEF Named

\* What the walks of save, clone and optimize see.
LEMMA StoredIs ==
  ASSUME palette \in Seq(Sized), length = HeadSize + Bytes(palette), Filled(vertextras)
  PROVE  /\ Stored \in Seq(Sized) /\ Bytes(Stored) = Bytes(palette) + Positions(vertextras)
         /\ Positions(vertextras) \in Nat
         /\ \A o, v : Named(palette, vertextras, o, v) => At(Stored, o - HeadSize, v)
<1> PICK x : x = Joined(vertextras)
  OBVIOUS
<1> PICK N : N = Len(vertextras)
  OBVIOUS
<1>1. JoinOK(x, vertextras, N)
  BY JoinedIs
<1>2. x \in Seq(Sized) /\ Bytes(x) = Positions(vertextras)
  BY <1>1 DEF JoinOK, Positions
<1>3. Bytes(palette) \in Nat /\ Bytes(x) \in Nat /\ HeadSize = 8
  BY <1>2, StartsRise DEF HeadSize
<1>4. length - HeadSize = Bytes(palette)
  BY <1>3
<1>5. Walk(palette, length - HeadSize) = palette
  BY <1>4, WalkIsWhole
<1>6. Stored = palette \o x
  BY <1>5 DEF Stored
<1>7. Follow(palette, x, Stored)
  BY <1>2, <1>6, Concatenated
<1>8. ASSUME NEW o, NEW v, Named(palette, vertextras, o, v) PROVE At(Stored, o - HeadSize, v)
  <2>1. CASE At(palette, o - HeadSize, v)
    BY <1>2, <1>6, <2>1, AtJoined
  <2>2. ASSUME NEW k \in 1..N, At(vertextras[k].data, ((o - HeadSize) - Bytes(palette)) - Skipped(vertextras, k), v)
        PROVE  At(Stored, o - HeadSize, v)
    <3> PICK b : b = ((o - HeadSize) - Bytes(palette)) - Skipped(vertextras, k)
      OBVIOUS
    <3>1. At(x, Skipped(vertextras, k) + b, v)
      BY <1>1, <2>2 DEF JoinOK
    <3>2. At(Stored, Bytes(palette) + (Skipped(vertextras, k) + b), v)
      BY <1>2, <1>6, <3>1, AtJoined
    <3>3. o \in Nat
      BY <1>8 DEF Named
    <3>4. Skipped(vertextras, k) \in Nat
      <4>1. Counts(vertextras) \in Seq(Nat) /\ Len(Counts(vertextras)) = N /\ N \in Nat
        BY BlocksAre
      <4>2. k - 1 \in 0..Len(Counts(vertextras))
        BY <4>1
      <4> QED
        BY <4>1, <4>2, SumsRise DEF Skipped
    <3>5. Bytes(palette) + (Skipped(vertextras, k) + b) = o - HeadSize
      BY <1>3, <3>3, <3>4
    <3> QED
      BY <3>2, <3>5
  <2> QED
    BY <1>8, <2>1, <2>2 DEF Named
<1>9. Stored \in Seq(Sized) /\ Bytes(Stored) = Bytes(palette) + Bytes(x)
  BY <1>7 DEF Follow
<1> QED
  BY <1>2, <1>3, <1>8, <1>9

-----------------------------------------------------------------------------
(* The compaction *)

Kept(s, tags, k) == HeadSize + Start(s, k) \in tags
CompactStep(r, s, tags, k) ==
  IF Kept(s, tags, k) THEN [r EXCEPT !.buffer = Append(@, s[k])] ELSE [r EXCEPT !.offset = @ + s[k].length]
CompactUpTo(f, s, tags, n) ==
  f = [k \in 0..n |-> IF k = 0 THEN [buffer |-> <<>>, offset |-> 0] ELSE CompactStep(f[k - 1], s, tags, k)]

\* One record more can be compacted.
LEMMA CompactNext ==
  ASSUME NEW s, NEW tags, NEW n \in Nat, NEW g, CompactUpTo(g, s, tags, n)
  PROVE  \E f : CompactUpTo(f, s, tags, n + 1)
<1> DEFINE R(r, k) == CompactStep(r, s, tags, k)
           z == [buffer |-> <<>>, offset |-> 0]
           f == [k \in 0..(n + 1) |-> IF k = n + 1 THEN R(g[n], k) ELSE g[k]]
<1>1. \A k \in 0..n : f[k] = g[k]
  OBVIOUS
<1> HIDE DEF z
<1>2. \A k \in 0..n : g[k] = IF k = 0 THEN z ELSE R(g[k - 1], k)
  <2>1. g = [k \in 0..n |-> IF k = 0 THEN z ELSE R(g[k - 1], k)]
    BY DEF CompactUpTo, z
  <2> HIDE DEF R
  <2> QED
    BY ONLY <2>1, Zenon
<1> HIDE DEF R
<1>3. ASSUME NEW k \in 0..(n + 1) PROVE f[k] = IF k = 0 THEN z ELSE R(f[k - 1], k)
  <2>1. CASE k = n + 1
    <3>1. n \in 0..n /\ k - 1 = n /\ k # 0
      BY <2>1
    <3>2. f[k - 1] = g[n]
      BY <1>1, <3>1
    <3>3. f[k] = R(g[n], k)
      BY <2>1
    <3> HIDE DEF f
    <3> QED
      BY <3>1, <3>2, <3>3
  <2>2. CASE k # n + 1
    <3>1. k \in 0..n /\ (k # 0 => k - 1 \in 0..n)
      BY <2>2
    <3> HIDE DEF f
    <3> QED
      BY <1>1, <1>2, <3>1
  <2> QED
    BY <2>1, <2>2
<1>4. f = [k \in 0..(n + 1) |-> f[k]]
  OBVIOUS
<1> HIDE DEF f
<1>5. f = [k \in 0..(n + 1) |-> IF k = 0 THEN z ELSE R(f[k - 1], k)]
  BY <1>3, <1>4
<1>6. CompactUpTo(f, s, tags, n + 1)
  BY <1>5 DEF CompactUpTo, R, z
<1> QED
  BY <1>6

\* The compaction goes record by record.
LEMMA CompactIs ==
  ASSUME NEW s, NEW tags, Len(s) \in Nat
  PROVE  /\ Compact(s, tags)[0] = [buffer |-> <<>>, offset |-> 0]
         /\ \A k \in 1..Len(s) : Compact(s, tags)[k] = CompactStep(Compact(s, tags)[k - 1], s, tags, k)
<1> PICK N : N = Len(s)
  OBVIOUS
<1> DEFINE S == {n \in 0..N : \E f : CompactUpTo(f, s, tags, n)}
<1>1. 0 \in S
  <2>1. CompactUpTo([k \in 0..0 |-> [buffer |-> <<>>, offset |-> 0]], s, tags, 0)
    BY DEF CompactUpTo
  <2> QED
    BY <2>1
<1>2. \A k \in 0..N : (k \in S /\ k < N) => k + 1 \in S
  <2> SUFFICES ASSUME NEW k \in 0..N, k \in S, k < N PROVE k + 1 \in S
    OBVIOUS
  <2>1. PICK g : CompactUpTo(g, s, tags, k)
    OBVIOUS
  <2>2. \E f : CompactUpTo(f, s, tags, k + 1)
    BY <2>1, CompactNext
  <2> QED
    BY <2>2
<1>3. N \in S
  <2>1. N \in Nat /\ N \in 0..N
    OBVIOUS
  <2> HIDE DEF S
  <2> QED
    BY <1>1, <1>2, <2>1, Climb
<1> PICK f : f = CHOOSE g : CompactUpTo(g, s, tags, N)
  OBVIOUS
<1>4. CompactUpTo(f, s, tags, N)
  BY <1>3
<1>5. Compact(s, tags) = f
  BY Zenon DEF Compact, CompactUpTo, CompactStep, Kept
<1> DEFINE R(r, k) == CompactStep(r, s, tags, k)
           z == [buffer |-> <<>>, offset |-> 0]
<1> HIDE DEF z
<1>6. f = [k \in 0..N |-> IF k = 0 THEN z ELSE R(f[k - 1], k)]
  BY <1>4 DEF CompactUpTo, z
<1>7. \A k \in 0..N : f[k] = IF k = 0 THEN z ELSE R(f[k - 1], k)
  <2> HIDE DEF R
  <2> QED
    BY ONLY <1>6, Zenon
<1>8. 0 \in 0..N /\ \A k \in 1..N : k \in 0..N /\ k # 0
  OBVIOUS
<1>9. f[0] = z /\ \A k \in 1..N : f[k] = R(f[k - 1], k)
  <2> HIDE DEF R
  <2> QED
    BY ONLY <1>7, <1>8
<1> QED
  BY ONLY <1>5, <1>9, N = Len(s), Zenon DEF z

\* After n records: the kept ones stand in the buffer in their order, as far up as others
\* have been left out before them.
InBuffer(c, f, s, tags, n) ==
  /\ \A m \in 1..n : Kept(s, tags, m) => At(c, Start(s, m) - f[m - 1].offset, s[m].name)
  /\ \A q \in 1..Len(c) : \E i \in 1..n : Kept(s, tags, i) /\ c[q] = s[i]
  /\ \A q, r \in 1..Len(c) : q < r => \E i, j \in 1..n : i < j /\ c[q] = s[i] /\ c[r] = s[j]
Packed(f, s, tags, n) ==
  /\ f[n] \in [buffer : Seq(Sized), offset : Nat]
  /\ Bytes(f[n].buffer) + f[n].offset = Sums(Lengths(s))[n]
  /\ InBuffer(f[n].buffer, f, s, tags, n)

\* A record that is kept goes to the end of the buffer.
LEMMA PackedKept ==
  ASSUME NEW s \in Seq(Sized), NEW tags, NEW f, NEW n \in Nat, n < Len(s), Packed(f, s, tags, n),
         f[n + 1] = CompactStep(f[n], s, tags, n + 1), Kept(s, tags, n + 1)
  PROVE  Packed(f, s, tags, n + 1)
<1> PICK v : v = s[n + 1]
  OBVIOUS
<1> PICK c : c = f[n].buffer
  OBVIOUS
<1> PICK o : o = f[n].offset
  OBVIOUS
<1> PICK g : g = Sums(Lengths(s))
  OBVIOUS
<1> PICK d : d = f[n + 1].buffer
  OBVIOUS
<1>1. /\ n + 1 \in 1..Len(s) /\ (n + 1) - 1 = n /\ v \in Sized /\ v.length \in Nat
      /\ Lengths(s) \in Seq(Nat) /\ Len(Lengths(s)) = Len(s) /\ Len(s) \in Nat /\ Lengths(s)[n + 1] = v.length
  <2>1. Len(s) \in Nat
    BY LenProperties
  <2>2. n + 1 \in 1..Len(s) /\ (n + 1) - 1 = n
    BY <2>1
  <2> QED
    BY <2>1, <2>2, LengthsAre
<1>2. f[n] \in [buffer : Seq(Sized), offset : Nat] /\ c \in Seq(Sized) /\ o \in Nat /\ Bytes(c) + o = g[n] /\ InBuffer(c, f, s, tags, n)
  BY DEF Packed
<1>3. d = Append(c, v) /\ f[n + 1].offset = o /\ f[n + 1] = [f[n] EXCEPT !.buffer = Append(c, v)]
  <2>1. f[n + 1] = [f[n] EXCEPT !.buffer = Append(c, v)]
    BY DEF CompactStep
  <2>2. Append(c, v) \in Seq(Sized)
    BY <1>1, <1>2, AppendProperties
  <2> PICK y : y = Append(c, v)
    OBVIOUS
  <2>3. [f[n] EXCEPT !.buffer = y].buffer = y /\ [f[n] EXCEPT !.buffer = y].offset = f[n].offset
    BY <1>2
  <2> QED
    BY <2>1, <2>3
<1>4. /\ d \in Seq(Sized) /\ Bytes(d) = Bytes(c) + v.length
      /\ \A b, u : At(c, b, u) => At(d, b, u)
      /\ At(d, Bytes(c), v.name)
  <2>1. c \in Seq(Sized) /\ v \in Sized /\ d = Append(c, v)
    BY <1>1, <1>2, <1>3
  <2> QED
    BY ONLY <2>1, Appended, Zenon
<1>5. f[n + 1] \in [buffer : Seq(Sized), offset : Nat]
  <2> PICK y : y = Append(c, v)
    OBVIOUS
  <2>1. y \in Seq(Sized) /\ f[n + 1] = [f[n] EXCEPT !.buffer = y]
    BY <1>3, <1>4
  <2> QED
    BY <1>2, <2>1
<1>6. g[n + 1] = g[n] + v.length
  BY <1>1, SumsAre
<1>7. Bytes(c) \in Nat
  BY <1>2, StartsRise
<1>8. Bytes(d) + f[n + 1].offset = g[n + 1]
  BY <1>1, <1>2, <1>3, <1>4, <1>6, <1>7, SMTT(30)
<1>9. \A x : x \in 1..(n + 1) <=> (x \in 1..n \/ x = n + 1)
  OBVIOUS
<1>10. ASSUME NEW m \in 1..(n + 1), Kept(s, tags, m) PROVE At(d, Start(s, m) - f[m - 1].offset, s[m].name)
  <2>1. CASE m \in 1..n
    BY <1>2, <1>4, <1>10, <2>1 DEF InBuffer
  <2>2. CASE m = n + 1
    <3>1. Start(s, m) = g[n] /\ f[m - 1].offset = o /\ s[m] = v
      BY <1>1, <2>2 DEF Start
    <3>2. Start(s, m) - f[m - 1].offset = Bytes(c)
      BY <1>2, <1>7, <3>1
    <3> QED
      BY <1>4, <3>1, <3>2
  <2> QED
    BY <1>9, <2>1, <2>2
<1>11. /\ Len(d) = Len(c) + 1 /\ Len(c) \in Nat /\ d[Len(c) + 1] = v
       /\ \A q \in 1..Len(c) : d[q] = c[q]
  BY ONLY <1>1, <1>2, <1>3, v \in Sized, AppendProperties, SMTT(30)
<1>12. \A q : q \in 1..Len(d) <=> (q \in 1..Len(c) \/ q = Len(c) + 1)
  BY <1>11, SMTT(30)
<1>13. n + 1 \in 1..(n + 1)
  OBVIOUS
<1>14. ASSUME NEW q \in 1..Len(d) PROVE \E i \in 1..(n + 1) : Kept(s, tags, i) /\ d[q] = s[i]
  <2>1. CASE q \in 1..Len(c)
    <3>1. PICK i \in 1..n : Kept(s, tags, i) /\ c[q] = s[i]
      BY <1>2, <2>1 DEF InBuffer
    <3> QED
      BY <1>9, <1>11, <2>1, <3>1
  <2>2. CASE q = Len(c) + 1
    <3>1. d[q] = s[n + 1]
      BY <1>11, <2>2
    <3> QED
      BY <1>13, <3>1
  <2> QED
    BY <1>12, <2>1, <2>2
<1>15. ASSUME NEW q \in 1..Len(d), NEW r \in 1..Len(d), q < r
       PROVE  \E i, j \in 1..(n + 1) : i < j /\ d[q] = s[i] /\ d[r] = s[j]
  <2>1. q \in 1..Len(c)
    BY <1>11, <1>12, <1>15
  <2>2. CASE r \in 1..Len(c)
    <3>1. PICK i \in 1..n, j \in 1..n : i < j /\ c[q] = s[i] /\ c[r] = s[j]
      BY <1>2, <1>15, <2>1, <2>2 DEF InBuffer
    <3> QED
      BY <1>9, <1>11, <2>1, <2>2, <3>1
  <2>3. CASE r = Len(c) + 1
    <3>1. PICK i \in 1..n : c[q] = s[i]
      BY <1>2, <2>1 DEF InBuffer
    <3>2. i \in 1..(n + 1) /\ i < n + 1 /\ d[q] = s[i] /\ d[r] = s[n + 1]
      BY <1>11, <2>1, <2>3, <3>1
    <3> QED
      BY <1>13, <3>2
  <2> QED
    BY <1>12, <2>2, <2>3
<1>16. InBuffer(d, f, s, tags, n + 1)
  BY <1>10, <1>14, <1>15 DEF InBuffer
<1> QED
  BY <1>5, <1>8, <1>16 DEF Packed

\* A record that is not kept only counts.
LEMMA PackedDropped ==
  ASSUME NEW s \in Seq(Sized), NEW tags, NEW f, NEW n \in Nat, n < Len(s), Packed(f, s, tags, n),
         f[n + 1] = CompactStep(f[n], s, tags, n + 1), ~Kept(s, tags, n + 1)
  PROVE  Packed(f, s, tags, n + 1)
<1> PICK v : v = s[n + 1]
  OBVIOUS
<1> PICK c : c = f[n].buffer
  OBVIOUS
<1> PICK o : o = f[n].offset
  OBVIOUS
<1> PICK g : g = Sums(Lengths(s))
  OBVIOUS
<1>1. /\ n + 1 \in 1..Len(s) /\ (n + 1) - 1 = n /\ v.length \in Nat
      /\ Lengths(s) \in Seq(Nat) /\ Len(Lengths(s)) = Len(s) /\ Len(s) \in Nat /\ Lengths(s)[n + 1] = v.length
  <2>1. Len(s) \in Nat
    BY LenProperties
  <2>2. n + 1 \in 1..Len(s) /\ (n + 1) - 1 = n
    BY <2>1
  <2> QED
    BY <2>1, <2>2, LengthsAre
<1>2. f[n] \in [buffer : Seq(Sized), offset : Nat] /\ c \in Seq(Sized) /\ o \in Nat /\ Bytes(c) + o = g[n] /\ InBuffer(c, f, s, tags, n)
  BY DEF Packed
<1>3. f[n + 1] = [f[n] EXCEPT !.offset = o + v.length]
  BY DEF CompactStep
<1>4. f[n + 1].buffer = c /\ f[n + 1].offset = o + v.length /\ f[n + 1] \in [buffer : Seq(Sized), offset : Nat]
  <2> PICK y : y = o + v.length
    OBVIOUS
  <2>1. y \in Nat /\ f[n + 1] = [f[n] EXCEPT !.offset = y]
    BY <1>1, <1>2, <1>3
  <2> QED
    BY <1>2, <2>1
<1>5. g[n + 1] = g[n] + v.length
  BY <1>1, SumsAre
<1>6. Bytes(c) \in Nat
  BY <1>2, StartsRise
<1>7. Bytes(c) + f[n + 1].offset = g[n + 1]
  BY <1>1, <1>2, <1>4, <1>5, <1>6
<1>8. \A x : x \in 1..(n + 1) <=> (x \in 1..n \/ x = n + 1)
  OBVIOUS
<1>9. \A m \in 1..(n + 1) : Kept(s, tags, m) => At(c, Start(s, m) - f[m - 1].offset, s[m].name)
  BY <1>2, <1>8 DEF InBuffer
<1>10. \A q \in 1..Len(c) : \E i \in 1..(n + 1) : Kept(s, tags, i) /\ c[q] = s[i]
  BY <1>2, <1>8 DEF InBuffer
<1>11. \A q, r \in 1..Len(c) : q < r => \E i, j \in 1..(n + 1) : i < j /\ c[q] = s[i] /\ c[r] = s[j]
  BY <1>2, <1>8 DEF InBuffer
<1>12. InBuffer(c, f, s, tags, n + 1)
  BY <1>9, <1>10, <1>11 DEF InBuffer
<1> QED
  BY <1>4, <1>7, <1>12 DEF Packed

\* The compaction of any records.
LEMMA CompactPacks ==
  ASSUME NEW s \in Seq(Sized), NEW tags
  PROVE  \A n \in 0..Len(s) : Packed(Compact(s, tags), s, tags, n)
<1> PICK f : f = Compact(s, tags)
  OBVIOUS
<1> PICK N : N = Len(s)
  OBVIOUS
<1>1. N \in Nat /\ N \in 0..N
  BY LenProperties
<1>2. /\ f[0] = [buffer |-> <<>>, offset |-> 0]
      /\ \A k \in 1..N : f[k] = CompactStep(f[k - 1], s, tags, k)
  BY <1>1, CompactIs
<1> DEFINE S == {n \in 0..N : Packed(f, s, tags, n)}
<1>3. 0 \in S
  <2>1. f[0].buffer = <<>> /\ f[0].offset = 0 /\ f[0] \in [buffer : Seq(Sized), offset : Nat]
    <3>1. <<>> \in Seq(Sized)
      BY NoneIs
    <3> PICK y : y = <<>>
      OBVIOUS
    <3>2. f[0] = [buffer |-> y, offset |-> 0] /\ y \in Seq(Sized)
      BY <1>2, <3>1
    <3>3. f[0].buffer = y /\ f[0].offset = 0 /\ f[0] \in [buffer : Seq(Sized), offset : Nat]
      BY <3>2
    <3> QED
      BY <3>3
  <2>2. Sums(Lengths(s))[0] = 0
    <3>1. Len(Lengths(s)) \in Nat
      BY LengthsAre
    <3> QED
      BY <3>1, SumsAre
  <2>3. Bytes(<<>>) = 0 /\ Len(<<>>) = 0 /\ 1..0 = {}
    BY NoneIs
  <2>4. Bytes(f[0].buffer) + f[0].offset = Sums(Lengths(s))[0] /\ 1..Len(f[0].buffer) = {}
    BY <2>1, <2>2, <2>3
  <2>5. InBuffer(f[0].buffer, f, s, tags, 0)
    BY <2>3, <2>4 DEF InBuffer
  <2>6. Packed(f, s, tags, 0)
    BY <2>1, <2>4, <2>5 DEF Packed
  <2> QED
    BY <1>1, <2>6
<1>4. ASSUME NEW k \in 0..N, k \in S, k < N PROVE k + 1 \in S
  <2>1. k + 1 \in 1..N /\ k + 1 \in 0..N /\ (k + 1) - 1 = k /\ k \in Nat
    BY <1>1, <1>4
  <2>2. f[k + 1] = CompactStep(f[k], s, tags, k + 1) /\ Packed(f, s, tags, k)
    BY <1>2, <1>4, <2>1
  <2>3. Packed(f, s, tags, k + 1)
    BY <1>4, <2>1, <2>2, PackedKept, PackedDropped
  <2> QED
    BY <2>1, <2>3
<1> HIDE DEF S
<1>5. \A k \in 0..N : k \in S
  BY <1>1, <1>3, <1>4, Climb
<1> QED
  BY <1>1, <1>5 DEF S

-----------------------------------------------------------------------------
(* A new vertex *)

\* W: the blocks V with the record v at the end of the last one, the K-th, which may be a
\* new one; last: that block before.
AddsTo(V, W, K, last, v) ==
  /\ K \in {Len(V), Len(V) + 1} /\ K > 0 /\ Len(W) = K /\ W \in Seq(Block)
  /\ last \in Block /\ last.position = Bytes(last.data) /\ last.position + v.length <= BlockSize
  /\ K = Len(V) => last = V[K]
  /\ \A k \in 1..(K - 1) : W[k] = V[k]
  /\ W[K].data = Append(last.data, v) /\ W[K].position = last.position + v.length

\* A new vertex is named by the offset behind all others, and moves none of them.
LEMMA AddedIs ==
  ASSUME NEW V, Filled(V), NEW W, NEW K, NEW last, NEW v \in Sized, AddsTo(V, W, K, last, v), NEW pal \in Seq(Sized)
  PROVE  /\ Filled(W)
         /\ \A o, u : Named(pal, V, o, u) => Named(pal, W, o, u)
         /\ Named(pal, W, (HeadSize + Bytes(pal)) + (Sums(Counts(V))[K - 1] + last.position), v.name)
<1> PICK N : N = Len(V)
  OBVIOUS
<1> PICK d : d = Append(last.data, v)
  OBVIOUS
<1>1. /\ N \in Nat /\ Counts(V) \in Seq(Nat) /\ Len(Counts(V)) = N
      /\ \A k \in 1..N : /\ V[k].data \in Seq(Sized) /\ V[k].position \in Nat
                         /\ V[k].position = Bytes(V[k].data) /\ Counts(V)[k] = V[k].position
                         /\ V[k].position <= BlockSize /\ V[k].data # <<>>
  BY BlocksAre DEF Filled
<1>2. /\ K \in {N, N + 1} /\ K > 0 /\ Len(W) = K /\ W \in Seq(Block)
      /\ last.position = Bytes(last.data) /\ last.position + v.length <= BlockSize
      /\ (K = N => last = V[K])
      /\ \A k \in 1..(K - 1) : W[k] = V[k]
      /\ W[K].data = d /\ W[K].position = last.position + v.length
  BY DEF AddsTo
<1>3. last.data \in Seq(Sized) /\ last.position \in Nat
  <2>1. last \in Block
    BY DEF AddsTo
  <2> QED
    BY <2>1 DEF Block
<1>4. /\ d \in Seq(Sized) /\ Bytes(d) = Bytes(last.data) + v.length
      /\ \A b, u : At(last.data, b, u) => At(d, b, u)
      /\ At(d, Bytes(last.data), v.name) /\ d # <<>>
  <2> PICK c : c = last.data
    OBVIOUS
  <2>1. c \in Seq(Sized) /\ v \in Sized /\ d = Append(c, v)
    BY <1>3
  <2>2. /\ d \in Seq(Sized) /\ Bytes(d) = Bytes(c) + v.length
        /\ \A b, u : At(c, b, u) => At(d, b, u)
        /\ At(d, Bytes(c), v.name) /\ d # <<>>
    BY ONLY <2>1, Appended, Zenon
  <2> QED
    BY <2>2
<1>5. K \in Nat /\ K - 1 <= N /\ K - 1 \in Nat /\ \A k : k \in 1..K <=> (k \in 1..(K - 1) \/ k = K)
  BY <1>1, <1>2
<1>6. Filled(W)
  <2>1. ASSUME NEW k \in 1..K PROVE W[k].position = Bytes(W[k].data) /\ W[k].position <= BlockSize /\ W[k].data # <<>>
    <3>1. CASE k \in 1..(K - 1)
      <4>1. k \in 1..N /\ W[k] = V[k]
        BY <1>1, <1>2, <1>5, <3>1
      <4> QED
        BY <1>1, <4>1
    <3>2. CASE k = K
      BY <1>2, <1>4, <3>2
    <3> QED
      BY <1>5, <3>1, <3>2
  <2> QED
    BY <1>2, <2>1 DEF Filled
<1>7. Counts(W) \in Seq(Nat) /\ Len(Counts(W)) = K /\ \A k \in 1..K : Counts(W)[k] = W[k].position
  BY <1>2, <1>6, BlocksAre
<1>8. \A k \in 1..K : Skipped(W, k) = Skipped(V, k)
  <2> PICK c : c = Counts(V)
    OBVIOUS
  <2> PICK e : e = Counts(W)
    OBVIOUS
  <2> PICK m : m = K - 1
    OBVIOUS
  <2>1. \A k \in 1..m : c[k] = e[k]
    <3> SUFFICES ASSUME NEW k \in 1..m PROVE c[k] = e[k]
      OBVIOUS
    <3>1. k \in 1..N /\ k \in 1..K /\ W[k] = V[k]
      BY <1>1, <1>2, <1>5
    <3> QED
      BY <1>1, <1>7, <3>1
  <2>2. m \in Nat /\ m <= Len(c) /\ m <= Len(e) /\ c \in Seq(Nat) /\ e \in Seq(Nat)
    BY <1>1, <1>5, <1>7
  <2>3. \A k \in 0..m : Sums(c)[k] = Sums(e)[k]
    BY <2>1, <2>2, SumsAgree
  <2>4. \A k \in 1..K : k - 1 \in 0..m
    BY <1>5
  <2> QED
    BY <2>3, <2>4 DEF Skipped
<1>9. ASSUME NEW o, NEW u, Named(pal, V, o, u) PROVE Named(pal, W, o, u)
  <2>1. ASSUME NEW k \in 1..N, At(V[k].data, ((o - HeadSize) - Bytes(pal)) - Skipped(V, k), u)
        PROVE  k \in 1..K /\ At(W[k].data, ((o - HeadSize) - Bytes(pal)) - Skipped(W, k), u)
    <3>1. k \in 1..K
      BY <1>1, <1>2
    <3>2. CASE k # K
      <4>1. k \in 1..(K - 1) /\ W[k] = V[k]
        BY <1>2, <1>5, <3>1, <3>2
      <4> QED
        BY <1>8, <2>1, <3>1, <4>1
    <3>3. CASE k = K
      <4>1. K = N /\ V[k] = last
        BY <1>1, <1>2, <3>3
      <4> QED
        BY <1>2, <1>4, <1>8, <2>1, <3>1, <3>3, <4>1
    <3> QED
      BY <3>2, <3>3
  <2> QED
    BY <1>2, <1>9, <2>1 DEF Named
<1>10. Named(pal, W, (HeadSize + Bytes(pal)) + (Sums(Counts(V))[K - 1] + last.position), v.name)
  <2> PICK p : p = Sums(Counts(V))[K - 1]
    OBVIOUS
  <2> PICK B : B = Bytes(pal)
    OBVIOUS
  <2> PICK o : o = (HeadSize + B) + (p + last.position)
    OBVIOUS
  <2>1. K \in 1..K /\ Skipped(W, K) = p
    <3>1. K \in 1..K
      BY <1>2, <1>5
    <3> QED
      BY <1>8, <3>1 DEF Skipped
  <2>2. p \in Nat
    <3>1. K - 1 \in 0..Len(Counts(V))
      BY <1>1, <1>5
    <3> QED
      BY <1>1, <3>1, SumsRise
  <2>3. HeadSize = 8 /\ B \in Nat
    BY StartsRise DEF HeadSize
  <2>4. o \in Nat /\ ((o - HeadSize) - B) - p = last.position
    <3> PICK q : q = last.position
      OBVIOUS
    <3>1. q \in Nat /\ o = (8 + B) + (p + q) /\ HeadSize = 8
      BY <1>3, <2>3
    <3>2. o \in Nat /\ ((o - 8) - B) - p = q
      BY ONLY <2>2, <2>3, <3>1
    <3> QED
      BY <3>1, <3>2
  <2>5. At(W[K].data, ((o - HeadSize) - B) - Skipped(W, K), v.name)
    BY <1>2, <1>4, <2>1, <2>4
  <2>6. Named(pal, W, o, v.name)
    BY <1>2, <2>1, <2>4, <2>5 DEF Named
  <2> QED
    BY <2>6
<1> QED
  BY <1>6, <1>9, <1>10

\* What prf_model_add_vertex does to the blocks, and the offset it returns.
Chained(V, len) ==
  LET pools == IF V = <<>> THEN <<NewPool>> ELSE V
  IN IF BlockSize - pools[Len(pools)].position < len THEN Append(pools, NewPool) ELSE pools

\* prf_model_add_vertex adds to the last block, or to a new one when that is full.
LEMMA ChainIs ==
  ASSUME NEW V, Filled(V), NEW v \in Sized, v.length <= BlockSize, NEW c, c = Chained(V, v.length), NEW W,
         W = [c EXCEPT ![Len(c)] = [data |-> Append(c[Len(c)].data, v), position |-> c[Len(c)].position + v.length]]
  PROVE  /\ AddsTo(V, W, Len(c), c[Len(c)], v)
         /\ Positions(IF V = <<>> THEN <<NewPool>> ELSE V) = Sums(Counts(V))[Len(c) - 1] + c[Len(c)].position
<1> PICK N : N = Len(V)
  OBVIOUS
<1> PICK new : new = NewPool
  OBVIOUS
<1> PICK P : P = IF V = <<>> THEN <<new>> ELSE V
  OBVIOUS
<1> PICK K : K = Len(c)
  OBVIOUS
<1> PICK last : last = c[K]
  OBVIOUS
<1> PICK z : z = [data |-> Append(last.data, v), position |-> last.position + v.length]
  OBVIOUS
<1>1. /\ V \in Seq(Block) /\ N \in Nat /\ Counts(V) \in Seq(Nat) /\ Len(Counts(V)) = N
      /\ \A k \in 1..N : /\ V[k].position \in Nat /\ V[k] \in Block
                         /\ V[k].position = Bytes(V[k].data) /\ Counts(V)[k] = V[k].position
  <2>1. V \in Seq(Block)
    BY DEF Filled
  <2> QED
    BY <2>1, BlocksAre, ElementOfSeq
<1>2. new \in Block /\ new.position = 0 /\ Bytes(new.data) = 0
  <2>1. <<>> \in Seq(Sized) /\ Bytes(<<>>) = 0
    BY NoneIs
  <2> PICK e : e = <<>>
    OBVIOUS
  <2>2. new = [data |-> e, position |-> 0] /\ e \in Seq(Sized) /\ Bytes(e) = 0
    BY <2>1 DEF NewPool
  <2> QED
    BY <2>2 DEF Block
<1>3. BlockSize \in Nat /\ v.length \in Nat
  BY PaletteAssumption DEF Sized
<1>4. c = IF BlockSize - P[Len(P)].position < v.length THEN Append(P, new) ELSE P
  BY DEF Chained
<1>5. Sums(Counts(V))[0] = 0
  BY <1>1, SumsAre
<1>6. /\ c \in Seq(Block) /\ K \in {N, N + 1} /\ K > 0 /\ (K = N => last = V[K])
      /\ \A k \in 1..(K - 1) : c[k] = V[k]
      /\ last.position + v.length <= BlockSize /\ last.position = Bytes(last.data)
      /\ Positions(P) = Sums(Counts(V))[K - 1] + last.position
  <2>1. CASE V = <<>>
    <3>1. N = 0 /\ P = <<new>> /\ Len(P) = 1 /\ P[1] = new
      BY <2>1
    <3>2. c = P /\ K = 1 /\ last = new
      BY <1>2, <1>3, <1>4, <3>1
    <3>3. c \in Seq(Block)
      BY <1>2, <3>1, <3>2
    <3>4. Positions(P) = 0
      <4> PICK w : w = Counts(P)
        OBVIOUS
      <4>1. w = [k \in 1..1 |-> P[k].position]
        BY <3>1 DEF Counts
      <4>2. w \in Seq(Nat) /\ Len(w) = 1 /\ w[1] = 0
        <5>1. \A k \in 1..1 : k = 1
          OBVIOUS
        <5>2. w \in [1..1 -> Nat] /\ w[1] = 0
          BY <1>2, <3>1, <4>1, <5>1
        <5>3. w \in Seq(Nat) /\ Len(w) = 1
          <6> PICK m : m = 1
            OBVIOUS
          <6>1. m \in Nat /\ w \in [1..m -> Nat]
            BY <5>2
          <6>2. w \in Seq(Nat) /\ Len(w) = m
            BY ONLY <6>1
          <6> QED
            BY <6>2
        <5> QED
          BY ONLY <5>2, <5>3
      <4>3. Len(w) \in Nat /\ 1 \in 1..Len(w) /\ 1 - 1 = 0
        BY <4>2
      <4>4. Sums(w)[1] = 0
        BY <4>2, <4>3, SumsAre
      <4> QED
        BY <3>1, <4>4 DEF Positions
    <3>5. 1..(K - 1) = {} /\ K - 1 = 0
      BY <3>2
    <3> QED
      BY <1>2, <1>3, <1>5, <3>1, <3>2, <3>3, <3>4, <3>5
  <2>2. CASE V # <<>>
    <3>1. P = V /\ N > 0 /\ N \in 1..N
      BY <1>1, <2>2
    <3>2. Positions(P) = Sums(Counts(V))[N]
      BY <3>1 DEF Positions
    <3>3. CASE BlockSize - V[N].position < v.length
      <4>1. c = Append(V, new)
        BY <1>4, <3>1, <3>3
      <4>2. c \in Seq(Block) /\ K = N + 1 /\ last = new /\ \A k \in 1..N : c[k] = V[k]
        BY <1>1, <1>2, <4>1, AppendProperties
      <4>3. K - 1 = N /\ Sums(Counts(V))[N] \in Nat
        <5>1. N \in 0..Len(Counts(V))
          BY <1>1
        <5> QED
          BY <1>1, <4>2, <5>1, SumsRise
      <4> QED
        BY <1>1, <1>2, <1>3, <3>2, <4>2, <4>3
    <3>4. CASE ~(BlockSize - V[N].position < v.length)
      <4>1. c = V /\ K = N /\ last = V[N]
        BY <1>4, <3>1, <3>4
      <4>2. Sums(Counts(V))[N] = Sums(Counts(V))[N - 1] + Counts(V)[N]
        BY <1>1, <3>1, SumsAre
      <4>3. last.position \in Nat /\ last.position = Bytes(last.data) /\ Counts(V)[N] = last.position
        BY <1>1, <3>1, <4>1
      <4> QED
        BY <1>1, <1>3, <3>1, <3>2, <3>4, <4>1, <4>2, <4>3
    <3> QED
      BY <3>3, <3>4
  <2> QED
    BY <2>1, <2>2
<1>7. K \in Nat /\ K \in 1..K /\ last \in Block
  <2>1. K \in 1..K /\ K \in Nat
    BY <1>1, <1>6
  <2> QED
    BY <1>6, <2>1, ElementOfSeq
<1>8. z \in Block /\ z.data = Append(last.data, v) /\ z.position = last.position + v.length
  <2> PICK d : d = Append(last.data, v)
    OBVIOUS
  <2> PICK p : p = last.position + v.length
    OBVIOUS
  <2>1. last.data \in Seq(Sized) /\ last.position \in Nat
    BY <1>7 DEF Block
  <2>2. d \in Seq(Sized) /\ p \in Nat
    BY <1>3, <2>1, AppendProperties
  <2>3. z = [data |-> d, position |-> p]
    OBVIOUS
  <2>4. z \in Block
    BY ONLY <2>2, <2>3 DEF Block
  <2>5. z.data = d /\ z.position = p
    BY ONLY <2>3
  <2> QED
    BY <2>4, <2>5
<1>9. W = [c EXCEPT ![K] = z]
  OBVIOUS
<1>21. c \in Seq(Block) /\ K = Len(c) /\ K \in Nat /\ K \in 1..K /\ z \in Block
  BY <1>6, <1>7, <1>8
<1>22. Len(W) = K /\ \A k \in 1..K : W[k] = IF k = K THEN z ELSE c[k]
  BY <1>9, <1>21
<1>23. W \in Seq(Block)
  BY <1>9, <1>21
<1>10. W \in Seq(Block) /\ Len(W) = K /\ W[K] = z /\ \A k \in 1..(K - 1) : W[k] = c[k]
  <2>1. \A k \in 1..(K - 1) : k \in 1..K /\ k # K
    BY ONLY <1>21
  <2>2. W[K] = z
    BY ONLY <1>21, <1>22
  <2>3. \A k \in 1..(K - 1) : W[k] = c[k]
    BY ONLY <1>22, <2>1
  <2> QED
    BY ONLY <1>22, <1>23, <2>2, <2>3
<1>11. AddsTo(V, W, K, last, v)
  BY <1>6, <1>7, <1>8, <1>10 DEF AddsTo
<1> QED
  BY <1>6, <1>11

-----------------------------------------------------------------------------
(* The invariant *)

\* The offsets os name the vertices ms.
ListNamed(pal, pools, os, ms) ==
  /\ os \in Seq(Nat) /\ ms \in Seq(1..MaxVertices) /\ Len(os) = Len(ms)
  /\ \A i \in 1..Len(ms) : Named(pal, pools, os[i], ms[i])
PaletteOK == palette \in Seq(Sized) /\ length = HeadSize + Bytes(palette) /\ known \in BOOLEAN /\ Filled(vertextras)
ListsOK ==
  /\ offsets \in [List -> Seq(Nat)] /\ meant \in [List -> Seq(1..MaxVertices)]
  /\ deleted \subseteq List /\ made \in 0..MaxVertices
  /\ \A l \in List \ deleted : ListNamed(palette, vertextras, offsets[l], meant[l])
HandedOK == \A h \in handed : Named(palette, vertextras, h[1], h[2])
FileOK ==
  /\ file.records \in Seq(Sized) /\ file.length = HeadSize + Bytes(file.records)
  /\ DOMAIN file.lists \subseteq List
  /\ \A l \in DOMAIN file.lists : ListNamed(file.records, <<>>, file.lists[l].offset, file.lists[l].of)
PInv == PaletteOK /\ ListsOK /\ HandedOK /\ FileOK

\* A list goes on naming its vertices when its offsets do.
LEMMA ListStays ==
  ASSUME NEW pal, NEW pools, NEW pal2, NEW pools2, NEW os, NEW ms, ListNamed(pal, pools, os, ms),
         \A o, v : Named(pal, pools, o, v) => Named(pal2, pools2, o, v)
  PROVE  ListNamed(pal2, pools2, os, ms)
  BY DEF ListNamed

\* A function on 1..k is a sequence.
LEMMA SeqOf ==
  ASSUME NEW S, NEW k \in Nat, NEW f \in [1..k -> S]
  PROVE  f \in Seq(S) /\ Len(f) = k
  OBVIOUS

\* No blocks.
LEMMA NoBlocks == Filled(<<>>) /\ Len(<<>>) = 0
<1> PICK e : e = <<>>
  OBVIOUS
<1>1. e \in Seq(Block) /\ Len(e) = 0 /\ 1..0 = {}
  OBVIOUS
<1> QED
  BY <1>1 DEF Filled

\* Names in one palette.
LEMMA NamedAlone ==
  ASSUME NEW pal, NEW o \in Nat, NEW v, At(pal, o - HeadSize, v)
  PROVE  Named(pal, <<>>, o, v)
  BY DEF Named

\* After save, clone and load the blocks are part of the palette.
LEMMA NamedStored ==
  ASSUME PaletteOK, NEW o, NEW v, Named(palette, vertextras, o, v)
  PROVE  Named(Stored, <<>>, o, v)
<1>1. At(Stored, o - HeadSize, v)
  BY StoredIs DEF PaletteOK
<1>2. o \in Nat
  BY DEF Named
<1> QED
  BY <1>1, <1>2, NamedAlone

\* Offsets that name something.
LEMMA NamedIs ==
  ASSUME NEW pal \in Seq(Sized), NEW pools, Filled(pools), NEW o, NEW v, Named(pal, pools, o, v)
  PROVE  o \in Nat /\ v \in 1..MaxVertices
<1>1. o \in Nat
  BY DEF Named
<1>2. CASE At(pal, o - HeadSize, v)
  BY <1>1, <1>2, AtIs
<1>3. ASSUME NEW k \in 1..Len(pools), NEW n, At(pools[k].data, n, v) PROVE v \in 1..MaxVertices
  <2>1. pools[k].data \in Seq(Sized)
    BY BlocksAre
  <2> QED
    BY <1>3, <2>1, AtIs
<1> QED
  BY <1>1, <1>2, <1>3 DEF Named

\* A loaded model.
LEMMA InitPInv == PaletteInit => PInv
<1> SUFFICES ASSUME PaletteInit PROVE PInv
  OBVIOUS
<1>1. PICK n \in 0..MaxLoaded :
        /\ \E kinds \in [1..n -> Opcodes] : palette = [i \in 1..n |-> Vertex(kinds[i], i)]
        /\ length = HeadSize + Bytes(palette)
        /\ known = FALSE /\ vertextras = <<>>
        /\ deleted = {} /\ handed = {} /\ made = n
        /\ meant \in [List -> UNION {[1..k -> 1..n] : k \in 0..MaxEntries}]
        /\ offsets = [l \in List |-> [i \in DOMAIN meant[l] |-> HeadSize + Start(palette, meant[l][i])]]
        /\ file = NoFile
  BY Zenon DEF PaletteInit
<1>2. PICK kinds \in [1..n -> Opcodes] : palette = [i \in 1..n |-> Vertex(kinds[i], i)]
  BY <1>1
<1>3. n \in Nat /\ MaxVertices \in Nat /\ n <= MaxVertices /\ MaxEntries \in Nat
  BY PaletteAssumption
<1>4. palette \in Seq(Sized) /\ Len(palette) = n /\ \A i \in 1..n : palette[i].name = i
  <2>1. ASSUME NEW i \in 1..n PROVE palette[i] \in Sized /\ palette[i].name = i
    <3>1. kinds[i] \in 68..71 /\ i \in 1..MaxVertices
      <4>1. kinds[i] \in Opcodes
        BY ONLY kinds \in [1..n -> Opcodes], i \in 1..n
      <4>2. Opcodes \subseteq 68..71
        BY PaletteAssumption
      <4>3. kinds[i] \in 68..71
        BY ONLY <4>1, <4>2
      <4>4. i \in 1..MaxVertices
        BY <1>3
      <4> QED
        BY <4>3, <4>4
    <3>2. VertexLength(kinds[i]) \in Nat \ {0}
      BY <3>1 DEF VertexLength
    <3>3. palette[i] = [name |-> i, length |-> VertexLength(kinds[i])]
      BY <1>2 DEF Vertex
    <3> QED
      BY <3>1, <3>2, <3>3 DEF Sized
  <2>2. palette \in [1..n -> Sized]
    BY <1>2, <2>1
  <2> QED
    BY <1>3, <2>1, <2>2
<1>5. PaletteOK
  <2>1. Filled(vertextras)
    BY <1>1, NoBlocks
  <2> QED
    BY <1>1, <1>4, <2>1 DEF PaletteOK
<1>6. ASSUME NEW l \in List
      PROVE  ListNamed(palette, vertextras, offsets[l], meant[l]) /\ meant[l] \in Seq(1..MaxVertices) /\ offsets[l] \in Seq(Nat)
  <2> PICK m : m = meant[l]
    OBVIOUS
  <2> DEFINE X == UNION {[1..k -> 1..n] : k \in 0..MaxEntries}
  <2>0. m \in X
    <3> HIDE DEF X
    <3>1. meant \in [List -> X]
      BY <1>1 DEF X
    <3> QED
      BY <3>1
  <2>1. PICK k \in 0..MaxEntries : m \in [1..k -> 1..n]
    BY ONLY <2>0, Zenon
  <2> HIDE DEF X
  <2>2. k \in Nat /\ DOMAIN m = 1..k /\ \A i \in 1..k : m[i] \in 1..n /\ m[i] \in 1..MaxVertices
    BY <1>3, <2>1
  <2>3. m \in Seq(1..MaxVertices) /\ Len(m) = k
    <3>1. m \in [1..k -> 1..MaxVertices]
      BY <2>1, <2>2
    <3> QED
      BY ONLY <2>2, <3>1, SeqOf
  <2> PICK o : o = offsets[l]
    OBVIOUS
  <2>4. o = [i \in 1..k |-> HeadSize + Start(palette, m[i])]
    BY <1>1, <2>2
  <2>5. \A i \in 1..k : Start(palette, m[i]) \in Nat /\ At(palette, Start(palette, m[i]), m[i])
    <3> SUFFICES ASSUME NEW i \in 1..k
                 PROVE  Start(palette, m[i]) \in Nat /\ At(palette, Start(palette, m[i]), m[i])
      OBVIOUS
    <3>1. m[i] \in 1..Len(palette) /\ palette[m[i]].name = m[i]
      BY <1>4, <2>2
    <3>2. Start(palette, m[i]) \in Nat
      BY <1>4, <3>1, StartsRise
    <3> QED
      BY <3>1, <3>2 DEF At
  <2>6. \A i \in 1..k : o[i] \in Nat /\ o[i] - HeadSize = Start(palette, m[i])
    BY <2>4, <2>5 DEF HeadSize
  <2>7. o \in Seq(Nat) /\ Len(o) = k
    <3>1. o \in [1..k -> Nat]
      BY <2>4, <2>6
    <3> QED
      BY ONLY <2>2, <3>1, SeqOf
  <2>8. \A i \in 1..k : Named(palette, vertextras, o[i], m[i])
    BY <2>5, <2>6 DEF Named
  <2> QED
    BY <2>3, <2>7, <2>8 DEF ListNamed
<1>7. ListsOK
  <2>1. meant \in [List -> Seq(1..MaxVertices)] /\ offsets \in [List -> Seq(Nat)]
    <3>1. DOMAIN meant = List /\ meant = [l \in List |-> meant[l]]
      BY <1>1
    <3>2. offsets = [l \in List |-> offsets[l]]
      BY <1>1
    <3> QED
      BY <1>6, <3>1, <3>2
  <2> QED
    <3>1. deleted \subseteq List /\ List \ deleted = List /\ made \in 0..MaxVertices
      BY <1>1, <1>3
    <3>2. \A l \in List \ deleted : ListNamed(palette, vertextras, offsets[l], meant[l])
      BY <1>6, <3>1
    <3> QED
      BY <2>1, <3>1, <3>2 DEF ListsOK
<1>8. HandedOK
  BY <1>1 DEF HandedOK
<1>9. FileOK
  <2>1. <<>> \in Seq(Sized) /\ Bytes(<<>>) = 0 /\ HeadSize + 0 = HeadSize
    BY NoneIs DEF HeadSize
  <2>2. DOMAIN <<>> = {}
    OBVIOUS
  <2>3. file.records = <<>> /\ file.length = HeadSize /\ file.lists = <<>>
    BY <1>1 DEF NoFile
  <2> QED
    BY <2>1, <2>2, <2>3 DEF FileOK
<1> QED
  BY <1>5, <1>7, <1>8, <1>9 DEF PInv

\* A vertex that a list mentions is in the buffer, where vt_fix_cb looks for it.
LEMMA CompactMoves ==
  ASSUME NEW s \in Seq(Sized), NEW tags, NEW o, o \in Nat, NEW v, At(s, o - HeadSize, v), o \in tags
  PROVE  Named(Compact(s, tags)[Len(s)].buffer, <<>>, Moved(s, tags, o), v)
<1> PICK f : f = Compact(s, tags)
  OBVIOUS
<1> PICK N : N = Len(s)
  OBVIOUS
<1>1. N \in Nat
  BY LenProperties
<1>2. \A n \in 0..N : Packed(f, s, tags, n)
  BY CompactPacks
<1>3. PICK m \in 1..N : Start(s, m) = o - HeadSize /\ s[m].name = v
  BY DEF At
<1>4. m - 1 \in 0..N /\ m \in Nat /\ (m - 1) + 1 = m /\ m - 1 # N /\ N \in 0..N
  BY <1>1, <1>3
<1>5. Passed(s, o - HeadSize) = m - 1
  BY <1>3, <1>4, PassedIs
<1> PICK off : off = f[m - 1].offset
  OBVIOUS
<1>6. off \in Nat
  <2>1. f[m - 1] \in [buffer : Seq(Sized), offset : Nat]
    BY <1>2, <1>4 DEF Packed
  <2> QED
    BY <2>1
<1>7. Moved(s, tags, o) = o - off
  BY <1>5 DEF Moved
<1>8. o \in Int /\ HeadSize + (o - HeadSize) = o
  BY DEF HeadSize
<1>9. Kept(s, tags, m)
  BY <1>3, <1>8 DEF Kept
<1> PICK c : c = f[N].buffer
  OBVIOUS
<1>10. c \in Seq(Sized) /\ InBuffer(c, f, s, tags, N)
  <2>1. Packed(f, s, tags, N)
    BY <1>2, <1>4
  <2>2. f[N] \in [buffer : Seq(Sized), offset : Nat] /\ InBuffer(f[N].buffer, f, s, tags, N)
    BY <2>1 DEF Packed
  <2> QED
    BY <2>2
<1>11. At(c, Start(s, m) - off, v)
  BY <1>3, <1>9, <1>10 DEF InBuffer
<1>12. Start(s, m) - off \in Nat
  BY <1>10, <1>11, AtIs
<1>13. o - off \in Nat /\ (o - off) - HeadSize = Start(s, m) - off
  BY <1>3, <1>6, <1>12, SMTT(30) DEF HeadSize
<1> QED
  BY <1>7, <1>11, <1>13, NamedAlone

\* What the compaction leaves.
LEMMA CompactLeaves ==
  ASSUME NEW s \in Seq(Sized), NEW tags, NEW d, d = Compact(s, tags)[Len(s)]
  PROVE  d.buffer \in Seq(Sized) /\ d.offset \in Nat /\ Bytes(s) = Bytes(d.buffer) + d.offset
<1>1. Len(s) \in 0..Len(s)
  BY LenProperties
<1>2. Packed(Compact(s, tags), s, tags, Len(s))
  BY <1>1, CompactPacks
<1>3. /\ d \in [buffer : Seq(Sized), offset : Nat]
      /\ Bytes(d.buffer) + d.offset = Sums(Lengths(s))[Len(s)]
  BY <1>2 DEF Packed
<1> QED
  BY <1>3 DEF Bytes

-----------------------------------------------------------------------------
(* The steps *)

\* Entering the palette node.
LEMMA EntryStep == PInv /\ prf_vertex_palette_entry_f => PInv'
<1> SUFFICES ASSUME PInv, prf_vertex_palette_entry_f PROVE PInv'
  OBVIOUS
<1>1. /\ known' \in BOOLEAN
      /\ UNCHANGED <<palette, length, vertextras, offsets, deleted, handed, meant, made, file>>
  BY DEF prf_vertex_palette_entry_f
<1> QED
  BY <1>1 DEF PInv, PaletteOK, ListsOK, HandedOK, FileOK

\* A list is deleted.
LEMMA DeleteStep == ASSUME NEW l \in List PROVE PInv /\ DeleteList(l) => PInv'
<1> SUFFICES ASSUME PInv, DeleteList(l) PROVE PInv'
  OBVIOUS
<1>1. /\ deleted' = deleted \cup {l}
      /\ UNCHANGED <<palette, length, known, vertextras, offsets, handed, meant, made, file>>
  BY DEF DeleteList
<1>2. PaletteOK' /\ HandedOK' /\ FileOK'
  BY <1>1 DEF PInv, PaletteOK, HandedOK, FileOK
<1>3. ListsOK'
  BY <1>1 DEF PInv, ListsOK
<1> QED
  BY <1>2, <1>3 DEF PInv

\* The application walks the palette.
LEMMA NextIndexStep == PInv /\ get_next_index => PInv'
<1> SUFFICES ASSUME PInv, get_next_index PROVE PInv'
  OBVIOUS
<1>1. PICK i \in DOMAIN palette :
        /\ known
        /\ handed' = handed \cup
             {<<HeadSize + Start(palette, i), prf_model_vertex_palette_lookup(HeadSize + Start(palette, i))>>}
        /\ UNCHANGED <<palette, length, known, vertextras, offsets, deleted, meant, made, file>>
  BY Zenon DEF get_next_index
<1>2. PaletteOK' /\ ListsOK' /\ FileOK'
  BY <1>1 DEF PInv, PaletteOK, ListsOK, FileOK
<1> PICK o : o = HeadSize + Start(palette, i)
  OBVIOUS
<1>3. Named(palette, vertextras, o, palette[i].name)
  <2>1. palette \in Seq(Sized)
    BY DEF PInv, PaletteOK
  <2>2. i \in 1..Len(palette)
    BY <1>1, <2>1, LenProperties
  <2>3. Start(palette, i) \in Nat
    BY <2>1, <2>2, StartsRise
  <2>4. o \in Nat /\ o - HeadSize = Start(palette, i)
    BY <2>3 DEF HeadSize
  <2>5. At(palette, o - HeadSize, palette[i].name)
    BY <2>2, <2>4 DEF At
  <2> QED
    BY <2>4, <2>5 DEF Named
<1>4. prf_model_vertex_palette_lookup(o) = palette[i].name
  BY <1>1, <1>3, LookupIs DEF PInv, PaletteOK
<1>5. handed' = handed \cup {<<o, palette[i].name>>}
  BY <1>1, <1>4
<1>6. HandedOK'
  <2>1. ASSUME NEW h \in handed' PROVE Named(palette, vertextras, h[1], h[2])
    <3>1. CASE h \in handed
      BY <3>1 DEF PInv, HandedOK
    <3>2. CASE h = <<o, palette[i].name>>
      BY <1>3, <3>2
    <3> QED
      BY <1>5, <3>1, <3>2
  <2>2. palette' = palette /\ vertextras' = vertextras
    BY <1>1
  <2> QED
    BY <2>1, <2>2 DEF HandedOK
<1> QED
  BY <1>2, <1>6 DEF PInv

\* The vertices of a list are replaced.
LEMMA SetListStep == ASSUME NEW l \in List PROVE PInv /\ prf_vertex_list_set_list(l) => PInv'
<1> SUFFICES ASSUME PInv, prf_vertex_list_set_list(l) PROVE PInv'
  OBVIOUS
<1>1. PICK count \in MinEntries..Len(offsets[l]) : \E new \in [1..count -> handed] :
        /\ offsets' = [offsets EXCEPT ![l] = [i \in 1..count |-> new[i][1]]]
        /\ meant' = [meant EXCEPT ![l] = [i \in 1..count |-> new[i][2]]]
  BY DEF prf_vertex_list_set_list
<1>2. PICK new \in [1..count -> handed] :
        /\ offsets' = [offsets EXCEPT ![l] = [i \in 1..count |-> new[i][1]]]
        /\ meant' = [meant EXCEPT ![l] = [i \in 1..count |-> new[i][2]]]
  BY <1>1
<1>3. UNCHANGED <<palette, length, known, vertextras, deleted, handed, made, file>>
  BY DEF prf_vertex_list_set_list
<1>4. palette \in Seq(Sized) /\ Filled(vertextras)
  BY DEF PInv, PaletteOK
<1>5. /\ offsets \in [List -> Seq(Nat)] /\ meant \in [List -> Seq(1..MaxVertices)]
      /\ deleted \subseteq List /\ made \in 0..MaxVertices
      /\ \A k \in List \ deleted : ListNamed(palette, vertextras, offsets[k], meant[k])
  BY DEF PInv, ListsOK
<1>6. count \in Nat
  <2>1. offsets[l] \in Seq(Nat)
    BY <1>5
  <2>2. Len(offsets[l]) \in Nat /\ MinEntries \in Nat
    BY <2>1, LenProperties, PaletteAssumption
  <2> QED
    BY <2>2
<1> PICK os : os = [i \in 1..count |-> new[i][1]]
  OBVIOUS
<1> PICK ms : ms = [i \in 1..count |-> new[i][2]]
  OBVIOUS
<1>7. \A i \in 1..count : /\ Named(palette, vertextras, new[i][1], new[i][2])
                          /\ new[i][1] \in Nat /\ new[i][2] \in 1..MaxVertices
  <2> SUFFICES ASSUME NEW i \in 1..count
               PROVE  /\ Named(palette, vertextras, new[i][1], new[i][2])
                      /\ new[i][1] \in Nat /\ new[i][2] \in 1..MaxVertices
    OBVIOUS
  <2>1. new[i] \in handed
    BY ONLY new \in [1..count -> handed], i \in 1..count
  <2>2. Named(palette, vertextras, new[i][1], new[i][2])
    BY <2>1 DEF PInv, HandedOK
  <2> QED
    BY <1>4, <2>2, NamedIs
<1>8. ListNamed(palette, vertextras, os, ms)
  <2>1. os \in [1..count -> Nat] /\ ms \in [1..count -> 1..MaxVertices]
    BY <1>7
  <2>2. os \in Seq(Nat) /\ ms \in Seq(1..MaxVertices) /\ Len(os) = count /\ Len(ms) = count
    BY <1>6, <2>1, SeqOf
  <2>3. \A i \in 1..count : os[i] = new[i][1] /\ ms[i] = new[i][2]
    OBVIOUS
  <2>4. \A i \in 1..Len(ms) : Named(palette, vertextras, os[i], ms[i])
    BY <1>7, <2>2, <2>3
  <2> QED
    BY <2>2, <2>4 DEF ListNamed
<1>9. offsets' = [offsets EXCEPT ![l] = os] /\ meant' = [meant EXCEPT ![l] = ms]
  BY <1>2
<1>10. os \in Seq(Nat) /\ ms \in Seq(1..MaxVertices)
  BY <1>8 DEF ListNamed
<1>11. ASSUME NEW k \in List \ deleted PROVE ListNamed(palette, vertextras, offsets'[k], meant'[k])
  <2>1. CASE k = l
    BY <1>5, <1>8, <1>9, <2>1
  <2>2. CASE k # l
    BY <1>5, <1>9, <2>2
  <2> QED
    BY <2>1, <2>2
<1>12. ListsOK'
  <2>1. offsets' \in [List -> Seq(Nat)] /\ meant' \in [List -> Seq(1..MaxVertices)]
    BY <1>5, <1>9, <1>10
  <2> QED
    BY <1>3, <1>5, <1>11, <2>1 DEF ListsOK
<1>13. PaletteOK' /\ HandedOK' /\ FileOK'
  BY <1>3 DEF PInv, PaletteOK, HandedOK, FileOK
<1> QED
  BY <1>12, <1>13 DEF PInv

\* A vertex the application makes has a size.
LEMMA VertexIs ==
  ASSUME NEW opcode \in Opcodes, made \in 0..MaxVertices, made < MaxVertices
  PROVE  /\ Vertex(opcode, made + 1) \in Sized /\ Vertex(opcode, made + 1).length <= BlockSize
         /\ made + 1 \in 0..MaxVertices
<1> PICK v : v = Vertex(opcode, made + 1)
  OBVIOUS
<1>1. opcode \in 68..71 /\ VertexLength(opcode) <= BlockSize /\ MaxVertices \in Nat
  BY PaletteAssumption
<1>2. VertexLength(opcode) \in Nat \ {0}
  BY <1>1 DEF VertexLength
<1>3. made + 1 \in 1..MaxVertices /\ made + 1 \in 0..MaxVertices
  BY <1>1
<1>4. v = [name |-> made + 1, length |-> VertexLength(opcode)]
  BY DEF Vertex
<1>5. v \in Sized /\ v.length <= BlockSize
  BY <1>1, <1>2, <1>3, <1>4 DEF Sized
<1> QED
  BY <1>3, <1>5

\* A vertex is added, in the last block or a new one.
LEMMA AddStep == ASSUME NEW opcode \in Opcodes PROVE PInv /\ prf_model_add_vertex(opcode) => PInv'
<1> SUFFICES ASSUME PInv, prf_model_add_vertex(opcode) PROVE PInv'
  OBVIOUS
<1> PICK v : v = Vertex(opcode, made + 1)
  OBVIOUS
<1> PICK c : c = Chained(vertextras, v.length)
  OBVIOUS
<1> PICK V : V = vertextras
  OBVIOUS
<1> PICK W : W = vertextras'
  OBVIOUS
<1> PICK o : o = length + Positions(IF V = <<>> THEN <<NewPool>> ELSE V)
  OBVIOUS
<1>1. /\ made < MaxVertices
      /\ W = [c EXCEPT ![Len(c)] = [data |-> Append(c[Len(c)].data, v), position |-> c[Len(c)].position + v.length]]
      /\ handed' = handed \cup {<<o, v.name>>}
      /\ made' = made + 1
      /\ UNCHANGED <<palette, length, known, offsets, deleted, meant, file>>
  BY DEF prf_model_add_vertex, Chained
<1>2. palette \in Seq(Sized) /\ Filled(V) /\ length = HeadSize + Bytes(palette) /\ known \in BOOLEAN
  BY DEF PInv, PaletteOK
<1>3. /\ offsets \in [List -> Seq(Nat)] /\ meant \in [List -> Seq(1..MaxVertices)]
      /\ deleted \subseteq List /\ made \in 0..MaxVertices
      /\ \A k \in List \ deleted : ListNamed(palette, V, offsets[k], meant[k])
  BY DEF PInv, ListsOK
<1>4. v \in Sized /\ v.length <= BlockSize /\ made + 1 \in 0..MaxVertices
  BY <1>1, <1>3, VertexIs
<1>5. /\ AddsTo(V, W, Len(c), c[Len(c)], v)
      /\ Positions(IF V = <<>> THEN <<NewPool>> ELSE V) = Sums(Counts(V))[Len(c) - 1] + c[Len(c)].position
  <2>1. c = Chained(V, v.length)
    OBVIOUS
  <2>2. W = [c EXCEPT ![Len(c)] = [data |-> Append(c[Len(c)].data, v), position |-> c[Len(c)].position + v.length]]
    BY ONLY <1>1
  <2>3. Filled(V) /\ v \in Sized /\ v.length <= BlockSize
    BY ONLY <1>2, <1>4
  <2> QED
    BY ONLY <2>1, <2>2, <2>3, ChainIs, Zenon
<1>6. /\ Filled(W)
      /\ \A p, u : Named(palette, V, p, u) => Named(palette, W, p, u)
      /\ Named(palette, W, (HeadSize + Bytes(palette)) + (Sums(Counts(V))[Len(c) - 1] + c[Len(c)].position), v.name)
  BY <1>2, <1>4, <1>5, AddedIs
<1>7. Named(palette, W, o, v.name)
  BY <1>2, <1>5, <1>6
<1>8. PaletteOK' /\ FileOK'
  BY <1>1, <1>2, <1>6 DEF PInv, PaletteOK, FileOK
<1>9. ListsOK'
  <2>1. \A k \in List \ deleted : ListNamed(palette, W, offsets[k], meant[k])
    BY <1>3, <1>6, ListStays
  <2> QED
    BY <1>1, <1>3, <1>4, <2>1, ZenonT(30) DEF ListsOK
<1>10. HandedOK'
  <2>1. ASSUME NEW h \in handed' PROVE Named(palette, W, h[1], h[2])
    <3>1. CASE h \in handed
      BY <1>6, <3>1 DEF PInv, HandedOK
    <3>2. CASE h = <<o, v.name>>
      BY <1>7, <3>2
    <3> QED
      BY <1>1, <3>1, <3>2
  <2>2. palette' = palette
    BY <1>1
  <2> QED
    BY <2>1, <2>2 DEF HandedOK
<1> QED
  BY <1>8, <1>9, <1>10 DEF PInv

\* No saved model.
LEMMA NoFileOK == file' = NoFile => FileOK'
<1> SUFFICES ASSUME file' = NoFile PROVE FileOK'
  OBVIOUS
<1>1. <<>> \in Seq(Sized) /\ Bytes(<<>>) = 0 /\ HeadSize + 0 = HeadSize
  BY NoneIs DEF HeadSize
<1>2. DOMAIN <<>> = {}
  OBVIOUS
<1>3. file'.records = <<>> /\ file'.length = HeadSize /\ file'.lists = <<>>
  BY DEF NoFile
<1> QED
  BY <1>1, <1>2, <1>3 DEF FileOK

\* The lists, whatever becomes of those that are deleted.
LEMMA NoList == ListNamed(palette', vertextras', <<>>, <<>>) /\ <<>> \in Seq(Nat) /\ <<>> \in Seq(1..MaxVertices)
<1> PICK e : e = <<>>
  OBVIOUS
<1>1. e \in Seq(Nat) /\ e \in Seq(1..MaxVertices) /\ Len(e) = 0 /\ 1..0 = {}
  OBVIOUS
<1> QED
  BY <1>1 DEF ListNamed

\* Saving, and cloning: the vertices that are stored, and their length word.
LEMMA StoredOK ==
  ASSUME PInv
  PROVE  /\ Stored \in Seq(Sized) /\ length + Positions(vertextras) = HeadSize + Bytes(Stored)
         /\ \A l \in List \ deleted : ListNamed(Stored, <<>>, offsets[l], meant[l])
<1>1. palette \in Seq(Sized) /\ length = HeadSize + Bytes(palette) /\ Filled(vertextras)
  BY DEF PInv, PaletteOK
<1>2. /\ Stored \in Seq(Sized) /\ Bytes(Stored) = Bytes(palette) + Positions(vertextras)
      /\ Positions(vertextras) \in Nat
  BY <1>1, StoredIs
<1>3. Bytes(palette) \in Nat
  BY <1>1, StartsRise
<1>4. length + Positions(vertextras) = HeadSize + Bytes(Stored)
  BY <1>1, <1>2, <1>3 DEF HeadSize
<1>5. \A o, v : Named(palette, vertextras, o, v) => Named(Stored, <<>>, o, v)
  BY NamedStored DEF PInv
<1>6. ASSUME NEW l \in List \ deleted PROVE ListNamed(Stored, <<>>, offsets[l], meant[l])
  <2>1. ListNamed(palette, vertextras, offsets[l], meant[l])
    BY DEF PInv, ListsOK
  <2> QED
    BY <1>5, <2>1, ListStays
<1> QED
  BY <1>2, <1>4, <1>6

\* The saved model holds what the lists in it name.
LEMMA SaveStep == PInv /\ prf_vertex_palette_save_f => PInv'
<1> SUFFICES ASSUME PInv, prf_vertex_palette_save_f PROVE PInv'
  OBVIOUS
<1> PICK ls : ls = [l \in List \ deleted |-> [offset |-> offsets[l], of |-> meant[l]]]
  OBVIOUS
<1>1. /\ known' = TRUE
      /\ file' = [length |-> length + Positions(vertextras), records |-> Stored, lists |-> ls]
      /\ UNCHANGED <<palette, length, vertextras, offsets, deleted, handed, meant, made>>
  BY DEF prf_vertex_palette_save_f
<1>2. PaletteOK' /\ ListsOK' /\ HandedOK'
  BY <1>1 DEF PInv, PaletteOK, ListsOK, HandedOK
<1>3. FileOK'
  <2>1. DOMAIN ls = List \ deleted
    OBVIOUS
  <2>2. \A l \in List \ deleted : ls[l].offset = offsets[l] /\ ls[l].of = meant[l]
    OBVIOUS
  <2>3. \A l \in DOMAIN ls : ListNamed(Stored, <<>>, ls[l].offset, ls[l].of)
    BY <2>1, <2>2, StoredOK
  <2>4. file'.records = Stored /\ file'.length = length + Positions(vertextras) /\ file'.lists = ls
    BY <1>1
  <2> QED
    BY <2>1, <2>3, <2>4, StoredOK DEF FileOK
<1> QED
  BY <1>2, <1>3 DEF PInv

\* What was saved is read up to its length word, which is all of it.
LEMMA LoadStep == PInv /\ prf_vertex_palette_load_f => PInv'
<1> SUFFICES ASSUME PInv, prf_vertex_palette_load_f PROVE PInv'
  OBVIOUS
<1> PICK ls : ls = file.lists
  OBVIOUS
<1>1. /\ palette' = Walk(file.records, file.length - HeadSize) /\ length' = file.length
      /\ known' = FALSE /\ vertextras' = <<>> /\ deleted' = List \ DOMAIN ls
      /\ offsets' = [l \in List |-> IF l \in deleted' THEN <<>> ELSE ls[l].offset]
      /\ meant' = [l \in List |-> IF l \in deleted' THEN <<>> ELSE ls[l].of]
      /\ handed' = {} /\ file' = NoFile /\ made' = made
  BY DEF prf_vertex_palette_load_f
<1>2. /\ file.records \in Seq(Sized) /\ file.length = HeadSize + Bytes(file.records) /\ DOMAIN ls \subseteq List
      /\ \A l \in DOMAIN ls : ListNamed(file.records, <<>>, ls[l].offset, ls[l].of)
  BY DEF PInv, FileOK
<1>3. palette' = file.records
  <2>1. Bytes(file.records) \in Nat
    BY <1>2, StartsRise
  <2>2. file.length - HeadSize = Bytes(file.records)
    BY <1>2, <2>1 DEF HeadSize
  <2> QED
    BY <1>1, <1>2, <2>2, WalkIsWhole
<1>4. PaletteOK'
  BY <1>1, <1>2, <1>3, NoBlocks DEF PaletteOK
<1>5. ASSUME NEW l \in List
      PROVE  /\ ListNamed(palette', vertextras', offsets'[l], meant'[l])
             /\ offsets'[l] \in Seq(Nat) /\ meant'[l] \in Seq(1..MaxVertices)
  <2>1. CASE l \in deleted'
    <3>1. offsets'[l] = <<>> /\ meant'[l] = <<>>
      BY <1>1, <2>1
    <3> QED
      BY <3>1, NoList
  <2>2. CASE l \notin deleted'
    <3>1. l \in DOMAIN ls /\ offsets'[l] = ls[l].offset /\ meant'[l] = ls[l].of
      BY <1>1, <2>2
    <3>2. ListNamed(palette', vertextras', offsets'[l], meant'[l])
      BY <1>1, <1>2, <1>3, <3>1
    <3> QED
      BY <3>2 DEF ListNamed
  <2> QED
    BY <2>1, <2>2
<1>6. ListsOK'
  <2>1. offsets' \in [List -> Seq(Nat)] /\ meant' \in [List -> Seq(1..MaxVertices)]
    BY <1>1, <1>5
  <2>2. deleted' \subseteq List /\ made' \in 0..MaxVertices
    BY <1>1 DEF PInv, ListsOK
  <2> QED
    BY <1>5, <2>1, <2>2 DEF ListsOK
<1>7. HandedOK' /\ FileOK'
  BY <1>1, NoFileOK DEF HandedOK
<1> QED
  BY <1>4, <1>6, <1>7 DEF PInv

\* The clone's palette holds the blocks too.
LEMMA CloneStep == PInv /\ prf_vertex_palette_clone_f => PInv'
<1> SUFFICES ASSUME PInv, prf_vertex_palette_clone_f PROVE PInv'
  OBVIOUS
<1>1. /\ palette' = Stored /\ length' = length + Positions(vertextras)
      /\ known' = FALSE /\ vertextras' = <<>>
      /\ offsets' = [l \in List |-> IF l \in deleted THEN <<>> ELSE offsets[l]]
      /\ meant' = [l \in List |-> IF l \in deleted THEN <<>> ELSE meant[l]]
      /\ UNCHANGED <<deleted, handed, made, file>>
  BY DEF prf_vertex_palette_clone_f
<1>2. PaletteOK'
  BY <1>1, StoredOK, NoBlocks DEF PaletteOK
<1>3. ASSUME NEW l \in List
      PROVE  /\ ListNamed(palette', vertextras', offsets'[l], meant'[l])
             /\ offsets'[l] \in Seq(Nat) /\ meant'[l] \in Seq(1..MaxVertices)
  <2>1. CASE l \in deleted
    <3>1. offsets'[l] = <<>> /\ meant'[l] = <<>>
      BY <1>1, <2>1
    <3> QED
      BY <3>1, NoList
  <2>2. CASE l \notin deleted
    <3>1. offsets'[l] = offsets[l] /\ meant'[l] = meant[l]
      BY <1>1, <2>2
    <3>2. ListNamed(palette', vertextras', offsets'[l], meant'[l])
      BY <1>1, <2>2, <3>1, StoredOK
    <3> QED
      BY <3>2 DEF ListNamed
  <2> QED
    BY <2>1, <2>2
<1>4. ListsOK'
  <2>1. offsets' \in [List -> Seq(Nat)] /\ meant' \in [List -> Seq(1..MaxVertices)]
    BY <1>1, <1>3
  <2>2. deleted' \subseteq List /\ made' \in 0..MaxVertices
    BY <1>1 DEF PInv, ListsOK
  <2> QED
    BY <1>3, <2>1, <2>2 DEF ListsOK
<1>5. HandedOK'
  <2>1. \A o, v : Named(palette, vertextras, o, v) => Named(Stored, <<>>, o, v)
    BY NamedStored DEF PInv
  <2> QED
    BY <1>1, <2>1 DEF PInv, HandedOK
<1>6. FileOK'
  BY <1>1 DEF PInv, FileOK
<1> QED
  BY <1>2, <1>4, <1>5, <1>6 DEF PInv

\* A sequence of some is a sequence of more.
LEMMA SeqWider == ASSUME NEW S, NEW T, S \subseteq T, NEW s \in Seq(S) PROVE s \in Seq(T)
  OBVIOUS

\* A list, compacted.
LEMMA ListMoves ==
  ASSUME PInv, NEW l \in List \ deleted, NEW tags, NEW d, d = Compact(Stored, tags)[Len(Stored)].buffer,
         \A i \in DOMAIN offsets[l] : offsets[l][i] \in tags
  PROVE  ListNamed(d, <<>>, [i \in DOMAIN offsets[l] |-> Moved(Stored, tags, offsets[l][i])], meant[l])
<1> PICK s : s = Stored
  OBVIOUS
<1> PICK os : os = offsets[l]
  OBVIOUS
<1> PICK ms : ms = meant[l]
  OBVIOUS
<1>1. s \in Seq(Sized) /\ ListNamed(s, <<>>, os, ms)
  BY StoredOK
<1>2. /\ os \in Seq(Nat) /\ ms \in Seq(1..MaxVertices) /\ Len(os) = Len(ms)
      /\ \A i \in 1..Len(ms) : Named(s, <<>>, os[i], ms[i])
  BY <1>1 DEF ListNamed
<1> PICK n : n = Len(ms)
  OBVIOUS
<1>3. n \in Nat /\ DOMAIN os = 1..n /\ DOMAIN ms = 1..n /\ 1..Len(<<>>) = {}
  BY <1>2, LenProperties
<1>4. \A i \in 1..n : os[i] \in Nat /\ os[i] \in tags /\ Named(s, <<>>, os[i], ms[i])
  <2> SUFFICES ASSUME NEW i \in 1..n PROVE os[i] \in Nat /\ os[i] \in tags /\ Named(s, <<>>, os[i], ms[i])
    OBVIOUS
  <2>1. i \in 1..Len(os) /\ i \in DOMAIN os /\ i \in 1..Len(ms)
    BY <1>2, <1>3
  <2>2. os[i] \in Nat
    BY ONLY <1>2, <2>1, ElementOfSeq
  <2>3. Named(s, <<>>, os[i], ms[i])
    BY ONLY <1>2, <2>1
  <2>4. os[i] \in tags
    BY <2>1
  <2> QED
    BY <2>2, <2>3, <2>4
<1>5. \A i \in 1..n : Named(d, <<>>, Moved(s, tags, os[i]), ms[i])
  <2> SUFFICES ASSUME NEW i \in 1..n PROVE Named(d, <<>>, Moved(s, tags, os[i]), ms[i])
    OBVIOUS
  <2>1. At(s, os[i] - HeadSize, ms[i])
    BY <1>3, <1>4 DEF Named
  <2>2. os[i] \in Nat /\ os[i] \in tags
    BY <1>4
  <2>3. Named(Compact(s, tags)[Len(s)].buffer, <<>>, Moved(s, tags, os[i]), ms[i])
    BY <1>1, <2>1, <2>2, CompactMoves
  <2> QED
    BY <2>3
<1> PICK new : new = [i \in 1..n |-> Moved(s, tags, os[i])]
  OBVIOUS
<1>6. \A i \in 1..n : new[i] = Moved(s, tags, os[i]) /\ new[i] \in Nat
  <2>1. \A i \in 1..n : Moved(s, tags, os[i]) \in Nat
    BY <1>5 DEF Named
  <2> QED
    BY <2>1
<1>7. new \in Seq(Nat) /\ Len(new) = n
  <2>1. new \in [1..n -> Nat]
    BY <1>6
  <2> QED
    BY <1>3, <2>1, SeqOf
<1>8. ListNamed(d, <<>>, new, ms)
  BY <1>2, <1>5, <1>6, <1>7 DEF ListNamed
<1> QED
  BY <1>3, <1>8

\* The palette is compacted and the lists are rewritten.
LEMMA OptimizeStep == PInv /\ prf_model_vertex_palette_optimize => PInv'
<1> SUFFICES ASSUME PInv, prf_model_vertex_palette_optimize PROVE PInv'
  OBVIOUS
<1> PICK s : s = Stored
  OBVIOUS
<1> PICK tags : tags = vt_tag_cb
  OBVIOUS
<1> PICK d : d = Compact(s, tags)[Len(s)]
  OBVIOUS
<1>1. /\ known /\ palette' = d.buffer
      /\ length' = length + (Positions(vertextras) - d.offset)
      /\ vertextras' = <<>> /\ offsets' = vt_fix_cb(s, tags) /\ handed' = {}
      /\ UNCHANGED <<known, deleted, meant, made, file>>
  <2> DEFINE e == Compact(Stored, vt_tag_cb)[Len(Stored)]
  <2>1. /\ known /\ palette' = e.buffer
        /\ length' = length + (Positions(vertextras) - e.offset)
        /\ vertextras' = <<>> /\ offsets' = vt_fix_cb(Stored, vt_tag_cb) /\ handed' = {}
        /\ UNCHANGED <<known, deleted, meant, made, file>>
    BY Zenon DEF prf_model_vertex_palette_optimize
  <2>2. d = e
    OBVIOUS
  <2> HIDE DEF e
  <2>3. palette' = d.buffer
    BY ONLY <2>1, <2>2
  <2>4. length' = length + (Positions(vertextras) - d.offset)
    BY ONLY <2>1, <2>2
  <2>5. offsets' = vt_fix_cb(s, tags)
    BY <2>1, Zenon
  <2>6. UNCHANGED <<known, deleted, meant, made, file>>
    BY ONLY <2>1
  <2>7. vertextras' = <<>> /\ handed' = {}
    BY ONLY <2>1
  <2>8. known
    BY ONLY <2>1
  <2> QED
    BY ONLY <2>3, <2>4, <2>5, <2>6, <2>7, <2>8
<1>2. s \in Seq(Sized) /\ length + Positions(vertextras) = HeadSize + Bytes(s)
  BY StoredOK
<1>3. d.buffer \in Seq(Sized) /\ d.offset \in Nat /\ Bytes(s) = Bytes(d.buffer) + d.offset
  BY <1>2, CompactLeaves
<1>4. length' = HeadSize + Bytes(d.buffer)
  <2>1. Bytes(d.buffer) \in Nat /\ HeadSize \in Nat
    BY <1>3, StartsRise DEF HeadSize
  <2>2. length \in Int /\ Positions(vertextras) \in Nat
    <3>1. palette \in Seq(Sized) /\ length = HeadSize + Bytes(palette) /\ Filled(vertextras)
      BY DEF PInv, PaletteOK
    <3>2. Bytes(palette) \in Nat
      BY <3>1, StartsRise
    <3> QED
      BY <2>1, <3>1, <3>2, StoredIs
  <2>3. length' = length + (Positions(vertextras) - d.offset)
    BY <1>1
  <2> PICK n : n = length
    OBVIOUS
  <2> PICK p : p = Positions(vertextras)
    OBVIOUS
  <2> PICK o : o = d.offset
    OBVIOUS
  <2> PICK h : h = HeadSize
    OBVIOUS
  <2> PICK x : x = Bytes(s)
    OBVIOUS
  <2> PICK b : b = Bytes(d.buffer)
    OBVIOUS
  <2>5. n \in Int /\ p \in Int /\ o \in Int /\ h \in Int /\ b \in Int
    BY <1>3, <2>1, <2>2
  <2>6. n + p = h + x /\ x = b + o
    BY <1>2, <1>3
  <2>7. n + (p - o) = h + b
    BY ONLY <2>5, <2>6
  <2> QED
    BY <2>3, <2>7
<1>5. PaletteOK'
  <2>1. known' \in BOOLEAN
    BY <1>1
  <2> QED
    BY <1>1, <1>3, <1>4, <2>1, NoBlocks DEF PaletteOK
<1>6. /\ offsets \in [List -> Seq(Nat)] /\ meant \in [List -> Seq(1..MaxVertices)]
      /\ deleted \subseteq List /\ made \in 0..MaxVertices
  BY DEF PInv, ListsOK
<1>7. ASSUME NEW l \in List \ deleted PROVE ListNamed(palette', vertextras', offsets'[l], meant[l])
  <2>1. \A i \in DOMAIN offsets[l] : offsets[l][i] \in tags
    BY <1>7 DEF vt_tag_cb, Tags
  <2>2. offsets'[l] = [i \in DOMAIN offsets[l] |-> Moved(s, tags, offsets[l][i])]
    BY <1>1 DEF vt_fix_cb
  <2>3. ListNamed(d.buffer, <<>>, offsets'[l], meant[l])
    BY <2>1, <2>2, ListMoves
  <2> QED
    BY <1>1, <2>3
<1>8. offsets' \in [List -> Seq(Nat)]
  <2>1. ASSUME NEW l \in List PROVE offsets'[l] \in Seq(Nat)
    <3>1. CASE l \in deleted
      BY <1>1, <1>6, <3>1 DEF vt_fix_cb
    <3>2. CASE l \notin deleted
      BY <1>7, <3>2 DEF ListNamed
    <3> QED
      BY <3>1, <3>2
  <2>2. offsets' = [l \in List |-> offsets'[l]]
    BY <1>1 DEF vt_fix_cb
  <2> QED
    BY <2>1, <2>2
<1>9. ListsOK'
  BY <1>1, <1>6, <1>7, <1>8 DEF ListsOK
<1>10. HandedOK' /\ FileOK'
  BY <1>1 DEF PInv, HandedOK, FileOK
<1> QED
  BY <1>5, <1>9, <1>10 DEF PInv

\* The invariant of the palette.
LEMMA PInvHolds == PaletteSpec => []PInv
<1>1. PInv /\ [PaletteNext]_palettevars => PInv'
  <2> SUFFICES ASSUME PInv, [PaletteNext]_palettevars PROVE PInv'
    OBVIOUS
  <2>1. CASE UNCHANGED palettevars
    BY <2>1 DEF palettevars, PInv, PaletteOK, ListsOK, HandedOK, FileOK
  <2>2. CASE prf_vertex_palette_entry_f
    BY <2>2, EntryStep
  <2>3. CASE \E opcode \in Opcodes : prf_model_add_vertex(opcode)
    BY <2>3, AddStep
  <2>4. CASE get_next_index
    BY <2>4, NextIndexStep
  <2>5. CASE \E l \in List : prf_vertex_list_set_list(l)
    BY <2>5, SetListStep
  <2>6. CASE \E l \in List : DeleteList(l)
    BY <2>6, DeleteStep
  <2>7. CASE prf_model_vertex_palette_optimize
    BY <2>7, OptimizeStep
  <2>8. CASE prf_vertex_palette_save_f
    BY <2>8, SaveStep
  <2>9. CASE prf_vertex_palette_load_f
    BY <2>9, LoadStep
  <2>10. CASE prf_vertex_palette_clone_f
    BY <2>10, CloneStep
  <2> QED
    BY <2>1, <2>2, <2>3, <2>4, <2>5, <2>6, <2>7, <2>8, <2>9, <2>10 DEF PaletteNext
<1> QED
  BY <1>1, InitPInv, PTL DEF PaletteSpec

-----------------------------------------------------------------------------
(* The theorems *)

\* Whatever was added, compacted, saved and loaded, or cloned, every offset in a vertex
\* list that is not deleted leads prf_model_vertex_palette_lookup to the vertex the list
\* was made of.
THEOREM ListsKeepTheirVerticesHolds == PaletteSpec => []ListsKeepTheirVertices
<1>1. PInv => ListsKeepTheirVertices
  <2> SUFFICES ASSUME PInv, known, NEW l \in List \ deleted
               PROVE  /\ Len(offsets[l]) = Len(meant[l])
                      /\ \A i \in DOMAIN meant[l] :
                           prf_model_vertex_palette_lookup(offsets[l][i]) = meant[l][i]
    BY DEF ListsKeepTheirVertices
  <2>1. ListNamed(palette, vertextras, offsets[l], meant[l])
    BY DEF PInv, ListsOK
  <2>2. /\ meant[l] \in Seq(1..MaxVertices) /\ Len(offsets[l]) = Len(meant[l])
        /\ \A i \in 1..Len(meant[l]) : Named(palette, vertextras, offsets[l][i], meant[l][i])
    BY <2>1 DEF ListNamed
  <2>3. DOMAIN meant[l] = 1..Len(meant[l])
    BY <2>2, LenProperties
  <2>4. palette \in Seq(Sized) /\ length = HeadSize + Bytes(palette) /\ Filled(vertextras)
    BY DEF PInv, PaletteOK
  <2> QED
    BY <2>2, <2>3, <2>4, LookupIs
<1> QED
  BY <1>1, PInvHolds, PTL

\* An offset prf_model_add_vertex returned, or a walk of the palette found, leads
\* prf_model_vertex_palette_lookup to its vertex until the palette is compacted or replaced.
THEOREM OffsetsStayValidHolds == PaletteSpec => []OffsetsStayValid
<1>1. PInv => OffsetsStayValid
  <2> SUFFICES ASSUME PInv, known, NEW h \in handed PROVE prf_model_vertex_palette_lookup(h[1]) = h[2]
    BY DEF OffsetsStayValid
  <2>1. palette \in Seq(Sized) /\ length = HeadSize + Bytes(palette) /\ Filled(vertextras)
    BY DEF PInv, PaletteOK
  <2>2. Named(palette, vertextras, h[1], h[2])
    BY DEF PInv, HandedOK
  <2> QED
    BY <2>1, <2>2, LookupIs
<1> QED
  BY <1>1, PInvHolds, PTL

\* The length word of the palette and the position of every block end where a record ends,
\* so the walks of save, clone and optimize meet no half record; prf_model_add_vertex
\* overruns no block and leaves none empty.
THEOREM BytesAccountedHolds == PaletteSpec => []BytesAccounted
<1>1. PInv => BytesAccounted
  <2> SUFFICES ASSUME PInv PROVE BytesAccounted
    OBVIOUS
  <2>1. /\ palette \in Seq(Sized) /\ length = HeadSize + Bytes(palette) /\ Filled(vertextras) /\ known \in BOOLEAN
    BY DEF PInv, PaletteOK
  <2>2. /\ offsets \in [List -> Seq(Nat)] /\ meant \in [List -> Seq(1..MaxVertices)]
        /\ deleted \subseteq List /\ made \in 0..MaxVertices
    BY DEF PInv, ListsOK
  <2>3. file.records \in Seq(Sized) /\ file.length = HeadSize + Bytes(file.records)
    BY DEF PInv, FileOK
  <2>4. \A s \in Seq(Sized) : s \in Seq(Record) /\ HeadSize + Bytes(s) \in Nat
    <3>1. Sized \subseteq Record
      BY DEF Sized, Record
    <3>2. \A s \in Seq(Sized) : s \in Seq(Record)
      BY <3>1
    <3>3. \A s \in Seq(Sized) : HeadSize + Bytes(s) \in Nat
      BY StartsRise DEF HeadSize
    <3> QED
      BY <3>2, <3>3
  <2>5. /\ vertextras \in Seq(Block) /\ DOMAIN vertextras = 1..Len(vertextras)
        /\ \A k \in 1..Len(vertextras) :
             /\ vertextras[k].position = Bytes(vertextras[k].data)
             /\ vertextras[k].position <= BlockSize /\ vertextras[k].data # <<>>
    BY <2>1, LenProperties DEF Filled
  <2>6. vertextras \in Seq([data : Seq(Record), position : Nat])
    <3>1. Block \subseteq [data : Seq(Record), position : Nat]
      <4> SUFFICES ASSUME NEW b \in Block PROVE b \in [data : Seq(Record), position : Nat]
        OBVIOUS
      <4> PICK d : d = b.data
        OBVIOUS
      <4> PICK p : p = b.position
        OBVIOUS
      <4>1. d \in Seq(Sized) /\ p \in Nat /\ b = [data |-> d, position |-> p]
        BY DEF Block
      <4>2. d \in Seq(Record)
        BY <2>4, <4>1
      <4> QED
        BY ONLY <4>1, <4>2
    <3> QED
      BY <2>5, <3>1, SeqWider
  <2>7. PaletteTypeOK
    BY <2>1, <2>2, <2>3, <2>4, <2>6 DEF PaletteTypeOK
  <2> QED
    BY <2>1, <2>5, <2>7 DEF BytesAccounted
<1> QED
  BY <1>1, PInvHolds, PTL

\* The offset a list mentions leads to the vertex it was made of, and to no other.
LEMMA TaggedIs ==
  ASSUME PInv, NEW l \in List \ deleted, NEW j \in DOMAIN offsets[l], NEW i \in 1..Len(Stored),
         HeadSize + Start(Stored, i) = offsets[l][j]
  PROVE  j \in DOMAIN meant[l] /\ meant[l][j] = Stored[i].name /\ meant[l][j] \in 1..MaxVertices
<1> PICK s : s = Stored
  OBVIOUS
<1> PICK os : os = offsets[l]
  OBVIOUS
<1> PICK ms : ms = meant[l]
  OBVIOUS
<1>1. s \in Seq(Sized) /\ ListNamed(s, <<>>, os, ms)
  BY StoredOK
<1>2. /\ os \in Seq(Nat) /\ ms \in Seq(1..MaxVertices) /\ Len(os) = Len(ms)
      /\ \A k \in 1..Len(ms) : Named(s, <<>>, os[k], ms[k])
  BY <1>1 DEF ListNamed
<1>3. DOMAIN os = 1..Len(ms) /\ DOMAIN ms = 1..Len(ms) /\ 1..Len(<<>>) = {}
  BY <1>2, LenProperties
<1>4. j \in 1..Len(ms) /\ Named(s, <<>>, os[j], ms[j])
  BY <1>2, <1>3
<1>5. At(s, os[j] - HeadSize, ms[j])
  BY <1>3, <1>4 DEF Named
<1>6. os[j] - HeadSize = Start(s, i)
  <2>1. Start(s, i) \in Nat
    BY <1>1, StartsRise
  <2>2. HeadSize + Start(s, i) = os[j]
    OBVIOUS
  <2> QED
    BY <2>1, <2>2 DEF HeadSize
<1>7. At(s, os[j] - HeadSize, s[i].name)
  BY <1>6 DEF At
<1>8. ms[j] = s[i].name /\ ms[j] \in 1..MaxVertices
  BY <1>1, <1>5, <1>7, AtIs
<1> QED
  BY <1>3, <1>4, <1>8

\* c holds the vertices of s with the names in use, in their order.
UsedKept(c, s, used) ==
  /\ {c[q].name : q \in DOMAIN c} = used
  /\ \A q, r \in DOMAIN c :
       q < r => \E i, j \in DOMAIN s : i < j /\ c[q] = s[i] /\ c[r] = s[j]

\* The compaction keeps the vertices in use, once each and in their order.
LEMMA KeepsUsed ==
  ASSUME PInv, NEW s, s = Stored, NEW tags, tags = vt_tag_cb, NEW c, c = Compact(s, tags)[Len(s)].buffer,
         NEW used, used = {m \in 1..MaxVertices :
                             \E l \in List \ deleted : \E i \in DOMAIN meant[l] : meant[l][i] = m}
  PROVE  UsedKept(c, s, used)
<1> PICK f : f = Compact(s, tags)
  OBVIOUS
<1> PICK N : N = Len(s)
  OBVIOUS
<1>1. s \in Seq(Sized) /\ N \in Nat /\ N \in 0..N /\ DOMAIN s = 1..N
  BY StoredOK, LenProperties
<1>2. c = f[N].buffer /\ Packed(f, s, tags, N)
  BY <1>1, CompactPacks
<1>3. c \in Seq(Sized) /\ InBuffer(c, f, s, tags, N)
  <2>1. f[N] \in [buffer : Seq(Sized), offset : Nat] /\ InBuffer(f[N].buffer, f, s, tags, N)
    BY <1>2 DEF Packed
  <2> QED
    BY <1>2, <2>1
<1>4. /\ DOMAIN c = 1..Len(c)
      /\ \A q \in 1..Len(c) : \E i \in 1..N : Kept(s, tags, i) /\ c[q] = s[i]
      /\ \A q, r \in 1..Len(c) : q < r => \E i, j \in 1..N : i < j /\ c[q] = s[i] /\ c[r] = s[j]
  <2>1. DOMAIN c = 1..Len(c)
    BY <1>3, LenProperties
  <2>2. /\ \A q \in 1..Len(c) : \E i \in 1..N : Kept(s, tags, i) /\ c[q] = s[i]
        /\ \A q, r \in 1..Len(c) : q < r => \E i, j \in 1..N : i < j /\ c[q] = s[i] /\ c[r] = s[j]
    BY ONLY <1>3, Zenon DEF InBuffer
  <2> QED
    BY <2>1, <2>2
<1>5. ASSUME NEW q \in DOMAIN c PROVE c[q].name \in used
  <2> PICK L : L = 1..Len(c)
    OBVIOUS
  <2>0. q \in L
    BY <1>4
  <2>1. PICK i \in 1..N : Kept(s, tags, i) /\ c[q] = s[i]
    <3>1. \A p \in L : \E i \in 1..N : Kept(s, tags, i) /\ c[p] = s[i]
      BY <1>4, ZenonT(30)
    <3> QED
      BY ONLY <2>0, <3>1, Zenon
  <2>2. PICK l \in List \ deleted : \E j \in DOMAIN offsets[l] : offsets[l][j] = HeadSize + Start(s, i)
    BY <2>1 DEF Kept, vt_tag_cb, Tags
  <2>3. PICK j \in DOMAIN offsets[l] : offsets[l][j] = HeadSize + Start(s, i)
    BY <2>2
  <2>4. j \in DOMAIN meant[l] /\ meant[l][j] = s[i].name /\ meant[l][j] \in 1..MaxVertices
    BY <2>3, TaggedIs
  <2> QED
    BY <2>1, <2>4
<1>6. ASSUME NEW m \in used PROVE \E q \in DOMAIN c : c[q].name = m
  <2>1. PICK l \in List \ deleted : \E i \in DOMAIN meant[l] : meant[l][i] = m
    OBVIOUS
  <2>2. PICK i \in DOMAIN meant[l] : meant[l][i] = m
    BY <2>1
  <2> PICK os : os = [k \in DOMAIN offsets[l] |-> Moved(s, tags, offsets[l][k])]
    OBVIOUS
  <2> PICK ms : ms = meant[l]
    OBVIOUS
  <2>3. \A k \in DOMAIN offsets[l] : offsets[l][k] \in tags
    BY DEF vt_tag_cb, Tags
  <2>4. ListNamed(c, <<>>, os, ms)
    BY <1>2, <2>3, ListMoves
  <2>5. ms \in Seq(1..MaxVertices) /\ \A k \in 1..Len(ms) : Named(c, <<>>, os[k], ms[k])
    BY <2>4 DEF ListNamed
  <2>6. i \in 1..Len(ms) /\ ms[i] = m /\ 1..Len(<<>>) = {}
    BY <2>2, <2>5, LenProperties
  <2>7. At(c, os[i] - HeadSize, m)
    BY <2>5, <2>6 DEF Named
  <2> QED
    BY <1>4, <2>7 DEF At
<1>7. {c[q].name : q \in DOMAIN c} = used
  BY <1>5, <1>6
<1>8. \A q, r \in DOMAIN c :
        q < r => \E i, j \in DOMAIN s : i < j /\ c[q] = s[i] /\ c[r] = s[j]
  <2> PICK D : D = DOMAIN c
    OBVIOUS
  <2> PICK E : E = DOMAIN s
    OBVIOUS
  <2>1. D = 1..Len(c) /\ E = 1..N
    BY <1>1, <1>4
  <2>2. \A q, r \in D : q < r => \E i, j \in E : i < j /\ c[q] = s[i] /\ c[r] = s[j]
    BY ONLY <1>4, <2>1
  <2> QED
    BY <2>2
<1> QED
  BY ONLY <1>7, <1>8, Zenon DEF UsedKept

\* prf_model_vertex_palette_optimize keeps the vertices that the lists it tags name, in
\* their order, and nothing else.
THEOREM OptimizeKeepsUsedHolds == PaletteSpec => OptimizeKeepsUsed
<1> DEFINE Keeps ==
      prf_model_vertex_palette_optimize =>
       LET used == {m \in 1..MaxVertices :
                      \E l \in List \ deleted : \E i \in DOMAIN meant[l] : meant[l][i] = m}
       IN /\ {palette'[q].name : q \in DOMAIN palette'} = used
          /\ \A q, r \in DOMAIN palette' :
               q < r => \E i, j \in DOMAIN Stored :
                          i < j /\ palette'[q] = Stored[i] /\ palette'[r] = Stored[j]
<1>1. PInv => Keeps
  <2> SUFFICES ASSUME PInv, prf_model_vertex_palette_optimize
               PROVE  LET used == {m \in 1..MaxVertices :
                                     \E l \in List \ deleted : \E i \in DOMAIN meant[l] : meant[l][i] = m}
                      IN /\ {palette'[q].name : q \in DOMAIN palette'} = used
                         /\ \A q, r \in DOMAIN palette' :
                              q < r => \E i, j \in DOMAIN Stored :
                                         i < j /\ palette'[q] = Stored[i] /\ palette'[r] = Stored[j]
    OBVIOUS
  <2>1. palette' = Compact(Stored, vt_tag_cb)[Len(Stored)].buffer
    BY Zenon DEF prf_model_vertex_palette_optimize
  <2> PICK tags : tags = vt_tag_cb
    OBVIOUS
  <2> PICK used : used = {m \in 1..MaxVertices :
                            \E l \in List \ deleted : \E i \in DOMAIN meant[l] : meant[l][i] = m}
    OBVIOUS
  <2> PICK s : s = Stored
    OBVIOUS
  <2>2. palette' = Compact(s, tags)[Len(s)].buffer
    BY <2>1
  <2>3. UsedKept(palette', s, used)
    BY <2>2, KeepsUsed
  <2>4. {palette'[q].name : q \in DOMAIN palette'} = used
    BY <2>3 DEF UsedKept
  <2>5. \A q, r \in DOMAIN palette' :
          q < r => \E i, j \in DOMAIN s : i < j /\ palette'[q] = s[i] /\ palette'[r] = s[j]
    BY <2>3 DEF UsedKept
  <2>6. ASSUME NEW q \in DOMAIN palette', NEW r \in DOMAIN palette', q < r
        PROVE  \E i, j \in DOMAIN Stored : i < j /\ palette'[q] = Stored[i] /\ palette'[r] = Stored[j]
    <3>1. PICK i \in DOMAIN s, j \in DOMAIN s : i < j /\ palette'[q] = s[i] /\ palette'[r] = s[j]
      BY <2>5, <2>6
    <3>2. i \in DOMAIN Stored /\ j \in DOMAIN Stored /\ s[i] = Stored[i] /\ s[j] = Stored[j]
      OBVIOUS
    <3> QED
      BY <3>1, <3>2
  <2> QED
    BY <2>4, <2>6
<1> HIDE DEF Keeps
<1>2. PInv => [Keeps]_palettevars
  BY <1>1
<1>3. []PInv => [][Keeps]_palettevars
  BY <1>2, PTL
<1>4. [][Keeps]_palettevars => OptimizeKeepsUsed
  BY DEF Keeps, OptimizeKeepsUsed
<1> QED
  BY <1>3, <1>4, PInvHolds, PTL
=============================================================================
