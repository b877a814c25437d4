------------------------- MODULE ModelDestroyProofs -------------------------
(***************************************************************************)
(* Proofs about prf_model_traverse_df and prf_model_destroy, for every     *)
(* tree the loader builds and every sequence of answers of a callback.     *)
(*                                                                         *)
(* The walk keeps a path from the root in its stacks.  The invariant says  *)
(* that the nodes before this path are the ones that were called, that     *)
(* exactly their lists and, without a pool, themselves are freed, and that *)
(* the path is therefore still readable.                                   *)
(***************************************************************************)
EXTENDS ModelDestroy, ModelLoadProofs

(* The inductive invariant of the walk.  N: the nodes; H: the child arrays of
   the model, after which stands the array that the traversal makes for the
   root; ls, ch, lm: the stacks of the traversal; C: the nodes called. *)

\* Of the lists on the stack the nodes before the walk's position are called, the
\* others are not; a called node stands in one of these lists or its parent is called.
Ahead(hp, ls, ch, C) ==
  \A j \in 1..Len(ls) : \A i \in 1..Len(Row(hp, ls, j)) : i < ch[j] <=> Row(hp, ls, j)[i] \in C
Behind(par, hp, ls, C) ==
  \A n \in C : par[n] \in C \/ \E j \in 1..Len(ls) : n \in Members(Row(hp, ls, j))

\* The children of a called node are called, once each and before it.
Below(N, par, C) == \A n \in 1..N : par[n] \in C => n \in C
Once(cs) == \A i, j \in 1..Len(cs) : cs[i].node = cs[j].node => i = j
After(par, cs) == \A i, j \in 1..Len(cs) : par[cs[i].node] = cs[j].node => i < j

\* The child arrays of the nodes in F are freed, and nothing else.
Memory(N, H, chi, hp, F) ==
  hp[H + 1].live /\ \A a \in 1..H : hp[a].live <=> \E p \in (1..N) \ F : chi[p] = a

Call(N) == [node : 1..N, code : Codes \cup {"CONTINUE"}]
Callees(cs) == {cs[i].node : i \in 1..Len(cs)}
Gone == IF job = "destroy" THEN Callees(calls) ELSE {}

Storage ==
  /\ Len(heap) > 0 /\ Shape(Len(kind), Len(heap) - 1, kind, parent, children, heap)
  /\ Memory(Len(kind), Len(heap) - 1, children, heap, Gone)
  /\ freed = IF pooled THEN {} ELSE Gone
Position ==
  /\ Walked(Len(heap) - 1, children, heap, lists, child, limit)
  /\ at = "loop" => (Len(lists) = 1 \/ Top(child) <= Top(limit))
  /\ at = "down" => (Top(child) <= Top(limit) /\ node = Stop(heap, lists, child, Len(lists)))
  /\ at = "close" => (Len(lists) > 1 /\ Top(child) = Top(limit) + 1)
PostOrder ==
  /\ Below(Len(kind), parent, Callees(calls)) /\ Once(calls) /\ After(parent, calls)
  /\ IF at = "done" THEN Callees(calls) = 1..Len(kind)
     ELSE Ahead(heap, lists, child, Callees(calls)) /\ Behind(parent, heap, lists, Callees(calls))
WalkInv ==
  /\ job \in {"user", "destroy"} /\ at \in {"loop", "down", "close", "done"}
  /\ calls \in Seq(Call(Len(kind)))
  /\ job = "destroy" => Stays
  /\ Storage
  /\ at # "done" => Position
  /\ Stays => PostOrder

RestInv ==
  /\ freed = {} /\ Shape(Len(kind), Len(heap), kind, parent, children, heap)
  /\ Allocated(Len(kind), Len(heap), children, heap)
DInv ==
  /\ status = "loading" => (IInv /\ MoreInv /\ at = "idle" /\ freed = {})
  /\ level = 0 =>
       /\ status # "loaded" => at = "idle"
       /\ status = "loaded" => IF at = "idle" THEN RestInv ELSE WalkInv
       /\ status = "destroyed" => (freed = Nodes /\ \A a \in DOMAIN heap : heap[a].live = FALSE)

-----------------------------------------------------------------------------
(* Positions of the walk *)

\* One more call, of a node whose children have all been called.
LEMMA CalleesNext ==
  ASSUME NEW S, NEW cs \in Seq(S), NEW c \in S
  PROVE  /\ Append(cs, c) \in Seq(S) /\ Len(cs) \in Nat /\ Len(Append(cs, c)) = Len(cs) + 1
         /\ Append(cs, c)[Len(cs) + 1] = c /\ (\A i \in 1..Len(cs) : Append(cs, c)[i] = cs[i])
         /\ Callees(Append(cs, c)) = Callees(cs) \cup {c.node}
<1> DEFINE m == Len(cs)
           t == Append(cs, c)
<1>1. m \in Nat /\ t \in Seq(S) /\ Len(t) = m + 1 /\ t[m + 1] = c /\ \A i \in 1..m : t[i] = cs[i]
  BY AppendProperties, LenProperties
<1>2. \A i : i \in 1..(m + 1) <=> (i \in 1..m \/ i = m + 1)
  BY <1>1
<1> HIDE DEF t
<1>3. Callees(t) = Callees(cs) \cup {c.node}
  BY <1>1, <1>2 DEF Callees
<1> QED
  BY <1>1, <1>3 DEF t

\* A call after those of the children keeps the order of the calls.
LEMMA CallKeepsOrder ==
  ASSUME NEW N, NEW H, NEW k, NEW par, NEW chi, NEW hp, Shape(N, H, k, par, chi, hp),
         NEW S, NEW cs \in Seq(S), NEW c \in S, c.node \in 1..N, c.node \notin Callees(cs),
         \A n \in 1..N : par[n] = c.node => n \in Callees(cs),
         Below(N, par, Callees(cs)), Once(cs), After(par, cs)
  PROVE  LET cs2 == Append(cs, c) IN Below(N, par, Callees(cs2)) /\ Once(cs2) /\ After(par, cs2)
<1> DEFINE m == Len(cs)
           t == Append(cs, c)
           x == c.node
           C == Callees(cs)
<1>1. /\ m \in Nat /\ Len(t) = m + 1 /\ t[m + 1] = c /\ (\A i \in 1..m : t[i] = cs[i])
      /\ Callees(t) = C \cup {x}
  BY CalleesNext
<1>2. \A i \in 1..m : cs[i].node \in C
  BY DEF Callees
<1>3. \A i : i \in 1..(m + 1) <=> (i \in 1..m \/ i = m + 1)
  BY <1>1
<1>4. par[x] # x
  <2>1. par[x] \in Nat /\ par[x] < x
    BY ParentsBefore
  <2> QED
    BY <2>1
<1>5. /\ x \in 1..N /\ x \notin C /\ (\A n \in 1..N : par[n] = x => n \in C) /\ (\A n \in 1..N : par[n] \in C => n \in C)
  BY DEF Below
<1>6. /\ \A i, j \in 1..m : cs[i].node = cs[j].node => i = j
      /\ \A i, j \in 1..m : par[cs[i].node] = cs[j].node => i < j
  BY DEF Once, After
<1> HIDE DEF m, t, x, C
<1>7. Below(N, par, Callees(t))
  BY <1>1, <1>5 DEF Below
<1>8. t[m + 1].node = x /\ \A i \in 1..m : t[i].node = cs[i].node /\ t[i].node # x /\ t[i].node \in C
  BY <1>1, <1>2, <1>5 DEF x
<1>9. \A i, j \in 1..(m + 1) : t[i].node = t[j].node => i = j
  BY <1>3, <1>6, <1>8
<1>10. ASSUME NEW i \in 1..(m + 1), NEW j \in 1..(m + 1), par[t[i].node] = t[j].node PROVE i < j
  <2>1. CASE i = m + 1
    <3>1. t[j].node # x
      BY <2>1, <1>4, <1>8, <1>10
    <3>2. t[j].node \in C
      BY <3>1, <1>3, <1>8
    <3> QED
      BY <2>1, <3>2, <1>5, <1>8, <1>10
  <2>2. CASE i \in 1..m /\ j = m + 1
    BY <2>2, <1>1
  <2>3. CASE i \in 1..m /\ j \in 1..m
    BY <2>3, <1>6, <1>8, <1>10
  <2> QED
    BY <2>1, <2>2, <2>3, <1>3
<1> QED
  BY <1>1, <1>7, <1>9, <1>10 DEF Once, After, t

\* A node on the walk has not been called yet, and with its children called
\* only below the walk's position.
LEMMA StopIsNew ==
  ASSUME NEW N, NEW H, NEW k, NEW par, NEW chi, NEW hp, NEW ls, NEW ch, NEW lm, NEW C, NEW j,
         Shape(N, H, k, par, chi, hp), Walked(H, chi, hp, ls, ch, lm), Ahead(hp, ls, ch, C),
         j \in 1..Len(ls), ch[j] <= lm[j]
  PROVE  Stop(hp, ls, ch, j) \notin C
<1> DEFINE s == Row(hp, ls, j)
<1>1. lm[j] = Len(s) /\ lm[j] \in Nat /\ ch[j] \in Nat \ {0}
  BY RowFacts DEF RowOK
<1>2. ch[j] \in 1..Len(s) /\ ~(ch[j] < ch[j])
  BY <1>1
<1>3. s[ch[j]] \notin C
  BY <1>2 DEF Ahead
<1> QED
  BY <1>3 DEF Row, Stop

\* The node at the innermost position is called, and the walk goes on behind it.
LEMMA LeafOrder ==
  ASSUME NEW N, NEW H, NEW k, NEW par, NEW chi, NEW hp, NEW ls, NEW ch, NEW lm, NEW C, NEW ch2, NEW x,
         Shape(N, H, k, par, chi, hp), Walked(H, chi, hp, ls, ch, lm),
         Ahead(hp, ls, ch, C), ch[Len(ls)] <= lm[Len(ls)], x = Stop(hp, ls, ch, Len(ls)),
         Moved(ls, ch[Len(ls)] + 1, ch, ch2)
  PROVE  /\ Ahead(hp, ls, ch2, C \cup {x})
         /\ Behind(par, hp, ls, C) => Behind(par, hp, ls, C \cup {x})
<1> DEFINE D == Len(ls)
           s == Row(hp, ls, D)
<1>1. D \in Nat /\ D > 0 /\ D \in 1..D
  <2>1. D \in Nat /\ D > 0
    BY LenProperties DEF Walked
  <2> QED
    BY <2>1
<1>2. /\ s \in Seq(1..N) /\ Rising(s) /\ lm[D] = Len(s) /\ lm[D] \in Nat /\ ch[D] \in Nat \ {0}
      /\ x \in Members(s)
  BY <1>1, RowFacts DEF RowOK
<1>3. ch[D] \in 1..Len(s) /\ s[ch[D]] = x
  BY <1>2 DEF Row, Stop
<1>4. \A i \in 1..Len(s) : s[i] \in Nat
  <2>1. \A i \in 1..Len(s) : s[i] \in 1..N
    BY <1>2, ElementOfSeq
  <2> QED
    BY <2>1
<1>5. ch2[D] = ch[D] + 1 /\ \A j \in 1..D : j # D => ch2[j] = ch[j]
  <2>1. \A j \in 1..D : j # D => j \in 1..(D - 1)
    BY <1>1
  <2> QED
    BY <2>1 DEF Moved
<1> HIDE DEF D
<1>6. ASSUME NEW j \in 1..D, NEW i \in 1..Len(Row(hp, ls, j))
      PROVE  i < ch2[j] <=> Row(hp, ls, j)[i] \in C \cup {x}
  <2>1. i < ch[j] <=> Row(hp, ls, j)[i] \in C
    BY <1>6 DEF Ahead, D
  <2>2. CASE j = D
    <3>1. i < ch2[j] <=> (i < ch[j] \/ i = ch[D])
      BY <2>2, <1>2, <1>5
    <3>2. s[i] = x <=> i = ch[D]
      <4>1. i < ch[D] => s[i] < x
        BY <2>2, <1>2, <1>3 DEF Rising
      <4>2. ch[D] < i => x < s[i]
        BY <2>2, <1>2, <1>3 DEF Rising
      <4>3. s[i] \in Nat /\ x \in Nat
        BY <2>2, <1>3, <1>4
      <4> QED
        BY <4>1, <4>2, <4>3, <1>2, <1>3
    <3> QED
      BY <2>1, <2>2, <3>1, <3>2
  <2>3. CASE j # D
    <3>1. Row(hp, ls, j) \in Seq(1..N)
      BY RowFacts DEF RowOK, D
    <3>2. Row(hp, ls, j)[i] \in Members(Row(hp, ls, j))
      BY <3>1, <1>6, LenProperties DEF Members
    <3>3. Row(hp, ls, j)[i] # x
      BY <2>3, <3>2, <1>1, <1>2, RowsApart DEF D
    <3> QED
      BY <2>1, <2>3, <3>3, <1>5
  <2> QED
    BY <2>2, <2>3
<1>7. Ahead(hp, ls, ch2, C \cup {x})
  BY <1>6 DEF Ahead, D
<1>8. Behind(par, hp, ls, C) => Behind(par, hp, ls, C \cup {x})
  BY <1>1, <1>2 DEF Behind, D
<1> QED
  BY <1>7, <1>8

\* The innermost list is exhausted; the node above it is called.
Exhausted(hp, ls, ch, lm, ls2, ch2, x) ==
  /\ Len(ls) > 1 /\ ch[Len(ls)] = lm[Len(ls)] + 1
  /\ ls2 = Drop(ls) /\ ch2 = Drop(ch) /\ x = Stop(hp, ls, ch, Len(ls) - 1)
AllUnder(N, par, x, C) == \A n \in 1..N : par[n] = x => n \in C
\* With a list exhausted, all nodes below the one above it are called.
LEMMA CloseOrder ==
  ASSUME NEW N, NEW H, NEW k, NEW par, NEW chi, NEW hp, NEW ls, NEW ch, NEW lm, NEW C, NEW ls2, NEW ch2, NEW x,
         Shape(N, H, k, par, chi, hp), Walked(H, chi, hp, ls, ch, lm),
         Ahead(hp, ls, ch, C), Behind(par, hp, ls, C), Exhausted(hp, ls, ch, lm, ls2, ch2, x)
  PROVE  Ahead(hp, ls2, ch2, C) /\ Behind(par, hp, ls2, C \cup {x}) /\ AllUnder(N, par, x, C)
<1> USE DEF Exhausted
<1> DEFINE D == Len(ls)
           K == D - 1
           s == Row(hp, ls, D)
<1>1. /\ ls \in Seq(1..(H + 1)) /\ D \in Nat /\ D > 1
  BY LenProperties DEF Walked
<1>2. K \in Nat /\ K \in 1..D /\ D \in 1..D /\ K \in 1..(D - 1) /\ D = K + 1 /\ D # 1
  <2> HIDE DEF D
  <2> QED
    BY <1>1
<1>3. /\ Len(ls2) = K /\ \A j \in 1..K : ls2[j] = ls[j] /\ ch2[j] = ch[j]
  <2>1. Upper(D, ls, ch, lm, ls2, ch2, Drop(lm))
    <3>1. ls2 = Shorter(ls) /\ ch2 = Shorter(ch) /\ Drop(lm) = Shorter(lm)
      BY DEF Drop, Shorter
    <3>2. Len(ls) = D
      OBVIOUS
    <3> HIDE DEF D
    <3> QED
      BY ZenonT(30), <1>1, <3>1, <3>2, WalkedUp
  <2> QED
    BY <2>1 DEF Upper
<1>4. chi[x] # 0 /\ s = hp[chi[x]].elems /\ ch[K] <= lm[K] /\ x = Stop(hp, ls, ch, K)
  BY <1>2 DEF Walked, Row
<1>5. x \in 1..N
  BY <1>2, <1>4, RowFacts DEF RowOK
<1>6. /\ s \in Seq(1..N) /\ lm[D] = Len(s) /\ lm[D] \in Nat
      /\ \A n \in Members(s) : par[n] = x
  <2>1. Above(hp, ls, ch, D) = x
    BY <1>2 DEF Above
  <2> QED
    BY <2>1, <1>2, RowFacts DEF RowOK
<1>7. ch[D] = lm[D] + 1
  OBVIOUS
<1>8. \A n \in Members(s) : n \in C
  <2> TAKE n \in Members(s)
  <2>1. PICK i \in 1..Len(s) : n = s[i]
    BY <1>6, LenProperties DEF Members
  <2>2. i < ch[D]
    BY <2>1, <1>6, <1>7
  <2> QED
    BY <2>1, <2>2, <1>2 DEF Ahead
<1>9. ASSUME NEW n \in 1..N, par[n] = x PROVE n \in C
  <2>1. n # 1
    <3>1. par[1] = 0 /\ N \in Nat
      BY DEF Shape
    <3> QED
      BY <3>1, <1>5, <1>9
  <2>2. n \in 2..N
    <3>1. N \in Nat
      BY DEF Shape
    <3> QED
      BY <2>1, <3>1
  <2>3. n \in Members(s)
    BY <2>2, <1>4, <1>9 DEF Shape
  <2> QED
    BY <2>3, <1>8
<1> HIDE DEF D, K
<1>10. \A j \in 1..K : j \in 1..D /\ Row(hp, ls2, j) = Row(hp, ls, j)
  <2>1. \A j \in 1..K : j \in 1..D
    BY <1>1, <1>2
  <2> QED
    BY <2>1, <1>3 DEF Row
<1>11. Ahead(hp, ls2, ch2, C)
  <2>1. \A j \in 1..D : \A i \in 1..Len(Row(hp, ls, j)) : i < ch[j] <=> Row(hp, ls, j)[i] \in C
    BY DEF Ahead, D
  <2> QED
    BY <2>1, <1>3, <1>10 DEF Ahead
<1>12. Behind(par, hp, ls2, C \cup {x})
  <2> SUFFICES ASSUME NEW n \in C \cup {x}
               PROVE  par[n] \in C \cup {x} \/ \E j \in 1..K : n \in Members(Row(hp, ls2, j))
    BY <1>3 DEF Behind
  <2>1. CASE n = x
    <3>1. x \in Members(Row(hp, ls, K))
      BY <1>2, <1>4, RowFacts DEF RowOK, D
    <3>2. K \in 1..K
      BY <1>1, <1>2
    <3> QED
      BY <2>1, <3>1, <3>2, <1>10
  <2>2. CASE n \in C
    <3>1. par[n] \in C \/ \E j \in 1..D : n \in Members(Row(hp, ls, j))
      BY <2>2 DEF Behind, D
    <3>2. ASSUME NEW j \in 1..D, n \in Members(Row(hp, ls, j))
          PROVE  par[n] = x \/ \E i \in 1..K : n \in Members(Row(hp, ls2, i))
      <4>1. j = D \/ j \in 1..K
        BY <1>1, <1>2
      <4> QED
        BY <3>2, <4>1, <1>6, <1>10
    <3> QED
      BY <3>1, <3>2
  <2> QED
    BY <2>1, <2>2
<1> QED
  BY <1>9, <1>11, <1>12 DEF AllUnder

\* The walk goes into the children of a node that has not been called: none of
\* them has been either.
LEMMA DownOrder ==
  ASSUME NEW N, NEW H, NEW k, NEW par, NEW chi, NEW hp, NEW ls, NEW ch, NEW lm, NEW C, NEW ls2, NEW ch2, NEW x,
         Shape(N, H, k, par, chi, hp), Walked(H, chi, hp, ls, ch, lm),
         Ahead(hp, ls, ch, C), Behind(par, hp, ls, C),
         ch[Len(ls)] <= lm[Len(ls)], x = Stop(hp, ls, ch, Len(ls)), chi[x] # 0,
         Len(ls2) = Len(ls) + 1, ch2[Len(ls) + 1] = 1, Row(hp, ls2, Len(ls) + 1) = hp[chi[x]].elems,
         \A j \in 1..Len(ls) : ls2[j] = ls[j] /\ ch2[j] = ch[j]
  PROVE  Ahead(hp, ls2, ch2, C) /\ Behind(par, hp, ls2, C)
<1> DEFINE D == Len(ls)
           s == hp[chi[x]].elems
<1>1. D \in Nat /\ D > 0 /\ D \in 1..D
  <2>1. D \in Nat /\ D > 0
    BY LenProperties DEF Walked
  <2> QED
    BY <2>1
<1>2. x \in 1..N /\ Above(hp, ls, ch, D) < x
  BY <1>1, RowFacts DEF RowOK
<1>3. x \notin C
  BY <1>1, StopIsNew
<1>4. s \in Seq(1..N) /\ \A n \in Members(s) : par[n] = x
  <2>1. ChildList(N, k, par, chi, x, s)
    BY <1>2 DEF Shape
  <2> QED
    BY <2>1 DEF ChildList
<1>5. ASSUME NEW n \in Members(s), n \in C PROVE FALSE
  <2>1. par[n] = x
    BY <1>4, <1>5
  <2>2. PICK j \in 1..D : n \in Members(Row(hp, ls, j))
    BY <2>1, <1>3, <1>5 DEF Behind
  <2>3. par[n] = Above(hp, ls, ch, j)
    BY <2>2, RowFacts DEF RowOK
  <2>4. j = D \/ j < D
    BY <1>1
  <2>5. j < D => Above(hp, ls, ch, j) < Above(hp, ls, ch, D)
    BY <1>1 DEF Walked
  <2>6. Above(hp, ls, ch, D) \in Nat
    <3>1. par[x] = Above(hp, ls, ch, D)
      BY <1>1, RowFacts DEF RowOK
    <3> QED
      BY <3>1, <1>2, ParentsBefore
  <2> QED
    BY <2>1, <2>3, <2>4, <2>5, <2>6, <1>2
<1> HIDE DEF D, s
<1>6. \A j : j \in 1..(D + 1) <=> (j \in 1..D \/ j = D + 1)
  BY <1>1
<1>7. /\ Len(ls2) = D + 1 /\ ch2[D + 1] = 1 /\ Row(hp, ls2, D + 1) = s
      /\ \A j \in 1..D : Row(hp, ls2, j) = Row(hp, ls, j) /\ ch2[j] = ch[j]
  BY DEF D, s, Row
<1>8. /\ \A j \in 1..D : \A i \in 1..Len(Row(hp, ls, j)) : i < ch[j] <=> Row(hp, ls, j)[i] \in C
      /\ \A n \in C : par[n] \in C \/ \E j \in 1..D : n \in Members(Row(hp, ls, j))
  BY DEF Ahead, Behind, D
<1>9. \A i \in 1..Len(s) : ~(i < 1) /\ s[i] \notin C
  <2>1. DOMAIN s = 1..Len(s) /\ Len(s) \in Nat
    BY <1>4, LenProperties
  <2>2. \A i \in 1..Len(s) : s[i] \in Members(s)
    BY <2>1 DEF Members
  <2>3. \A i \in 1..Len(s) : ~(i < 1)
    BY <2>1
  <2> QED
    BY <2>2, <2>3, <1>5
<1>10. Ahead(hp, ls2, ch2, C)
  BY <1>6, <1>7, <1>8, <1>9 DEF Ahead
<1>11. Behind(par, hp, ls2, C)
  BY <1>6, <1>7, <1>8 DEF Behind
<1> QED
  BY <1>10, <1>11

-----------------------------------------------------------------------------
(* Memory *)

\* destroy_cb frees one array: that of the node it is called with.
LEMMA OneArrayFreed ==
  ASSUME NEW N, NEW H, NEW k, NEW par, NEW chi, NEW hp, NEW hp2, NEW F, NEW x \in 1..N,
         Shape(N, H, k, par, chi, hp), Len(hp) = H + 1, Memory(N, H, chi, hp, F), x \notin F,
         hp2 = IF chi[x] # 0 THEN [hp EXCEPT ![chi[x]].live = FALSE] ELSE hp
  PROVE  hp2 \in Seq(ArrayOf(N)) /\ SameElems(hp, hp2) /\ Memory(N, H, chi, hp2, F \cup {x})
<1>1. /\ N \in Nat /\ H \in Nat /\ hp \in Seq(ArrayOf(N)) /\ chi \in [1..N -> 0..H]
      /\ \A p, q \in 1..N : (chi[p] = chi[q] /\ chi[p] # 0) => p = q
  BY DEF Shape
<1>2. hp[H + 1].live /\ \A a \in 1..H : hp[a].live <=> \E p \in (1..N) \ F : chi[p] = a
  BY DEF Memory
<1>3. CASE chi[x] = 0
  <2>1. hp2 = hp
    BY <1>3
  <2>2. \A a \in 1..H : a # 0
    BY <1>1
  <2>3. \A a \in 1..H : (\E p \in (1..N) \ F : chi[p] = a) <=> (\E p \in (1..N) \ (F \cup {x}) : chi[p] = a)
    BY <2>2, <1>3
  <2> QED
    BY <2>1, <2>3, <1>1, <1>2 DEF SameElems, Memory
<1>4. CASE chi[x] # 0
  <2> DEFINE b == chi[x]
             r == [hp[b] EXCEPT !.live = FALSE]
  <2>1. b \in 1..H /\ b \in 1..Len(hp) /\ b # H + 1 /\ H + 1 \in 1..Len(hp) /\ \A a \in 1..H : a \in 1..Len(hp)
    BY <1>1, <1>4
  <2>2. hp[b] \in ArrayOf(N)
    BY <2>1, <1>1, ElementOfSeq
  <2>3. r \in ArrayOf(N) /\ r.live = FALSE /\ r.elems = hp[b].elems
    BY <2>2 DEF ArrayOf
  <2>4. hp2 = [hp EXCEPT ![b] = r]
    BY <1>4
  <2> HIDE DEF b, r
  <2>5. hp2 \in Seq(ArrayOf(N)) /\ Len(hp2) = Len(hp) /\ \A a \in 1..Len(hp) : hp2[a] = IF a = b THEN r ELSE hp[a]
    <3>1. hp \in Seq(ArrayOf(N)) /\ b \in 1..Len(hp) /\ r \in ArrayOf(N)
      BY <2>1, <2>3, <1>1
    <3> QED
      BY ONLY <3>1, <2>4, ExceptSeq
  <2>6. SameElems(hp, hp2)
    BY <2>3, <2>5 DEF SameElems
  <2>7. hp2[H + 1].live
    BY <2>1, <2>5, <1>2
  <2>8. ASSUME NEW a \in 1..H PROVE hp2[a].live <=> \E p \in (1..N) \ (F \cup {x}) : chi[p] = a
    <3>1. CASE a = b
      <4>1. \A p \in 1..N : chi[p] = b => p = x
        BY <1>1, <1>4 DEF b
      <4> QED
        BY <3>1, <4>1, <2>1, <2>3, <2>5
    <3>2. CASE a # b
      <4>1. hp2[a] = hp[a]
        BY <3>2, <2>1, <2>5
      <4>2. \A p \in 1..N : chi[p] = a => p # x
        BY <3>2 DEF b
      <4> QED
        BY <4>1, <4>2, <1>2
    <3> QED
      BY <3>1, <3>2
  <2> QED
    BY <2>5, <2>6, <2>7, <2>8 DEF Memory
<1> QED
  BY <1>3, <1>4

-----------------------------------------------------------------------------
(* The steps of the walk *)

\* The innermost list, position and limit.
LEMMA TopFacts ==
  ASSUME NEW H, NEW chi, NEW hp, NEW ls, NEW ch, NEW lm, Walked(H, chi, hp, ls, ch, lm)
  PROVE  /\ Len(ls) \in Nat /\ Len(ls) > 0 /\ Len(ls) \in 1..Len(ls) /\ Len(ch) = Len(ls) /\ Len(lm) = Len(ls)
         /\ Top(ls) = ls[Len(ls)] /\ Top(ch) = ch[Len(ls)] /\ Top(lm) = lm[Len(ls)]
<1>1. Len(ls) \in Nat /\ Len(ls) > 0 /\ Len(ch) = Len(ls) /\ Len(lm) = Len(ls)
  BY LenProperties DEF Walked
<1>2. Len(ls) \in 1..Len(ls)
  BY <1>1
<1> QED
  BY <1>1, <1>2 DEF Top

\* Where the walk stands nothing has been freed.
LEMMA StopReadable ==
  ASSUME WalkInv, at # "done", NEW j \in 1..Len(lists), child[j] <= limit[j]
  PROVE  /\ Readable(lists[j], child[j]) /\ Elems(lists[j])[child[j]] = Stop(heap, lists, child, j)
         /\ Stop(heap, lists, child, j) \in 1..Len(kind) /\ Stop(heap, lists, child, j) \notin Gone
<1> DEFINE N == Len(kind)
           H == Len(heap) - 1
<1>1. /\ Shape(N, H, kind, parent, children, heap) /\ Memory(N, H, children, heap, Gone)
      /\ freed = (IF pooled THEN {} ELSE Gone) /\ Walked(H, children, heap, lists, child, limit)
  BY DEF WalkInv, Storage, Position
<1>2. job = "destroy" => Ahead(heap, lists, child, Callees(calls))
  BY DEF WalkInv, PostOrder
<1> HIDE DEF N, H
<1>3. ASSUME NEW i \in 1..Len(lists), child[i] <= limit[i]
      PROVE  Stop(heap, lists, child, i) \in 1..N /\ Stop(heap, lists, child, i) \notin Gone
  <2>1. Stop(heap, lists, child, i) \in 1..N
    BY <1>1, <1>3, RowFacts DEF RowOK
  <2>2. CASE job = "destroy"
    BY <2>1, <2>2, <1>1, <1>2, <1>3, StopIsNew DEF Gone
  <2>3. CASE job # "destroy"
    BY <2>1, <2>3 DEF Gone
  <2> QED
    BY <2>2, <2>3
<1>4. /\ Row(heap, lists, j) \in Seq(1..N) /\ limit[j] = Len(Row(heap, lists, j))
      /\ limit[j] \in Nat /\ child[j] \in Nat \ {0}
  BY <1>1, RowFacts DEF RowOK
<1>5. child[j] \in 1..Len(Row(heap, lists, j))
  BY <1>4
<1>6. heap[lists[j]].live
  <2>1. CASE j = 1
    BY <2>1, <1>1 DEF Walked, Memory
  <2>2. CASE j # 1
    <3>1. Len(lists) \in Nat
      BY <1>1, TopFacts
    <3>2. PICK i \in 1..(Len(lists) - 1) : j = i + 1
      BY <2>2, <3>1
    <3>3. i \in 1..Len(lists)
      BY <3>1
    <3> DEFINE p == Stop(heap, lists, child, i)
    <3>4. child[i] <= limit[i] /\ children[p] # 0 /\ lists[j] = children[p]
      BY <3>2, <1>1 DEF Walked
    <3>5. p \in (1..N) \ Gone
      BY <3>3, <3>4, <1>3
    <3>6. children[p] \in 1..H
      <4>1. children \in [1..N -> 0..H] /\ H \in Nat
        BY <1>1 DEF Shape
      <4> QED
        BY <4>1, <3>4, <3>5
    <3> HIDE DEF p
    <3>7. heap[children[p]].live
      BY <3>5, <3>6, <1>1 DEF Memory
    <3> QED
      BY <3>4, <3>7
  <2> QED
    BY <2>1, <2>2
<1>7. Stop(heap, lists, child, j) \notin freed
  BY <1>1, <1>3
<1> QED
  BY <1>3, <1>5, <1>6, <1>7 DEF Readable, Elems, Row, Stop, N

\* A call of the callback: the application's leaves the model as it is,
\* destroy_cb frees the node's array, and the node unless it is the pool's.
CallDone(n, code) ==
  /\ calls' = Append(calls, [node |-> n, code |-> code]) /\ calls' \in Seq(Call(Len(kind)))
  /\ Storage' /\ SameElems(heap, heap') /\ (job = "destroy" => Stays')
  /\ Stays' => (Stays /\ code \notin {"EXIT", "POP"})
\* A call leaves memory and the record of the calls in agreement.
LEMMA CalledKeeps ==
  ASSUME WalkInv, NEW n \in 1..Len(kind), n \notin Gone, NEW s, NEW code \in Codes \cup {"CONTINUE"},
         Called(n, s, code), UNCHANGED <<kind, parent, children, pooled, job>>
  PROVE  CallDone(n, code)
<1> DEFINE N == Len(kind)
           H == Len(heap) - 1
           c == [node |-> n, code |-> code]
<1>1. /\ Shape(N, H, kind, parent, children, heap) /\ Memory(N, H, children, heap, Gone) /\ Len(heap) > 0
      /\ freed = (IF pooled THEN {} ELSE Gone) /\ calls \in Seq(Call(N)) /\ (job = "destroy" => Stays)
  BY DEF WalkInv, Storage
<1>2. calls' = Append(calls, c)
  BY DEF Called
<1>3. c \in Call(N)
  BY DEF Call
<1>4. heap \in Seq(ArrayOf(N)) /\ N \in Nat /\ Len(heap) = H + 1 /\ H \in Nat
  <2>1. heap \in Seq(ArrayOf(N)) /\ N \in Nat
    BY <1>1 DEF Shape
  <2>2. Len(heap) \in Nat
    BY <2>1, LenProperties
  <2> QED
    BY <2>1, <2>2, <1>1
<1> HIDE DEF N, H, c
<1>5. /\ calls' \in Seq(Call(N)) /\ Len(calls) \in Nat /\ Len(calls') = Len(calls) + 1 /\ calls'[Len(calls) + 1] = c
      /\ (\A i \in 1..Len(calls) : calls'[i] = calls[i])
      /\ Callees(calls') = Callees(calls) \cup {c.node}
  BY <1>1, <1>2, <1>3, CalleesNext
<1>6. DOMAIN calls = 1..Len(calls) /\ DOMAIN calls' = 1..(Len(calls) + 1)
  BY <1>1, <1>5, LenProperties
<1>7. \A i : i \in 1..(Len(calls) + 1) <=> (i \in 1..Len(calls) \/ i = Len(calls) + 1)
  BY <1>5
<1>8. Stays' <=> (Stays /\ code \notin {"EXIT", "POP"})
  <2>1. c.code = code
    BY DEF c
  <2> QED
    BY <2>1, <1>5, <1>6, <1>7 DEF Stays
<1>9. c.node = n /\ n \in 1..N
  BY DEF c, N
<1>10. CASE job = "destroy"
  <2>1. code = "CONTINUE" /\ destroy_cb(n)
    BY <1>10 DEF Called
  <2>2. heap' = (IF children[n] # 0 THEN [heap EXCEPT ![children[n]].live = FALSE] ELSE heap)
        /\ freed' = (IF pooled THEN freed ELSE freed \cup {n})
    BY <2>1 DEF destroy_cb, NULL
  <2>3. Gone = Callees(calls) /\ Gone' = Gone \cup {n}
    BY <1>5, <1>9, <1>10 DEF Gone
  <2>4. heap' \in Seq(ArrayOf(N)) /\ SameElems(heap, heap') /\ Memory(N, H, children, heap', Gone \cup {n})
    BY <2>2, <1>1, <1>4, <1>9, OneArrayFreed
  <2>5. Len(heap') = H + 1 /\ \A a \in 1..H : heap'[a].elems = heap[a].elems
    <3>1. \A a \in 1..H : a \in 1..Len(heap)
      BY <1>4
    <3> QED
      BY <2>4, <3>1, <1>4 DEF SameElems
  <2>6. Len(heap') > 0 /\ H <= Len(heap') /\ Len(heap') - 1 = H
    BY <2>5, <1>4
  <2>7. Shape(N, H, kind, parent, children, heap')
    BY <2>4, <2>5, <2>6, <1>1, ShapeKeeps
  <2>8. freed' = IF pooled THEN {} ELSE Gone'
    BY <2>2, <2>3, <1>1
  <2>9. Storage'
    BY <2>3, <2>4, <2>6, <2>7, <2>8 DEF Storage, N
  <2> QED
    BY <2>1, <2>4, <2>9, <1>1, <1>2, <1>5, <1>8, <1>10 DEF CallDone, N, c
<1>11. CASE job # "destroy"
  <2>1. heap' = heap /\ freed' = freed /\ Gone = {} /\ Gone' = {}
    BY <1>11 DEF Called, Gone
  <2>2. Storage'
    BY <2>1, <1>1, <1>4 DEF Storage, N, H
  <2>3. SameElems(heap, heap')
    BY <2>1 DEF SameElems
  <2> QED
    BY <2>2, <2>3, <1>2, <1>5, <1>8, <1>11 DEF CallDone, N, c
<1> QED
  BY <1>10, <1>11

\* A step that calls nobody leaves the model and the calls as they are.
Quiet == UNCHANGED <<kind, parent, children, heap, pooled, freed, job, calls>>
\* Such a step keeps what the invariant says of memory and of the calls.
LEMMA QuietKeeps ==
  ASSUME WalkInv, Quiet
  PROVE  /\ job' \in {"user", "destroy"} /\ calls' \in Seq(Call(Len(kind'))) /\ (job' = "destroy" => Stays')
         /\ Storage' /\ (Stays' <=> Stays)
<1>1. /\ job' = job /\ calls' = calls /\ kind' = kind /\ heap' = heap /\ parent' = parent /\ children' = children
      /\ freed' = freed /\ pooled' = pooled
  BY DEF Quiet
<1>2. Stays' <=> Stays
  BY <1>1 DEF Stays
<1>3. Gone' = Gone
  BY <1>1 DEF Gone
<1>4. Storage'
  <2>1. Storage
    BY DEF WalkInv
  <2> QED
    BY <2>1, <1>1, <1>3 DEF Storage
<1> QED
  BY <1>1, <1>2, <1>4 DEF WalkInv

\* The top of the outer loop finds a node.
LEMMA LoopTopKeeps ==
  ASSUME WalkInv, LoopTop
  PROVE  WalkInv'
<1> DEFINE D == Len(lists)
<1>1. at = "loop" /\ child[1] <= limit[1] /\ Position
  BY DEF LoopTop, MoreToVisit, WalkInv
<1>2. Walked(Len(heap) - 1, children, heap, lists, child, limit) /\ (D = 1 \/ Top(child) <= Top(limit))
  BY <1>1 DEF Position
<1>3. D \in 1..D /\ Top(lists) = lists[D] /\ Top(child) = child[D] /\ Top(limit) = limit[D]
  BY <1>2, TopFacts
<1>4. child[D] <= limit[D]
  BY <1>1, <1>2, <1>3
<1>5. Readable(Top(lists), Top(child)) /\ Elems(Top(lists))[Top(child)] = Stop(heap, lists, child, D)
  BY <1>1, <1>3, <1>4, StopReadable
<1>6. /\ node' = Stop(heap, lists, child, D) /\ at' = "down" /\ Quiet /\ UNCHANGED <<lists, child, limit>>
  BY <1>5 DEF LoopTop, Quiet, vars
<1>7. /\ kind' = kind /\ heap' = heap /\ parent' = parent /\ children' = children /\ calls' = calls
      /\ lists' = lists /\ child' = child /\ limit' = limit
  BY <1>6 DEF Quiet
<1>8. Position'
  BY <1>2, <1>3, <1>4, <1>6, <1>7 DEF Position
<1>9. Stays => PostOrder'
  <2>1. Stays => PostOrder
    BY DEF WalkInv
  <2> QED
    BY <2>1, <1>1, <1>6, <1>7 DEF PostOrder
<1> QED
  BY <1>6, <1>8, <1>9, QuietKeeps DEF WalkInv

\* The walk goes down into a list of which nothing has been called.
LEMMA DownKeeps ==
  ASSUME WalkInv, Down
  PROVE  WalkInv'
<1> DEFINE N == Len(kind)
           H == Len(heap) - 1
           D == Len(lists)
           ls2 == Append(lists, children[node])
           ch2 == Append(child, 1)
           lm2 == Append(limit, Len(heap[children[node]].elems))
<1>1. at = "down" /\ children[node] # 0 /\ Position
  BY DEF Down, WalkInv, NULL
<1>2. Walked(H, children, heap, lists, child, limit) /\ Top(child) <= Top(limit) /\ node = Stop(heap, lists, child, D)
  BY <1>1 DEF Position
<1>3. D \in 1..D /\ Top(child) = child[D] /\ Top(limit) = limit[D]
  BY <1>2, TopFacts
<1>4. child[D] <= limit[D]
  BY <1>2, <1>3
<1>5. Shape(N, H, kind, parent, children, heap) /\ Memory(N, H, children, heap, Gone) /\ freed = (IF pooled THEN {} ELSE Gone)
  BY DEF WalkInv, Storage
<1>6. node \in 1..N /\ node \notin Gone
  BY <1>1, <1>2, <1>3, <1>4, StopReadable
<1>7. /\ Walked(H, children, heap, ls2, ch2, lm2) /\ Len(ls2) = D + 1
      /\ ch2[Len(ls2)] = 1 /\ 1 <= lm2[Len(ls2)] /\ Stop(heap, ls2, ch2, Len(ls2)) = heap[children[node]].elems[1]
      /\ Row(heap, ls2, Len(ls2)) = heap[children[node]].elems
      /\ \A j \in 1..D : ls2[j] = lists[j] /\ ch2[j] = child[j]
  <2>1. /\ ls2 = Append(lists, children[node]) /\ ch2 = Append(child, 1)
        /\ lm2 = Append(limit, Len(heap[children[node]].elems))
    OBVIOUS
  <2>2. child[Len(lists)] <= limit[Len(lists)] /\ node = Stop(heap, lists, child, Len(lists)) /\ children[node] # 0
    BY <1>1, <1>2, <1>4
  <2>3. Shape(N, H, kind, parent, children, heap) /\ Walked(H, children, heap, lists, child, limit)
    BY <1>2, <1>5
  <2> HIDE DEF N, H, ls2, ch2, lm2, D
  <2>5. Descent(children, heap, lists, child, limit, node, ls2, ch2, lm2)
    BY <2>1, <2>2 DEF Descent
  <2>4. Walked(H, children, heap, ls2, ch2, lm2)
        /\ Lower(Len(lists), heap[children[node]].elems, node, heap, lists, child, ls2, ch2, lm2)
    BY <2>3, <2>5, WalkedDown
  <2> QED
    BY <2>4 DEF Lower, D
<1>8. Stays => (Ahead(heap, lists, child, Callees(calls)) /\ Behind(parent, heap, lists, Callees(calls)))
  BY <1>1 DEF WalkInv, PostOrder
<1> HIDE DEF N, H, ls2, ch2, lm2
<1>9. Stays => (Ahead(heap, ls2, ch2, Callees(calls)) /\ Behind(parent, heap, ls2, Callees(calls)))
  <2> SUFFICES ASSUME Stays PROVE Ahead(heap, ls2, ch2, Callees(calls)) /\ Behind(parent, heap, ls2, Callees(calls))
    OBVIOUS
  <2>1. ch2[D + 1] = 1 /\ Row(heap, ls2, D + 1) = heap[children[node]].elems
    BY <1>7
  <2> QED
    BY <2>1, <1>1, <1>2, <1>4, <1>5, <1>7, <1>8, DownOrder
<1>10. D + 1 \in 1..(D + 1)
  BY <1>3
<1>11. heap[children[node]].elems[1] \notin Gone
  <2>1. CASE job = "destroy"
    <3>1. Stays /\ Gone = Callees(calls)
      BY <2>1 DEF WalkInv, Gone
    <3>2. Len(ls2) \in 1..Len(ls2) /\ ch2[Len(ls2)] <= lm2[Len(ls2)]
      BY <1>7, <1>10
    <3>3. Stop(heap, ls2, ch2, Len(ls2)) \notin Callees(calls)
      BY <3>1, <3>2, <1>5, <1>7, <1>9, StopIsNew
    <3> QED
      BY <3>1, <3>3, <1>7
  <2>2. CASE job # "destroy"
    BY <2>2 DEF Gone
  <2> QED
    BY <2>1, <2>2
<1>12. Readable(children[node], 1)
  <2>1. children[node] \in 1..H
    <3>1. children \in [1..N -> 0..H] /\ H \in Nat
      BY <1>5 DEF Shape
    <3> QED
      BY <3>1, <1>1, <1>6
  <2>2. heap[children[node]].live
    BY <2>1, <1>5, <1>6 DEF Memory
  <2>3. 1 \in 1..Len(heap[children[node]].elems)
    <3>1. lm2[Len(ls2)] = Len(heap[children[node]].elems) /\ lm2[Len(ls2)] \in Nat
      <4>1. Len(ls2) \in 1..Len(ls2)
        BY <1>7, <1>10
      <4>2. RowOK(N, kind, parent, children, heap, ls2, ch2, lm2, Len(ls2))
        BY <4>1, <1>5, <1>7, RowFacts
      <4> QED
        BY <4>2, <1>7 DEF RowOK
    <3> QED
      BY <3>1, <1>7
  <2>4. heap[children[node]].elems[1] \notin freed
    BY <1>5, <1>11
  <2> QED
    BY <2>2, <2>3, <2>4 DEF Readable, Elems
<1>13. /\ lists' = ls2 /\ child' = ch2 /\ limit' = lm2 /\ node' = heap[children[node]].elems[1]
       /\ Quiet /\ at' = "down"
  BY <1>1, <1>12 DEF Down, Elems, Quiet, vars, ls2, ch2, lm2
<1>14. kind' = kind /\ heap' = heap /\ parent' = parent /\ children' = children /\ calls' = calls
  BY <1>13 DEF Quiet
<1>15. Position'
  <2>1. Top(ch2) = 1 /\ Top(lm2) = lm2[Len(ls2)]
    BY <1>7, TopFacts
  <2>2. Walked(Len(heap) - 1, children, heap, ls2, ch2, lm2)
    BY <1>7 DEF H
  <2> QED
    BY <2>1, <2>2, <1>7, <1>13, <1>14 DEF Position
<1>16. Stays => PostOrder'
  <2>1. Stays => Below(N, parent, Callees(calls)) /\ Once(calls) /\ After(parent, calls)
    BY DEF WalkInv, PostOrder, N
  <2> QED
    BY <2>1, <1>9, <1>13, <1>14 DEF PostOrder, N
<1> QED
  BY <1>13, <1>15, <1>16, QuietKeeps DEF WalkInv

\* All nodes are called when the root is, for the children of a called node are.
LEMMA AllCalled ==
  ASSUME NEW N, NEW H, NEW k, NEW par, NEW chi, NEW hp, Shape(N, H, k, par, chi, hp),
         NEW C, C \subseteq 1..N, 1 \in C, Below(N, par, C)
  PROVE  C = 1..N
<1> DEFINE M == {n \in Nat : n \in 1..N /\ n \notin C}
<1> SUFFICES ASSUME M # {} PROVE FALSE
  <2>1. \A n \in 1..N : n \in Nat
    OBVIOUS
  <2> QED
    BY <2>1
<1>1. PICK n \in M : \A m \in M : n <= m
  BY LeastExists
<1>2. n \in 1..N /\ n \notin C /\ n # 1 /\ N \in Nat
  BY DEF Shape
<1>3. par[n] \in Nat /\ par[n] < n /\ par[n] # 0
  BY <1>2, ParentsBefore
<1>4. par[n] \in 1..N /\ par[n] \notin M
  BY <1>1, <1>2, <1>3
<1>5. par[n] \in C
  BY <1>3, <1>4
<1> QED
  BY <1>2, <1>5 DEF Below

\* The loop ends when the root has been called.
LEMMA LoopEndsKeeps ==
  ASSUME WalkInv, LoopEnds
  PROVE  WalkInv'
<1> DEFINE N == Len(kind)
           H == Len(heap) - 1
<1>1. /\ at = "loop" /\ ~(child[1] <= limit[1]) /\ at' = "done" /\ Quiet /\ Position
  BY DEF LoopEnds, MoreToVisit, WalkInv, Quiet, vars
<1>2. Walked(H, children, heap, lists, child, limit) /\ Shape(N, H, kind, parent, children, heap) /\ calls \in Seq(Call(N))
  BY <1>1 DEF Position, WalkInv, Storage
<1>3. kind' = kind /\ parent' = parent /\ calls' = calls
  BY <1>1 DEF Quiet
<1> HIDE DEF N, H
<1>4. Stays => PostOrder'
  <2> SUFFICES ASSUME Stays PROVE PostOrder'
    OBVIOUS
  <2> DEFINE C == Callees(calls)
  <2>1. Below(N, parent, C) /\ Once(calls) /\ After(parent, calls) /\ Ahead(heap, lists, child, C)
    BY <1>1 DEF WalkInv, PostOrder, N
  <2>2. 1 \in 1..Len(lists)
    BY <1>2, TopFacts
  <2>3. /\ limit[1] = Len(Row(heap, lists, 1)) /\ limit[1] \in Nat /\ child[1] \in Nat \ {0}
        /\ Row(heap, lists, 1) # <<>> /\ Row(heap, lists, 1) \in Seq(1..N)
    BY <2>2, <1>2, RowFacts DEF RowOK
  <2>4. Row(heap, lists, 1) = <<1>>
    BY <1>2 DEF Walked, Row
  <2>5. Len(Row(heap, lists, 1)) = 1 /\ Row(heap, lists, 1)[1] = 1
    BY <2>4
  <2>6. 1 \in 1..Len(Row(heap, lists, 1)) /\ 1 < child[1]
    BY <2>3, <2>5, <1>1
  <2>7. 1 \in C
    BY <2>1, <2>2, <2>5, <2>6 DEF Ahead
  <2>8. C \subseteq 1..N
    <3>1. \A i \in 1..Len(calls) : calls[i] \in Call(N)
      BY <1>2, ElementOfSeq
    <3> QED
      BY <3>1 DEF Callees, Call
  <2>9. C = 1..N
    BY <2>1, <2>7, <2>8, <1>2, AllCalled
  <2> QED
    BY <2>1, <2>9, <1>1, <1>3 DEF PostOrder, N
<1> QED
  BY <1>1, <1>4, QuietKeeps DEF WalkInv

\* Freeing arrays leaves the lists of the walk and the order of the calls alone.
LEMMA OrderKeeps ==
  ASSUME NEW H, NEW par, NEW chi, NEW hp, NEW hp2, NEW ls, NEW ch, NEW lm, NEW C,
         Walked(H, chi, hp, ls, ch, lm), H \in Nat, SameElems(hp, hp2),
         Ahead(hp, ls, ch, C) /\ Behind(par, hp, ls, C)
  PROVE  Ahead(hp2, ls, ch, C) /\ Behind(par, hp2, ls, C)
<1>0. SameRows(hp, hp2, ls, ch)
  BY WalkedKeeps
<1>1. \A j \in 1..Len(ls) : Row(hp2, ls, j) = Row(hp, ls, j)
  BY <1>0 DEF SameRows
<1>2. Ahead(hp2, ls, ch, C)
  BY <1>1 DEF Ahead
<1>3. Behind(par, hp2, ls, C)
  BY <1>1 DEF Behind
<1> QED
  BY <1>2, <1>3

\* A call of a node whose children have been called keeps the order.
Ordered(N, par, cs) == Below(N, par, Callees(cs)) /\ Once(cs) /\ After(par, cs)
\* The same, for the step of the traversal.
LEMMA CalledOrder ==
  ASSUME WalkInv, Stays, NEW n \in 1..Len(kind), n \notin Callees(calls), NEW code \in Codes \cup {"CONTINUE"},
         \A m \in 1..Len(kind) : parent[m] = n => m \in Callees(calls),
         calls' = Append(calls, [node |-> n, code |-> code])
  PROVE  Ordered(Len(kind), parent, calls') /\ Callees(calls') = Callees(calls) \cup {n}
<1> DEFINE N == Len(kind)
           H == Len(heap) - 1
           c == [node |-> n, code |-> code]
<1>1. /\ Shape(N, H, kind, parent, children, heap) /\ calls \in Seq(Call(N))
      /\ Below(N, parent, Callees(calls)) /\ Once(calls) /\ After(parent, calls)
  BY DEF WalkInv, Storage, PostOrder
<1>2. c \in Call(N) /\ c.node = n /\ n \in 1..N /\ calls' = Append(calls, c)
  BY DEF Call
<1>3. \A m \in 1..N : parent[m] = c.node => m \in Callees(calls)
  BY <1>2
<1> HIDE DEF N, H, c
<1>4. Callees(calls') = Callees(calls) \cup {n}
  BY <1>1, <1>2, CalleesNext
<1>5. c.node \in 1..N /\ c.node \notin Callees(calls)
  BY <1>2
<1>6. Ordered(N, parent, calls')
  BY <1>1, <1>2, <1>3, <1>5, CallKeepsOrder DEF Ordered
<1> QED
  BY <1>4, <1>6 DEF N

\* What a call leaves of the walk: the lists as they were.
LEMMA CallWalked ==
  ASSUME WalkInv, Position, NEW n, NEW code, CallDone(n, code), UNCHANGED <<kind, job>>
  PROVE  /\ Walked(Len(heap') - 1, children, heap', lists, child, limit)
         /\ job' \in {"user", "destroy"} /\ calls' \in Seq(Call(Len(kind'))) /\ (job' = "destroy" => Stays')
         /\ Storage' /\ Len(heap') = Len(heap) /\ Len(heap) - 1 \in Nat
<1> DEFINE H == Len(heap) - 1
<1>1. Walked(H, children, heap, lists, child, limit) /\ H \in Nat
  BY DEF Position, WalkInv, Storage, Shape
<1>2. SameElems(heap, heap') /\ Len(heap') = Len(heap)
  BY DEF CallDone, SameElems
<1> HIDE DEF H
<1>3. Walked(H, children, heap', lists, child, limit)
  BY <1>1, <1>2, WalkedKeeps
<1> QED
  BY <1>1, <1>2, <1>3 DEF CallDone, WalkInv, H

\* The callback is called with a node without children.
LEMMA LeafKeeps ==
  ASSUME WalkInv, NEW code \in Codes \cup {"CONTINUE"}, CallLeaf(code)
  PROVE  WalkInv'
<1> DEFINE N == Len(kind)
           H == Len(heap) - 1
           D == Len(lists)
           s == Row(heap, lists, D)
<1>1. /\ at = "down" /\ children[node] = 0 /\ Called(node, state, code) /\ (code = "POP" => MayPop(node)) /\ Position
      /\ kind' = kind /\ parent' = parent /\ children' = children /\ pooled' = pooled /\ job' = job /\ lists' = lists /\ limit' = limit
  BY DEF CallLeaf, WalkInv, NULL
<1>2. Walked(H, children, heap, lists, child, limit) /\ Top(child) <= Top(limit) /\ node = Stop(heap, lists, child, D)
  BY <1>1 DEF Position
<1>3. /\ D \in Nat /\ D > 0 /\ D \in 1..D /\ Top(lists) = lists[D] /\ Top(child) = child[D] /\ Top(limit) = limit[D]
      /\ Len(child) = D /\ Len(limit) = D
  BY <1>2, TopFacts
<1>4. child[D] <= limit[D]
  BY <1>2, <1>3
<1>5. Shape(N, H, kind, parent, children, heap)
  BY DEF WalkInv, Storage
<1>6. node \in 1..N /\ node \notin Gone
  BY <1>1, <1>2, <1>3, <1>4, StopReadable
<1>7. CallDone(node, code)
  BY <1>1, <1>6, CalledKeeps
<1>8. /\ Walked(Len(heap') - 1, children, heap', lists, child, limit)
      /\ job' \in {"user", "destroy"} /\ calls' \in Seq(Call(Len(kind'))) /\ (job' = "destroy" => Stays')
      /\ Storage' /\ Len(heap') = Len(heap) /\ Len(heap) - 1 \in Nat
  BY <1>1, <1>7, CallWalked
<1>9. /\ s \in Seq(1..N) /\ Paired(kind, s) /\ limit[D] = Len(s) /\ limit[D] \in Nat /\ child[D] \in Nat \ {0}
  <2> HIDE DEF N, H, D
  <2>1. RowOK(N, kind, parent, children, heap, lists, child, limit, D)
    BY <1>2, <1>3, <1>5, RowFacts DEF D
  <2> QED
    BY <2>1 DEF RowOK
<1> HIDE DEF N, H, s
<1>10. CASE code = "EXIT"
  <2>1. at' = "done"
    BY <1>10 DEF CallLeaf
  <2>2. ~Stays'
    BY <1>7, <1>10 DEF CallDone
  <2> QED
    BY <2>1, <2>2, <1>8 DEF WalkInv
<1>11. CASE code = "POP"
  <2> DEFINE pops == {j \in DOMAIN s : j > child[D] /\ kind[s[j]] \in {"pop", "xpop"}}
             x == CHOOSE j \in pops : \A i \in pops : j <= i
  <2>1. Elems(Top(lists)) = s
    BY <1>3 DEF Elems, Row, s
  <2>2. \E i \in 1..child[D] : kind[s[i]] = "push" /\ \A j \in i..child[D] : kind[s[j]] \notin {"pop", "xpop"}
    BY <2>1, <1>1, <1>3, <1>11 DEF MayPop
  <2>3. pops # {} /\ x \in Nat \ {0} /\ x <= Len(s)
    <3>1. child[D] <= Len(s)
      BY <1>4, <1>9
    <3> QED
      BY <2>2, <3>1, <1>9, PopIsThere
  <2>4. child' = [child EXCEPT ![D] = x] /\ at' = "loop"
    BY <2>1, <2>3, <1>3, <1>11 DEF CallLeaf
  <2> HIDE DEF x, pops
  <2>5. Walked(Len(heap') - 1, children, heap', lists, child', limit) /\ child'[D] = x
    <3> DEFINE H2 == Len(heap') - 1
    <3>1. Walked(H2, children, heap', lists, child, limit)
      BY <1>8
    <3>2. child' = [child EXCEPT ![Len(lists)] = x] /\ x \in Nat \ {0}
      BY <2>3, <2>4
    <3> HIDE DEF H2, D
    <3>3. Walked(H2, children, heap', lists, child', limit) /\ Moved(lists, x, child, child')
      BY <3>1, <3>2, WalkedMoves
    <3> QED
      BY <3>3 DEF Moved, H2, D
  <2>6. Top(child') = x /\ Top(limit) = limit[D]
    BY <2>5, TopFacts
  <2>7. Top(child') <= Top(limit')
    BY <2>3, <2>6, <1>1, <1>9
  <2>8. Position'
    BY <2>4, <2>5, <2>7, <1>1 DEF Position
  <2>9. ~Stays'
    BY <1>7, <1>11 DEF CallDone
  <2> QED
    BY <2>4, <2>8, <2>9, <1>8 DEF WalkInv
<1>12. CASE code \notin {"EXIT", "POP"}
  <2> DEFINE x == child[D] + 1
  <2>1. child' = [child EXCEPT ![D] = x] /\ at' = IF D - 1 > 0 /\ Top(child') > Top(limit) THEN "close" ELSE "loop"
    BY <1>3, <1>12 DEF CallLeaf, Depth0
  <2>2. x \in Nat \ {0}
    BY <1>9
  <2> HIDE DEF x
  <2>3. /\ Walked(Len(heap') - 1, children, heap', lists, child', limit) /\ child'[D] = x
        /\ \A j \in 1..(D - 1) : child'[j] = child[j]
    <3> DEFINE H2 == Len(heap') - 1
    <3>1. Walked(H2, children, heap', lists, child, limit)
      BY <1>8
    <3>2. child' = [child EXCEPT ![Len(lists)] = x] /\ x \in Nat \ {0}
      BY <2>1, <2>2
    <3> HIDE DEF H2, D
    <3>3. Walked(H2, children, heap', lists, child', limit) /\ Moved(lists, x, child, child')
      BY <3>1, <3>2, WalkedMoves
    <3> QED
      BY <3>3 DEF Moved, H2, D
  <2>4. Top(child') = x /\ Top(limit') = limit[D]
    BY <2>3, <1>1, TopFacts
  <2>5. at' \in {"loop", "close"} /\ (at' = "loop" => (D = 1 \/ x <= limit[D])) /\ (at' = "close" => (D > 1 /\ x = limit[D] + 1))
    <3>1. x = child[D] + 1
      BY DEF x
    <3>2. Top(limit) = limit[D]
      BY <1>3
    <3> QED
      BY <2>1, <2>4, <3>1, <3>2, <1>3, <1>4, <1>9
  <2>6. Position'
    BY <2>3, <2>4, <2>5, <1>1 DEF Position
  <2>7. ASSUME Stays' PROVE PostOrder'
    <3> DEFINE C == Callees(calls)
    <3>1. Stays /\ calls' = Append(calls, [node |-> node, code |-> code]) /\ SameElems(heap, heap')
      BY <2>7, <1>7 DEF CallDone
    <3>2. Ahead(heap, lists, child, C) /\ Behind(parent, heap, lists, C)
      BY <3>1, <1>1 DEF WalkInv, PostOrder
    <3>3. node \notin C
      <4> HIDE DEF C
      <4> QED
        BY <3>2, <1>2, <1>3, <1>4, <1>5, StopIsNew
    <3>4. \A m \in 1..N : parent[m] # node
      <4> SUFFICES ASSUME NEW m \in 1..N, parent[m] = node PROVE FALSE
        OBVIOUS
      <4>1. m # 1
        BY <1>5, <1>6 DEF Shape
      <4>2. m \in 2..N
        BY <4>1, <1>5 DEF Shape
      <4> QED
        BY <4>2, <1>1, <1>5 DEF Shape
    <3>5. Ordered(N, parent, calls') /\ Callees(calls') = C \cup {node}
      BY <3>1, <3>3, <3>4, <1>6, CalledOrder DEF N
    <3> HIDE DEF C
    <3>6. Ahead(heap, lists, child', C \cup {node}) /\ Behind(parent, heap, lists, C \cup {node})
      <4>1. Moved(lists, child[Len(lists)] + 1, child, child')
        BY <2>3 DEF x, Moved
      <4>2. child[Len(lists)] <= limit[Len(lists)] /\ node = Stop(heap, lists, child, Len(lists))
        BY <1>2, <1>4
      <4> HIDE DEF D
      <4> QED
        BY <3>2, <4>1, <4>2, <1>2, <1>5, LeafOrder
    <3>7. Walked(H, children, heap, lists, child', limit) /\ H \in Nat
      <4>1. H \in Nat
        BY <1>5 DEF Shape
      <4> QED
        BY <4>1, <2>1, <2>2, <1>2, WalkedMoves
    <3>8. Ahead(heap', lists, child', C \cup {node}) /\ Behind(parent, heap', lists, C \cup {node})
      BY <3>1, <3>6, <3>7, OrderKeeps
    <3> QED
      BY <2>5, <3>5, <3>8, <1>1 DEF PostOrder, Ordered, N
  <2> QED
    BY <2>5, <2>6, <2>7, <1>8 DEF WalkInv
<1> QED
  BY <1>10, <1>11, <1>12

\* A list is exhausted and the callback is called with the node above it.
LEMMA CloseKeeps ==
  ASSUME WalkInv, NEW code \in Codes \cup {"CONTINUE"}, Close(code)
  PROVE  WalkInv'
<1> DEFINE N == Len(kind)
           H == Len(heap) - 1
           H2 == Len(heap') - 1
           D == Len(lists)
           K == D - 1
           C == Callees(calls)
           x == Stop(heap, lists, child, K)
           up == Drop(child)
<1>1. at = "close" /\ Position
  BY DEF Close, WalkInv
<1>2. Walked(H, children, heap, lists, child, limit) /\ D > 1 /\ Top(child) = Top(limit) + 1
  BY <1>1 DEF Position
<1>3. /\ D \in Nat /\ D \in 1..D /\ Top(child) = child[D] /\ Top(limit) = limit[D] /\ Len(child) = D /\ Len(limit) = D
  BY <1>2, TopFacts
<1>4. K \in 1..D /\ K \in 1..(D - 1) /\ K \in 1..K
  BY <1>2, <1>3
<1>5. child[K] <= limit[K] /\ children[x] # 0
  BY <1>2, <1>4 DEF Walked
<1>6. Shape(N, H, kind, parent, children, heap) /\ H \in Nat
  BY DEF WalkInv, Storage, Shape
<1>7. Readable(lists[K], child[K]) /\ Elems(lists[K])[child[K]] = x /\ x \in 1..N /\ x \notin Gone
  BY <1>1, <1>4, <1>5, StopReadable
<1>8. /\ Called(x, state', code) /\ lists' = Drop(lists) /\ limit' = Drop(limit)
      /\ kind' = kind /\ parent' = parent /\ children' = children /\ pooled' = pooled /\ job' = job
      /\ IF code = "EXIT" THEN at' = "done" /\ child' = Drop(child)
         ELSE at' = "loop" /\ child' = [Drop(child) EXCEPT ![K] = child[K] + 1]
  BY <1>3, <1>7 DEF Close
<1>9. CallDone(x, code)
  BY <1>7, <1>8, CalledKeeps
<1>10. /\ Walked(H2, children, heap', lists, child, limit)
       /\ job' \in {"user", "destroy"} /\ calls' \in Seq(Call(Len(kind'))) /\ (job' = "destroy" => Stays')
       /\ Storage'
  BY <1>1, <1>8, <1>9, CallWalked
<1>10a. lists' = Shorter(lists) /\ limit' = Shorter(limit) /\ up = Shorter(child) /\ Len(lists) = D
  BY <1>8 DEF Drop, Shorter
<1>11. CASE code = "EXIT"
  <2>1. ~Stays'
    BY <1>9, <1>11 DEF CallDone
  <2> QED
    BY <2>1, <1>8, <1>10, <1>11 DEF WalkInv
<1>12. CASE code # "EXIT"
  <2> DEFINE y == child[K] + 1
  <2>1. at' = "loop" /\ child' = [up EXCEPT ![K] = y]
    BY <1>8, <1>12
  <2>2. /\ limit[K] \in Nat /\ child[K] \in Nat \ {0} /\ (K # 1 => children[Row(heap, lists, K)[limit[K]]] = 0)
    <3> HIDE DEF N, H, D, K
    <3>1. RowOK(N, kind, parent, children, heap, lists, child, limit, K)
      BY <1>2, <1>4, <1>6, RowFacts DEF D
    <3> QED
      BY <3>1 DEF RowOK
  <2>3. K = 1 \/ y <= limit[K]
    <3>1. x = Row(heap, lists, K)[child[K]]
      BY DEF Row, Stop
    <3>2. K = 1 \/ child[K] # limit[K]
      BY <2>2, <3>1, <1>5
    <3> QED
      BY <2>2, <3>2, <1>5
  <2>4. y \in Nat \ {0}
    BY <2>2
  <2> HIDE DEF N, H, H2, K, up, y
  <2>5. /\ Walked(H2, children, heap', lists', up, limit') /\ Upper(D, lists, child, limit, lists', up, limit')
    BY <1>2, <1>10, <1>10a, WalkedUp
  <2>6. Len(lists') = K /\ up[K] = child[K] /\ limit'[K] = limit[K] /\ lists'[K] = lists[K]
    BY <2>5, <1>4 DEF Upper, K
  <2>7. child' = [up EXCEPT ![Len(lists')] = y]
    BY <2>1, <2>6
  <2>8. Walked(H2, children, heap', lists', child', limit') /\ Moved(lists', y, up, child')
    BY <2>4, <2>5, <2>7, WalkedMoves
  <2>9. Top(child') = y /\ Top(limit') = limit[K]
    BY <2>6, <2>8, TopFacts DEF Moved
  <2>10. Position'
    BY <2>1, <2>3, <2>6, <2>8, <2>9, <1>8 DEF Position, H2
  <2>11. ASSUME Stays' PROVE PostOrder'
    <3>1. Stays /\ calls' = Append(calls, [node |-> x, code |-> code]) /\ SameElems(heap, heap')
      BY <2>11, <1>9 DEF CallDone
    <3>2. Ahead(heap, lists, child, C) /\ Behind(parent, heap, lists, C)
      BY <3>1, <1>1 DEF WalkInv, PostOrder
    <3>3. x \notin C
      <4> HIDE DEF C, D
      <4> QED
        BY <3>2, <1>2, <1>4, <1>5, <1>6, StopIsNew DEF D
    <3>4. /\ Ahead(heap, lists', up, C) /\ Behind(parent, heap, lists', C \cup {x})
          /\ \A n \in 1..N : parent[n] = x => n \in C
      <4>1. child[Len(lists)] = limit[Len(lists)] + 1 /\ Len(lists) > 1
        BY <1>2, <1>3
      <4>2. lists' = Drop(lists) /\ up = Drop(child) /\ x = Stop(heap, lists, child, Len(lists) - 1)
        BY <1>8 DEF up, K
      <4>3. Shape(N, H, kind, parent, children, heap) /\ Walked(H, children, heap, lists, child, limit)
        BY <1>2, <1>6
      <4>4. Exhausted(heap, lists, child, limit, lists', up, x)
        BY <4>1, <4>2 DEF Exhausted
      <4> HIDE DEF C, D, x
      <4>5. Ahead(heap, lists', up, C) /\ Behind(parent, heap, lists', C \cup {x}) /\ AllUnder(N, parent, x, C)
        BY <3>2, <4>3, <4>4, CloseOrder
      <4> QED
        BY <4>5 DEF AllUnder
    <3>5. Ordered(N, parent, calls') /\ Callees(calls') = C \cup {x}
      BY <3>1, <3>3, <3>4, <1>7, CalledOrder DEF N
    <3>6. Walked(H, children, heap, lists', up, limit') /\ Walked(H, children, heap, lists', child', limit')
      <4>1. Walked(H, children, heap, lists', up, limit')
        BY <1>2, <1>10a, WalkedUp
      <4> QED
        BY <4>1, <2>4, <2>7, WalkedMoves
    <3>7. Ahead(heap, lists', child', C \cup {x})
      <4>1. up[Len(lists')] <= limit'[Len(lists')] /\ x = Stop(heap, lists', up, Len(lists'))
        BY <2>6, <1>5 DEF Stop
      <4>2. Moved(lists', up[Len(lists')] + 1, up, child')
        BY <2>6, <2>8 DEF y
      <4> HIDE DEF C, x, D
      <4> QED
        BY <3>4, <3>6, <4>1, <4>2, <1>6, LeafOrder
    <3>8. Ahead(heap', lists', child', C \cup {x}) /\ Behind(parent, heap', lists', C \cup {x})
      <4> HIDE DEF C, x, D
      <4> QED
        BY <3>1, <3>4, <3>6, <3>7, <1>6, OrderKeeps
    <3> QED
      BY <2>1, <3>5, <3>8, <1>8 DEF PostOrder, Ordered, N
  <2> QED
    BY <2>1, <2>10, <2>11, <1>10 DEF WalkInv
<1> QED
  BY <1>11, <1>12

-----------------------------------------------------------------------------
(* Before and after the walk *)

\* The traversal begins, at the root.
LEMMA StartKeeps ==
  ASSUME RestInv, NEW j \in {"user", "destroy"}, prf_model_traverse_df(j)
  PROVE  WalkInv'
<1> DEFINE N == Len(kind)
           H == Len(heap)
           r == [elems |-> <<1>>, size |-> 1, live |-> TRUE]
           h2 == heap'
<1>1. /\ freed = {} /\ Shape(N, H, kind, parent, children, heap) /\ Allocated(N, H, children, heap)
  BY DEF RestInv
<1>2. /\ job' = j /\ at' = "loop" /\ h2 = Append(heap, r) /\ lists' = <<H + 1>> /\ child' = <<1>> /\ limit' = <<1>>
      /\ calls' = <<>> /\ kind' = kind /\ parent' = parent /\ children' = children /\ pooled' = pooled /\ freed' = freed
  BY DEF prf_model_traverse_df
<1>3. N \in Nat /\ N > 0 /\ H \in Nat /\ heap \in Seq(ArrayOf(N))
  <2>1. N \in Nat \ {0} /\ H \in Nat /\ heap \in Seq(ArrayOf(N))
    BY <1>1 DEF Shape
  <2> QED
    BY <2>1
<1>4. r \in ArrayOf(N) /\ r.elems = <<1>> /\ r.live = TRUE
  <2>1. 1 \in 1..N
    BY <1>3
  <2>2. <<1>> \in Seq(1..N)
    BY <2>1
  <2> QED
    BY <2>2 DEF ArrayOf
<1> HIDE DEF N, r, h2
<1>5. h2 \in Seq(ArrayOf(N)) /\ Len(h2) = H + 1 /\ h2[H + 1] = r /\ \A a \in 1..H : h2[a] = heap[a]
  BY <1>2, <1>3, <1>4, AppendProperties
<1> HIDE DEF H
<1>6. Len(h2) > 0 /\ Len(h2) - 1 = H /\ H <= Len(h2)
  BY <1>3, <1>5
<1>7. Shape(N, H, kind, parent, children, h2)
  BY <1>1, <1>5, <1>6, ShapeKeeps
<1>8. Memory(N, H, children, h2, {})
  BY <1>1, <1>4, <1>5 DEF Memory, Allocated
<1>9. Callees(calls') = {} /\ Len(calls') = 0 /\ calls' \in Seq(Call(N)) /\ DOMAIN calls' = {}
  BY <1>2 DEF Callees
<1>10. Storage'
  <2>1. Gone' = {}
    BY <1>9 DEF Gone
  <2> QED
    BY <2>1, <1>1, <1>2, <1>6, <1>7, <1>8 DEF Storage, N, h2
<1>11. /\ Len(lists') = 1 /\ Len(child') = 1 /\ Len(limit') = 1 /\ lists'[1] = H + 1 /\ child'[1] = 1 /\ limit'[1] = 1
  BY <1>2
<1>12. Row(h2, lists', 1) = <<1>>
  BY <1>4, <1>5, <1>11 DEF Row
<1>13. Len(Row(h2, lists', 1)) = 1 /\ \A i \in 1..Len(lists') : i = 1
  BY <1>11, <1>12
<1>14. Walked(H, children, h2, lists', child', limit')
  <2>1. lists' \in Seq(1..(H + 1)) /\ child' \in Seq(Nat \ {0}) /\ limit' \in Seq(Nat)
    <3>1. H + 1 \in 1..(H + 1)
      BY <1>3
    <3> QED
      BY <3>1, <1>2
  <2>2. \A i \in 1..Len(lists') : limit'[i] = Len(Row(h2, lists', i))
    BY <1>11, <1>13
  <2>3. \A i \in 1..(Len(lists') - 1) : FALSE
    BY <1>11
  <2>4. \A a, b \in 1..Len(lists') : ~(a < b)
    BY <1>13
  <2>5. h2[H + 1].elems = <<1>> /\ Len(lists') > 0
    BY <1>4, <1>5, <1>11
  <2> QED
    BY <2>1, <2>2, <2>3, <2>4, <2>5, <1>5, <1>11 DEF Walked
<1>15. Position'
  BY <1>2, <1>6, <1>11, <1>14 DEF Position, h2
<1>16. PostOrder'
  <2>1. Below(N, parent', Callees(calls')) /\ Once(calls') /\ After(parent', calls')
    <3>1. \A i \in 1..Len(calls') : FALSE
      BY <1>9
    <3> QED
      BY <3>1, <1>9 DEF Below, Once, After
  <2>2. Ahead(h2, lists', child', {})
    <3>1. \A i \in 1..1 : ~(i < 1)
      OBVIOUS
    <3> QED
      BY <3>1, <1>11, <1>13 DEF Ahead
  <2>3. Behind(parent', h2, lists', {})
    BY DEF Behind
  <2> QED
    BY <2>1, <2>2, <2>3, <1>2, <1>9 DEF PostOrder, N, h2
<1>17. Stays'
  BY <1>9 DEF Stays
<1> QED
  BY <1>2, <1>9, <1>10, <1>15, <1>16, <1>17 DEF WalkInv, N

\* The traversal returns; prf_model_destroy has freed everything.
LEMMA ReturnKeeps ==
  ASSUME WalkInv, Return
  PROVE  /\ job # "destroy" => RestInv' /\ status' = status
         /\ job = "destroy" => (freed' = Nodes' /\ \A a \in DOMAIN heap' : heap'[a].live = FALSE) /\ status' = "destroyed"
         /\ at' = "idle" /\ level' = level
<1> DEFINE N == Len(kind)
           H == Len(heap) - 1
           h2 == heap'
<1>1. /\ Shape(N, H, kind, parent, children, heap) /\ Memory(N, H, children, heap, Gone)
      /\ freed = (IF pooled THEN {} ELSE Gone)
  BY DEF WalkInv, Storage
<1>2. /\ at = "done" /\ at' = "idle" /\ level' = level /\ h2 = SubSeq(heap, 1, H)
      /\ kind' = kind /\ parent' = parent /\ children' = children
  BY DEF Return
<1>3. N \in Nat /\ H \in Nat /\ heap \in Seq(ArrayOf(N)) /\ Len(heap) = H + 1
  <2>1. N \in Nat /\ H \in Nat /\ heap \in Seq(ArrayOf(N))
    BY <1>1 DEF Shape
  <2>2. Len(heap) \in Nat
    BY <2>1, LenProperties
  <2> QED
    BY <2>1, <2>2
<1> HIDE DEF N, H, h2
<1>4. h2 \in Seq(ArrayOf(N)) /\ Len(h2) = H /\ (\A a \in 1..H : h2[a] = heap[a])
  <2>1. \A a \in 1..H : a \in 1..Len(heap)
    BY <1>3
  <2>2. \A a \in 1..H : heap[a] \in ArrayOf(N)
    BY <2>1, <1>3, ElementOfSeq
  <2>3. /\ SubSeq(heap, 1, H) \in Seq(ArrayOf(N)) /\ Len(SubSeq(heap, 1, H)) = (IF 1 <= H THEN (H - 1) + 1 ELSE 0)
        /\ \A a \in 1..((H - 1) + 1) : SubSeq(heap, 1, H)[a] = heap[(1 + a) - 1]
    BY <2>2, <1>3, SubSeqProperties
  <2>4. (IF 1 <= H THEN (H - 1) + 1 ELSE 0) = H /\ (H - 1) + 1 = H /\ \A a \in 1..H : (1 + a) - 1 = a
    BY <1>3
  <2> QED
    BY <2>3, <2>4, <1>2
<1>5. DOMAIN h2 = 1..H
  BY <1>4, LenProperties
<1>6. CASE job # "destroy"
  <2>1. Gone = {} /\ status' = status /\ freed' = freed
    BY <1>6 DEF Gone, Return
  <2>2. freed' = {}
    BY <2>1, <1>1
  <2>3. Shape(N, H, kind, parent, children, h2)
    <3>1. H <= Len(h2) /\ \A a \in 1..H : h2[a].elems = heap[a].elems
      BY <1>3, <1>4
    <3> QED
      BY <3>1, <1>1, <1>4, ShapeKeeps
  <2>4. Allocated(N, H, children, h2)
    <3>1. (1..N) \ {} = 1..N
      OBVIOUS
    <3> QED
      BY <3>1, <2>1, <1>1, <1>4 DEF Memory, Allocated
  <2> QED
    BY <2>1, <2>2, <2>3, <2>4, <1>2, <1>4, <1>6 DEF RestInv, N, h2
<1>7. CASE job = "destroy"
  <2>1. Gone = 1..N
    BY <1>2, <1>7 DEF WalkInv, PostOrder, Gone, N
  <2>2. status' = "destroyed" /\ freed' = (IF pooled THEN Nodes ELSE freed)
    BY <1>7 DEF Return
  <2>3. freed' = Nodes'
    BY <2>1, <2>2, <1>1, <1>2 DEF Nodes, N
  <2>4. \A a \in 1..H : heap[a].live \in BOOLEAN
    <3>1. \A a \in 1..H : heap[a] \in ArrayOf(N)
      <4>1. \A a \in 1..H : a \in 1..Len(heap)
        BY <1>3
      <4> QED
        BY <4>1, <1>3, ElementOfSeq
    <3> QED
      BY <3>1 DEF ArrayOf
  <2>5. \A a \in 1..H : ~heap[a].live
    BY <2>1, <1>1 DEF Memory
  <2>6. \A a \in DOMAIN h2 : h2[a].live = FALSE
    BY <2>4, <2>5, <1>4, <1>5
  <2> QED
    BY <2>2, <2>3, <2>6, <1>2, <1>7 DEF h2
<1> QED
  BY <1>6, <1>7

-----------------------------------------------------------------------------
(* The invariant, and what it shows *)

\* The invariant holds before the first record is read,
LEMMA DInitOK == DInit => DInv
<1> SUFFICES ASSUME DInit PROVE DInv
  OBVIOUS
<1>1. Init /\ at = "idle" /\ freed = {} /\ status = "loading"
  BY DEF DInit, Init
<1> QED
  BY <1>1, InitOK, MoreInit DEF DInv

\* Nothing is traversed before the model is loaded.
LEMMA LoadStep ==
  ASSUME DInv, Load
  PROVE  DInv'
<1>1. LoadRecord /\ at' = at /\ freed' = freed
  BY DEF Load, walk
<1>2. status = "loading"
  BY <1>1 DEF LoadRecord, LoadPrimary, LoadPop, LoadDies, LoadPush, LoadAncillary, LoadFails, EndOfFile, TrailingGarbage, Record
<1>3. IInv /\ MoreInv /\ at = "idle" /\ freed = {}
  BY <1>2 DEF DInv
<1>4. IInv' /\ MoreInv'
  BY <1>1, <1>3, NextOK, NextMore DEF Next
<1>5. status' # "destroyed"
  BY <1>4 DEF IInv
<1>6. (status' = "loaded" /\ level' = 0) => RestInv'
  BY <1>1, <1>3, <1>4 DEF MoreInv, Complete, RestInv
<1> QED
  BY <1>1, <1>3, <1>4, <1>5, <1>6 DEF DInv

\* A step of a traversal finds a loaded model, and leaves it on its level.
LEMMA TraverseStep ==
  ASSUME DInv, Traverse
  PROVE  DInv'
<1>1. /\ at \in {"loop", "down", "close", "done"} /\ level' = level
      /\ status' = status \/ (Return /\ job = "destroy" /\ status' = "destroyed")
      /\ Return \/ at' # "idle"
  <2>1. CASE LoopTop
    BY <2>1 DEF LoopTop, Dies, vars
  <2>2. CASE Down
    BY <2>2 DEF Down, Dies, vars
  <2>3. CASE LoopEnds
    BY <2>3 DEF LoopEnds, vars
  <2>4. CASE Return
    BY <2>4 DEF Return
  <2>5. ASSUME NEW c \in Codes \cup {"CONTINUE"}, CallLeaf(c)
        PROVE  at = "down" /\ level' = level /\ status' = status /\ at' # "idle"
    BY <2>5 DEF CallLeaf
  <2>6. ASSUME NEW c \in Codes \cup {"CONTINUE"}, Close(c)
        PROVE  at = "close" /\ level' = level /\ status' = status /\ at' # "idle"
    BY <2>6 DEF Close, Dies, vars
  <2> QED
    BY <2>1, <2>2, <2>3, <2>4, <2>5, <2>6 DEF Traverse
<1>2. status # "loading" /\ (level = 0 => (status = "loaded" /\ WalkInv))
  BY <1>1 DEF DInv
<1>3. CASE level # 0
  BY <1>1, <1>2, <1>3 DEF DInv
<1>4. CASE level = 0 /\ Return
  <2>1. status = "loaded" /\ WalkInv
    BY <1>2, <1>4
  <2>2. CASE job # "destroy"
    BY <2>1, <2>2, <1>1, <1>4, ReturnKeeps DEF DInv
  <2>3. CASE job = "destroy"
    BY <2>1, <2>3, <1>1, <1>4, ReturnKeeps DEF DInv
  <2> QED
    BY <2>2, <2>3
<1>5. CASE level = 0 /\ ~Return
  <2>1. status = "loaded" /\ WalkInv
    BY <1>2, <1>5
  <2>2. WalkInv'
    BY <2>1, <1>5, LoopTopKeeps, DownKeeps, LoopEndsKeeps, LeafKeeps, CloseKeeps DEF Traverse
  <2>3. status' = status /\ at' # "idle"
    BY <1>1, <1>5
  <2> QED
    BY <2>1, <2>2, <2>3 DEF DInv
<1> QED
  BY <1>3, <1>4, <1>5

\* and no step of the load, of a traversal or of prf_model_destroy ends it.
LEMMA DNextOK == DInv /\ [DNext]_dvars => DInv'
<1> SUFFICES ASSUME DInv, [DNext]_dvars PROVE DInv'
  OBVIOUS
<1>1. ASSUME NEW j \in {"user", "destroy"}, prf_model_traverse_df(j) PROVE DInv'
  <2>1. status = "loaded" /\ at = "idle" /\ at' = "loop" /\ level' = level /\ status' = status
    BY <1>1 DEF prf_model_traverse_df
  <2>2. level = 0 => RestInv
    BY <2>1 DEF DInv
  <2>3. level = 0 => WalkInv'
    BY <2>2, <1>1, StartKeeps
  <2> QED
    BY <2>1, <2>3 DEF DInv
<1>2. CASE UNCHANGED dvars
  <2>1. /\ kind' = kind /\ parent' = parent /\ children' = children /\ heap' = heap /\ stack' = stack /\ level' = level
        /\ status' = status /\ pooled' = pooled /\ freed' = freed /\ job' = job /\ at' = at /\ node' = node
        /\ lists' = lists /\ child' = child /\ limit' = limit /\ calls' = calls /\ vars' = vars
    BY <1>2 DEF dvars, vars, walk
  <2>2. (IInv /\ MoreInv) => (IInv' /\ MoreInv')
    BY <2>1, NextOK, NextMore
  <2>3. RestInv' <=> RestInv
    BY <2>1 DEF RestInv
  <2>4. Storage' <=> Storage
    BY <2>1 DEF Storage, Gone
  <2>5. Position' <=> Position
    BY <2>1 DEF Position, Top
  <2>6. (PostOrder' <=> PostOrder) /\ (Stays' <=> Stays)
    BY <2>1 DEF PostOrder, Stays
  <2>7. WalkInv' <=> WalkInv
    BY <2>1, <2>4, <2>5, <2>6 DEF WalkInv
  <2>8. Nodes' = Nodes
    BY <2>1 DEF Nodes
  <2> QED
    BY <2>1, <2>2, <2>3, <2>7, <2>8 DEF DInv
<1> QED
  BY <1>1, <1>2, LoadStep, TraverseStep DEF DNext

\* As many calls as nodes.
LEMMA CallCount ==
  ASSUME NEW N \in Nat, NEW cs \in Seq(Call(N)), Once(cs), Callees(cs) = 1..N
  PROVE  Len(cs) = N
<1> DEFINE M == Len(cs)
           f == [i \in 1..M |-> cs[i].node]
<1>1. M \in Nat
  BY LenProperties
<1>2. \A i \in 1..M : cs[i].node \in 1..N
  BY DEF Callees
<1>3. \A i, j \in 1..M : cs[i].node = cs[j].node => i = j
  BY DEF Once
<1>4. \A n \in 1..N : \E i \in 1..M : cs[i].node = n
  BY DEF Callees
<1> HIDE DEF M
<1>5. f \in [1..M -> 1..N]
  BY <1>2
<1>6. f \in Bijection(1..M, 1..N)
  BY <1>3, <1>4, <1>5 DEF Bijection, Injection, Surjection, IsInjective
<1>7. Cardinality(1..N) = M
  BY <1>1, <1>6, FS_CountingElements DEF ExistsBijection
<1>8. Cardinality(1..N) = IF 1 > N THEN 0 ELSE (N - 1) + 1
  BY FS_Interval
<1>9. (IF 1 > N THEN 0 ELSE (N - 1) + 1) = N
  OBVIOUS
<1> QED
  BY <1>7, <1>8, <1>9 DEF M

\* prf_model_traverse_df, with destroy_cb or with an application's callback,
\* never reads a freed list, a freed node or an index beyond a list, whatever
\* tree was loaded and whatever the callback answers.
THEOREM DestroyIsAlwaysSafe == DSpec => []DestroyIsSafe
<1>1. DInv => DestroyIsSafe
  BY DEF DInv, WalkInv, DestroyIsSafe
<1> QED
  BY <1>1, DInitOK, DNextOK, PTL DEF DSpec

\* prf_model_destroy gives back every node and every child array of the model.
THEOREM DestroyLeaksNothing == DSpec => []NothingLeaks
<1>1. DInv => NothingLeaks
  BY DEF DInv, NothingLeaks
<1> QED
  BY <1>1, DInitOK, DNextOK, PTL DEF DSpec

\* A traversal whose callback neither exits nor jumps calls it once for every
\* node, the children of a node before the node.
THEOREM ParentsComeLast == DSpec => []ChildrenFirst
<1>1. DInv => ChildrenFirst
  <2> SUFFICES ASSUME DInv, at = "done", level = 0, Stays
               PROVE  /\ {calls[i].node : i \in DOMAIN calls} = Nodes /\ Len(calls) = Len(kind)
                      /\ \A i, j \in DOMAIN calls : parent[calls[i].node] = calls[j].node => i < j
    BY DEF ChildrenFirst
  <2>1. WalkInv
    BY DEF DInv
  <2>2. /\ calls \in Seq(Call(Len(kind))) /\ Callees(calls) = 1..Len(kind) /\ Once(calls) /\ After(parent, calls)
        /\ Len(kind) \in Nat
    BY <2>1 DEF WalkInv, PostOrder, Storage, Shape
  <2>3. DOMAIN calls = 1..Len(calls)
    BY <2>2, LenProperties
  <2>4. Len(calls) = Len(kind)
    BY <2>2, CallCount
  <2> QED
    BY <2>2, <2>3, <2>4 DEF Callees, After, Nodes
<1> QED
  BY <1>1, DInitOK, DNextOK, PTL DEF DSpec
-----------------------------------------------------------------------------
(* The matrices on the way *)

\* The ancillary nodes that stand in a list of the path, no later than the node
\* of the path in it, for the first l lists.
PathScope(N, k, par, hp, ls, ch, l) ==
  {a \in 1..N : k[a] = "anc" /\ \E m \in 1..l : par[a] = par[Stop(hp, ls, ch, m)] /\ a <= Stop(hp, ls, ch, m)}
\* The product of some nodes, each once and in the order of the file.
Product(N, mat, S) == mat \in Seq(1..N) /\ Rising(mat) /\ Members(mat) = S

\* The matrices of the lists above the innermost; and the innermost one before
\* and after the entry function of the node at which the walk stands.
Outer(N, k, par, mx, hp, ls, ch) ==
  /\ mx \in Seq(Seq(1..N)) /\ Len(mx) = Len(ls)
  /\ \A l \in 1..(Len(ls) - 1) : Product(N, mx[l], PathScope(N, k, par, hp, ls, ch, l))
Entering(N, k, par, mx, hp, ls, ch) ==
  /\ Outer(N, k, par, mx, hp, ls, ch)
  /\ Product(N, mx[Len(ls)], PathScope(N, k, par, hp, ls, ch, Len(ls)) \ {Stop(hp, ls, ch, Len(ls))})
Entered(N, k, par, mx, hp, ls, ch) ==
  /\ Outer(N, k, par, mx, hp, ls, ch)
  /\ Product(N, mx[Len(ls)], PathScope(N, k, par, hp, ls, ch, Len(ls)))

\* Only the nodes of the path matter.
SameStops(d, hp, ls, ch, hp2, ls2, ch2) == \A l \in 1..d : Stop(hp2, ls2, ch2, l) = Stop(hp, ls, ch, l)
LEMMA ScopeSame ==
  ASSUME NEW N, NEW k, NEW par, NEW hp, NEW ls, NEW ch, NEW hp2, NEW ls2, NEW ch2, NEW d \in Nat,
         SameStops(d, hp, ls, ch, hp2, ls2, ch2), NEW l \in 1..d
  PROVE  PathScope(N, k, par, hp2, ls2, ch2, l) = PathScope(N, k, par, hp, ls, ch, l)
<1>1. \A m \in 1..l : Stop(hp2, ls2, ch2, m) = Stop(hp, ls, ch, m)
  <2>1. \A m \in 1..l : m \in 1..d
    OBVIOUS
  <2> QED
    BY <2>1 DEF SameStops
<1> QED
  BY <1>1 DEF PathScope

\* The lists above the innermost are the same.
LEMMA OuterSame ==
  ASSUME NEW N, NEW k, NEW par, NEW mx, NEW hp, NEW ls, NEW ch, NEW hp2, NEW ls2, NEW ch2,
         Outer(N, k, par, mx, hp, ls, ch), Len(ls) \in Nat, Len(ls) > 0, Len(ls2) = Len(ls),
         SameStops(Len(ls) - 1, hp, ls, ch, hp2, ls2, ch2)
  PROVE  Outer(N, k, par, mx, hp2, ls2, ch2)
<1>1. Len(ls) - 1 \in Nat
  OBVIOUS
<1>2. \A l \in 1..(Len(ls) - 1) : PathScope(N, k, par, hp2, ls2, ch2, l) = PathScope(N, k, par, hp, ls, ch, l)
  BY <1>1, ScopeSame
<1> QED
  BY <1>2 DEF Outer

\* The entry function multiplies an ancillary node into the innermost matrix.
LEMMA EnterMultiplies ==
  ASSUME NEW N, NEW k, NEW par, NEW mx, NEW mx2, NEW hp, NEW ls, NEW ch, NEW D, NEW x, N \in Nat,
         D = Len(ls), PathTo(N, par, hp, ls, ch, D, x), Entering(N, k, par, mx, hp, ls, ch),
         Multiplied(k, mx, D, x, mx2)
  PROVE  Entered(N, k, par, mx2, hp, ls, ch)
<1> DEFINE S == PathScope(N, k, par, hp, ls, ch, D)
<1>1. /\ D \in Nat /\ D > 0 /\ x \in 1..N /\ x = Stop(hp, ls, ch, D)
      /\ \A l \in 1..D : Stop(hp, ls, ch, l) \in 1..N /\ Stop(hp, ls, ch, l) <= x
  BY DEF PathTo
<1>2. /\ mx \in Seq(Seq(1..N)) /\ Len(mx) = D /\ D \in 1..D
      /\ \A l \in 1..(D - 1) : Product(N, mx[l], PathScope(N, k, par, hp, ls, ch, l))
  BY <1>1 DEF Entering, Outer
<1>3. mx[D] \in Seq(1..N) /\ Rising(mx[D]) /\ Members(mx[D]) = S \ {x}
  BY <1>1 DEF Entering, Product
<1>4. \A n \in S \ {x} : n < x
  <2> SUFFICES ASSUME NEW n \in S, n # x PROVE n < x
    OBVIOUS
  <2>1. n \in 1..N /\ \E m \in 1..D : n <= Stop(hp, ls, ch, m)
    BY DEF PathScope
  <2>2. PICK m \in 1..D : n <= Stop(hp, ls, ch, m)
    BY <2>1
  <2>3. Stop(hp, ls, ch, m) \in 1..N /\ Stop(hp, ls, ch, m) <= x
    BY <1>1
  <2> QED
    BY <2>1, <2>2, <2>3, <1>1
<1>5. x \in S <=> k[x] = "anc"
  BY <1>1, <1>2 DEF PathScope
<1> HIDE DEF S
<1>6. CASE k[x] = "anc"
  <2> DEFINE e == Append(mx[D], x)
  <2>1. e \in Seq(1..N) /\ Rising(e) /\ Members(e) = Members(mx[D]) \cup {x}
    BY <1>1, <1>3, <1>4, AppendRises
  <2>2. Product(N, e, S)
    BY <2>1, <1>3, <1>5, <1>6 DEF Product
  <2>3. mx2 = [mx EXCEPT ![D] = e]
    BY <1>6 DEF Multiplied
  <2> HIDE DEF e
  <2>4. mx2 \in Seq(Seq(1..N)) /\ Len(mx2) = Len(mx) /\ \A l \in 1..Len(mx) : mx2[l] = IF l = D THEN e ELSE mx[l]
    <3>1. mx \in Seq(Seq(1..N)) /\ D \in 1..Len(mx) /\ e \in Seq(1..N)
      BY <2>1, <1>2
    <3> QED
      BY ONLY <3>1, <2>3, ExceptSeq
  <2>5. mx2[D] = e /\ \A l \in 1..(D - 1) : mx2[l] = mx[l]
    <3>1. \A l \in 1..(D - 1) : l \in 1..D /\ l # D
      BY <1>1
    <3> QED
      BY <3>1, <2>4, <1>2
  <2> QED
    BY <2>2, <2>4, <2>5, <1>2 DEF Entered, Outer, S
<1>7. CASE k[x] # "anc"
  <2>1. mx2 = mx /\ S \ {x} = S
    BY <1>5, <1>7 DEF Multiplied
  <2> QED
    BY <2>1, <1>1 DEF Entering, Entered, S
<1> QED
  BY <1>6, <1>7

\* From one node of a list to the next: none stands between.
LEMMA OnToSibling ==
  ASSUME NEW N, NEW H, NEW k, NEW par, NEW chi, NEW hp, NEW ls, NEW ch, NEW lm, NEW ch2, NEW mx,
         Shape(N, H, k, par, chi, hp), Walked(H, chi, hp, ls, ch, lm), Walked(H, chi, hp, ls, ch2, lm),
         Moved(ls, ch[Len(ls)] + 1, ch, ch2), ch2[Len(ls)] <= lm[Len(ls)],
         Entered(N, k, par, mx, hp, ls, ch)
  PROVE  Entering(N, k, par, mx, hp, ls, ch2)
<1> DEFINE D == Len(ls)
           s == Row(hp, ls, D)
           x == Stop(hp, ls, ch, D)
           y == Stop(hp, ls, ch2, D)
<1>1. D \in Nat /\ D > 0 /\ D \in 1..D
  BY WalkedSizes
<1>2. /\ s \in Seq(1..N) /\ Rising(s) /\ lm[D] = Len(s) /\ lm[D] \in Nat /\ ch[D] \in Nat \ {0}
      /\ \A n \in Members(s) : n \in 1..N /\ par[n] = Above(hp, ls, ch, D)
  BY <1>1, RowFacts DEF RowOK
<1>3. ch2[D] = ch[D] + 1 /\ \A l \in 1..(D - 1) : ch2[l] = ch[l]
  BY DEF Moved
<1>4. ch[D] \in 1..Len(s) /\ ch[D] + 1 \in 1..Len(s) /\ x = s[ch[D]] /\ y = s[ch[D] + 1]
  BY <1>2, <1>3 DEF Row, Stop
<1>5. \A i \in 1..Len(s) : s[i] \in Members(s) /\ s[i] \in 1..N
  BY <1>2, ElementOfSeq, LenProperties DEF Members
<1>6. x \in 1..N /\ y \in 1..N /\ par[x] = par[y] /\ x < y /\ par[x] = Above(hp, ls, ch, D)
  <2>1. x < y
    <3> HIDE DEF s
    <3> QED
      BY <1>2, <1>4 DEF Rising
  <2> QED
    BY <2>1, <1>2, <1>4, <1>5
<1>7. SameStops(D - 1, hp, ls, ch, hp, ls, ch2)
  BY <1>3 DEF SameStops, Stop
<1>8. N \in Nat /\ par[1] = 0 /\ \A n \in 2..N : par[n] \in 1..(n - 1)
  BY DEF Shape
<1>9. ASSUME NEW a \in 1..N, par[a] = par[x] PROVE (a <= y /\ a # y) <=> a <= x
  <2>1. \E p \in 1..Len(s) : a = s[p]
    <3>1. CASE a = 1
      <4>1. par[x] = 0
        BY <3>1, <1>8, <1>9
      <4>2. x = 1
        BY <4>1, <1>6, ParentsBefore
      <4>3. par[y] = 0 /\ y \in 1..N
        BY <4>1, <1>6
      <4> HIDE DEF x, y
      <4>4. y = 1
        BY <4>3, ParentsBefore
      <4> QED
        BY <4>2, <4>4, <1>6
    <3>2. CASE a # 1
      BY <3>2, <1>1, <1>6, <1>9, RowIsFull
    <3> QED
      BY <3>1, <3>2
  <2>2. PICK p \in 1..Len(s) : a = s[p]
    BY <2>1
  <2> HIDE DEF s, x, y
  <2>3. p < ch[D] => a < x
    BY <2>2, <1>2, <1>4 DEF Rising
  <2>4. p = ch[D] => a = x
    BY <2>2, <1>4
  <2>5. p = ch[D] + 1 => a = y
    BY <2>2, <1>4
  <2>6. p > ch[D] + 1 => y < a
    BY <2>2, <1>2, <1>4 DEF Rising
  <2>7. p < ch[D] \/ p = ch[D] \/ p = ch[D] + 1 \/ p > ch[D] + 1
    BY <1>2
  <2> QED
    BY <2>3, <2>4, <2>5, <2>6, <2>7, <1>6
<1> HIDE DEF s
<1>10. Outer(N, k, par, mx, hp, ls, ch2)
  BY <1>1, <1>7, OuterSame DEF Entered
<1>11. PathScope(N, k, par, hp, ls, ch2, D) \ {y} = PathScope(N, k, par, hp, ls, ch, D)
  <2>1. \A m : m \in 1..D <=> (m \in 1..(D - 1) \/ m = D)
    BY <1>1
  <2>2. \A m \in 1..(D - 1) : Stop(hp, ls, ch2, m) = Stop(hp, ls, ch, m)
    BY <1>7 DEF SameStops
  <2>3. \A m \in 1..(D - 1) : Stop(hp, ls, ch, m) \in 1..N /\ Stop(hp, ls, ch, m) < y
    <3>1. PathTo(N, par, hp, ls, ch, D, x)
      <4>1. ch[D] <= lm[D]
        BY <1>2, <1>3
      <4> QED
        BY <4>1, WalkIsPath
    <3>2. \A m \in 1..(D - 1) : m \in 1..D
      BY <1>1
    <3>3. \A m \in 1..D : Stop(hp, ls, ch, m) \in 1..N /\ Stop(hp, ls, ch, m) <= x
      BY <3>1 DEF PathTo
    <3> HIDE DEF x, y
    <3>4. ASSUME NEW m \in 1..(D - 1) PROVE Stop(hp, ls, ch, m) < y
      BY <3>2, <3>3, <1>6
    <3> QED
      BY <3>2, <3>3, <3>4
  <2> DEFINE st(m) == Stop(hp, ls, ch, m)
  <2>4. \A m \in 1..(D - 1) : \A a \in 1..N : a <= st(m) => a # y
    BY <2>3, <1>6
  <2>5. PathScope(N, k, par, hp, ls, ch2, D) =
          {a \in 1..N : k[a] = "anc" /\ ((\E m \in 1..(D - 1) : par[a] = par[st(m)] /\ a <= st(m)) \/ (par[a] = par[y] /\ a <= y))}
    BY <2>1, <2>2 DEF PathScope
  <2>6. PathScope(N, k, par, hp, ls, ch, D) =
          {a \in 1..N : k[a] = "anc" /\ ((\E m \in 1..(D - 1) : par[a] = par[st(m)] /\ a <= st(m)) \/ (par[a] = par[x] /\ a <= x))}
    BY <2>1 DEF PathScope
  <2> HIDE DEF x, y, st
  <2>7. ASSUME NEW a \in 1..N
        PROVE  (((\E m \in 1..(D - 1) : par[a] = par[st(m)] /\ a <= st(m)) \/ (par[a] = par[y] /\ a <= y)) /\ a # y)
                 <=> ((\E m \in 1..(D - 1) : par[a] = par[st(m)] /\ a <= st(m)) \/ (par[a] = par[x] /\ a <= x))
    BY <2>4, <1>6, <1>9
  <2> QED
    BY <2>5, <2>6, <2>7
<1> QED
  BY <1>10, <1>11 DEF Entering, Entered

\* From a node to its first child: the child's matrix starts from the parent's.
LEMMA OnToChild ==
  ASSUME NEW N, NEW H, NEW k, NEW par, NEW chi, NEW hp, NEW ls, NEW ch, NEW lm, NEW x, NEW ls2, NEW ch2, NEW lm2,
         NEW mx, NEW mx2,
         Shape(N, H, k, par, chi, hp), Walked(H, chi, hp, ls, ch, lm), Descent(chi, hp, ls, ch, lm, x, ls2, ch2, lm2),
         Entered(N, k, par, mx, hp, ls, ch), mx2 = Append(mx, mx[Len(ls)])
  PROVE  Entering(N, k, par, mx2, hp, ls2, ch2)
<1> DEFINE D == Len(ls)
           E == D + 1
           s == hp[chi[x]].elems
           y == Stop(hp, ls2, ch2, E)
<1>1. D \in Nat /\ D > 0 /\ D \in 1..D
  BY WalkedSizes
<1>2. Walked(H, chi, hp, ls2, ch2, lm2) /\ Lower(D, s, x, hp, ls, ch, ls2, ch2, lm2)
  BY WalkedDown
<1>3. /\ Len(ls2) = E /\ ch2[E] = 1 /\ 1 <= lm2[E] /\ y = s[1]
      /\ Row(hp, ls2, E) = s /\ Above(hp, ls2, ch2, E) = x /\ \A j \in 1..D : ls2[j] = ls[j] /\ ch2[j] = ch[j]
  BY <1>2 DEF Lower
<1>4. E \in 1..Len(ls2) /\ E # 1 /\ E - 1 = D /\ 1..(E - 1) = 1..D
  BY <1>1, <1>3
<1> HIDE DEF E
<1>5. /\ s \in Seq(1..N) /\ Rising(s) /\ y \in 1..N /\ par[y] = x /\ x < y
      /\ \A n \in Members(s) : n \in 1..N /\ par[n] = x
  <2>1. RowOK(N, k, par, chi, hp, ls2, ch2, lm2, E)
    BY <1>2, <1>4, RowFacts
  <2> QED
    BY <2>1, <1>3 DEF RowOK
<1>6. PathTo(N, par, hp, ls, ch, D, x)
  BY WalkIsPath DEF Descent
<1>7. x \in 1..N /\ x = Stop(hp, ls, ch, D) /\ \A m \in 1..D : Stop(hp, ls, ch, m) \in 1..N /\ Stop(hp, ls, ch, m) <= x
  BY <1>6 DEF PathTo
<1>8. SameStops(D, hp, ls, ch, hp, ls2, ch2)
  BY <1>3 DEF SameStops, Stop
<1>9. /\ mx \in Seq(Seq(1..N)) /\ Len(mx) = D /\ Product(N, mx[D], PathScope(N, k, par, hp, ls, ch, D))
      /\ \A l \in 1..(D - 1) : Product(N, mx[l], PathScope(N, k, par, hp, ls, ch, l))
  BY DEF Entered, Outer
<1>10. N \in Nat
  BY DEF Shape
<1>11. ASSUME NEW a \in 1..N, par[a] = x PROVE y <= a
  <2>1. a # 1
    BY <1>11, <1>7 DEF Shape
  <2>2. PICK p \in 1..Len(s) : a = s[p]
    <3>1. par[a] = Above(hp, ls2, ch2, E) /\ E \in 1..Len(ls2) /\ a \in 1..N
      BY <1>3, <1>4, <1>11
    <3>2. \E p \in 1..Len(Row(hp, ls2, E)) : a = Row(hp, ls2, E)[p]
      BY <3>1, <2>1, <1>2, RowIsFull
    <3> QED
      BY <3>2, <1>3
  <2> HIDE DEF s, y
  <2>3. Len(s) \in Nat /\ 1 \in 1..Len(s)
    <3>1. Len(s) \in Nat
      BY <1>5, LenProperties
    <3> QED
      BY <3>1, <2>2
  <2>4. p = 1 \/ s[1] < s[p]
    BY <2>2, <2>3, <1>5 DEF Rising
  <2> QED
    BY <2>2, <2>4, <1>3, <1>5, <1>10
<1> HIDE DEF D, s
<1>12. /\ mx2 \in Seq(Seq(1..N)) /\ Len(mx2) = D + 1 /\ mx2[D + 1] = mx[D] /\ \A l \in 1..D : mx2[l] = mx[l]
  <2>1. mx[D] \in Seq(1..N) /\ mx2 = Append(mx, mx[D])
    BY <1>9 DEF Product, D
  <2> QED
    BY <2>1, <1>9, AppendProperties
<1>13. \A l \in 1..D : Product(N, mx2[l], PathScope(N, k, par, hp, ls2, ch2, l))
  <2>1. \A l \in 1..D : l \in 1..(D - 1) \/ l = D
    BY <1>1
  <2>2. \A l \in 1..D : PathScope(N, k, par, hp, ls2, ch2, l) = PathScope(N, k, par, hp, ls, ch, l)
    BY <1>1, <1>8, ScopeSame
  <2> QED
    BY <2>1, <2>2, <1>9, <1>12
<1>14. PathScope(N, k, par, hp, ls2, ch2, E) \ {y} = PathScope(N, k, par, hp, ls, ch, D)
  <2> DEFINE st(m) == Stop(hp, ls, ch, m)
  <2>1. \A m : m \in 1..E <=> (m \in 1..D \/ m = E)
    BY <1>1 DEF E
  <2>2. \A m \in 1..D : Stop(hp, ls2, ch2, m) = st(m)
    BY <1>8 DEF SameStops
  <2>3. PathScope(N, k, par, hp, ls2, ch2, E) =
          {a \in 1..N : k[a] = "anc" /\ ((\E m \in 1..D : par[a] = par[st(m)] /\ a <= st(m)) \/ (par[a] = par[y] /\ a <= y))}
    BY <2>1, <2>2 DEF PathScope
  <2>4. PathScope(N, k, par, hp, ls, ch, D) = {a \in 1..N : k[a] = "anc" /\ \E m \in 1..D : par[a] = par[st(m)] /\ a <= st(m)}
    BY DEF PathScope
  <2>5. \A m \in 1..D : st(m) \in 1..N /\ st(m) < y
    <3>1. \A m \in 1..D : st(m) \in 1..N /\ st(m) <= x
      BY <1>7
    <3> HIDE DEF st, y
    <3> QED
      BY <3>1, <1>5, <1>7
  <2> HIDE DEF st, y
  <2>6. \A m \in 1..D : \A a \in 1..N : a <= st(m) => a # y
    BY <2>5, <1>5
  <2>7. \A a \in 1..N : (par[a] = par[y] /\ a <= y) => a = y
    <3>1. \A a \in 1..N : par[a] = x => y <= a
      BY <1>11
    <3> QED
      BY <3>1, <1>5
  <2> QED
    BY <2>3, <2>4, <2>6, <2>7
<1> QED
  <2>1. Product(N, mx2[E], PathScope(N, k, par, hp, ls2, ch2, E) \ {y})
    BY <1>9, <1>12, <1>14 DEF E
  <2> QED
    BY <2>1, <1>3, <1>4, <1>12, <1>13 DEF Entering, Outer, E

\* Back in the list above: its matrix is the one with which its node was entered.
LEMMA BackUp ==
  ASSUME NEW N, NEW k, NEW par, NEW mx, NEW hp, NEW ls, NEW ch, NEW lm, NEW ls2, NEW ch2, NEW lm2, NEW mx2, NEW D,
         Outer(N, k, par, mx, hp, ls, ch), D = Len(ls), D \in Nat, D > 1, Upper(D, ls, ch, lm, ls2, ch2, lm2),
         mx2 = SubSeq(mx, 1, Len(mx) - 1)
  PROVE  Entered(N, k, par, mx2, hp, ls2, ch2)
<1> DEFINE K == D - 1
<1>1. K \in Nat /\ K \in 1..K /\ 1 <= K /\ \A l \in 1..(K - 1) : l \in 1..K
  OBVIOUS
<1>2. mx \in Seq(Seq(1..N)) /\ Len(mx) = D /\ \A l \in 1..K : Product(N, mx[l], PathScope(N, k, par, hp, ls, ch, l))
  BY DEF Outer
<1>3. Len(ls2) = K /\ \A j \in 1..K : ls2[j] = ls[j] /\ ch2[j] = ch[j]
  BY DEF Upper
<1>4. SameStops(K, hp, ls, ch, hp, ls2, ch2)
  BY <1>3 DEF SameStops, Stop
<1>5. mx2 \in Seq(Seq(1..N)) /\ Len(mx2) = K /\ \A l \in 1..K : mx2[l] = mx[l]
  <2>1. \A l \in 1..K : l \in 1..Len(mx)
    BY <1>2
  <2>2. \A l \in 1..K : mx[l] \in Seq(1..N)
    BY <2>1, <1>2, ElementOfSeq
  <2>3. /\ SubSeq(mx, 1, K) \in Seq(Seq(1..N)) /\ Len(SubSeq(mx, 1, K)) = (IF 1 <= K THEN (K - 1) + 1 ELSE 0)
        /\ \A a \in 1..((K - 1) + 1) : SubSeq(mx, 1, K)[a] = mx[(1 + a) - 1]
    BY <2>2, <1>1, SubSeqProperties
  <2>4. (IF 1 <= K THEN (K - 1) + 1 ELSE 0) = K /\ (K - 1) + 1 = K /\ \A a \in 1..K : (1 + a) - 1 = a
    BY <1>1
  <2>5. mx2 = SubSeq(mx, 1, K)
    BY <1>2
  <2> HIDE DEF K
  <2> QED
    BY <2>3, <2>4, <2>5
<1> HIDE DEF K
<1>6. \A l \in 1..K : PathScope(N, k, par, hp, ls2, ch2, l) = PathScope(N, k, par, hp, ls, ch, l)
  BY <1>1, <1>4, ScopeSame
<1>7. \A l \in 1..K : Product(N, mx2[l], PathScope(N, k, par, hp, ls2, ch2, l))
  BY <1>2, <1>5, <1>6
<1> QED
  BY <1>1, <1>3, <1>5, <1>7 DEF Entered, Outer

\* Freeing arrays does not change what the matrices stand for.
LEMMA EnteringKeeps ==
  ASSUME NEW N, NEW H, NEW k, NEW par, NEW chi, NEW mx, NEW hp, NEW hp2, NEW ls, NEW ch, NEW lm,
         Walked(H, chi, hp, ls, ch, lm), H \in Nat, SameElems(hp, hp2), Outer(N, k, par, mx, hp, ls, ch)
  PROVE  /\ Outer(N, k, par, mx, hp2, ls, ch)
         /\ Entering(N, k, par, mx, hp, ls, ch) => Entering(N, k, par, mx, hp2, ls, ch)
<1> DEFINE D == Len(ls)
<1>1. D \in Nat /\ D > 0 /\ D \in 1..D
  BY WalkedSizes
<1>2. SameRows(hp, hp2, ls, ch)
  BY WalkedKeeps
<1>3. \A l \in 1..D : Stop(hp2, ls, ch, l) = Stop(hp, ls, ch, l)
  BY <1>2 DEF SameRows
<1>4. SameStops(D, hp, ls, ch, hp2, ls, ch)
  BY <1>3 DEF SameStops
<1>5. \A l \in 1..D : PathScope(N, k, par, hp2, ls, ch, l) = PathScope(N, k, par, hp, ls, ch, l)
  BY <1>1, <1>4, ScopeSame
<1>6. \A l \in 1..(D - 1) : l \in 1..D
  BY <1>1
<1>7. Outer(N, k, par, mx, hp2, ls, ch)
  BY <1>5, <1>6 DEF Outer
<1> QED
  BY <1>1, <1>3, <1>5, <1>7 DEF Entering

\* What a callback of node n is to see: the ancillary nodes before it, or before a
\* node above it, in their lists, and the level of its own list.
NodeMatrices(N, k, par, up, n) == {a \in 1..N : k[a] = "anc" /\ \E m \in up[n] : par[m] = par[a] /\ a <= m}
ShownRightly(N, k, par, up, s, n) ==
  Product(N, Matrix(s), NodeMatrices(N, k, par, up, n)) /\ s.physical_level = Cardinality(up[n]) - 1
\* A state on the way: it has all its parts, and the level of the innermost list.
Leveled(s, ls) == DOMAIN s = StateFields /\ s.physical_level = Len(ls) - 1

\* That is what it sees, when the node has been entered.
LEMMA EnteredShows ==
  ASSUME NEW N, NEW k, NEW par, NEW up, NEW hp, NEW ls, NEW ch, NEW D, NEW x, NEW s,
         Rooted(N, par), Lineage(N, par, up), PathTo(N, par, hp, ls, ch, D, x), D = Len(ls),
         Leveled(s, ls), Entered(N, k, par, s.matrix, hp, ls, ch)
  PROVE  ShownRightly(N, k, par, up, s, x)
<1>1. D \in Nat /\ D \in 1..D /\ x = Stop(hp, ls, ch, D)
  BY DEF PathTo
<1>2. up[x] = StopsTo(hp, ls, ch, D)
  BY <1>1, PathIsLine
<1>3. Cardinality(up[x]) = D
  BY <1>2, StopsCount
<1>4. Len(s.matrix) = D /\ Product(N, s.matrix[D], PathScope(N, k, par, hp, ls, ch, D))
  BY DEF Entered, Outer
<1>5. PathScope(N, k, par, hp, ls, ch, D) = NodeMatrices(N, k, par, up, x)
  <2>1. up[x] = {Stop(hp, ls, ch, l) : l \in 1..D}
    BY <1>2 DEF StopsTo
  <2> QED
    BY <2>1 DEF PathScope, NodeMatrices
<1> QED
  BY <1>3, <1>4, <1>5 DEF ShownRightly, Leveled, Matrix

\* The scan of PRF_TRAV_POP from child i to child j of list s, as a function.
ScanStep(k, s, c, v) == entry_f(k[s[c]], s[c], exit_f(k[s[c - 1]], s[c - 1], v))
IsScan(k, s, v, i, j, f) ==
  DOMAIN f = i..j /\ f[i] = v /\ \A c \in (i + 1)..j : f[c] = ScanStep(k, s, c, f[c - 1])
\* The recursion has a result,
LEMMA ScanExists ==
  ASSUME NEW k, NEW s, NEW v, NEW i \in Nat, NEW j \in Nat, i <= j
  PROVE  \E f : IsScan(k, s, v, i, j, f)
<1> DEFINE Wrong == {d \in i..j : ~ \E f : IsScan(k, s, v, i, d, f)}
<1>1. \E f : IsScan(k, s, v, i, i, f)
  <2> DEFINE f == [c \in i..i |-> v]
  <2>1. DOMAIN f = i..i /\ f[i] = v /\ \A c \in (i + 1)..i : FALSE
    OBVIOUS
  <2> HIDE DEF f
  <2>2. IsScan(k, s, v, i, i, f)
    BY <2>1 DEF IsScan
  <2> QED
    BY <2>2
<1>2. ASSUME NEW d \in (i + 1)..j, \E f : IsScan(k, s, v, i, d - 1, f)
      PROVE  \E f : IsScan(k, s, v, i, d, f)
  <2>1. PICK f : IsScan(k, s, v, i, d - 1, f)
    BY <1>2
  <2> DEFINE e == ScanStep(k, s, d, f[d - 1])
             g == [c \in i..d |-> IF c = d THEN e ELSE f[c]]
  <2>2. f[i] = v /\ \A c \in (i + 1)..(d - 1) : f[c] = ScanStep(k, s, c, f[c - 1])
    BY <2>1 DEF IsScan
  <2>3. d \in i..d /\ i \in i..d /\ i # d /\ \A c \in (i + 1)..d : c \in i..d /\ c - 1 \in i..d /\ c - 1 # d
    OBVIOUS
  <2>4. \A c \in (i + 1)..d : c = d \/ (c # d /\ c \in (i + 1)..(d - 1))
    OBVIOUS
  <2>5. DOMAIN g = i..d /\ \A c \in i..d : g[c] = IF c = d THEN e ELSE f[c]
    OBVIOUS
  <2> HIDE DEF g
  <2>6. g[i] = v
    BY <2>2, <2>3, <2>5
  <2>7. ASSUME NEW c \in (i + 1)..d PROVE g[c] = ScanStep(k, s, c, g[c - 1])
    <3>1. g[c - 1] = f[c - 1]
      BY <2>3, <2>5
    <3>2. CASE c = d
      BY <3>1, <3>2, <2>3, <2>5
    <3>3. CASE c # d
      <4>1. g[c] = f[c] /\ f[c] = ScanStep(k, s, c, f[c - 1])
        BY <3>3, <2>2, <2>3, <2>4, <2>5
      <4> QED
        BY <4>1, <3>1
    <3> QED
      BY <3>2, <3>3
  <2>8. IsScan(k, s, v, i, d, g)
    BY <2>5, <2>6, <2>7 DEF IsScan
  <2> QED
    BY <2>8
<1>3. Wrong = {}
  <2> SUFFICES ASSUME Wrong # {} PROVE FALSE
    OBVIOUS
  <2>1. PICK d \in Wrong : \A e \in Wrong : d <= e
    <3>1. Wrong \subseteq Nat
      OBVIOUS
    <3> HIDE DEF Wrong
    <3> QED
      BY <3>1, LeastExists
  <2>2. d \in i..j /\ ~ (\E f : IsScan(k, s, v, i, d, f)) /\ d # i
    BY <2>1, <1>1
  <2>3. d \in (i + 1)..j /\ d - 1 \in i..j /\ ~(d <= d - 1)
    BY <2>2
  <2>4. \E f : IsScan(k, s, v, i, d - 1, f)
    BY <2>1, <2>3
  <2> QED
    BY <2>2, <2>3, <2>4, <1>2
<1>4. j \in i..j
  OBVIOUS
<1> QED
  BY <1>3, <1>4

\* so Scanned is its last value.
ScanFunction(k, s, v, i, j, f) == f = [c \in i..j |-> IF c = i THEN v ELSE ScanStep(k, s, c, f[c - 1])]
LEMMA ScannedIs ==
  ASSUME NEW s, NEW i \in Nat, NEW j \in Nat, i <= j
  PROVE  \E f : IsScan(kind, s, state, i, j, f) /\ Scanned(s, i, j) = f[j]
<1> DEFINE V == CHOOSE f : ScanFunction(kind, s, state, i, j, f)
<1>1. Scanned(s, i, j) = V[j]
  BY DEF Scanned, ScanFunction, ScanStep
<1> HIDE DEF V
<1>2. \E f : ScanFunction(kind, s, state, i, j, f)
  <2>1. PICK f : IsScan(kind, s, state, i, j, f)
    BY ScanExists
  <2> DEFINE g == [c \in i..j |-> f[c]]
  <2>2. \A c \in i..j : c = i \/ (c # i /\ c \in (i + 1)..j /\ c - 1 \in i..j)
    OBVIOUS
  <2>3. \A c \in i..j : g[c] = f[c]
    OBVIOUS
  <2>4. f[i] = state /\ \A c \in (i + 1)..j : f[c] = ScanStep(kind, s, c, f[c - 1])
    BY <2>1 DEF IsScan
  <2>5. ASSUME NEW c \in i..j PROVE f[c] = IF c = i THEN state ELSE ScanStep(kind, s, c, g[c - 1])
    <3> HIDE DEF g
    <3>1. CASE c = i
      BY <3>1, <2>4
    <3>2. CASE c # i
      <4>1. c \in (i + 1)..j /\ g[c - 1] = f[c - 1]
        BY <3>2, <2>2, <2>3
      <4> QED
        BY <4>1, <3>2, <2>4
    <3> QED
      BY <3>1, <3>2
  <2>6. g = [c \in i..j |-> IF c = i THEN state ELSE ScanStep(kind, s, c, g[c - 1])]
    BY <2>5
  <2> HIDE DEF g
  <2>7. ScanFunction(kind, s, state, i, j, g)
    BY <2>6 DEF ScanFunction
  <2> QED
    BY <2>7
<1>3. ScanFunction(kind, s, state, i, j, V)
  BY <1>2 DEF V
<1>4. V = [c \in i..j |-> IF c = i THEN state ELSE ScanStep(kind, s, c, V[c - 1])]
  BY <1>3 DEF ScanFunction
<1>5. i \in i..j /\ \A c \in (i + 1)..j : c \in i..j /\ c # i
  OBVIOUS
<1>6. IsScan(kind, s, state, i, j, V)
  <2>1. DOMAIN V = i..j
    BY <1>4
  <2>2. V[i] = state
    BY <1>4, <1>5
  <2>3. \A c \in (i + 1)..j : V[c] = ScanStep(kind, s, c, V[c - 1])
    BY <1>4, <1>5
  <2> QED
    BY <2>1, <2>2, <2>3 DEF IsScan
<1> QED
  BY <1>1, <1>6

\* A node is entered.
LEMMA NodeEntered ==
  ASSUME NEW N, NEW H, NEW k, NEW par, NEW chi, NEW hp, NEW ls, NEW ch, NEW lm, NEW x, NEW v, NEW w,
         Shape(N, H, k, par, chi, hp), Walked(H, chi, hp, ls, ch, lm), ch[Len(ls)] <= lm[Len(ls)],
         x = Stop(hp, ls, ch, Len(ls)), Leveled(v, ls), Entering(N, k, par, v.matrix, hp, ls, ch), w = entry_f(k[x], x, v)
  PROVE  Leveled(w, ls) /\ Entered(N, k, par, w.matrix, hp, ls, ch)
<1> DEFINE D == Len(ls)
<1>1. DOMAIN v = StateFields /\ v.physical_level = D - 1
  BY DEF Leveled
<1>2. w = During(k, v, x)
  BY DEF During
<1>3. DOMAIN w = StateFields /\ Multiplied(k, v.matrix, Len(v.matrix), x, w.matrix) /\ w.physical_level = v.physical_level
  BY <1>1, <1>2, EntryMultiplies
<1>4. Len(v.matrix) = D
  BY DEF Entering, Outer
<1>5. PathTo(N, par, hp, ls, ch, D, x)
  BY WalkIsPath
<1>6. N \in Nat
  BY DEF Shape
<1>7. Entered(N, k, par, w.matrix, hp, ls, ch)
  BY <1>3, <1>4, <1>5, <1>6, EnterMultiplies
<1> QED
  BY <1>1, <1>3, <1>7 DEF Leveled

\* The scan leaves a node and enters the next.
LEMMA SiblingEntered ==
  ASSUME NEW N, NEW H, NEW k, NEW par, NEW chi, NEW hp, NEW ls, NEW ch, NEW lm, NEW ch2, NEW x, NEW y, NEW v, NEW w,
         Shape(N, H, k, par, chi, hp), Walked(H, chi, hp, ls, ch, lm), Walked(H, chi, hp, ls, ch2, lm),
         Moved(ls, ch[Len(ls)] + 1, ch, ch2), ch2[Len(ls)] <= lm[Len(ls)], y = Stop(hp, ls, ch2, Len(ls)),
         Leveled(v, ls), Entered(N, k, par, v.matrix, hp, ls, ch), w = entry_f(k[y], y, exit_f(k[x], x, v))
  PROVE  Leveled(w, ls) /\ Entered(N, k, par, w.matrix, hp, ls, ch2)
<1> DEFINE e == exit_f(k[x], x, v)
<1>1. DOMAIN v = StateFields /\ v.physical_level = Len(ls) - 1
  BY DEF Leveled
<1>2. DOMAIN e = StateFields /\ e.matrix = v.matrix /\ e.physical_level = v.physical_level
  BY <1>1, ExitResets
<1>3. w = entry_f(k[y], y, e)
  OBVIOUS
<1> HIDE DEF e
<1>4. Leveled(e, ls)
  BY <1>1, <1>2 DEF Leveled
<1>5. Entering(N, k, par, v.matrix, hp, ls, ch2)
  BY OnToSibling
<1>6. Entering(N, k, par, e.matrix, hp, ls, ch2)
  BY <1>2, <1>5
<1> QED
  BY <1>3, <1>4, <1>6, NodeEntered

\* So after the scan the last node reached has been entered.
LEMMA ScanEnters ==
  ASSUME NEW N, NEW H, NEW k, NEW par, NEW chi, NEW hp, NEW ls, NEW ch, NEW lm, NEW D, NEW v, NEW j \in Nat, NEW f,
         Shape(N, H, k, par, chi, hp), Walked(H, chi, hp, ls, ch, lm), D = Len(ls), ch[D] <= j, j <= lm[D],
         Leveled(v, ls), Entered(N, k, par, v.matrix, hp, ls, ch),
         IsScan(k, Row(hp, ls, D), v, ch[D], j, f)
  PROVE  Leveled(f[j], ls) /\ Entered(N, k, par, f[j].matrix, hp, ls, [ch EXCEPT ![D] = j])
<1> DEFINE i == ch[D]
           s == Row(hp, ls, D)
           To(c) == [ch EXCEPT ![D] = c]
           Right(c) == Leveled(f[c], ls) /\ Entered(N, k, par, f[c].matrix, hp, ls, To(c))
           Wrong == {c \in i..j : ~Right(c)}
<1>1. D \in Nat /\ D > 0 /\ D \in 1..D
  BY WalkedSizes
<1>2. i \in Nat \ {0} /\ lm[D] \in Nat
  <2>1. RowOK(N, k, par, chi, hp, ls, ch, lm, D)
    BY <1>1, RowFacts
  <2> QED
    BY <2>1 DEF RowOK
<1>3. f[i] = v /\ \A c \in (i + 1)..j : f[c] = ScanStep(k, s, c, f[c - 1])
  BY DEF IsScan
<1>4. To(i) = ch
  <2>1. ch \in Seq(Nat \ {0})
    BY DEF Walked
  <2>2. ch = [l \in 1..Len(ch) |-> ch[l]]
    BY <2>1, SeqDef
  <2> QED
    BY <2>2
<1>5. Right(i)
  BY <1>3, <1>4
<1>6. ASSUME NEW c \in i..j PROVE Walked(H, chi, hp, ls, To(c), lm) /\ Moved(ls, c, ch, To(c)) /\ To(c)[D] = c /\ c <= lm[D]
  <2>1. c \in Nat \ {0} /\ c <= lm[D]
    BY <1>2
  <2>2. To(c) = [ch EXCEPT ![Len(ls)] = c]
    OBVIOUS
  <2> HIDE DEF To, i
  <2>3. Walked(H, chi, hp, ls, To(c), lm) /\ Moved(ls, c, ch, To(c))
    BY <2>1, <2>2, WalkedMoves
  <2> QED
    BY <2>1, <2>3 DEF Moved
<1>7. \A c : Stop(hp, ls, To(c), D) = s[To(c)[D]]
  BY DEF Stop, Row
<1> HIDE DEF i, s, To
<1>8. ASSUME NEW c \in (i + 1)..j, Right(c - 1) PROVE Right(c)
  <2>1. c \in i..j /\ c - 1 \in i..j /\ (c - 1) + 1 = c
    BY <1>2
  <2>2. /\ Walked(H, chi, hp, ls, To(c), lm) /\ To(c)[D] = c /\ c <= lm[D] /\ \A l \in 1..(D - 1) : To(c)[l] = ch[l]
    BY <2>1, <1>6 DEF Moved
  <2>3. /\ Walked(H, chi, hp, ls, To(c - 1), lm) /\ To(c - 1)[D] = c - 1 /\ \A l \in 1..(D - 1) : To(c - 1)[l] = ch[l]
    BY <2>1, <1>6 DEF Moved
  <2>4. Moved(ls, To(c - 1)[Len(ls)] + 1, To(c - 1), To(c))
    BY <2>1, <2>2, <2>3 DEF Moved
  <2>5. s[c] = Stop(hp, ls, To(c), Len(ls)) /\ To(c)[Len(ls)] <= lm[Len(ls)]
    BY <2>2, <1>7
  <2>6. f[c] = entry_f(k[s[c]], s[c], exit_f(k[s[c - 1]], s[c - 1], f[c - 1]))
    BY <1>3 DEF ScanStep
  <2>7. Leveled(f[c - 1], ls) /\ Entered(N, k, par, f[c - 1].matrix, hp, ls, To(c - 1))
    BY <1>8
  <2> HIDE DEF Right
  <2>8. Leveled(f[c], ls) /\ Entered(N, k, par, f[c].matrix, hp, ls, To(c))
    <3> PICK ch1 : ch1 = To(c - 1)
      OBVIOUS
    <3> PICK ch2 : ch2 = To(c)
      OBVIOUS
    <3> PICK x : x = s[c - 1]
      OBVIOUS
    <3> PICK v1 : v1 = f[c - 1]
      OBVIOUS
    <3> PICK y : y = s[c]
      OBVIOUS
    <3> PICK w : w = f[c]
      OBVIOUS
    <3>1. Walked(H, chi, hp, ls, ch1, lm) /\ Walked(H, chi, hp, ls, ch2, lm) /\ Moved(ls, ch1[Len(ls)] + 1, ch1, ch2)
      BY <2>2, <2>3, <2>4
    <3>2. ch2[Len(ls)] <= lm[Len(ls)] /\ y = Stop(hp, ls, ch2, Len(ls)) /\ w = entry_f(k[y], y, exit_f(k[x], x, v1))
      BY <2>5, <2>6
    <3>3. Leveled(v1, ls) /\ Entered(N, k, par, v1.matrix, hp, ls, ch1)
      BY <2>7
    <3>4. Leveled(w, ls) /\ Entered(N, k, par, w.matrix, hp, ls, ch2)
      BY ONLY <3>1, <3>2, <3>3, SiblingEntered, Shape(N, H, k, par, chi, hp)
    <3> QED
      BY <3>4
  <2> QED
    BY <2>8 DEF Right
<1> HIDE DEF Right
<1>9. Wrong = {}
  <2> SUFFICES ASSUME Wrong # {} PROVE FALSE
    OBVIOUS
  <2>1. PICK c \in Wrong : \A e \in Wrong : c <= e
    <3>1. Wrong \subseteq Nat
      BY <1>2
    <3> HIDE DEF Wrong
    <3> QED
      BY <3>1, LeastExists
  <2>2. c \in i..j /\ ~Right(c) /\ c # i
    BY <2>1, <1>5
  <2>3. c \in (i + 1)..j /\ c - 1 \in i..j /\ ~(c <= c - 1)
    BY <2>2, <1>2
  <2>4. Right(c - 1)
    BY <2>1, <2>3
  <2> QED
    BY <2>2, <2>3, <2>4, <1>8
<1>10. j \in i..j
  BY <1>2 DEF i
<1>11. Right(j)
  BY <1>9, <1>10
<1> QED
  BY <1>11 DEF Right, To

\* A pop multiplies nothing: its matrix may be taken for the one before its entry.
LEMMA PopEntering ==
  ASSUME NEW N, NEW k, NEW par, NEW mx, NEW hp, NEW ls, NEW ch,
         Entered(N, k, par, mx, hp, ls, ch), k[Stop(hp, ls, ch, Len(ls))] # "anc"
  PROVE  Entering(N, k, par, mx, hp, ls, ch)
<1> DEFINE S == PathScope(N, k, par, hp, ls, ch, Len(ls))
<1>1. S \ {Stop(hp, ls, ch, Len(ls))} = S
  BY DEF PathScope
<1> QED
  BY <1>1 DEF Entered, Entering

\* After a call the walk stands at the next node of the list, or behind the last.
LEMMA NextPlace ==
  ASSUME NEW N, NEW H, NEW k, NEW par, NEW chi, NEW hp, NEW hp2, NEW ls, NEW ch, NEW lm, NEW ch2, NEW mx,
         Shape(N, H, k, par, chi, hp), Walked(H, chi, hp, ls, ch, lm), Walked(H, chi, hp, ls, ch2, lm),
         Moved(ls, ch[Len(ls)] + 1, ch, ch2), Entered(N, k, par, mx, hp, ls, ch), SameElems(hp, hp2)
  PROVE  /\ Outer(N, k, par, mx, hp2, ls, ch2)
         /\ ch2[Len(ls)] <= lm[Len(ls)] => Entering(N, k, par, mx, hp2, ls, ch2)
<1> DEFINE D == Len(ls)
<1>1. D \in Nat /\ D > 0
  BY WalkedSizes
<1>2. SameStops(D - 1, hp, ls, ch, hp, ls, ch2)
  BY DEF Moved, SameStops, Stop
<1>3. Outer(N, k, par, mx, hp, ls, ch2)
  BY <1>1, <1>2, OuterSame DEF Entered
<1>4. H \in Nat
  BY DEF Shape
<1>5. ch2[D] <= lm[D] => Entering(N, k, par, mx, hp, ls, ch2)
  BY OnToSibling
<1> HIDE DEF D
<1> QED
  BY <1>3, <1>4, <1>5, EnteringKeeps DEF D

-----------------------------------------------------------------------------
(* What the callback has been shown *)

SeenRight(N, k, par, up, cs, sn) ==
  IsSequence(sn) /\ Len(sn) = Len(cs) /\ \A c \in 1..Len(cs) : cs[c].node \in 1..N /\ ShownRightly(N, k, par, up, sn[c], cs[c].node)
SeenHere == SeenRight(Len(kind), kind, parent, Lines, calls, seen)
ScopeHere ==
  /\ Leveled(state, lists)
  /\ at = "down" => Entered(Len(kind), kind, parent, state.matrix, heap, lists, child)
  /\ (at = "loop" /\ Top(child) <= Top(limit)) => Entering(Len(kind), kind, parent, state.matrix, heap, lists, child)
  /\ at = "close" => Outer(Len(kind), kind, parent, state.matrix, heap, lists, child)
Scoped == SeenHere /\ (at \notin {"done", "dead"} => ScopeHere)
ScopeInv ==
  /\ at = "idle" => calls = <<>>
  /\ (level = 0 /\ at # "idle") => Scoped

\* One call more.
LEMMA SeenGrows ==
  ASSUME NEW N, NEW k, NEW par, NEW up, NEW S, NEW cs \in Seq(S), NEW sn, SeenRight(N, k, par, up, cs, sn),
         NEW c \in S, NEW s, c.node \in 1..N, ShownRightly(N, k, par, up, s, c.node)
  PROVE  SeenRight(N, k, par, up, Append(cs, c), Append(sn, s))
<1> DEFINE L == Len(cs)
           cs2 == Append(cs, c)
           sn2 == Append(sn, s)
<1>1. /\ L \in Nat /\ Len(cs2) = L + 1 /\ (\A b \in 1..L : cs2[b] = cs[b]) /\ cs2[L + 1] = c
  BY CalleesNext
<1>2. IsSequence(sn) /\ Len(sn) = L /\ \A b \in 1..L : cs[b].node \in 1..N /\ ShownRightly(N, k, par, up, sn[b], cs[b].node)
  BY DEF SeenRight
<1>3. IsSequence(sn2) /\ Len(sn2) = L + 1 /\ (\A b \in 1..L : sn2[b] = sn[b]) /\ sn2[L + 1] = s
  BY <1>2, AppendAny
<1>4. \A b \in 1..(L + 1) : b \in 1..L \/ b = L + 1
  BY <1>1
<1> HIDE DEF L, cs2, sn2
<1>5. \A b \in 1..(L + 1) : cs2[b].node \in 1..N /\ ShownRightly(N, k, par, up, sn2[b], cs2[b].node)
  BY <1>1, <1>2, <1>3, <1>4
<1> QED
  BY <1>1, <1>3, <1>5 DEF SeenRight, cs2, sn2

\* The model stays, and so do the lines of its nodes.
SameTree == kind' = kind /\ parent' = parent
LEMMA LinesStay == SameTree => Lines' = Lines
  BY DEF SameTree, Lines, Ancestors
\* A step that calls nobody,
LEMMA SeenStays ==
  ASSUME SeenHere, SameTree, calls' = calls, seen' = seen
  PROVE  SeenHere'
<1>1. Lines' = Lines /\ kind' = kind /\ parent' = parent
  BY LinesStay DEF SameTree
<1> QED
  BY <1>1 DEF SeenHere
\* and one that calls the callback.
LEMMA SeenNext ==
  ASSUME WalkInv, SeenHere, SameTree, NEW n \in 1..Len(kind), NEW s, NEW code \in Codes \cup {"CONTINUE"}, Called(n, s, code),
         ShownRightly(Len(kind), kind, parent, Lines, s, n)
  PROVE  SeenHere'
<1> DEFINE N == Len(kind)
           c == [node |-> n, code |-> code]
<1>1. Lines' = Lines /\ kind' = kind /\ parent' = parent
  BY LinesStay DEF SameTree
<1>2. calls' = Append(calls, c) /\ seen' = Append(seen, s)
  BY DEF Called
<1>3. c \in Call(N) /\ c.node = n /\ calls \in Seq(Call(N))
  BY DEF Call, WalkInv
<1>4. SeenRight(N, kind, parent, Lines, calls, seen)
  BY DEF SeenHere
<1> HIDE DEF N, c
<1>5. c.node \in 1..N /\ ShownRightly(N, kind, parent, Lines, s, c.node)
  BY <1>3 DEF N
<1>6. SeenRight(N, kind, parent, Lines, Append(calls, c), Append(seen, s))
  BY <1>3, <1>4, <1>5, SeenGrows
<1> QED
  BY <1>1, <1>2, <1>6 DEF SeenHere, N

\* The nodes of the loaded model are a tree with lines.
LEMMA TreeHere ==
  ASSUME WalkInv
  PROVE  Rooted(Len(kind), parent) /\ Lineage(Len(kind), parent, Lines)
<1>1. Shape(Len(kind), Len(heap) - 1, kind, parent, children, heap)
  BY DEF WalkInv, Storage
<1>2. Rooted(Len(kind), parent)
  BY <1>1 DEF Shape, Rooted, TreeOf
<1> QED
  BY <1>2, AncestorsAre

\* What the callback of the innermost node is shown once it has been entered.
LEMMA ShownHere ==
  ASSUME WalkInv, NEW hp, NEW ls, NEW ch, NEW lm, NEW s, NEW x, NEW D, D = Len(ls),
         Shape(Len(kind), Len(heap) - 1, kind, parent, children, hp),
         Walked(Len(heap) - 1, children, hp, ls, ch, lm), ch[D] <= lm[D], x = Stop(hp, ls, ch, D),
         Leveled(s, ls), Entered(Len(kind), kind, parent, s.matrix, hp, ls, ch)
  PROVE  x \in 1..Len(kind) /\ ShownRightly(Len(kind), kind, parent, Lines, s, x)
<1> DEFINE N == Len(kind)
           H == Len(heap) - 1
<1>1. Rooted(N, parent) /\ Lineage(N, parent, Lines)
  BY TreeHere
<1> HIDE DEF N, H
<1>2. PathTo(N, parent, hp, ls, ch, D, x)
  BY WalkIsPath DEF N, H
<1>3. ShownRightly(N, kind, parent, Lines, s, x)
  BY <1>1, <1>2, EnteredShows DEF N
<1>4. x \in 1..N
  BY <1>2 DEF PathTo
<1> QED
  BY <1>3, <1>4 DEF N

\* Where the walk is.
Stands(N, H) ==
  /\ N = Len(kind) /\ H = Len(heap) - 1
  /\ Shape(N, H, kind, parent, children, heap) /\ Walked(H, children, heap, lists, child, limit)
  /\ Len(lists) \in Nat /\ Len(lists) > 0 /\ Len(lists) \in 1..Len(lists)
  /\ Top(lists) = lists[Len(lists)] /\ Top(child) = child[Len(lists)] /\ Top(limit) = limit[Len(lists)]
LEMMA StandsHere ==
  ASSUME WalkInv, at # "done"
  PROVE  Stands(Len(kind), Len(heap) - 1)
<1>1. Shape(Len(kind), Len(heap) - 1, kind, parent, children, heap) /\ Walked(Len(heap) - 1, children, heap, lists, child, limit)
  BY DEF WalkInv, Storage, Position
<1> QED
  BY <1>1, TopFacts DEF Stands

\* The top of the outer loop enters a node.
LEMMA LoopTopScope ==
  ASSUME WalkInv, Scoped, LoopTop
  PROVE  Scoped'
<1> DEFINE N == Len(kind)
           H == Len(heap) - 1
           D == Len(lists)
           x == Stop(heap, lists, child, D)
<1>1. at = "loop" /\ child[1] <= limit[1] /\ ScopeHere /\ SeenHere
  BY DEF LoopTop, MoreToVisit, Scoped
<1>2. Stands(N, H)
  BY <1>1, StandsHere
<1>3. Len(lists) = 1 \/ Top(child) <= Top(limit)
  BY <1>1 DEF WalkInv, Position
<1>4. D \in 1..D /\ Top(lists) = lists[D] /\ Top(child) = child[D] /\ Top(limit) = limit[D]
  BY <1>2 DEF Stands
<1>5. child[D] <= limit[D]
  BY <1>1, <1>3, <1>4
<1>6. Readable(Top(lists), Top(child)) /\ Elems(Top(lists))[Top(child)] = x
  BY <1>1, <1>4, <1>5, StopReadable
<1>7. /\ state' = entry_f(kind[x], x, state) /\ at' = "down"
      /\ kind' = kind /\ parent' = parent /\ heap' = heap /\ lists' = lists /\ child' = child /\ calls' = calls /\ seen' = seen
  BY <1>6 DEF LoopTop, vars
<1>8. Leveled(state, lists) /\ Entering(N, kind, parent, state.matrix, heap, lists, child)
  BY <1>1, <1>4, <1>5 DEF ScopeHere
<1>9. Shape(N, H, kind, parent, children, heap) /\ Walked(H, children, heap, lists, child, limit)
  BY <1>2 DEF Stands
<1> HIDE DEF N, H
<1>10. Leveled(state', lists) /\ Entered(N, kind, parent, state'.matrix, heap, lists, child)
  BY <1>5, <1>7, <1>8, <1>9, NodeEntered
<1>11. ScopeHere'
  BY <1>7, <1>10 DEF ScopeHere, N
<1>12. SeenHere'
  BY <1>1, <1>7, SeenStays DEF SameTree
<1> QED
  BY <1>11, <1>12 DEF Scoped

\* Down pushes a matrix and enters the first child.
LEMMA DownScope ==
  ASSUME WalkInv, Scoped, Down
  PROVE  Scoped'
<1> DEFINE N == Len(kind)
           H == Len(heap) - 1
           D == Len(lists)
           ls2 == Append(lists, children[node])
           ch2 == Append(child, 1)
           lm2 == Append(limit, Len(heap[children[node]].elems))
           v == Pushed(state)
<1>1. at = "down" /\ children[node] # 0 /\ ScopeHere /\ SeenHere
  BY DEF Down, Scoped, NULL
<1>2. Stands(N, H)
  BY <1>1, StandsHere
<1>3. Top(child) <= Top(limit) /\ node = Stop(heap, lists, child, D)
  BY <1>1 DEF WalkInv, Position
<1>4. /\ Shape(N, H, kind, parent, children, heap) /\ Walked(H, children, heap, lists, child, limit)
      /\ D \in Nat /\ D > 0 /\ child[D] <= limit[D]
  BY <1>2, <1>3 DEF Stands
<1>5. Leveled(state, lists) /\ Entered(N, kind, parent, state.matrix, heap, lists, child)
  BY <1>1 DEF ScopeHere
<1>6. Descent(children, heap, lists, child, limit, node, ls2, ch2, lm2)
  BY <1>1, <1>3, <1>4 DEF Descent
<1>7. CASE at' = "dead"
  <2>1. SameTree /\ calls' = calls /\ seen' = seen
    BY <1>7, <1>1 DEF Down, Dies, vars, SameTree
  <2> QED
    BY <2>1, <1>1, <1>7, SeenStays DEF Scoped
<1>8. CASE at' # "dead"
  <2> DEFINE s == heap[children[node]].elems
             x == s[1]
  <2>1. /\ lists' = ls2 /\ child' = ch2 /\ at' = "down" /\ state' = entry_f(kind[x], x, v)
        /\ kind' = kind /\ parent' = parent /\ heap' = heap /\ calls' = calls /\ seen' = seen
    BY <1>1, <1>8 DEF Down, Dies, vars, Elems
  <2> HIDE DEF N, H, ls2, ch2, lm2, s, x
  <2>2. Walked(H, children, heap, ls2, ch2, lm2) /\ Lower(D, heap[children[node]].elems, node, heap, lists, child, ls2, ch2, lm2)
    BY <1>4, <1>6, WalkedDown
  <2>3. Len(ls2) = D + 1 /\ ch2[Len(ls2)] <= lm2[Len(ls2)] /\ x = Stop(heap, ls2, ch2, Len(ls2))
    BY <2>2 DEF Lower, x, s
  <2>4. v.matrix = Append(state.matrix, state.matrix[Len(lists)]) /\ Leveled(v, ls2)
    <3>1. DOMAIN state = StateFields /\ state.physical_level = D - 1 /\ Len(state.matrix) = D
      BY <1>5 DEF Leveled, Entered, Outer
    <3>2. DOMAIN v = StateFields /\ v.matrix = Append(state.matrix, state.matrix[Len(state.matrix)])
          /\ v.physical_level = state.physical_level + 1
      BY <3>1 DEF Pushed, StateFields
    <3> HIDE DEF v
    <3>3. v.physical_level = Len(ls2) - 1
      BY <3>1, <3>2, <2>3, <1>4
    <3> QED
      BY <3>1, <3>2, <3>3 DEF Leveled
  <2> HIDE DEF v, D
  <2>5. Entering(N, kind, parent, v.matrix, heap, ls2, ch2)
    BY <1>4, <1>5, <1>6, <2>4, OnToChild
  <2>6. Leveled(state', ls2) /\ Entered(N, kind, parent, state'.matrix, heap, ls2, ch2)
    BY <1>4, <2>1, <2>2, <2>3, <2>4, <2>5, NodeEntered
  <2>7. ScopeHere'
    BY <2>1, <2>6 DEF ScopeHere, N
  <2>8. SeenHere'
    BY <1>1, <2>1, SeenStays DEF SameTree
  <2> QED
    BY <2>7, <2>8 DEF Scoped
<1> QED
  BY <1>7, <1>8

\* After PRF_TRAV_POP the traversal goes on at the pop, with the matrices of the
\* nodes it has scanned.
LEMMA PopScope ==
  ASSUME WalkInv, ScopeHere, CallLeaf("POP")
  PROVE  at' = "loop" /\ ScopeHere'
<1> DEFINE N == Len(kind)
           H == Len(heap) - 1
           D == Len(lists)
           s == Row(heap, lists, D)
           i == child[D]
           pops == {j \in DOMAIN s : j > i /\ kind[s[j]] \in {"pop", "xpop"}}
           x == CHOOSE j \in pops : \A q \in pops : j <= q
<1>1. /\ at = "down" /\ MayPop(node) /\ Called(node, state, "POP")
      /\ kind' = kind /\ parent' = parent /\ lists' = lists /\ limit' = limit
  BY DEF CallLeaf
<1>2. Stands(N, H) /\ heap' = heap
  <2>1. heap' = heap
    BY <1>1 DEF Called
  <2> QED
    BY <2>1, <1>1, StandsHere
<1>3. /\ Shape(N, H, kind, parent, children, heap) /\ Walked(H, children, heap, lists, child, limit)
      /\ D \in Nat /\ D > 0 /\ D \in 1..D
      /\ Top(lists) = lists[D] /\ Top(child) = i /\ Top(limit) = limit[D]
  BY <1>2 DEF Stands
<1>4. i <= limit[D]
  BY <1>1, <1>3 DEF WalkInv, Position
<1>5. s \in Seq(1..N) /\ Paired(kind, s) /\ limit[D] = Len(s) /\ limit[D] \in Nat /\ i \in Nat \ {0}
  <2> HIDE DEF N, H
  <2>1. RowOK(N, kind, parent, children, heap, lists, child, limit, D)
    BY <1>3, RowFacts
  <2> QED
    BY <2>1 DEF RowOK
<1>6. Elems(Top(lists)) = s
  BY <1>3 DEF Elems, Row
<1>7. Leveled(state, lists) /\ Entered(N, kind, parent, state.matrix, heap, lists, child)
  BY <1>1 DEF ScopeHere
<1> HIDE DEF N, H, s, i
<1>8. pops # {} /\ x \in Nat \ {0} /\ x <= Len(s)
  <2>1. \E j \in 1..i : kind[s[j]] = "push" /\ \A l \in j..i : kind[s[l]] \notin {"pop", "xpop"}
    BY <1>1, <1>3, <1>6 DEF MayPop
  <2>2. i <= Len(s)
    BY <1>4, <1>5
  <2> QED
    BY <2>1, <2>2, <1>5, PopIsThere
<1>9. x > i /\ kind[s[x]] \in {"pop", "xpop"}
  <2>1. pops \subseteq Nat
    <3>1. DOMAIN s = 1..Len(s) /\ Len(s) \in Nat
      BY <1>5, LenProperties
    <3> QED
      BY <3>1
  <2>2. \A j \in pops : j > i /\ kind[s[j]] \in {"pop", "xpop"}
    OBVIOUS
  <2> HIDE DEF pops
  <2>3. \E j \in pops : \A q \in pops : j <= q
    BY <2>1, <1>8, LeastExists
  <2>4. x \in pops
    BY <2>3
  <2> QED
    BY <2>2, <2>4
<1>10. child' = [child EXCEPT ![D] = x] /\ state' = Scanned(s, i, Top(child')) /\ at' = "loop"
  <2>1. Len(child) = D
    BY <1>3, TopFacts
  <2> HIDE DEF D
  <2> QED
    BY <2>1, <1>3, <1>6, <1>8 DEF CallLeaf
<1> HIDE DEF pops, x
<1>11. Walked(H, children, heap, lists, child', limit) /\ child'[D] = x
  <2>1. Walked(H, children, heap, lists, child', limit) /\ Moved(lists, x, child, child')
    <3>1. x \in Nat \ {0} /\ child' = [child EXCEPT ![Len(lists)] = x]
      BY <1>8, <1>10
    <3> HIDE DEF D
    <3> QED
      BY <3>1, <1>3, WalkedMoves
  <2> QED
    BY <2>1 DEF Moved
<1>12. Top(child') = x
  BY <1>11, TopFacts
<1>13. x \in Nat /\ i \in Nat /\ i <= x
  BY <1>5, <1>8, <1>9
<1>14. PICK f : IsScan(kind, s, state, i, x, f) /\ Scanned(s, i, x) = f[x]
  BY <1>13, ScannedIs
<1>15. state' = f[x]
  BY <1>10, <1>12, <1>14
<1>16. Leveled(f[x], lists) /\ Entered(N, kind, parent, f[x].matrix, heap, lists, child')
  <2>1. x <= limit[D] /\ child[D] <= x
    BY <1>5, <1>8, <1>13 DEF i
  <2>2. IsScan(kind, Row(heap, lists, D), state, child[D], x, f)
    BY <1>14 DEF s, i
  <2>3. D = Len(lists)
    OBVIOUS
  <2> HIDE DEF D
  <2> QED
    BY <2>1, <2>2, <2>3, <1>3, <1>7, <1>10, <1>13, ScanEnters
<1>17. kind[Stop(heap, lists, child', Len(lists))] # "anc"
  <2>1. Stop(heap, lists, child', D) = s[x]
    BY <1>11 DEF Stop, Row, s
  <2> QED
    BY <2>1, <1>9
<1>18. Entering(N, kind, parent, f[x].matrix, heap, lists, child')
  BY <1>16, <1>17, PopEntering
<1> QED
  BY <1>1, <1>2, <1>10, <1>15, <1>16, <1>18 DEF ScopeHere, N

\* After a call the traversal goes on at the next node of the list.
LEMMA GoesOn ==
  ASSUME NEW N, NEW H, NEW k, NEW par, NEW chi, NEW hp, NEW hp2, NEW ls, NEW ch, NEW lm, NEW ch2, NEW mx,
         Shape(N, H, k, par, chi, hp), Walked(H, chi, hp, ls, ch, lm), SameElems(hp, hp2),
         ch2 = [ch EXCEPT ![Len(ls)] = ch[Len(ls)] + 1], Entered(N, k, par, mx, hp, ls, ch)
  PROVE  /\ Outer(N, k, par, mx, hp2, ls, ch2)
         /\ Top(ch2) <= Top(lm) => Entering(N, k, par, mx, hp2, ls, ch2)
<1> DEFINE D == Len(ls)
           c == ch[D] + 1
<1>1. D \in Nat /\ D > 0 /\ D \in 1..D
  BY WalkedSizes
<1>2. c \in Nat \ {0}
  <2>1. RowOK(N, k, par, chi, hp, ls, ch, lm, D)
    BY <1>1, RowFacts
  <2> QED
    BY <2>1 DEF RowOK
<1>3. Walked(H, chi, hp, ls, ch2, lm) /\ Moved(ls, c, ch, ch2)
  <2>1. ch2 = [ch EXCEPT ![Len(ls)] = c]
    OBVIOUS
  <2> HIDE DEF c, D
  <2> QED
    BY <2>1, <1>2, WalkedMoves
<1>4. Top(ch2) = ch2[Len(ls)] /\ Top(lm) = lm[Len(ls)]
  BY <1>3, TopFacts
<1>5. /\ Outer(N, k, par, mx, hp2, ls, ch2)
      /\ ch2[Len(ls)] <= lm[Len(ls)] => Entering(N, k, par, mx, hp2, ls, ch2)
  BY <1>3, NextPlace
<1> QED
  BY <1>4, <1>5

\* The call for a node without children shows it its matrices.
LEMMA LeafScope ==
  ASSUME WalkInv, Scoped, NEW code \in Codes \cup {"CONTINUE"}, CallLeaf(code)
  PROVE  Scoped'
<1> DEFINE N == Len(kind)
           H == Len(heap) - 1
           D == Len(lists)
<1>1. /\ at = "down" /\ Called(node, state, code) /\ ScopeHere /\ SeenHere /\ SameTree
      /\ kind' = kind /\ parent' = parent /\ children' = children /\ pooled' = pooled /\ job' = job /\ lists' = lists /\ limit' = limit
  BY DEF CallLeaf, Scoped, SameTree
<1>2. Stands(N, H)
  BY <1>1, StandsHere
<1>3. Top(child) <= Top(limit) /\ node = Stop(heap, lists, child, D)
  BY <1>1 DEF WalkInv, Position
<1>4. /\ Shape(N, H, kind, parent, children, heap) /\ Walked(H, children, heap, lists, child, limit)
      /\ D \in 1..D /\ child[D] <= limit[D] /\ Top(child) = child[D]
  BY <1>2, <1>3 DEF Stands
<1>5. Leveled(state, lists) /\ Entered(N, kind, parent, state.matrix, heap, lists, child)
  BY <1>1 DEF ScopeHere
<1>6. node \in 1..N /\ node \notin Gone
  BY <1>1, <1>3, <1>4, StopReadable
<1>7. ShownRightly(N, kind, parent, Lines, state, node)
  BY <1>3, <1>4, <1>5, ShownHere
<1>8. SeenHere'
  BY <1>1, <1>6, <1>7, SeenNext
<1>9. SameElems(heap, heap')
  <2>1. CallDone(node, code)
    BY <1>1, <1>6, CalledKeeps
  <2> QED
    BY <2>1 DEF CallDone
<1> HIDE DEF N, H
<1>10. CASE code = "EXIT"
  <2>1. at' = "done"
    BY <1>10 DEF CallLeaf
  <2> QED
    BY <2>1, <1>8 DEF Scoped
<1>11. CASE code = "POP"
  BY <1>1, <1>8, <1>11, PopScope DEF Scoped
<1>12. CASE code \notin {"EXIT", "POP"}
  <2>1. /\ child' = [child EXCEPT ![Len(lists)] = child[Len(lists)] + 1] /\ state' = state /\ at' \in {"loop", "close"}
    <3>1. Len(child) = D
      BY <1>4, TopFacts
    <3> QED
      BY <3>1, <1>12 DEF CallLeaf
  <2> HIDE DEF D
  <2>2. /\ Outer(N, kind, parent, state.matrix, heap', lists, child')
        /\ Top(child') <= Top(limit) => Entering(N, kind, parent, state.matrix, heap', lists, child')
    BY <2>1, <1>4, <1>5, <1>9, GoesOn
  <2>3. ScopeHere'
    BY <2>1, <2>2, <1>1, <1>5 DEF ScopeHere, N
  <2> QED
    BY <2>3, <1>8 DEF Scoped
<1> QED
  BY <1>10, <1>11, <1>12

\* The call for a node after its children shows it what it would have been shown
\* before them.
LEMMA CloseScope ==
  ASSUME WalkInv, Scoped, NEW code \in Codes \cup {"CONTINUE"}, Close(code)
  PROVE  Scoped'
<1> DEFINE N == Len(kind)
           H == Len(heap) - 1
           D == Len(lists)
           K == D - 1
           x == Stop(heap, lists, child, K)
           up == Drop(child)
<1>1. at = "close" /\ ScopeHere /\ SeenHere
  BY DEF Close, Scoped
<1>2. Stands(N, H) /\ D > 1
  BY <1>1, StandsHere DEF WalkInv, Position
<1>3. Shape(N, H, kind, parent, children, heap) /\ Walked(H, children, heap, lists, child, limit) /\ D \in Nat
  BY <1>2 DEF Stands
<1>4. K \in 1..D /\ K \in 1..(D - 1) /\ K \in 1..K
  BY <1>2, <1>3
<1>5. child[K] <= limit[K] /\ Len(child) = D
  BY <1>3, <1>4 DEF Walked
<1>6. Readable(lists[K], child[K]) /\ Elems(lists[K])[child[K]] = x /\ x \in 1..N /\ x \notin Gone
  BY <1>1, <1>4, <1>5, StopReadable
<1>7. /\ Called(x, state', code) /\ state' = Popped(state) /\ lists' = Drop(lists) /\ limit' = Drop(limit)
      /\ kind' = kind /\ parent' = parent /\ children' = children /\ pooled' = pooled /\ job' = job
      /\ IF code = "EXIT" THEN at' = "done"
         ELSE at' = "loop" /\ child' = [up EXCEPT ![K] = child[K] + 1]
  BY <1>5, <1>6 DEF Close
<1>8. SameElems(heap, heap')
  <2>1. CallDone(x, code)
    BY <1>6, <1>7, CalledKeeps
  <2> QED
    BY <2>1 DEF CallDone
<1>9. lists' = Shorter(lists) /\ limit' = Shorter(limit) /\ up = Shorter(child) /\ Len(lists) = D
  BY <1>7 DEF Drop, Shorter
<1>10. Leveled(state, lists) /\ Outer(N, kind, parent, state.matrix, heap, lists, child)
  BY <1>1 DEF ScopeHere
<1> HIDE DEF N, H, K, up, x
<1>11. Walked(H, children, heap, lists', up, limit') /\ Upper(D, lists, child, limit, lists', up, limit')
  BY <1>2, <1>3, <1>9, WalkedUp
<1>12. Len(lists') = K /\ up[K] = child[K] /\ limit'[K] = limit[K] /\ lists'[K] = lists[K]
  BY <1>4, <1>11 DEF Upper, K
<1>13. state'.matrix = SubSeq(state.matrix, 1, Len(state.matrix) - 1) /\ Leveled(state', lists')
  <2>1. DOMAIN state = StateFields /\ state.physical_level = D - 1
    BY <1>10 DEF Leveled
  <2>2. /\ DOMAIN state' = StateFields /\ state'.physical_level = state.physical_level - 1
        /\ state'.matrix = SubSeq(state.matrix, 1, Len(state.matrix) - 1)
    BY <2>1, <1>7 DEF Popped, StateFields
  <2>3. state'.physical_level = Len(lists') - 1
    BY <2>1, <2>2, <1>12 DEF K
  <2> QED
    BY <2>2, <2>3 DEF Leveled
<1>14. Entered(N, kind, parent, state'.matrix, heap, lists', up)
  BY <1>2, <1>3, <1>10, <1>11, <1>13, BackUp
<1>15. up[K] <= limit'[K] /\ x = Stop(heap, lists', up, K)
  BY <1>5, <1>12 DEF Stop, x
<1>16. ShownRightly(N, kind, parent, Lines, state', x)
  <2>1. up[Len(lists')] <= limit'[Len(lists')] /\ x = Stop(heap, lists', up, Len(lists'))
    BY <1>12, <1>15
  <2> QED
    BY <2>1, <1>3, <1>11, <1>13, <1>14, ShownHere DEF N, H
<1>17. SeenHere'
  <2>1. SameTree
    BY <1>7 DEF SameTree
  <2> QED
    BY <2>1, <1>1, <1>6, <1>7, <1>16, SeenNext DEF N
<1>18. CASE code = "EXIT"
  BY <1>7, <1>17, <1>18 DEF Scoped
<1>19. CASE code # "EXIT"
  <2>1. child' = [up EXCEPT ![Len(lists')] = up[Len(lists')] + 1] /\ at' = "loop"
    BY <1>7, <1>12, <1>19
  <2>2. Top(child') <= Top(limit') => Entering(N, kind, parent, state'.matrix, heap', lists', child')
    BY <2>1, <1>3, <1>8, <1>11, <1>14, GoesOn
  <2>3. ScopeHere'
    BY <2>1, <2>2, <1>7, <1>13 DEF ScopeHere, N
  <2> QED
    BY <2>3, <1>17 DEF Scoped
<1> QED
  BY <1>18, <1>19

\* The traversal begins with an empty product.
LEMMA StartScope ==
  ASSUME WalkInv', NEW j \in {"user", "destroy"}, prf_model_traverse_df(j)
  PROVE  Scoped'
<1> DEFINE N == Len(kind')
           H == Len(heap') - 1
           mx == <<<<>>>>
<1>1. /\ at' = "loop" /\ Len(lists') = 1 /\ child'[1] = 1 /\ state' = NewState /\ calls' = <<>> /\ seen' = <<>>
  BY DEF prf_model_traverse_df
<1>2. Shape(N, H, kind', parent', children', heap') /\ Walked(H, children', heap', lists', child', limit')
  BY <1>1 DEF WalkInv, Storage, Position
<1>3. Stop(heap', lists', child', 1) = 1
  <2>1. heap'[lists'[1]].elems = <<1>>
    BY <1>2 DEF Walked
  <2> QED
    BY <2>1, <1>1 DEF Stop
<1>4. N \in Nat
  BY <1>2 DEF Shape
<1>5. DOMAIN state' = StateFields /\ state'.matrix = mx /\ state'.physical_level = 0
  BY <1>1 DEF NewState, StateFields
<1>6. Leveled(state', lists')
  BY <1>1, <1>5 DEF Leveled
<1> HIDE DEF N, H
<1>7. PathScope(N, kind', parent', heap', lists', child', 1) \ {1} = {}
  <2> SUFFICES ASSUME NEW a \in PathScope(N, kind', parent', heap', lists', child', 1) PROVE a = 1
    OBVIOUS
  <2>1. a \in 1..N /\ \E m \in 1..1 : a <= Stop(heap', lists', child', m)
    BY DEF PathScope
  <2>2. \A m \in 1..1 : m = 1
    OBVIOUS
  <2> QED
    BY <2>1, <2>2, <1>3, <1>4
<1>8. mx \in Seq(Seq(1..N)) /\ Len(mx) = 1 /\ mx[1] = <<>>
  <2>1. <<>> \in Seq(1..N)
    OBVIOUS
  <2> QED
    BY <2>1
<1>9. Product(N, <<>>, {})
  <2>1. <<>> \in Seq(1..N) /\ Len(<<>>) = 0 /\ DOMAIN <<>> = {}
    OBVIOUS
  <2>2. \A y \in 1..0 : FALSE
    OBVIOUS
  <2>3. Rising(<<>>)
    BY <2>1, <2>2 DEF Rising
  <2>4. Members(<<>>) = {}
    BY <2>1 DEF Members
  <2> QED
    BY <2>1, <2>3, <2>4 DEF Product
<1> HIDE DEF mx
<1>10. \A l \in 1..(1 - 1) : FALSE
  OBVIOUS
<1>11. Entering(N, kind', parent', mx, heap', lists', child')
  BY <1>1, <1>3, <1>7, <1>8, <1>9, <1>10 DEF Entering, Outer
<1>12. ScopeHere'
  BY <1>1, <1>5, <1>6, <1>11 DEF ScopeHere, N
<1>13. SeenHere'
  <2>1. Len(<<>>) = 0 /\ \A c \in 1..0 : FALSE
    OBVIOUS
  <2>2. IsSequence(<<>>)
    BY DEF IsSequence
  <2> QED
    BY <2>1, <2>2, <1>1 DEF SeenHere, SeenRight
<1> QED
  BY <1>12, <1>13 DEF Scoped

\* A step of a traversal keeps what has been shown right.
LEMMA TraverseScope ==
  ASSUME DInv, ScopeInv, Traverse
  PROVE  ScopeInv'
<1>1. at # "idle" /\ level' = level /\ (at' = "idle" => Return)
  <2>1. CASE LoopTop
    BY <2>1 DEF LoopTop, Dies, vars
  <2>2. CASE Down
    BY <2>2 DEF Down, Dies, vars
  <2>3. CASE LoopEnds
    BY <2>3 DEF LoopEnds, vars
  <2>4. CASE Return
    BY <2>4 DEF Return
  <2>5. ASSUME NEW c \in Codes \cup {"CONTINUE"}, CallLeaf(c)
        PROVE  at # "idle" /\ level' = level /\ at' # "idle"
    BY <2>5 DEF CallLeaf
  <2>6. ASSUME NEW c \in Codes \cup {"CONTINUE"}, Close(c)
        PROVE  at # "idle" /\ level' = level /\ at' # "idle"
    BY <2>6 DEF Close, Dies, vars
  <2> QED
    BY <2>1, <2>2, <2>3, <2>4, <2>5, <2>6 DEF Traverse
<1>2. CASE Return
  <2>1. at' = "idle" /\ calls' = <<>>
    BY <1>2 DEF Return
  <2> QED
    BY <2>1 DEF ScopeInv
<1>3. CASE ~Return
  <2> SUFFICES ASSUME level = 0 PROVE Scoped'
    BY <1>1, <1>3 DEF ScopeInv
  <2>1. WalkInv /\ Scoped
    BY <1>1 DEF DInv, ScopeInv
  <2>2. CASE LoopEnds
    <3>1. at' = "done" /\ SameTree /\ calls' = calls /\ seen' = seen
      BY <2>2 DEF LoopEnds, vars, SameTree
    <3> QED
      BY <3>1, <2>1, SeenStays DEF Scoped
  <2> QED
    BY <2>1, <2>2, <1>3, LoopTopScope, DownScope, LeafScope, CloseScope DEF Traverse
<1> QED
  BY <1>2, <1>3

\* Nor does any other step disturb it.
LEMMA ScopeNext ==
  ASSUME DInv, DInv', ScopeInv, [DNext]_dvars
  PROVE  ScopeInv'
<1>1. CASE Load
  <2>1. LoadRecord /\ at' = at /\ calls' = calls
    BY <1>1 DEF Load, walk
  <2>2. status = "loading"
    BY <2>1 DEF LoadRecord, LoadPrimary, LoadPop, LoadDies, LoadPush, LoadAncillary, LoadFails, EndOfFile, TrailingGarbage, Record
  <2>3. at = "idle"
    BY <2>2 DEF DInv
  <2> QED
    BY <2>1, <2>3 DEF ScopeInv
<1>2. ASSUME NEW j \in {"user", "destroy"}, prf_model_traverse_df(j) PROVE ScopeInv'
  <2>1. status' = "loaded" /\ at' = "loop"
    BY <1>2 DEF prf_model_traverse_df
  <2>2. level' = 0 => WalkInv'
    BY <2>1 DEF DInv
  <2>3. level' = 0 => Scoped'
    BY <2>2, <1>2, StartScope
  <2> QED
    BY <2>1, <2>3 DEF ScopeInv
<1>3. CASE UNCHANGED dvars
  <2>1. /\ kind' = kind /\ parent' = parent /\ heap' = heap /\ level' = level /\ at' = at /\ lists' = lists /\ child' = child
        /\ limit' = limit /\ state' = state /\ calls' = calls /\ seen' = seen
    BY <1>3 DEF dvars, vars, walk
  <2>2. SeenHere => SeenHere'
    BY <2>1, SeenStays DEF SameTree
  <2>3. ScopeHere => ScopeHere'
    BY <2>1 DEF ScopeHere, Top
  <2> QED
    BY <2>1, <2>2, <2>3 DEF ScopeInv, Scoped
<1> QED
  BY <1>1, <1>2, <1>3, TraverseScope DEF DNext

\* For every model and every sequence of answers: the matrices a callback is shown
\* are those of the ancillary nodes before its node, and before the nodes above it,
\* in their lists, each once and in order, also at the call after the children and
\* after PRF_TRAV_POP; and the level is that of its list.
THEOREM MatricesAreInScope == DSpec => []ScopeOfDescent
<1>1. DInit => ScopeInv
  BY DEF DInit, ScopeInv
<1>2. (DInv /\ ScopeInv) => ScopeOfDescent
  <2> SUFFICES ASSUME DInv, ScopeInv, level = 0, NEW c \in DOMAIN calls
               PROVE  LET n == calls[c].node
                      IN /\ Members(Matrix(seen[c])) =
                              {a \in Nodes : kind[a] = "anc" /\ \E m \in Ancestors(n) : m \in Siblings(a) /\ a <= m}
                         /\ Ascending(Matrix(seen[c]))
                         /\ seen[c].physical_level = Cardinality(Ancestors(n)) - 1
    BY DEF ScopeOfDescent
  <2> DEFINE N == Len(kind)
             n == calls[c].node
             s == Matrix(seen[c])
  <2>1. at # "idle"
    BY DEF ScopeInv
  <2>2. WalkInv /\ SeenRight(N, kind, parent, Lines, calls, seen)
    BY <2>1 DEF DInv, ScopeInv, Scoped, SeenHere
  <2>3. c \in 1..Len(calls)
    <3>1. calls \in Seq(Call(N))
      BY <2>2 DEF WalkInv
    <3> QED
      BY <3>1, LenProperties
  <2>4. n \in 1..N /\ ShownRightly(N, kind, parent, Lines, seen[c], n)
    BY <2>2, <2>3 DEF SeenRight
  <2>5. /\ s \in Seq(1..N) /\ Rising(s) /\ Members(s) = NodeMatrices(N, kind, parent, Lines, n)
        /\ seen[c].physical_level = Cardinality(Lines[n]) - 1
    BY <2>4 DEF ShownRightly, Product
  <2>6. Rooted(N, parent) /\ Lineage(N, parent, Lines)
    BY <2>2, TreeHere
  <2>7. \A m \in Lines[n] : m \in 1..N
    BY <2>4, <2>6, LineIsBefore
  <2>8. Lines[n] = Ancestors(n) /\ Nodes = 1..N
    <3>1. n \in 0..N
      BY <2>4, <2>6 DEF Rooted, TreeOf
    <3> QED
      BY <3>1 DEF Lines, Nodes
  <2> HIDE DEF n, s, N
  <2>9. NodeMatrices(N, kind, parent, Lines, n)
          = {a \in Nodes : kind[a] = "anc" /\ \E m \in Ancestors(n) : m \in Siblings(a) /\ a <= m}
    BY <2>7, <2>8 DEF NodeMatrices, Siblings
  <2>10. Ascending(s)
    <3> DEFINE L == Len(s)
    <3>1. L \in Nat
      BY <2>5, LenProperties
    <3> HIDE DEF L
    <3>2. \A x \in 1..(L - 1) : x \in 1..L /\ x + 1 \in 1..L /\ x < x + 1
      BY <3>1
    <3> QED
      BY <3>2, <2>5 DEF Ascending, Rising, L
  <2> QED
    BY <2>5, <2>8, <2>9, <2>10 DEF n, s
<1> QED
  BY <1>1, <1>2, DInitOK, DNextOK, ScopeNext, PTL DEF DSpec
=============================================================================
