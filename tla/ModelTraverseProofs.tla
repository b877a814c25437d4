------------------------ MODULE ModelTraverseProofs -------------------------
(***************************************************************************)
(* Proofs about the in-order and breadth-first traversals, saving and      *)
(* cloning, for every tree the loader builds, every flag an application    *)
(* sets and every sequence of answers of its callback.                     *)
(*                                                                         *)
(* An in-order traversal keeps a path from the root in its stacks; a       *)
(* breadth-first one keeps the arrays of two levels, and its clones are    *)
(* numbered one after the other, those in use being the last.              *)
(*                                                                         *)
(* The order of the calls is the order of the file because subtrees are    *)
(* nested: what an in-order traversal has still before it, the rest of     *)
(* each list on its path, comes after every node that it has passed.       *)
(*                                                                         *)
(* The stack of clones follows the path: it holds the node itself at each  *)
(* level of the walk, so its element below the top is the parent that the  *)
(* next clone is put under.                                                *)
(*                                                                         *)
(* So do the matrices: the one of each level is the product of the called  *)
(* ancillary nodes in the lists on the path down to that level.            *)
(*                                                                         *)
(* And the counters: in every list pushes and pops alternate, so each list *)
(* above the node is entered between a push and its pop, and the section   *)
(* count is the depth, less what the node itself is outside of.            *)
(***************************************************************************)
EXTENDS ModelBreadth, ModelLoadProofs

-----------------------------------------------------------------------------
(* The inductive invariant *)

\* Every child array is allocated.
AllLive(N, chi, hp) == \A p \in 1..N : chi[p] # 0 => hp[chi[p]].live
AtRest ==
  /\ Shape(Len(kind), Len(heap), kind, parent, children, heap)
  /\ AllLive(Len(kind), children, heap)
\* During a traversal: the array made for the root is the last one.
Storage ==
  /\ Len(heap) > 0 /\ Shape(Len(kind), Len(heap) - 1, kind, parent, children, heap)
  /\ AllLive(Len(kind), children, heap)

\* prf_model_clone has the clone of the header before it leaves the root.
CopyFields == {"header", "stack", "parent", "kids"}
HeaderFirst ==
  /\ DOMAIN copy = CopyFields
  /\ (at = "visit" /\ Len(lists) = 1) => copy.header = 0
  /\ Len(lists) > 1 => copy.header # 0
Place ==
  /\ heap[Len(heap)].live /\ Walked(Len(heap) - 1, children, heap, lists, child, limit)
  /\ at = "visit" => child[Len(lists)] <= limit[Len(lists)]
  /\ at = "up" => child[Len(lists)] > 1
Position == Place /\ ((job = "clone" /\ Clonable) => HeaderFirst)
WalkInv == job \in Jobs /\ Storage /\ (at # "done" => Position)

\* The clones are numbered in the order of the arrays they belong to; the ones
\* in use are those after the first b.
Numbered(s, b) == \A x \in 1..Len(s) : s[x] = b + x
IsClone(c) == DOMAIN c = {"state", "live"}
LiveArrays(hp) == {a \in 1..Len(hp) : hp[a].live}
InUseAfter(b, n1, n2, ss1, ss2, cl) ==
  /\ b \in Nat /\ n1 \in Nat /\ n2 \in Nat
  /\ ss1 \in Seq(Nat) /\ Len(ss1) = n1 /\ Numbered(ss1, b)
  /\ ss2 \in Seq(Nat) /\ Len(ss2) = n2 /\ Numbered(ss2, b + n1)
  /\ IsSequence(cl) /\ Len(cl) = b + n1 + n2
  /\ \A c \in 1..Len(cl) : IsClone(cl[c]) /\ cl[c].live = (c > b)
ClonesOK(n1, n2, ss1, ss2, cl) == InUseAfter(Len(cl) - (n1 + n2), n1, n2, ss1, ss2, cl)
LevelInv ==
  /\ job = "breadth" /\ Storage
  /\ at # "returned" =>
       /\ this_level \in Seq(LiveArrays(heap)) /\ next_level \in Seq(LiveArrays(heap))
       /\ ClonesOK(Len(this_level), Len(next_level), this_level_states, next_level_states, clones)
  /\ at = "list" => i \in 1..(Len(this_level) + 1)
  /\ at = "node" => i \in 1..Len(this_level) /\ j \in Nat \ {0}
  /\ at = "returned" => (IsSequence(clones) /\ \A c \in 1..Len(clones) : clones[c].live = FALSE)

InWalk == status = "loaded" /\ at \in {"visit", "up", "done"} /\ WalkInv
InLevels == status = "loaded" /\ at \in {"list", "node", "end", "returned"} /\ LevelInv
WholeInv ==
  \/ at = "idle" /\ (status = "loaded" => AtRest)
  \/ InWalk
  \/ InLevels
  \/ at = "dead" /\ job = "clone" /\ ~Clonable
TInv ==
  /\ broken \in BOOLEAN
  /\ status = "loading" => (IInv /\ MoreInv /\ at = "idle")
  /\ Whole => WholeInv

-----------------------------------------------------------------------------
(* The array of the root *)

RootArray == [elems |-> <<1>>, size |-> 1, live |-> TRUE]
\* A heap with the same child arrays holds the same model.
SameArrays(H, hp, hp2) == \A a \in 1..H : hp2[a] = hp[a]
LEMMA ArraysKeep ==
  ASSUME NEW N, NEW H, NEW k, NEW par, NEW chi, NEW hp, NEW hp2,
         Shape(N, H, k, par, chi, hp), AllLive(N, chi, hp), SameArrays(H, hp, hp2),
         hp2 \in Seq(ArrayOf(N)), H <= Len(hp2)
  PROVE  Shape(N, H, k, par, chi, hp2) /\ AllLive(N, chi, hp2)
<1>1. \A a \in 1..H : hp2[a] = hp[a]
  BY DEF SameArrays
<1>2. Shape(N, H, k, par, chi, hp2)
  BY <1>1, ShapeKeeps
<1>3. chi \in [1..N -> 0..H] /\ H \in Nat
  BY DEF Shape
<1>4. \A p \in 1..N : chi[p] # 0 => chi[p] \in 1..H
  BY <1>3
<1>5. AllLive(N, chi, hp2)
  BY <1>1, <1>4 DEF AllLive
<1> QED
  BY <1>2, <1>5

\* A traversal makes an array for the root, after those of the model.
Made(N, H, k, par, chi, hp2) ==
  /\ H \in Nat /\ hp2 \in Seq(ArrayOf(N)) /\ Len(hp2) = H + 1 /\ Len(hp2) - 1 = H /\ Len(hp2) > 0
  /\ hp2[H + 1] = RootArray
  /\ Shape(N, H, k, par, chi, hp2) /\ AllLive(N, chi, hp2)
LEMMA RootIsMade ==
  ASSUME NEW N, NEW H, NEW k, NEW par, NEW chi, NEW hp, NEW hp2,
         Shape(N, H, k, par, chi, hp), AllLive(N, chi, hp), Len(hp) = H, hp2 = Append(hp, RootArray)
  PROVE  Made(N, H, k, par, chi, hp2)
<1>1. N \in Nat \ {0} /\ H \in Nat /\ hp \in Seq(ArrayOf(N))
  BY DEF Shape
<1>2. RootArray \in ArrayOf(N)
  <2>1. 1 \in 1..N
    BY <1>1
  <2>2. <<1>> \in Seq(1..N)
    BY <2>1
  <2> QED
    BY <2>2 DEF ArrayOf, RootArray
<1>3. hp2 \in Seq(ArrayOf(N)) /\ Len(hp2) = H + 1 /\ hp2[H + 1] = RootArray /\ \A a \in 1..H : hp2[a] = hp[a]
  BY <1>1, <1>2, AppendProperties
<1>4. SameArrays(H, hp, hp2) /\ H <= Len(hp2) /\ Len(hp2) > 0 /\ Len(hp2) - 1 = H
  BY <1>1, <1>3 DEF SameArrays
<1>5. Shape(N, H, k, par, chi, hp2) /\ AllLive(N, chi, hp2)
  BY <1>3, <1>4, ArraysKeep
<1> QED
  BY <1>1, <1>3, <1>4, <1>5 DEF Made

\* The traversal begins with a walk that stands at the root.
LEMMA WalkBegins ==
  ASSUME NEW N, NEW H, NEW k, NEW par, NEW chi, NEW hp, Made(N, H, k, par, chi, hp)
  PROVE  Walked(H, chi, hp, <<H + 1>>, <<1>>, <<1>>)
<1> DEFINE ls == <<H + 1>>
           ch == <<1>>
<1>1. H \in Nat /\ Len(hp) = H + 1 /\ hp[H + 1].elems = <<1>>
  BY DEF Made, RootArray
<1>2. /\ Len(ls) = 1 /\ Len(ch) = 1 /\ ls[1] = H + 1 /\ ch[1] = 1
  OBVIOUS
<1>3. ls \in Seq(1..(H + 1)) /\ ch \in Seq(Nat \ {0}) /\ ch \in Seq(Nat)
  <2>1. H + 1 \in 1..(H + 1)
    BY <1>1
  <2> QED
    BY <2>1
<1> HIDE DEF ls, ch
<1>4. Row(hp, ls, 1) = <<1>>
  BY <1>1, <1>2 DEF Row
<1>5. Len(Row(hp, ls, 1)) = 1 /\ \A x \in 1..Len(ls) : x = 1
  BY <1>2, <1>4
<1>6. \A x \in 1..Len(ls) : ch[x] = Len(Row(hp, ls, x))
  BY <1>2, <1>5
<1>7. \A x \in 1..(Len(ls) - 1) : FALSE
  BY <1>2
<1>8. \A x, y \in 1..Len(ls) : ~(x < y)
  BY <1>5
<1>9. Len(ls) > 0 /\ Len(ch) = Len(ls)
  BY <1>2
<1>10. Walked(H, chi, hp, ls, ch, ch)
  BY <1>1, <1>2, <1>3, <1>6, <1>7, <1>8, <1>9 DEF Walked
<1> QED
  BY <1>10 DEF ls, ch

\* When it has returned, the model has its arrays and no other.
LEMMA RootIsDropped ==
  ASSUME NEW N, NEW H, NEW k, NEW par, NEW chi, NEW hp, NEW hp2,
         Shape(N, H, k, par, chi, hp), AllLive(N, chi, hp), Len(hp) = H + 1, hp2 = SubSeq(hp, 1, H)
  PROVE  Shape(N, Len(hp2), k, par, chi, hp2) /\ AllLive(N, chi, hp2)
<1>1. H \in Nat /\ hp \in Seq(ArrayOf(N)) /\ hp2 = SubSeq(hp, 1, H)
  BY DEF Shape
<1>2. Len(hp) \in Nat /\ Len(hp) = H + 1
  BY <1>1
<1>3. hp2 \in Seq(ArrayOf(N)) /\ Len(hp2) = H /\ \A a \in 1..H : hp2[a] = hp[a]
  <2>1. \A a \in 1..H : a \in 1..Len(hp)
    BY <1>1, <1>2
  <2>2. \A a \in 1..H : hp[a] \in ArrayOf(N)
    BY <2>1, <1>1, ElementOfSeq
  <2>3. /\ SubSeq(hp, 1, H) \in Seq(ArrayOf(N)) /\ Len(SubSeq(hp, 1, H)) = (IF 1 <= H THEN (H - 1) + 1 ELSE 0)
        /\ \A a \in 1..((H - 1) + 1) : SubSeq(hp, 1, H)[a] = hp[(1 + a) - 1]
    BY <2>2, <1>1, <1>2, SubSeqProperties
  <2>4. (IF 1 <= H THEN (H - 1) + 1 ELSE 0) = H /\ (H - 1) + 1 = H /\ \A a \in 1..H : (1 + a) - 1 = a
    BY <1>1
  <2> QED
    BY <2>3, <2>4, <1>1
<1>4. SameArrays(H, hp, hp2) /\ H <= Len(hp2)
  BY <1>1, <1>3 DEF SameArrays
<1>5. Shape(N, H, k, par, chi, hp2) /\ AllLive(N, chi, hp2)
  BY <1>3, <1>4, ArraysKeep
<1> QED
  BY <1>3, <1>5

RootOnly(H, hp, ls) == Len(hp) = H + 1 /\ DOMAIN ls = 1..1 /\ ls[1] = H + 1
FreedOf(hp, ls) ==
  [a \in DOMAIN hp |->
     IF \E l \in DOMAIN ls : ls[l] = a THEN [hp[a] EXCEPT !.live = FALSE] ELSE hp[a]]
\* A traversal that ends at the root frees the array it made, and no other.
LEMMA RootIsFreed ==
  ASSUME NEW N, NEW H, NEW k, NEW par, NEW chi, NEW hp, NEW hp2, NEW ls,
         Shape(N, H, k, par, chi, hp), AllLive(N, chi, hp), RootOnly(H, hp, ls), hp2 = FreedOf(hp, ls)
  PROVE  Len(hp2) = H + 1 /\ Shape(N, H, k, par, chi, hp2) /\ AllLive(N, chi, hp2)
<1> USE DEF RootOnly
<1>1. H \in Nat /\ hp \in Seq(ArrayOf(N))
  BY DEF Shape
<1>2. DOMAIN hp = 1..(H + 1)
  BY <1>1, LenProperties
<1>3. \A a : (\E l \in DOMAIN ls : ls[l] = a) <=> a = H + 1
  <2>1. \A l \in 1..1 : l = 1
    OBVIOUS
  <2>2. 1 \in 1..1
    OBVIOUS
  <2> QED
    BY <2>1, <2>2
<1>4. hp2 = [a \in 1..(H + 1) |-> IF a = H + 1 THEN [hp[a] EXCEPT !.live = FALSE] ELSE hp[a]]
  BY <1>2, <1>3 DEF FreedOf
<1>5. \A a \in 1..(H + 1) : hp2[a] = IF a = H + 1 THEN [hp[a] EXCEPT !.live = FALSE] ELSE hp[a]
  BY <1>4
<1>6. \A a \in 1..(H + 1) : hp2[a] \in ArrayOf(N)
  <2>1. \A a \in 1..(H + 1) : hp[a] \in ArrayOf(N)
    BY <1>1, ElementOfSeq
  <2>2. \A r \in ArrayOf(N) : [r EXCEPT !.live = FALSE] \in ArrayOf(N)
    BY DEF ArrayOf
  <2> QED
    BY <2>1, <2>2, <1>5
<1>7. hp2 \in Seq(ArrayOf(N)) /\ Len(hp2) = H + 1
  <2>1. H + 1 \in Nat
    BY <1>1
  <2>2. hp2 = [a \in 1..(H + 1) |-> hp2[a]]
    BY <1>4
  <2>3. [a \in 1..(H + 1) |-> hp2[a]] \in Seq(ArrayOf(N))
    BY <2>1, <1>6, IsASeq
  <2>4. hp2 \in Seq(ArrayOf(N)) /\ DOMAIN hp2 = 1..(H + 1)
    BY <2>2, <2>3, <1>4
  <2> QED
    BY <2>1, <2>4, LenProperties
<1>8. SameArrays(H, hp, hp2)
  <2>1. \A a \in 1..H : a \in 1..(H + 1) /\ a # H + 1
    BY <1>1
  <2> QED
    BY <2>1, <1>5 DEF SameArrays
<1>9. H <= Len(hp2)
  BY <1>1, <1>7
<1> QED
  BY <1>7, <1>8, <1>9, ArraysKeep

-----------------------------------------------------------------------------
(* The steps of an in-order traversal *)

\* Where the walk stands there is an allocated list and a node.
Standing(N, D) ==
  /\ D \in Nat /\ D > 0 /\ D \in 1..D /\ Len(lists) = D /\ Len(child) = D /\ Len(limit) = D
  /\ Top(lists) = lists[D] /\ Top(child) = child[D] /\ Top(limit) = limit[D]
  /\ RowOK(N, kind, parent, children, heap, lists, child, limit, D)
  /\ Readable(Top(lists), Top(child)) /\ Elems(Top(lists)) = Row(heap, lists, D)
  /\ Current = Stop(heap, lists, child, D) /\ Current \in 1..N
  /\ Current = 1 <=> D = 1
LEMMA StopReadable ==
  ASSUME Storage, Place, NEW D, D = Len(lists), child[D] <= limit[D]
  PROVE  Standing(Len(kind), D)
<1> DEFINE N == Len(kind)
           H == Len(heap) - 1
           n == Stop(heap, lists, child, D)
<1>1. /\ Shape(N, H, kind, parent, children, heap) /\ AllLive(N, children, heap)
      /\ Walked(H, children, heap, lists, child, limit) /\ heap[Len(heap)].live
  BY DEF Storage, Place
<1> HIDE DEF N, H
<1>2. D \in Nat /\ D > 0 /\ D \in 1..D /\ Len(child) = D /\ Len(limit) = D
  BY <1>1, WalkedSizes
<1>3. RowOK(N, kind, parent, children, heap, lists, child, limit, D)
  BY <1>1, <1>2, RowFacts
<1>4. /\ Row(heap, lists, D) \in Seq(1..N) /\ limit[D] = Len(Row(heap, lists, D))
      /\ limit[D] \in Nat /\ child[D] \in Nat \ {0} /\ n \in 1..N /\ parent[n] = Above(heap, lists, child, D)
  BY <1>3 DEF RowOK
<1>5. child[D] \in 1..Len(Row(heap, lists, D))
  BY <1>4
<1>6. n = 1 <=> D = 1
  <2>1. parent[n] = 0 <=> n = 1
    BY <1>1, <1>4, ParentsBefore
  <2>2. CASE D = 1
    BY <2>1, <2>2, <1>4 DEF Above
  <2>3. CASE D # 1
    <3>1. D - 1 \in 1..Len(lists) /\ D - 1 \in 1..(Len(lists) - 1)
      BY <2>3, <1>2
    <3>2. child[D - 1] <= limit[D - 1]
      BY <3>1, <1>1 DEF Walked
    <3>3. Stop(heap, lists, child, D - 1) \in 1..N
      BY <3>1, <3>2, <1>1, RowFacts DEF RowOK
    <3>4. Above(heap, lists, child, D) \in 1..N
      BY <2>3, <3>3 DEF Above
    <3>5. parent[n] # 0
      BY <3>4, <1>4
    <3> QED
      BY <2>1, <2>3, <3>5
  <2> QED
    BY <2>2, <2>3
<1>7. heap[lists[D]].live
  <2>1. CASE D = 1
    <3>1. lists[1] = H + 1 /\ Len(heap) = H + 1
      BY <1>1 DEF Walked
    <3> QED
      BY <2>1, <3>1, <1>1
  <2>2. CASE D # 1
    <3>1. PICK l \in 1..(Len(lists) - 1) : D = l + 1 /\ l \in 1..Len(lists)
      BY <2>2, <1>2
    <3> DEFINE p == Stop(heap, lists, child, l)
    <3>2. child[l] <= limit[l] /\ children[p] # 0 /\ lists[D] = children[p]
      BY <3>1, <1>1 DEF Walked
    <3>3. p \in 1..N
      BY <3>1, <3>2, <1>1, RowFacts DEF RowOK
    <3> QED
      BY <3>2, <3>3, <1>1 DEF AllLive
  <2> QED
    BY <2>1, <2>2
<1>8. /\ Top(lists) = lists[D] /\ Top(child) = child[D] /\ Top(limit) = limit[D]
  BY <1>2 DEF Top
<1>9. Elems(Top(lists)) = Row(heap, lists, D) /\ Current = n
  BY <1>8 DEF Elems, Row, Stop, Current
<1>10. Readable(Top(lists), Top(child))
  BY <1>5, <1>7, <1>8, <1>9 DEF Readable
<1> QED
  BY <1>2, <1>3, <1>4, <1>6, <1>8, <1>9, <1>10 DEF Standing, N

SameModel == kind' = kind /\ parent' = parent /\ children' = children
SameHeap == SameModel /\ heap' = heap
\* The memory depends on the model and its arrays alone.
LEMMA StorageKeeps ==
  ASSUME Storage, SameHeap
  PROVE  Storage'
BY DEF Storage, SameHeap, SameModel

\* PRF_TRAV_EXIT at the root frees the array of the root only.
LEMMA AnswerExit ==
  ASSUME Storage, Place, NEW n, Control(n, "EXIT"), SameModel, broken' = FALSE
  PROVE  Storage' /\ at' = "done"
<1> DEFINE N == Len(kind)
           H == Len(heap) - 1
<1>1. at' = "done" /\ heap' = Freed(heap)
  BY DEF Control
<1>1a. ~(Depth0 > 0)
  BY DEF Control
<1>2. /\ Shape(N, H, kind, parent, children, heap) /\ AllLive(N, children, heap)
      /\ Walked(H, children, heap, lists, child, limit)
  BY DEF Storage, Place
<1>3. Len(lists) = 1
  <2> DEFINE D == Len(lists)
  <2>1. D \in Nat /\ D > 0
    BY <1>2, WalkedSizes
  <2>2. ~(D - 1 > 0)
    BY <1>1a DEF Depth0
  <2> HIDE DEF D
  <2>3. D = 1
    BY <2>1, <2>2
  <2> QED
    BY <2>3 DEF D
<1>4. lists[1] = H + 1 /\ Len(heap) = H + 1 /\ lists \in Seq(1..(H + 1)) /\ H \in Nat
  BY <1>2 DEF Walked, Shape
<1>5. DOMAIN lists = 1..1
  BY <1>3, <1>4, LenProperties
<1> HIDE DEF N, H
<1>6. Len(heap') = H + 1 /\ Shape(N, H, kind, parent, children, heap') /\ AllLive(N, children, heap')
  <2>1. heap' = FreedOf(heap, lists)
    BY <1>1 DEF Freed, FreedOf
  <2>2. RootOnly(H, heap, lists)
    BY <1>4, <1>5 DEF RootOnly
  <2> QED
    BY <2>1, <2>2, <1>2, RootIsFreed
<1>7. Len(heap') > 0 /\ Len(heap') - 1 = H
  BY <1>4, <1>6
<1> QED
  BY <1>1, <1>6, <1>7 DEF Storage, SameModel, N

Went == (at' = "visit" /\ Len(lists') = Len(lists) + 1) \/ (at' = "up" /\ Len(lists') = Len(lists))
\* PRF_TRAV_CONTINUE at a node with children goes down to the first of them.
LEMMA AnswerDown ==
  ASSUME Storage, Place, at = "visit", Control(Current, "CONTINUE"), children[Current] # NULL, SameModel
  PROVE  Storage' /\ Place' /\ at' = "visit" /\ Len(lists') = Len(lists) + 1
<1> DEFINE N == Len(kind)
           H == Len(heap) - 1
           D == Len(lists)
           x == Current
           s == heap[children[x]].elems
<1>1. /\ Shape(N, H, kind, parent, children, heap) /\ AllLive(N, children, heap)
      /\ Walked(H, children, heap, lists, child, limit) /\ heap[Len(heap)].live /\ child[D] <= limit[D]
  BY DEF Storage, Place
<1>2. Standing(N, D)
  <2> HIDE DEF D
  <2> QED
    BY <1>1, StopReadable DEF D
<1>3. x \in 1..N /\ x = Stop(heap, lists, child, D)
  BY <1>2 DEF Standing
<1>4. heap[children[x]].live
  BY <1>1, <1>3 DEF AllLive, NULL
<1>5. /\ heap' = heap /\ lists' = Append(lists, children[x]) /\ child' = Append(child, 1)
      /\ limit' = Append(limit, Len(s)) /\ at' = "visit"
  BY <1>4 DEF Control, Elems
<1>6. Storage'
  BY <1>5, StorageKeeps DEF SameHeap
<1>7. Descent(children, heap, lists, child, limit, x, lists', child', limit')
  BY <1>1, <1>3, <1>5 DEF Descent, NULL
<1> HIDE DEF N, H, x, s
<1>8. Walked(H, children, heap, lists', child', limit') /\ Lower(D, s, x, heap, lists, child, lists', child', limit')
  BY <1>1, <1>7, WalkedDown DEF D, s
<1>9. Len(lists') = D + 1 /\ child'[D + 1] = 1 /\ 1 <= limit'[D + 1]
  BY <1>8 DEF Lower
<1>10. Place'
  BY <1>1, <1>5, <1>8, <1>9 DEF Place, H, SameModel, HeaderFirst
<1> QED
  BY <1>5, <1>6, <1>9, <1>10 DEF D

\* Standing at another place of the same list.
LEMMA PlaceMoves ==
  ASSUME Storage, Place, NEW D, D = Len(lists), NEW y \in Nat \ {0}, child' = [child EXCEPT ![Len(child)] = y],
         SameHeap, lists' = lists, limit' = limit, at' = "visit" => y <= limit[D], at' = "up" => y > 1
  PROVE  Storage' /\ Place'
<1> DEFINE H == Len(heap) - 1
<1>1. Walked(H, children, heap, lists, child, limit) /\ heap[Len(heap)].live
  BY DEF Place
<1>2. Storage'
  BY StorageKeeps
<1>3. Len(child) = Len(lists)
  BY <1>1, WalkedSizes
<1>4. child' = [child EXCEPT ![Len(lists)] = y]
  BY <1>3
<1> HIDE DEF H
<1>5. Walked(H, children, heap, lists, child', limit) /\ Moved(lists, y, child, child')
  BY <1>1, <1>4, WalkedMoves
<1>6. child'[D] = y
  BY <1>5 DEF Moved
<1>7. Place'
  BY <1>1, <1>5, <1>6 DEF Place, H, SameHeap, SameModel
<1> QED
  BY <1>2, <1>7

\* The other answers go on to the next node of the list.
LEMMA AnswerNext ==
  ASSUME Storage, Place, at = "visit", SameModel,
         at' = "up", child' = [child EXCEPT ![Len(child)] = @ + 1], UNCHANGED <<heap, lists, limit>>
  PROVE  Storage' /\ Place' /\ Len(lists') = Len(lists)
<1> DEFINE D == Len(lists)
           y == child[D] + 1
<1>1. child[D] <= limit[D] /\ Len(child) = D
  BY WalkedSizes DEF Place
<1>2. Standing(Len(kind), D)
  <2> HIDE DEF D
  <2> QED
    BY <1>1, StopReadable DEF D
<1>3. child[D] \in Nat \ {0}
  BY <1>2 DEF Standing, RowOK
<1>4. y \in Nat \ {0} /\ y > 1
  BY <1>3
<1>5. child' = [child EXCEPT ![Len(child)] = y] /\ SameHeap
  BY <1>1 DEF SameHeap
<1> HIDE DEF D, y
<1>6. Storage' /\ Place'
  BY <1>4, <1>5, PlaceMoves DEF D
<1> QED
  BY <1>6

\* PRF_TRAV_POP between a push and its pop finds the pop in the same list.
LEMMA AnswerPop ==
  ASSUME Storage, Place, at = "visit", SameModel, Control(Current, "POP"), MayPop(Current)
  PROVE  Storage' /\ Place' /\ at' = "visit"
<1> DEFINE N == Len(kind)
           D == Len(lists)
           s == Row(heap, lists, D)
           pops == {x \in DOMAIN s : x > child[D] /\ kind[s[x]] \in {"pop", "xpop"}}
           y == CHOOSE x \in pops : \A z \in pops : x <= z
<1>1. child[D] <= limit[D] /\ Len(child) = D
  BY WalkedSizes DEF Place
<1>2. Standing(N, D)
  <2> HIDE DEF D
  <2> QED
    BY <1>1, StopReadable DEF D
<1>3. /\ s \in Seq(1..N) /\ Paired(kind, s) /\ limit[D] = Len(s) /\ child[D] \in Nat \ {0}
  BY <1>2 DEF Standing, RowOK
<1>4. Elems(Top(lists)) = s /\ Top(child) = child[D]
  BY <1>2 DEF Standing
<1>5. \E x \in 1..child[D] : kind[s[x]] = "push" /\ \A z \in x..child[D] : kind[s[z]] \notin {"pop", "xpop"}
  BY <1>4 DEF MayPop
<1>6. pops # {} /\ y \in Nat \ {0} /\ y <= Len(s)
  <2>1. child[D] <= Len(s)
    BY <1>1, <1>3
  <2> QED
    BY <2>1, <1>3, <1>5, PopIsThere
<1>7. child' = [child EXCEPT ![Len(child)] = y] /\ at' = "visit" /\ UNCHANGED <<heap, lists, limit>>
  BY <1>4, <1>6 DEF Control
<1> HIDE DEF N, y, pops, s, D
<1>8. SameHeap /\ y <= limit[D]
  BY <1>3, <1>6, <1>7 DEF SameHeap
<1>9. Storage' /\ Place'
  BY <1>6, <1>7, <1>8, PlaceMoves DEF D
<1> QED
  BY <1>7, <1>9

\* Whatever the callback answers, the traversal still has its model and its place.
LEMMA ControlKeeps ==
  ASSUME Storage, Place, at = "visit", NEW code \in Codes \cup {"CONTINUE", "SIBLING"},
         Control(Current, code), code = "POP" => MayPop(Current), SameModel, broken' = FALSE
  PROVE  /\ Storage' /\ at' \in {"visit", "up", "done"} /\ (at' # "done" => Place')
         /\ code \in {"CONTINUE", "SIBLING"} => Went
<1>1. CASE code = "EXIT"
  BY <1>1, AnswerExit
<1>2. CASE code = "POP"
  BY <1>2, AnswerPop
<1>3. CASE code = "CONTINUE" /\ children[Current] # NULL
  BY <1>3, AnswerDown DEF Went
<1>4. CASE code \in {"SIBLING", "UP", "TRAVERSE"} \/ (code = "CONTINUE" /\ children[Current] = NULL)
  <2>1. at' = "up" /\ child' = [child EXCEPT ![Len(child)] = @ + 1] /\ UNCHANGED <<heap, lists, limit>>
    BY <1>4 DEF Control
  <2> QED
    BY <2>1, AnswerNext DEF Went
<1> QED
  BY <1>1, <1>2, <1>3, <1>4, TraverseAssumption

\* The calls of prf_model_traverse_io's callbacks, on a model that has been
\* loaded completely.
LEMMA UserKeeps ==
  ASSUME InWalk, NEW code \in Codes, VisitUser(code), broken' = FALSE
  PROVE  InWalk'
<1>1. /\ at = "visit" /\ job = "user" /\ Control(Current, code) /\ (code = "POP" => MayPop(Current))
      /\ SameModel /\ status' = status /\ job' = job
  BY DEF VisitUser, Call, SameModel
<1>2. Storage /\ Place /\ job' \in Jobs /\ job' # "clone"
  BY <1>1 DEF InWalk, WalkInv, Position
<1>3. Storage' /\ at' \in {"visit", "up", "done"} /\ (at' # "done" => Place')
  BY <1>1, <1>2, ControlKeeps
<1> QED
  BY <1>1, <1>2, <1>3 DEF InWalk, WalkInv, Position

LEMMA SaveKeeps ==
  ASSUME InWalk, VisitSave, broken' = FALSE
  PROVE  InWalk'
<1>1. /\ at = "visit" /\ job = "save" /\ Control(Current, save_cb(Current))
      /\ SameModel /\ status' = status /\ job' = job
  BY DEF VisitSave, Call, SameModel
<1>2. Storage /\ Place /\ job' \in Jobs /\ job' # "clone"
  BY <1>1 DEF InWalk, WalkInv, Position
<1>3. save_cb(Current) \in {"CONTINUE", "SIBLING"}
  BY DEF save_cb
<1>4. Storage' /\ at' \in {"visit", "up", "done"} /\ (at' # "done" => Place')
  BY <1>1, <1>2, <1>3, ControlKeeps
<1> QED
  BY <1>1, <1>2, <1>4 DEF InWalk, WalkInv, Position

\* Below the root, or on the way back to it, the walk does not see the root again.
LEMMA HeaderStays ==
  ASSUME HeaderFirst, Place, Went, copy' = copy, Len(lists) > 1 \/ at' = "up"
  PROVE  HeaderFirst'
<1>1. Len(lists) \in Nat /\ Len(lists) > 0
  BY WalkedSizes DEF Place
<1>2. Len(lists) > 1 => ~(Len(lists) + 1 = 1)
  <2> DEFINE D == Len(lists)
  <2>1. D \in Nat
    BY <1>1
  <2> HIDE DEF D
  <2>2. D > 1 => ~(D + 1 = 1)
    BY <2>1
  <2> QED
    BY <2>2 DEF D
<1>3. CASE Len(lists) > 1
  BY <1>2, <1>3 DEF HeaderFirst, Went
<1>4. CASE ~(Len(lists) > 1) /\ at' = "up"
  BY <1>4 DEF HeaderFirst, Went
<1> QED
  BY <1>3, <1>4

LEMMA SkipKeeps ==
  ASSUME InWalk, Skip, broken' = FALSE
  PROVE  InWalk'
<1>1. /\ at = "visit" /\ Control(Current, "SIBLING") /\ SameModel /\ status' = status /\ job' = job /\ copy' = copy
  BY DEF Skip, SameModel
<1>2. Storage /\ Place /\ job' \in Jobs /\ ((job = "clone" /\ Clonable) => HeaderFirst)
  BY <1>1 DEF InWalk, WalkInv, Position
<1>3. Storage' /\ (at' # "done" => Place') /\ Went
  BY <1>1, <1>2, ControlKeeps
<1>4. at' = "up"
  BY <1>1 DEF Control
<1>5. (job' = "clone" /\ Clonable') => HeaderFirst'
  <2>1. Clonable' = Clonable
    BY <1>1 DEF SameModel, Clonable, Nodes
  <2> QED
    BY <2>1, <1>1, <1>2, <1>3, <1>4, HeaderStays
<1> QED
  BY <1>1, <1>2, <1>3, <1>4, <1>5 DEF InWalk, WalkInv, Position

\* What clone_cb does with the clone's header.
LEMMA ClonedHeader ==
  ASSUME DOMAIN copy = CopyFields, NEW n
  PROVE  /\ DOMAIN Cloned(n) = CopyFields
         /\ Cloned(n).header = IF kind[n] = "header" THEN n ELSE copy.header
<1>1. CASE kind[n] = "header"
  BY <1>1 DEF Cloned, CopyFields
<1>2. CASE kind[n] # "header"
  BY <1>2 DEF Cloned, CopyFields
<1> QED
  BY <1>1, <1>2

LEMMA CloneKeeps ==
  ASSUME InWalk, VisitClone, broken' = FALSE
  PROVE  InWalk' \/ (at' = "dead" /\ job' = "clone" /\ ~Clonable')
<1> DEFINE n == Current
           D == Len(lists)
           fine == IF kind[n] = "header" THEN copy.header = NULL /\ Depth0 = 0
                                         ELSE copy.header # NULL
<1>1. /\ at = "visit" /\ job = "clone" /\ clone_cb(n) /\ SameModel /\ status' = status /\ job' = job
  BY DEF VisitClone, SameModel
<1>2. Storage /\ Place /\ job' \in Jobs /\ (Clonable => HeaderFirst) /\ child[D] <= limit[D]
  BY <1>1 DEF InWalk, WalkInv, Position, Place
<1>3. Standing(Len(kind), D)
  <2> HIDE DEF D
  <2> QED
    BY <1>2, StopReadable DEF D
<1>4. Clonable' = Clonable
  BY <1>1 DEF SameModel, Clonable, Nodes
<1>5. ASSUME Clonable
      PROVE  /\ kind[n] = "header" <=> D = 1
             /\ D = 1 => copy.header = 0
             /\ D # 1 => copy.header # 0
  <2>1. n \in Nodes /\ (n = 1 <=> D = 1) /\ D \in Nat /\ D > 0
    BY <1>3 DEF Standing, Nodes
  <2>2. kind[n] = "header" <=> D = 1
    BY <2>1, <1>5 DEF Clonable
  <2>3. D # 1 => D > 1
    BY <2>1
  <2> QED
    BY <2>2, <2>3, <1>1, <1>2, <1>5 DEF HeaderFirst
<1>6. Clonable => fine
  <2>1. D = 1 => Depth0 = 0
    BY DEF Depth0
  <2> QED
    BY <2>1, <1>5 DEF NULL
<1>7. CASE ~fine
  <2>1. at' = "dead"
    BY <1>1, <1>7 DEF clone_cb
  <2> QED
    BY <2>1, <1>1, <1>4, <1>6, <1>7
<1>8. CASE fine
  <2>1. copy' = Cloned(n) /\ Control(n, "CONTINUE")
    BY <1>1, <1>8 DEF clone_cb, Call
  <2>2. Storage' /\ at' \in {"visit", "up", "done"} /\ (at' # "done" => Place') /\ Went
    BY <1>1, <1>2, <2>1, ControlKeeps
  <2>3. ASSUME Clonable PROVE HeaderFirst'
    <3>1. DOMAIN copy = CopyFields
      BY <2>3, <1>2 DEF HeaderFirst
    <3>2. /\ DOMAIN copy' = CopyFields
          /\ copy'.header = IF kind[n] = "header" THEN n ELSE copy.header
      BY <3>1, <2>1, ClonedHeader
    <3>3. copy'.header # 0
      <4>1. n \in 1..Len(kind)
        BY <1>3 DEF Standing
      <4>2. n # 0
        BY <4>1
      <4> QED
        BY <3>2, <4>2, <2>3, <1>5
    <3>4. D \in Nat /\ D > 0
      BY <1>3 DEF Standing
    <3>5. ~(at' = "visit" /\ Len(lists') = 1)
      <4> HIDE DEF D
      <4>1. D + 1 # 1
        BY <3>4
      <4> QED
        BY <4>1, <2>2 DEF Went, D
    <3> QED
      BY <3>2, <3>3, <3>5 DEF HeaderFirst
  <2> QED
    BY <2>2, <2>3, <1>1, <1>2, <1>4 DEF InWalk, WalkInv, Position
<1> QED
  BY <1>7, <1>8

\* Leaving a list that is exhausted.
LEMMA UpKeeps ==
  ASSUME InWalk, Up
  PROVE  InWalk'
<1> DEFINE H == Len(heap) - 1
           D == Len(lists)
           up == Drop(child)
           y == child[D - 1] + 1
<1>1. /\ at = "up" /\ at' = "up" /\ lists' = Drop(lists) /\ limit' = Drop(limit)
      /\ child' = [up EXCEPT ![Len(child) - 1] = @ + 1]
      /\ SameHeap /\ status' = status /\ job' = job /\ copy' = copy /\ Depth0 > 0
  BY DEF Up, vars, SameHeap, SameModel
<1>2. Storage /\ Place /\ job' \in Jobs /\ ((job = "clone" /\ Clonable) => HeaderFirst)
  BY <1>1 DEF InWalk, WalkInv, Position
<1>3. Walked(H, children, heap, lists, child, limit) /\ heap[Len(heap)].live
  BY <1>2 DEF Place
<1>4. D \in Nat /\ Len(child) = D
  BY <1>3, WalkedSizes
<1>5. D - 1 > 0
  BY <1>1 DEF Depth0
<1>6. lists' = Shorter(lists) /\ limit' = Shorter(limit) /\ up = Shorter(child) /\ Len(lists) = D
  BY <1>1 DEF Drop, Shorter
<1>7. child \in Seq(Nat \ {0})
  BY <1>3 DEF Walked
<1> HIDE DEF H, D, up
<1>8. D > 1 /\ D - 1 \in 1..(D - 1) /\ D - 1 \in 1..Len(child)
  BY <1>4, <1>5
<1>9. Walked(H, children, heap, lists', up, limit') /\ Upper(D, lists, child, limit, lists', up, limit')
  BY <1>3, <1>6, <1>8, WalkedUp
<1>10. Len(lists') = D - 1 /\ up[D - 1] = child[D - 1]
  BY <1>8, <1>9 DEF Upper
<1>11. child' = [up EXCEPT ![Len(lists')] = y]
  BY <1>1, <1>4, <1>10
<1>12. child[D - 1] \in Nat \ {0}
  BY <1>7, <1>8, ElementOfSeq
<1>13. y \in Nat \ {0} /\ y > 1
  BY <1>12
<1> HIDE DEF y
<1>14. Walked(H, children, heap, lists', child', limit') /\ Moved(lists', y, up, child')
  BY <1>9, <1>11, <1>13, WalkedMoves
<1>15. child'[Len(lists')] > 1
  BY <1>13, <1>14 DEF Moved
<1>16. Place'
  BY <1>1, <1>3, <1>14, <1>15 DEF Place, H, SameHeap, SameModel
<1>17. Storage'
  BY <1>1, <1>2, StorageKeeps
<1>18. (job' = "clone" /\ Clonable') => HeaderFirst'
  <2>1. Clonable' = Clonable
    BY <1>1 DEF SameHeap, SameModel, Clonable, Nodes
  <2>2. Len(lists) > 1
    BY <1>6, <1>8
  <2> QED
    BY <2>1, <2>2, <1>1, <1>2 DEF HeaderFirst
<1> QED
  BY <1>1, <1>2, <1>16, <1>17, <1>18 DEF InWalk, WalkInv, Position

\* The inner loop ends at a node, or behind the root.
LEMMA UpEndsKeeps ==
  ASSUME InWalk, UpEnds
  PROVE  InWalk'
<1> DEFINE H == Len(heap) - 1
           N == Len(kind)
           D == Len(lists)
<1>1. /\ at = "up" /\ SameModel /\ status' = status /\ job' = job /\ copy' = copy
      /\ lists' = lists /\ child' = child /\ limit' = limit /\ ~(Depth0 > 0 /\ Top(child) > Top(limit))
  BY DEF UpEnds, SameModel
<1>2. Storage /\ Place /\ job' \in Jobs /\ ((job = "clone" /\ Clonable) => HeaderFirst) /\ child[D] > 1
  BY <1>1 DEF InWalk, WalkInv, Position, Place
<1>3. /\ Walked(H, children, heap, lists, child, limit) /\ heap[Len(heap)].live
      /\ Shape(N, H, kind, parent, children, heap) /\ AllLive(N, children, heap) /\ H \in Nat
  BY <1>2 DEF Place, Storage, Shape
<1> HIDE DEF H, N
<1>4. D \in Nat /\ D > 0 /\ D \in 1..D /\ Len(child) = D /\ Len(limit) = D
  BY <1>3, WalkedSizes
<1>5. child[D] \in Nat /\ limit[D] \in Nat /\ RowOK(N, kind, parent, children, heap, lists, child, limit, D)
  BY <1>3, <1>4, RowFacts DEF RowOK
<1>6. Top(child) = child[D] /\ Top(limit) = limit[D]
  BY <1>4 DEF Top
<1>7. Depth0 = D - 1
  BY DEF Depth0
<1>8. D = 1 \/ (D > 1 /\ child[D] <= limit[D])
  <2> HIDE DEF D
  <2> QED
    BY <1>1, <1>4, <1>5, <1>6, <1>7
<1>9. limit[1] = 1 /\ lists[1] = H + 1 /\ Len(heap) = H + 1
  <2>1. /\ lists[1] = H + 1 /\ Len(heap) = H + 1 /\ heap[H + 1].elems = <<1>>
        /\ \A x \in 1..D : limit[x] = Len(Row(heap, lists, x))
    BY <1>3 DEF Walked
  <2>2. limit[1] = Len(<<1>>)
    <3>1. 1 \in 1..D
      BY <1>4
    <3> QED
      BY <2>1, <3>1 DEF Row
  <2> QED
    BY <2>1, <2>2
<1>10. CASE child[1] <= limit[1] /\ at' = "visit" /\ heap' = heap
  <2>1. child[D] <= limit[D]
    BY <1>8, <1>10
  <2>2. D > 1
    BY <1>2, <1>5, <1>8, <1>9, <1>10
  <2>3. Storage'
    BY <1>1, <1>2, <1>10, StorageKeeps DEF SameHeap
  <2>4. Place'
    BY <2>1, <1>1, <1>3, <1>10 DEF Place, H, SameModel
  <2>5. (job' = "clone" /\ Clonable') => HeaderFirst'
    <3>1. Clonable' = Clonable
      BY <1>1 DEF SameModel, Clonable, Nodes
    <3>2. ~(D = 1)
      BY <2>2, <1>4
    <3> QED
      BY <3>1, <3>2, <2>2, <1>1, <1>2 DEF HeaderFirst
  <2> QED
    BY <2>3, <2>4, <2>5, <1>1, <1>2, <1>10 DEF InWalk, WalkInv, Position
<1>11. CASE child[1] > limit[1] /\ at' = "done" /\ heap' = Freed(heap)
  <2>1. D = 1
    <3> SUFFICES ASSUME D > 1 PROVE FALSE
      BY <1>8
    <3>1. 1 \in 1..(Len(lists) - 1)
      <4>1. 1 \in 1..(D - 1)
        <5> HIDE DEF D
        <5> QED
          BY <1>4
      <4> QED
        BY <4>1
    <3>2. child[1] <= limit[1]
      BY <3>1, <1>3 DEF Walked
    <3>3. child[1] \in Nat
      <4>1. child \in Seq(Nat \ {0}) /\ 1 \in 1..Len(child)
        BY <1>3, <1>4 DEF Walked
      <4>2. child[1] \in Nat \ {0}
        BY <4>1, ElementOfSeq
      <4> QED
        BY <4>2
    <3> QED
      BY <3>2, <3>3, <1>9, <1>11
  <2>2. lists \in Seq(1..(H + 1)) /\ Len(lists) = 1
    BY <2>1, <1>3 DEF Walked
  <2>3. RootOnly(H, heap, lists)
    BY <2>2, <1>9, LenProperties DEF RootOnly
  <2>4. heap' = FreedOf(heap, lists)
    BY <1>11 DEF Freed, FreedOf
  <2>5. Len(heap') = H + 1 /\ Shape(N, H, kind, parent, children, heap') /\ AllLive(N, children, heap')
    BY <2>3, <2>4, <1>3, RootIsFreed
  <2>6. Len(heap') > 0 /\ Len(heap') - 1 = H
    BY <2>5, <1>3
  <2>7. Storage'
    BY <2>5, <2>6, <1>1 DEF Storage, SameModel, N
  <2> QED
    BY <2>7, <1>1, <1>2, <1>11 DEF InWalk, WalkInv
<1> QED
  BY <1>10, <1>11 DEF UpEnds

\* The call returns, and the model is as it was.
LEMMA ReturnsToRest ==
  ASSUME Storage, SameModel, heap' = SubSeq(heap, 1, Len(heap) - 1)
  PROVE  AtRest'
<1> DEFINE H == Len(heap) - 1
           N == Len(kind)
<1>1. Shape(N, H, kind, parent, children, heap) /\ AllLive(N, children, heap) /\ heap' = SubSeq(heap, 1, H)
  BY DEF Storage
<1>2. heap \in Seq(ArrayOf(N))
  BY <1>1 DEF Shape
<1>3. Len(heap) = H + 1
  <2> DEFINE L == Len(heap)
  <2>1. L \in Nat
    BY <1>2, LenProperties
  <2> HIDE DEF L
  <2>2. L = (L - 1) + 1
    BY <2>1
  <2> QED
    BY <2>2 DEF L
<1> HIDE DEF H, N
<1>4. Shape(N, Len(heap'), kind, parent, children, heap') /\ AllLive(N, children, heap')
  BY <1>1, <1>3, RootIsDropped
<1> QED
  BY <1>4 DEF AtRest, SameModel, N

\* A traversal gets the array of the root.
LEMMA Begins ==
  ASSUME AtRest, SameModel, heap' = Append(heap, RootArray)
  PROVE  Made(Len(kind'), Len(heap), kind', parent', children', heap') /\ Storage'
<1> DEFINE H == Len(heap)
           N == Len(kind)
<1>1. Shape(N, H, kind, parent, children, heap) /\ AllLive(N, children, heap)
  BY DEF AtRest
<1>2. Len(heap) = H
  OBVIOUS
<1> HIDE DEF H, N
<1>3. Made(N, H, kind, parent, children, heap')
  BY <1>1, <1>2, RootIsMade
<1>4. Len(heap') > 0 /\ Len(heap') - 1 = H /\ Shape(N, H, kind, parent, children, heap') /\ AllLive(N, children, heap')
  BY <1>3 DEF Made
<1> QED
  BY <1>3, <1>4 DEF Storage, SameModel, H, N

LEMMA StartKeeps ==
  ASSUME AtRest, status = "loaded", NEW x \in Jobs, prf_model_traverse_io(x)
  PROVE  InWalk'
<1> DEFINE H == Len(heap)
<1>1. /\ at' = "visit" /\ job' = x /\ heap' = Append(heap, RootArray) /\ SameModel /\ status' = status
      /\ lists' = <<H + 1>> /\ child' = <<1>> /\ limit' = <<1>>
      /\ copy' = [NoCopy EXCEPT !.parent = [n \in Nodes |-> NULL], !.kids = [n \in Nodes |-> <<>>]]
  BY DEF prf_model_traverse_io, SameModel, RootArray
<1>2. Made(Len(kind'), H, kind', parent', children', heap') /\ Storage'
  BY <1>1, Begins
<1> HIDE DEF H
<1>3. Walked(H, children', heap', lists', child', limit')
  BY <1>1, <1>2, WalkBegins
<1>4. /\ Len(lists') = 1 /\ child'[1] = 1 /\ limit'[1] = 1
  BY <1>1
<1>5. Len(heap') - 1 = H /\ heap'[Len(heap')].live
  BY <1>2 DEF Made, RootArray
<1>6. Place'
  BY <1>1, <1>3, <1>4, <1>5 DEF Place
<1>7. HeaderFirst'
  <2>1. DOMAIN copy' = CopyFields /\ copy'.header = 0
    BY <1>1 DEF CopyFields, NoCopy, NULL
  <2> QED
    BY <2>1, <1>4 DEF HeaderFirst
<1> QED
  BY <1>1, <1>2, <1>6, <1>7 DEF InWalk, WalkInv, Position

-----------------------------------------------------------------------------
(* The clones of a breadth-first traversal *)

LEMMA ClonesFrom ==
  ASSUME NEW b, NEW n1, NEW n2, NEW ss1, NEW ss2, NEW cl, InUseAfter(b, n1, n2, ss1, ss2, cl)
  PROVE  ClonesOK(n1, n2, ss1, ss2, cl)
<1> DEFINE L == Len(cl)
<1>1. b \in Nat /\ n1 \in Nat /\ n2 \in Nat /\ L = b + n1 + n2
  BY DEF InUseAfter
<1> HIDE DEF L
<1>2. L - (n1 + n2) = b
  BY <1>1
<1> QED
  BY <1>2 DEF ClonesOK, L

\* A clone is taken for the children of a node.
LEMMA ClonesGrow ==
  ASSUME NEW b, NEW n1, NEW n2, NEW ss1, NEW ss2, NEW cl, InUseAfter(b, n1, n2, ss1, ss2, cl),
         NEW e, IsClone(e), e.live = TRUE, NEW cl2, cl2 = Append(cl, e), NEW ss3, ss3 = Append(ss2, Len(cl) + 1)
  PROVE  InUseAfter(b, n1, n2 + 1, ss1, ss3, cl2)
<1>1. /\ b \in Nat /\ n1 \in Nat /\ n2 \in Nat
      /\ ss1 \in Seq(Nat) /\ Len(ss1) = n1 /\ Numbered(ss1, b)
      /\ ss2 \in Seq(Nat) /\ Len(ss2) = n2 /\ Numbered(ss2, b + n1)
      /\ IsSequence(cl) /\ Len(cl) = b + n1 + n2
      /\ \A c \in 1..Len(cl) : IsClone(cl[c]) /\ cl[c].live = (c > b)
  BY DEF InUseAfter
<1>2. /\ IsSequence(cl2) /\ Len(cl2) = Len(cl) + 1 /\ cl2[Len(cl) + 1] = e /\ \A x \in 1..Len(cl) : cl2[x] = cl[x]
  BY <1>1, AppendAny
<1>3. Len(cl) + 1 \in Nat
  BY <1>1
<1>4. /\ ss3 \in Seq(Nat) /\ Len(ss3) = n2 + 1 /\ ss3[n2 + 1] = Len(cl) + 1 /\ \A x \in 1..n2 : ss3[x] = ss2[x]
  BY <1>1, <1>3, AppendProperties
<1>5. \A x \in 1..(n2 + 1) : x \in 1..n2 \/ x = n2 + 1
  BY <1>1
<1>6. Numbered(ss3, b + n1)
  <2>1. \A x \in 1..n2 : ss2[x] = (b + n1) + x
    BY <1>1 DEF Numbered
  <2>2. Len(cl) + 1 = (b + n1) + (n2 + 1)
    BY <1>1
  <2> QED
    BY <2>1, <2>2, <1>4, <1>5 DEF Numbered
<1>7. \A c \in 1..Len(cl2) : IsClone(cl2[c]) /\ cl2[c].live = (c > b)
  <2> DEFINE L == Len(cl)
  <2>1. L \in Nat /\ L >= b
    BY <1>1
  <2> HIDE DEF L
  <2>2. \A c \in 1..(L + 1) : c \in 1..L \/ c = L + 1
    BY <2>1
  <2>3. L + 1 > b
    BY <2>1, <1>1
  <2>4. IsClone(cl2[L + 1]) /\ cl2[L + 1].live = (L + 1 > b)
    BY <2>3, <1>2 DEF L
  <2>5. \A c \in 1..L : IsClone(cl2[c]) /\ cl2[c].live = (c > b)
    BY <1>1, <1>2 DEF L
  <2>6. Len(cl2) = L + 1
    BY <1>2 DEF L
  <2> QED
    BY <2>2, <2>4, <2>5, <2>6
<1>8. n2 + 1 \in Nat /\ Len(cl2) = b + n1 + (n2 + 1)
  BY <1>1, <1>2
<1> QED
  BY <1>1, <1>2, <1>4, <1>6, <1>7, <1>8 DEF InUseAfter

\* Destroying the clones of a list of numbers that follow one another.
DestroyedOf(cl, ss) ==
  [c \in DOMAIN cl |-> IF Contains(ss, c) THEN [cl[c] EXCEPT !.live = FALSE] ELSE cl[c]]
Following(b, n, L, ss, cl) ==
  /\ b \in Nat /\ n \in Nat /\ L \in Nat /\ b + n <= L
  /\ ss \in Seq(Nat) /\ Len(ss) = n /\ Numbered(ss, b)
  /\ IsSequence(cl) /\ Len(cl) = L
  /\ \A c \in 1..L : IsClone(cl[c]) /\ cl[c].live = (c > b)
LEMMA ClonesDestroyed ==
  ASSUME NEW b, NEW n, NEW L, NEW ss, NEW cl, NEW cl2, Following(b, n, L, ss, cl), cl2 = DestroyedOf(cl, ss)
  PROVE  /\ IsSequence(cl2) /\ Len(cl2) = L
         /\ \A c \in 1..L : IsClone(cl2[c]) /\ cl2[c].live = (c > b + n)
<1>1. /\ b \in Nat /\ n \in Nat /\ L \in Nat /\ b + n <= L
      /\ ss \in Seq(Nat) /\ Len(ss) = n /\ (\A x \in 1..n : ss[x] = b + x)
      /\ IsSequence(cl) /\ Len(cl) = L
      /\ \A c \in 1..L : IsClone(cl[c]) /\ cl[c].live = (c > b)
  BY DEF Following, Numbered
<1>2. DOMAIN cl = 1..L /\ DOMAIN ss = 1..n
  BY <1>1, LenProperties DEF IsSequence
<1>3. \A c \in 1..L : Contains(ss, c) <=> (c > b /\ c <= b + n)
  <2> SUFFICES ASSUME NEW c \in 1..L PROVE Contains(ss, c) <=> (c > b /\ c <= b + n)
    OBVIOUS
  <2>1. Contains(ss, c) <=> \E x \in 1..n : b + x = c
    BY <1>1, <1>2 DEF Contains
  <2>2. (\E x \in 1..n : b + x = c) => (c > b /\ c <= b + n)
    BY <1>1
  <2>3. (c > b /\ c <= b + n) => (c - b \in 1..n /\ b + (c - b) = c)
    BY <1>1
  <2> QED
    BY <2>1, <2>2, <2>3
<1>4. cl2 = [c \in 1..L |-> IF Contains(ss, c) THEN [cl[c] EXCEPT !.live = FALSE] ELSE cl[c]]
  BY <1>2 DEF DestroyedOf
<1>5. \A c \in 1..L : cl2[c] = IF Contains(ss, c) THEN [cl[c] EXCEPT !.live = FALSE] ELSE cl[c]
  BY <1>4
<1>6. ASSUME NEW c \in 1..L PROVE IsClone(cl2[c]) /\ cl2[c].live = (c > b + n)
  <2>1. CASE Contains(ss, c)
    <3>1. cl2[c] = [cl[c] EXCEPT !.live = FALSE] /\ DOMAIN cl[c] = {"state", "live"}
      BY <2>1, <1>1, <1>5 DEF IsClone
    <3>2. DOMAIN cl2[c] = {"state", "live"} /\ cl2[c].live = FALSE
      BY <3>1
    <3>3. ~(c > b + n)
      BY <2>1, <1>1, <1>3
    <3>4. IsClone(cl2[c])
      BY <3>2 DEF IsClone
    <3>5. (c > b + n) = FALSE
      BY <3>3, <1>1
    <3>6. cl2[c].live = (c > b + n)
      BY <3>2, <3>5
    <3> QED
      BY <3>4, <3>6
  <2>2. CASE ~Contains(ss, c)
    <3>1. cl2[c] = cl[c]
      BY <2>2, <1>5
    <3>2. (c > b) <=> (c > b + n)
      BY <2>2, <1>1, <1>3
    <3> QED
      BY <3>1, <3>2, <1>1
  <2> QED
    BY <2>1, <2>2
<1>7. IsSequence(cl2) /\ Len(cl2) = L
  <2> DEFINE S == {cl2[c] : c \in 1..L}
  <2>1. cl2 = [c \in 1..L |-> cl2[c]] /\ DOMAIN cl2 = 1..L
    BY <1>4
  <2>2. \A c \in 1..L : cl2[c] \in S
    OBVIOUS
  <2> HIDE DEF S
  <2>3. [c \in 1..L |-> cl2[c]] \in Seq(S)
    BY <2>2, <1>1, IsASeq
  <2>4. cl2 \in Seq(S)
    BY <2>1, <2>3
  <2>5. Len(cl2) = L
    BY <2>1, <2>4, <1>1, LenProperties
  <2> QED
    BY <2>4, <2>5, SequenceOfAny
<1> QED
  BY <1>6, <1>7

\* None of them is destroyed twice.
TwiceOf(cl, ss) ==
  \/ \E c \in DOMAIN ss : ss[c] # NULL /\ ~cl[ss[c]].live
  \/ \E c, d \in DOMAIN ss : c # d /\ ss[c] = ss[d] /\ ss[c] # NULL
LEMMA NoneTwice ==
  ASSUME NEW b, NEW n, NEW L, NEW ss, NEW cl, Following(b, n, L, ss, cl)
  PROVE  ~TwiceOf(cl, ss)
<1>1. /\ b \in Nat /\ n \in Nat /\ L \in Nat /\ b + n <= L
      /\ ss \in Seq(Nat) /\ Len(ss) = n /\ (\A x \in 1..n : ss[x] = b + x)
      /\ \A c \in 1..L : cl[c].live = (c > b)
  BY DEF Following, Numbered
<1>2. DOMAIN ss = 1..n
  BY <1>1, LenProperties
<1>3. \A x \in 1..n : b + x \in 1..L /\ b + x > b
  BY <1>1
<1>4. \A x \in 1..n : cl[ss[x]].live = TRUE
  <2> SUFFICES ASSUME NEW x \in 1..n PROVE cl[b + x].live = TRUE
    BY <1>1
  <2>1. cl[b + x].live = (b + x > b)
    BY <1>1, <1>3
  <2> QED
    BY <2>1, <1>3
<1>5. \A c, d \in 1..n : c # d => ss[c] # ss[d]
  <2>1. \A c, d \in 1..n : c # d => b + c # b + d
    BY <1>1
  <2> QED
    BY <2>1, <1>1
<1> QED
  BY <1>2, <1>4, <1>5 DEF TwiceOf

-----------------------------------------------------------------------------
(* The steps of a breadth-first traversal *)

\* The arrays of the two levels and their clones.
Queues(hp, l1, l2, ss1, ss2, cl) ==
  /\ l1 \in Seq(LiveArrays(hp)) /\ l2 \in Seq(LiveArrays(hp))
  /\ ClonesOK(Len(l1), Len(l2), ss1, ss2, cl)
Base == Len(clones) - (Len(this_level) + Len(next_level))
LEMMA QueueFacts ==
  ASSUME InLevels, at # "returned"
  PROVE  /\ Storage /\ job = "breadth"
         /\ Queues(heap, this_level, next_level, this_level_states, next_level_states, clones)
         /\ InUseAfter(Base, Len(this_level), Len(next_level), this_level_states, next_level_states, clones)
BY DEF InLevels, LevelInv, Queues, ClonesOK, Base

SameJob == SameHeap /\ status' = status /\ job' = job
\* The invariant of the next state, from its parts.
LEMMA LevelsGoOn ==
  ASSUME InLevels, SameJob, at' \in {"list", "node", "end"},
         Queues(heap, this_level', next_level', this_level_states', next_level_states', clones'),
         at' = "list" => i' \in 1..(Len(this_level') + 1),
         at' = "node" => i' \in 1..Len(this_level') /\ j' \in Nat \ {0}
  PROVE  InLevels'
<1>1. Storage /\ status = "loaded" /\ job = "breadth"
  BY DEF InLevels, LevelInv
<1>2. Storage'
  BY <1>1, StorageKeeps DEF SameJob
<1> QED
  BY <1>1, <1>2 DEF InLevels, LevelInv, Queues, SameJob, SameHeap

LEMMA StartBreadth ==
  ASSUME AtRest, status = "loaded", prf_model_traverse_bf
  PROVE  InLevels'
<1> DEFINE H == Len(heap)
           c == Clone(NewState)
<1>1. /\ at' = "list" /\ job' = "breadth" /\ heap' = Append(heap, RootArray) /\ SameModel /\ status' = status
      /\ this_level' = <<H + 1>> /\ this_level_states' = <<1>> /\ clones' = <<c>>
      /\ next_level' = <<>> /\ next_level_states' = <<>> /\ i' = 1
  BY DEF prf_model_traverse_bf, model, SameModel, RootArray
<1>2. Made(Len(kind'), H, kind', parent', children', heap') /\ Storage'
  BY <1>1, Begins
<1>3. H \in Nat /\ Len(heap') = H + 1 /\ heap'[H + 1].live = TRUE
  BY <1>2 DEF Made, RootArray
<1>4. IsClone(c) /\ c.live = TRUE
  BY DEF IsClone, Clone
<1> HIDE DEF H, c
<1>5. this_level' \in Seq(LiveArrays(heap')) /\ next_level' \in Seq(LiveArrays(heap')) /\ Len(this_level') = 1 /\ Len(next_level') = 0
  <2>1. H + 1 \in LiveArrays(heap')
    BY <1>3 DEF LiveArrays
  <2> QED
    BY <2>1, <1>1
<1>6. InUseAfter(0, 1, 0, this_level_states', next_level_states', clones')
  <2>1. /\ <<1>> \in Seq(Nat) /\ Len(<<1>>) = 1 /\ <<1>>[1] = 1 /\ <<>> \in Seq(Nat) /\ Len(<<>>) = 0
    OBVIOUS
  <2>2. <<c>> \in Seq({c}) /\ Len(<<c>>) = 1 /\ <<c>>[1] = c
    OBVIOUS
  <2>3. (\A x \in 1..1 : x = 1) /\ (\A x \in 1..0 : FALSE)
    OBVIOUS
  <2>4. Numbered(<<1>>, 0) /\ Numbered(<<>>, 0 + 1)
    BY <2>1, <2>3 DEF Numbered
  <2>5. IsSequence(<<c>>)
    BY <2>2, SequenceOfAny
  <2>6. \A x \in 1..1 : IsClone(<<c>>[x]) /\ <<c>>[x].live = (x > 0)
    <3>1. (1 > 0) = TRUE
      OBVIOUS
    <3> QED
      BY <3>1, <2>2, <2>3, <1>4
  <2>7. 0 \in Nat /\ 1 \in Nat /\ 1 = 0 + 1 + 0
    OBVIOUS
  <2> QED
    BY <2>1, <2>2, <2>4, <2>5, <2>6, <2>7, <1>1 DEF InUseAfter
<1>7. ClonesOK(1, 0, this_level_states', next_level_states', clones')
  BY <1>6, ClonesFrom
<1>8. i' \in 1..(Len(this_level') + 1)
  BY <1>1, <1>5
<1> QED
  BY <1>1, <1>2, <1>5, <1>7, <1>8 DEF InLevels, LevelInv

\* The clone of an array of this level has not been destroyed.
LEMMA NextListKeeps ==
  ASSUME InLevels, NextList
  PROVE  InLevels'
<1> DEFINE c == clones[this_level_states[i]]
           n1 == Len(this_level)
           n2 == Len(next_level)
<1>1. /\ at = "list" /\ i <= n1 /\ SameJob /\ i' = i
      /\ this_level' = this_level /\ next_level' = next_level
      /\ this_level_states' = this_level_states /\ next_level_states' = next_level_states /\ clones' = clones
  BY DEF NextList, model, SameJob, SameHeap, SameModel
<1>2. /\ Queues(heap, this_level, next_level, this_level_states, next_level_states, clones)
      /\ InUseAfter(Base, n1, n2, this_level_states, next_level_states, clones)
  BY <1>1, QueueFacts
<1>3. i \in 1..(n1 + 1)
  BY <1>1 DEF InLevels, LevelInv
<1> HIDE DEF n1, n2
<1>4. /\ Base \in Nat /\ n1 \in Nat /\ n2 \in Nat /\ Len(clones) = Base + n1 + n2
      /\ Len(this_level_states) = n1 /\ Numbered(this_level_states, Base)
      /\ \A x \in 1..Len(clones) : clones[x].live = (x > Base)
  BY <1>2 DEF InUseAfter
<1>5. i \in 1..n1
  BY <1>1, <1>3, <1>4
<1>6. this_level_states[i] = Base + i
  BY <1>4, <1>5 DEF Numbered
<1>7. Base + i \in 1..(Base + n1 + n2) /\ (Base + i > Base) = TRUE
  <2> DEFINE b == Base
  <2>1. b \in Nat
    BY <1>4
  <2> HIDE DEF b
  <2>2. b + i \in 1..(b + n1 + n2) /\ (b + i > b) = TRUE
    BY <2>1, <1>4, <1>5
  <2> QED
    BY <2>2 DEF b
<1>8. c.live = TRUE
  <2>1. clones[Base + i].live = (Base + i > Base)
    BY <1>4, <1>7
  <2> QED
    BY <2>1, <1>6, <1>7
<1>9. at' = "node" /\ j' = 1
  BY <1>8 DEF NextList
<1> QED
  BY <1>1, <1>2, <1>5, <1>9, LevelsGoOn DEF n1

\* The array has not been freed,
LEMMA ArrayIsLive ==
  ASSUME InLevels, at = "node"
  PROVE  /\ heap[Array].live /\ Elems(Array) \in Seq(1..Len(kind))
         /\ \A n \in 1..Len(kind) : children[n] # NULL => children[n] \in LiveArrays(heap)
<1> DEFINE N == Len(kind)
           H == Len(heap) - 1
<1>1. Storage /\ this_level \in Seq(LiveArrays(heap)) /\ i \in 1..Len(this_level)
  BY DEF InLevels, LevelInv
<1>2. Shape(N, H, kind, parent, children, heap) /\ AllLive(N, children, heap)
  BY <1>1 DEF Storage
<1>3. heap \in Seq(ArrayOf(N)) /\ children \in [1..N -> 0..H] /\ H \in Nat /\ H <= Len(heap)
  BY <1>2 DEF Shape
<1>4. this_level[i] \in LiveArrays(heap)
  BY <1>1, ElementOfSeq
<1>5. this_level[i] \in 1..Len(heap) /\ heap[this_level[i]].live
  BY <1>4 DEF LiveArrays
<1>6. heap[this_level[i]] \in ArrayOf(N)
  BY <1>3, <1>5, ElementOfSeq
<1>7. \A n \in 1..N : children[n] # 0 => children[n] \in LiveArrays(heap)
  <2> SUFFICES ASSUME NEW n \in 1..N, children[n] # 0 PROVE children[n] \in LiveArrays(heap)
    OBVIOUS
  <2>1. heap[children[n]].live
    BY <1>2 DEF AllLive
  <2>2. Len(heap) \in Nat
    BY <1>3, LenProperties
  <2>3. children[n] \in 0..H
    BY <1>3
  <2>4. children[n] \in 1..Len(heap)
    <3> DEFINE L == Len(heap)
               y == children[n]
    <3>1. L \in Nat /\ H <= L /\ H \in Nat /\ y \in 0..H /\ y # 0
      BY <2>2, <2>3, <1>3
    <3> HIDE DEF L, y, H
    <3>2. y \in 1..L
      BY <3>1
    <3> QED
      BY <3>2 DEF L, y
  <2> QED
    BY <2>1, <2>4 DEF LiveArrays
<1> QED
  BY <1>5, <1>6, <1>7 DEF Array, Elems, ArrayOf, NULL

LEMMA VisitKeeps ==
  ASSUME InLevels, NEW code, VisitBreadth(code)
  PROVE  InLevels'
<1> DEFINE n == Elems(Array)[j]
           during == entry_f(kind[n], n, state)
           n1 == Len(this_level)
           n2 == Len(next_level)
<1>1. /\ at = "node" /\ SameJob /\ i' = i /\ this_level' = this_level /\ this_level_states' = this_level_states
      /\ j <= Len(Elems(Array))
  BY DEF VisitBreadth, model, SameJob, SameHeap, SameModel
<1>2. /\ Queues(heap, this_level, next_level, this_level_states, next_level_states, clones)
      /\ InUseAfter(Base, n1, n2, this_level_states, next_level_states, clones)
  BY <1>1, QueueFacts
<1>3. i \in 1..n1 /\ j \in Nat \ {0}
  BY <1>1 DEF InLevels, LevelInv
<1>4. /\ at' = "end" \/ (at' = "node" /\ j' = j + 1)
      /\ \/ Descend(n, during) /\ children[n] # NULL
         \/ UNCHANGED <<next_level, next_level_states, clones>>
  BY <1>1 DEF VisitBreadth
<1>5. n \in 1..Len(kind)
  <2>1. Elems(Array) \in Seq(1..Len(kind))
    BY <1>1, ArrayIsLive
  <2>2. Len(Elems(Array)) \in Nat
    BY <2>1, LenProperties
  <2>3. j \in 1..Len(Elems(Array))
    BY <2>2, <1>1, <1>3
  <2> QED
    BY <2>1, <2>3, ElementOfSeq
<1> HIDE DEF n, during, n1, n2
<1>6. Queues(heap, this_level', next_level', this_level_states', next_level_states', clones')
  <2>1. CASE UNCHANGED <<next_level, next_level_states, clones>>
    BY <2>1, <1>1, <1>2
  <2>2. CASE Descend(n, during) /\ children[n] # NULL
    <3> DEFINE e == Clone(Pushed(during))
    <3>1. /\ next_level' = Append(next_level, children[n])
          /\ next_level_states' = Append(next_level_states, Len(clones) + 1)
          /\ clones' = Append(clones, e)
      BY <2>2 DEF Descend
    <3>2. children[n] \in LiveArrays(heap)
      BY <2>2, <1>1, <1>5, ArrayIsLive
    <3>3. this_level \in Seq(LiveArrays(heap)) /\ next_level \in Seq(LiveArrays(heap))
      BY <1>2 DEF Queues
    <3>4. next_level' \in Seq(LiveArrays(heap)) /\ Len(next_level') = n2 + 1
      BY <3>1, <3>2, <3>3, AppendProperties DEF n2
    <3>5. IsClone(e) /\ e.live = TRUE
      BY DEF IsClone, Clone
    <3> HIDE DEF e
    <3>6. InUseAfter(Base, n1, n2 + 1, this_level_states, next_level_states', clones')
      BY <3>1, <3>5, <1>2, ClonesGrow
    <3>7. ClonesOK(n1, n2 + 1, this_level_states, next_level_states', clones')
      BY <3>6, ClonesFrom
    <3> QED
      BY <3>3, <3>4, <3>7, <1>1 DEF Queues, n1
  <2> QED
    BY <2>1, <2>2, <1>4
<1>7. j + 1 \in Nat \ {0}
  BY <1>3
<1> QED
  BY <1>1, <1>3, <1>4, <1>6, <1>7, LevelsGoOn DEF n1

LEMMA ListEndsKeeps ==
  ASSUME InLevels, ListEnds
  PROVE  InLevels'
<1>1. /\ at = "node" /\ at' = "list" /\ SameJob /\ i' = i + 1
      /\ this_level' = this_level /\ next_level' = next_level
      /\ this_level_states' = this_level_states /\ next_level_states' = next_level_states /\ clones' = clones
  BY DEF ListEnds, model, SameJob, SameHeap, SameModel
<1>2. Queues(heap, this_level, next_level, this_level_states, next_level_states, clones)
  BY <1>1, QueueFacts
<1>3. i' \in 1..(Len(this_level') + 1)
  <2> DEFINE n1 == Len(this_level)
  <2>1. i \in 1..n1 /\ n1 \in Nat
    BY <1>1, <1>2, LenProperties DEF InLevels, LevelInv, Queues
  <2> HIDE DEF n1
  <2>2. i + 1 \in 1..(n1 + 1)
    BY <2>1
  <2> QED
    BY <2>2, <1>1 DEF n1
<1> QED
  BY <1>1, <1>2, <1>3, LevelsGoOn

\* The arrays rotate: the clones of this level are destroyed, those of the next remain.
LEMMA RotateKeeps ==
  ASSUME InLevels, Rotate
  PROVE  InLevels'
<1> DEFINE n1 == Len(this_level)
           n2 == Len(next_level)
           b == Base
           L == Len(clones)
<1>1. at = "list" /\ SameJob
  BY DEF Rotate, model, SameJob, SameHeap, SameModel
<1>2. /\ Queues(heap, this_level, next_level, this_level_states, next_level_states, clones)
      /\ InUseAfter(b, n1, n2, this_level_states, next_level_states, clones)
  BY <1>1, QueueFacts
<1> HIDE DEF n1, n2, b
<1>3. /\ b \in Nat /\ n1 \in Nat /\ n2 \in Nat
      /\ this_level_states \in Seq(Nat) /\ Len(this_level_states) = n1 /\ Numbered(this_level_states, b)
      /\ next_level_states \in Seq(Nat) /\ Len(next_level_states) = n2 /\ Numbered(next_level_states, b + n1)
      /\ IsSequence(clones) /\ L = b + n1 + n2
      /\ \A c \in 1..L : IsClone(clones[c]) /\ clones[c].live = (c > b)
  BY <1>2 DEF InUseAfter
<1> HIDE DEF L
<1>4. L \in Nat /\ b + n1 <= L
  BY <1>3
<1>5. Following(b, n1, L, this_level_states, clones)
  BY <1>3, <1>4 DEF Following, L
<1>6. ~DestroyedTwice(this_level_states)
  <2>1. ~TwiceOf(clones, this_level_states)
    BY <1>5, NoneTwice
  <2> QED
    BY <2>1 DEF TwiceOf, DestroyedTwice
<1>7. /\ clones' = DestroyedOf(clones, this_level_states)
      /\ this_level' = next_level /\ this_level_states' = next_level_states
      /\ next_level' = <<>> /\ next_level_states' = <<>>
      /\ i' = 1 /\ at' \in {"list", "end"}
  BY <1>6 DEF Rotate, Destroyed, DestroyedOf
<1>8. /\ IsSequence(clones') /\ Len(clones') = L
      /\ \A c \in 1..L : IsClone(clones'[c]) /\ clones'[c].live = (c > b + n1)
  BY <1>5, <1>7, ClonesDestroyed
<1>9. InUseAfter(b + n1, n2, 0, next_level_states, <<>>, clones')
  <2>1. <<>> \in Seq(Nat) /\ Len(<<>>) = 0 /\ \A x \in 1..0 : FALSE
    OBVIOUS
  <2>2. Numbered(<<>>, (b + n1) + n2)
    BY <2>1 DEF Numbered
  <2>3. b + n1 \in Nat /\ Len(clones') = (b + n1) + n2 + 0 /\ 0 \in Nat
    BY <1>3, <1>8
  <2> QED
    BY <2>1, <2>2, <2>3, <1>3, <1>8 DEF InUseAfter
<1>10. ClonesOK(n2, 0, next_level_states, <<>>, clones')
  BY <1>9, ClonesFrom
<1>11. Queues(heap, this_level', next_level', this_level_states', next_level_states', clones')
  <2>1. <<>> \in Seq(LiveArrays(heap)) /\ Len(<<>>) = 0
    OBVIOUS
  <2> QED
    BY <2>1, <1>2, <1>7, <1>10 DEF Queues, n2
<1>12. i' \in 1..(Len(this_level') + 1)
  <2>1. 1 \in 1..(n2 + 1)
    BY <1>3
  <2> QED
    BY <2>1, <1>7 DEF n2
<1> QED
  BY <1>1, <1>7, <1>11, <1>12, LevelsGoOn

\* At the end the clones of both levels are destroyed.
LEMMA EndKeeps ==
  ASSUME InLevels, EndBreadth
  PROVE  InLevels'
<1> DEFINE n1 == Len(this_level)
           n2 == Len(next_level)
           b == Base
           L == Len(clones)
           left == this_level_states \o next_level_states
<1>1. at = "end" /\ SameJob
  BY DEF EndBreadth, model, SameJob, SameHeap, SameModel
<1>2. InUseAfter(b, n1, n2, this_level_states, next_level_states, clones) /\ Storage /\ job = "breadth"
  BY <1>1, QueueFacts
<1> HIDE DEF n1, n2, b
<1>3. /\ b \in Nat /\ n1 \in Nat /\ n2 \in Nat
      /\ this_level_states \in Seq(Nat) /\ Len(this_level_states) = n1 /\ Numbered(this_level_states, b)
      /\ next_level_states \in Seq(Nat) /\ Len(next_level_states) = n2 /\ Numbered(next_level_states, b + n1)
      /\ IsSequence(clones) /\ L = b + n1 + n2
      /\ \A c \in 1..L : IsClone(clones[c]) /\ clones[c].live = (c > b)
  BY <1>2 DEF InUseAfter
<1> HIDE DEF L
<1>4. /\ left \in Seq(Nat) /\ Len(left) = n1 + n2
      /\ \A x \in 1..(n1 + n2) : left[x] = IF x <= n1 THEN this_level_states[x] ELSE next_level_states[x - n1]
  BY <1>3, ConcatProperties
<1> HIDE DEF left
<1>5. Numbered(left, b)
  <2> SUFFICES ASSUME NEW x \in 1..(n1 + n2) PROVE left[x] = b + x
    BY <1>4 DEF Numbered
  <2>1. CASE x <= n1
    <3>1. x \in 1..n1
      BY <2>1, <1>3
    <3>2. this_level_states[x] = b + x
      BY <3>1, <1>3 DEF Numbered
    <3> QED
      BY <2>1, <3>2, <1>4
  <2>2. CASE ~(x <= n1)
    <3>1. x - n1 \in 1..n2 /\ (b + n1) + (x - n1) = b + x
      BY <2>2, <1>3
    <3>2. next_level_states[x - n1] = (b + n1) + (x - n1)
      BY <3>1, <1>3 DEF Numbered
    <3> QED
      BY <2>2, <3>1, <3>2, <1>4
  <2> QED
    BY <2>1, <2>2
<1>6. Following(b, n1 + n2, L, left, clones)
  <2>1. n1 + n2 \in Nat /\ L \in Nat /\ b + (n1 + n2) <= L
    BY <1>3
  <2> QED
    BY <2>1, <1>3, <1>4, <1>5 DEF Following, L
<1>7. ~DestroyedTwice(left)
  <2>1. ~TwiceOf(clones, left)
    BY <1>6, NoneTwice
  <2> QED
    BY <2>1 DEF TwiceOf, DestroyedTwice
<1>8. clones' = DestroyedOf(clones, left) /\ at' = "returned"
  <2>1. clones' = Destroyed(left) /\ at' = "returned"
    BY <1>7 DEF EndBreadth, left
  <2> QED
    BY <2>1 DEF Destroyed, DestroyedOf
<1>9. /\ IsSequence(clones') /\ Len(clones') = L
      /\ \A c \in 1..L : clones'[c].live = (c > b + (n1 + n2))
  BY <1>6, <1>8, ClonesDestroyed
<1>10. \A c \in 1..L : (c > b + (n1 + n2)) = FALSE
  BY <1>3
<1>11. \A c \in 1..Len(clones') : clones'[c].live = FALSE
  BY <1>9, <1>10
<1>12. Storage'
  BY <1>1, <1>2, StorageKeeps DEF SameJob
<1> QED
  BY <1>1, <1>2, <1>8, <1>9, <1>11, <1>12 DEF InLevels, LevelInv, SameJob

-----------------------------------------------------------------------------
(* The invariant, and what it shows *)

\* The invariant holds before the first record is read,
LEMMA BInitOK == BInit => TInv
<1> SUFFICES ASSUME BInit PROVE TInv
  OBVIOUS
<1>1. Init /\ at = "idle" /\ broken = FALSE /\ status = "loading"
  BY DEF BInit, TInit, Init
<1> QED
  BY <1>1, InitOK, MoreInit DEF TInv, WholeInv

\* is kept while the model is loaded,
LEMMA LoadStep ==
  ASSUME TInv, Load
  PROVE  TInv'
<1>1. LoadRecord /\ at' = at /\ broken' = broken
  BY DEF Load, walk
<1>2. status = "loading"
  BY <1>1 DEF LoadRecord, LoadPrimary, LoadPop, LoadDies, LoadPush, LoadAncillary, LoadFails, EndOfFile, TrailingGarbage, Record
<1>3. IInv /\ MoreInv /\ at = "idle" /\ broken \in BOOLEAN
  BY <1>2 DEF TInv
<1>4. IInv' /\ MoreInv'
  <2>1. [Next]_vars
    BY <1>1 DEF Next
  <2> QED
    BY <2>1, <1>3, NextOK, NextMore
<1>5. ASSUME level' = 0, status' = "loaded" PROVE AtRest'
  <2>1. Complete'
    BY <1>5 DEF Complete
  <2>2. (Shape(Len(kind), Len(heap), kind, parent, children, heap) /\ Allocated(Len(kind), Len(heap), children, heap))'
    BY <2>1, <1>4 DEF MoreInv
  <2>3. \A p \in 1..Len(kind') : children'[p] # 0 => children'[p] \in 1..Len(heap')
    BY SMTT(30), <2>2 DEF Shape
  <2>4. AllLive(Len(kind'), children', heap')
    BY <2>2, <2>3 DEF Allocated, AllLive
  <2> QED
    BY <2>2, <2>4 DEF AtRest
<1> QED
  BY <1>1, <1>3, <1>4, <1>5 DEF TInv, WholeInv, Whole

\* and by every step of a traversal in order,
LEMMA TraverseStep ==
  ASSUME TInv, Traverse
  PROVE  TInv'
<1>1. /\ at \in {"visit", "up", "done"} /\ level' = level /\ status' = status
      /\ broken' \in BOOLEAN /\ (broken' = FALSE => broken = FALSE)
  <2>0. broken \in BOOLEAN
    BY DEF TInv
  <2>1. ASSUME NEW n, NEW code, Control(n, code) PROVE broken' \in BOOLEAN /\ (broken' = FALSE => broken = FALSE)
    BY <2>0, <2>1 DEF Control
  <2>2. ASSUME NEW code \in Codes, VisitUser(code)
        PROVE  at = "visit" /\ level' = level /\ status' = status /\ Control(Current, code)
    BY <2>2 DEF VisitUser, Call
  <2>3. CASE VisitSave
    <3>1. at = "visit" /\ level' = level /\ status' = status /\ Control(Current, save_cb(Current))
      BY <2>3 DEF VisitSave, Call
    <3> QED
      BY <3>1, <2>1
  <2>4. CASE VisitClone
    <3>1. at = "visit" /\ level' = level /\ status' = status /\ (broken' = broken \/ Control(Current, "CONTINUE"))
      BY <2>4 DEF VisitClone, clone_cb, Call
    <3> QED
      BY <3>1, <2>0, <2>1
  <2>5. CASE Skip
    <3>1. at = "visit" /\ level' = level /\ status' = status /\ Control(Current, "SIBLING")
      BY <2>5 DEF Skip
    <3> QED
      BY <3>1, <2>1
  <2>6. CASE Up
    BY <2>0, <2>6 DEF Up, vars
  <2>7. CASE UpEnds
    BY <2>0, <2>7 DEF UpEnds
  <2>8. CASE Done
    BY <2>0, <2>8 DEF Done
  <2> QED
    BY <2>1, <2>2, <2>3, <2>4, <2>5, <2>6, <2>7, <2>8 DEF Traverse
<1>2. ASSUME Whole' PROVE WholeInv'
  <2>1. broken' = FALSE /\ Whole
    BY <1>1, <1>2 DEF Whole
  <2>2. InWalk
    BY <2>1, <1>1 DEF TInv, WholeInv, InLevels
  <2>3. ASSUME Done PROVE WholeInv'
    <3>1. Storage /\ SameModel /\ heap' = SubSeq(heap, 1, Len(heap) - 1) /\ at' = "idle"
      BY <2>2, <2>3 DEF Done, InWalk, WalkInv, SameModel
    <3> QED
      BY <3>1, ReturnsToRest DEF WholeInv
  <2> QED
    BY <2>1, <2>2, <2>3, UserKeeps, SaveKeeps, CloneKeeps, SkipKeeps, UpKeeps, UpEndsKeeps DEF Traverse, WholeInv
<1>3. status' # "loading"
  BY <1>1 DEF TInv
<1> QED
  BY <1>1, <1>2, <1>3 DEF TInv

\* and of one by levels.
LEMMA BreadthStep ==
  ASSUME TInv, Breadth
  PROVE  TInv'
<1>1. at \in {"list", "node", "end", "returned"} /\ level' = level /\ status' = status /\ broken' = broken
  <2>1. ASSUME NEW code, VisitBreadth(code)
        PROVE  at = "node" /\ level' = level /\ status' = status /\ broken' = broken
    BY <2>1 DEF VisitBreadth, model
  <2>2. CASE NextList
    BY <2>2 DEF NextList, model
  <2>3. CASE ListEnds
    BY <2>3 DEF ListEnds, model
  <2>4. CASE ListGone
    BY <2>4 DEF ListGone, model
  <2>5. CASE Rotate
    BY <2>5 DEF Rotate, model
  <2>6. CASE EndBreadth
    BY <2>6 DEF EndBreadth, model
  <2>7. CASE ReturnBreadth
    BY <2>7 DEF ReturnBreadth, model
  <2> QED
    BY <2>1, <2>2, <2>3, <2>4, <2>5, <2>6, <2>7 DEF Breadth
<1>2. ASSUME Whole' PROVE WholeInv'
  <2>1. Whole
    BY <1>1, <1>2 DEF Whole
  <2>2. InLevels
    BY <2>1, <1>1 DEF TInv, WholeInv, InWalk
  <2>3. ~ListGone
    <3> SUFFICES ASSUME ListGone PROVE FALSE
      OBVIOUS
    <3>1. at = "node" /\ ~heap[Array].live
      BY DEF ListGone
    <3> QED
      BY <3>1, <2>2, ArrayIsLive
  <2>4. ASSUME ReturnBreadth PROVE WholeInv'
    <3>1. Storage /\ SameModel /\ heap' = SubSeq(heap, 1, Len(heap) - 1) /\ at' = "idle"
      BY <2>2, <2>4 DEF ReturnBreadth, model, InLevels, LevelInv, SameModel
    <3> QED
      BY <3>1, ReturnsToRest DEF WholeInv
  <2> QED
    BY <2>2, <2>3, <2>4, NextListKeeps, VisitKeeps, ListEndsKeeps, RotateKeeps, EndKeeps DEF Breadth, WholeInv
<1>3. status' # "loading"
  BY <1>1 DEF TInv
<1> QED
  BY <1>1, <1>2, <1>3 DEF TInv

LEMMA BNextOK == TInv /\ [BNext]_allvars => TInv'
<1> SUFFICES ASSUME TInv, [BNext]_allvars PROVE TInv'
  OBVIOUS
<1>1. CASE Load
  BY <1>1, LoadStep
<1>2. ASSUME NEW n \in Nodes, NEW f \in {"deleted", "virtual"}, FlagNode(n, f) PROVE TInv'
  <2>1. /\ status = "loaded" /\ at = "idle" /\ status' = status /\ at' = at /\ broken' = broken /\ level' = level
        /\ kind' = kind /\ parent' = parent /\ children' = children /\ heap' = heap
    BY <1>2 DEF FlagNode, vars, walk
  <2>2. level = 0 /\ broken = FALSE => AtRest
    BY <2>1 DEF TInv, WholeInv, Whole, InWalk, InLevels
  <2>3. AtRest' = AtRest
    BY <2>1 DEF AtRest
  <2> QED
    BY <2>1, <2>2, <2>3 DEF TInv, WholeInv, Whole
<1>3. ASSUME NEW x \in Jobs, prf_model_traverse_io(x) PROVE TInv'
  <2>1. status = "loaded" /\ at = "idle" /\ status' = status /\ broken' = broken /\ level' = level
    BY <1>3 DEF prf_model_traverse_io
  <2>2. Whole => AtRest
    BY <2>1 DEF TInv, WholeInv, InWalk, InLevels
  <2>3. Whole' => InWalk'
    BY <2>1, <2>2, <1>3, StartKeeps DEF Whole
  <2> QED
    BY <2>1, <2>3 DEF TInv, WholeInv
<1>4. CASE Traverse
  BY <1>4, TraverseStep
<1>5. CASE prf_model_traverse_bf
  <2>1. status = "loaded" /\ at = "idle" /\ status' = status /\ broken' = broken /\ level' = level
    BY <1>5 DEF prf_model_traverse_bf, model
  <2>2. Whole => AtRest
    BY <2>1 DEF TInv, WholeInv, InWalk, InLevels
  <2>3. Whole' => InLevels'
    BY <2>1, <2>2, <1>5, StartBreadth DEF Whole
  <2> QED
    BY <2>1, <2>3 DEF TInv, WholeInv
<1>6. CASE Breadth
  BY <1>6, BreadthStep
<1>7. CASE UNCHANGED allvars
  <2>1. UNCHANGED <<kind, parent, children, heap, stack, level, status, job, at, lists, child, limit, copy, broken,
                    this_level, next_level, this_level_states, next_level_states, clones, i, j>>
    BY <1>7 DEF allvars, tvars, vars, walk, bvars
  <2>2. IInv' = IInv /\ MoreInv' = MoreInv
    BY <2>1 DEF IInv, MoreInv, KindsOK, Complete
  <2>3. AtRest' = AtRest /\ Storage' = Storage
    BY <2>1 DEF AtRest, Storage
  <2>4. InWalk' = InWalk
    BY <2>1, <2>3 DEF InWalk, WalkInv, Position, Place, HeaderFirst, Clonable, Nodes
  <2>5. InLevels' = InLevels
    BY <2>1, <2>3 DEF InLevels, LevelInv
  <2> QED
    BY <2>1, <2>2, <2>3, <2>4, <2>5 DEF TInv, WholeInv, Whole, Clonable, Nodes
<1> QED
  BY <1>1, <1>2, <1>3, <1>4, <1>5, <1>6, <1>7 DEF BNext, TNext

\* A traversal of a completely loaded model, by an application, for saving or
\* for cloning, reads only allocated lists and only their elements, however
\* traversals, flags and answers follow each other.
THEOREM TraversalIsSafe == BSpec => []NoBadAccess
<1>1. TInv => NoBadAccess
  <2> SUFFICES ASSUME TInv, Whole, job \in Jobs
               PROVE  /\ at = "visit" => Readable(Top(lists), Top(child))
                      /\ at = "dead" => (job = "clone" /\ ~Clonable)
    BY DEF NoBadAccess
  <2>1. WholeInv
    BY DEF TInv
  <2>2. ASSUME at = "visit" PROVE Readable(Top(lists), Top(child))
    <3>1. Storage /\ Place /\ child[Len(lists)] <= limit[Len(lists)]
      BY <2>1, <2>2 DEF WholeInv, InWalk, InLevels, WalkInv, Position, Place
    <3>2. Standing(Len(kind), Len(lists))
      BY <3>1, StopReadable
    <3> QED
      BY <3>2 DEF Standing
  <2>3. at = "dead" => (job = "clone" /\ ~Clonable)
    BY <2>1 DEF WholeInv, InWalk, InLevels
  <2> QED
    BY <2>2, <2>3
<1> QED
  BY <1>1, BInitOK, BNextOK, PTL DEF BSpec

\* A breadth-first traversal reads no freed array and no destroyed clone, destroys
\* no clone twice, and has destroyed all of them when it returns.
THEOREM BreadthIsClean == BSpec => []BreadthReleases
<1>1. TInv => BreadthReleases
  <2> SUFFICES ASSUME TInv, Whole, job = "breadth"
               PROVE  /\ at # "dead"
                      /\ at = "returned" =>
                           /\ \A c \in DOMAIN clones : ~clones[c].live
                           /\ \A n \in Nodes : children[n] # NULL => heap[children[n]].live
    BY DEF BreadthReleases
  <2>1. WholeInv
    BY DEF TInv
  <2>2. at # "dead"
    BY <2>1 DEF WholeInv, InWalk, InLevels
  <2>3. ASSUME at = "returned"
        PROVE  /\ \A c \in DOMAIN clones : ~clones[c].live
               /\ \A n \in Nodes : children[n] # NULL => heap[children[n]].live
    <3>1. IsSequence(clones) /\ (\A c \in 1..Len(clones) : clones[c].live = FALSE) /\ AllLive(Len(kind), children, heap)
      BY <2>1, <2>3 DEF WholeInv, InWalk, InLevels, LevelInv, Storage
    <3>2. DOMAIN clones = 1..Len(clones)
      BY <3>1, LenProperties DEF IsSequence
    <3> QED
      BY <3>1, <3>2 DEF AllLive, Nodes, NULL
  <2> QED
    BY <2>2, <2>3
<1> QED
  BY <1>1, BInitOK, BNextOK, PTL DEF BSpec

\* No traversal harms the model, whatever it was for and however its callback ended
\* it, as long as none was left with PRF_TRAV_EXIT below the root.
THEOREM ModelOutlivesTraversals == BSpec => [](~broken => ExitLeavesModel)
<1>1. TInv => (~broken => ExitLeavesModel)
  <2> SUFFICES ASSUME TInv, ~broken, Complete, at = "idle", NEW n \in Nodes, children[n] # NULL
               PROVE  heap[children[n]].live
    BY DEF ExitLeavesModel
  <2>1. AtRest
    BY DEF TInv, Whole, WholeInv, Complete, InWalk, InLevels
  <2> QED
    BY <2>1 DEF AtRest, AllLive, Nodes, NULL
<1> QED
  BY <1>1, BInitOK, BNextOK, PTL DEF BSpec

-----------------------------------------------------------------------------
(* The order of the calls *)

\* Subtrees do not cross: what is read between a node and its parent belongs
\* below that parent.
NoCross(N, par) == \A n, m \in 1..N : (par[n] # 0 /\ par[n] < m /\ m < n) => par[n] <= par[m]

\* What an in-order traversal has still before it, on level l of its path: the rest
\* of the list and, on the deepest level, the node it stands at.
Ahead(D, ch, l, p) == p > ch[l] \/ (l = D /\ p = ch[l])
\* The nodes before all of it are decided.
Passed(hp, ls, ch, n) ==
  \A l \in 1..Len(ls) : \A p \in 1..Len(Row(hp, ls, l)) : Ahead(Len(ls), ch, l, p) => n < Row(hp, ls, l)[p]

AllCodes == {"EXIT", "CONTINUE", "SIBLING", "POP", "UP", "TRAVERSE"}
CallSet(N) == [node : 1..N, code : AllCodes]
InOrder(cs) == \A a, b \in 1..Len(cs) : a < b => cs[a].node < cs[b].node
Listed(N, cs) == cs \in Seq(CallSet(N)) /\ InOrder(cs)
\* Every node's answer, see Answer.
AnswerIn(cs, n) ==
  IF \E a \in DOMAIN cs : cs[a].node = n THEN cs[CHOOSE a \in DOMAIN cs : cs[a].node = n].code ELSE "none"
Given(N, cs) == [n \in 1..N |-> AnswerIn(cs, n)]

\* What a node needs to be called, given the answers ans and the flags fl.
Skipped(N, k, par, ans, n) ==
  /\ k[n] \notin Pops
  /\ \E m \in 1..N :
       /\ par[m] = par[n] /\ m < n /\ ans[m] = "POP"
       /\ \A q \in 1..N : (par[q] = par[n] /\ m < q /\ q < n) => k[q] \notin Pops
ToCall(N, k, par, fl, ans, n) ==
  fl[n] # "deleted" /\ ~Skipped(N, k, par, ans, n) /\ (n # 1 => ans[par[n]] = "CONTINUE")
Right(N, k, par, fl, ans, n) == ans[n] # "none" <=> ToCall(N, k, par, fl, ans, n)
\* The path was entered by answers CONTINUE.
PathAnswers(ans, hp, ls, ch) == \A l \in 1..(Len(ls) - 1) : ans[Stop(hp, ls, ch, l)] = "CONTINUE"
\* Where a node of the path's lists answered POP, the traversal has reached a pop behind it.
PopsReached(k, ans, hp, ls, ch) ==
  \A l \in 1..Len(ls) : \A m \in Members(Row(hp, ls, l)) :
    ans[m] = "POP" =>
      \E p \in 1..Len(Row(hp, ls, l)) : p <= ch[l] /\ m < Row(hp, ls, l)[p] /\ k[Row(hp, ls, l)[p]] \in Pops
\* The calls so far, and the answers to them, on the way.
OnTheWay(N, k, par, fl, ans, hp, ls, ch) ==
  /\ \A n \in 1..N : Passed(hp, ls, ch, n) => Right(N, k, par, fl, ans, n)
  /\ PathAnswers(ans, hp, ls, ch) /\ PopsReached(k, ans, hp, ls, ch)
CallInv ==
  /\ Listed(Len(kind), calls) /\ \A a \in 1..Len(calls) : Passed(heap, lists, child, calls[a].node)
  /\ OnTheWay(Len(kind), kind, parent, flag, Given(Len(kind), calls), heap, lists, child)
AllRight ==
  /\ Listed(Len(kind), calls)
  /\ \A n \in 1..Len(kind) : Right(Len(kind), kind, parent, flag, Given(Len(kind), calls), n)
OrderInv ==
  /\ Complete => NoCross(Len(kind), parent)
  /\ (Whole /\ InWalk /\ at # "done") => CallInv
  /\ (Whole /\ InWalk /\ at = "done" /\ ~Exited) => AllRight

\* What a node adds to the level before it for its depth, and takes from its depth
\* for the level after it.
Begin(x) == IF x \in {"push", "anc"} THEN 1 ELSE 0
End(x) == IF x \in Enders THEN 1 ELSE 0
\* The depth of a record between the levels before and after it.
LEMMA LevelSteps ==
  ASSUME NEW S, NEW k \in Seq(S), NEW n \in 1..Len(k)
  PROVE  /\ Lev(k, n - 1) \in Int /\ Lev(k, n) \in Int
         /\ Depths(k)[n] = Lev(k, n - 1) + Begin(k[n]) /\ Lev(k, n) = Depths(k)[n] - End(k[n])
<1> DEFINE N == Len(k)
           k2 == SubSeq(k, 1, n - 1)
           x == k[n]
           kk == Append(k2, x)
<1>1. N \in Nat
  BY LenProperties
<1>2. n \in 1..N /\ n - 1 \in 0..N /\ n - 1 \in Nat /\ n \in Nat /\ n - 1 <= N
  BY <1>1
<1>3. x \in S
  BY <1>2, ElementOfSeq
<1>4. k2 \in Seq(S) /\ Len(k2) = n - 1 /\ \A m \in 1..(n - 1) : k2[m] = k[m]
  <2>1. \A m \in 1..(n - 1) : m \in 1..N
    BY <1>1, <1>2
  <2>2. \A m \in 1..(n - 1) : k[m] \in S
    BY <2>1, ElementOfSeq
  <2>3. k2 = [m \in 1..(n - 1) |-> k[m]]
    BY <1>2, SubSeqProperties
  <2>4. k2 \in Seq(S)
    BY <2>2, <2>3, <1>2, IsASeq
  <2>5. DOMAIN k2 = 1..(n - 1)
    BY <2>3
  <2>6. Len(k2) = n - 1
    BY <2>4, <2>5, <1>2, LenProperties
  <2> QED
    BY <2>3, <2>4, <2>6
<1>5. /\ kk \in Seq(S) /\ \A m \in 1..(n - 1) : kk[m] = k[m]
      /\ kk[n] = x
  <2> HIDE DEF k2
  <2> QED
    BY <1>3, <1>4, AppendProperties
<1> HIDE DEF k2, x, kk
<1>6. ASSUME NEW T
      PROVE  /\ Count(k, n - 1, T) \in Nat
             /\ Count(k, n, T) = Count(k, n - 1, T) + (IF x \in T THEN 1 ELSE 0)
  <2>1. /\ Count(k2, n - 1, T) \in Nat
        /\ Count(Append(k2, x), Len(k2) + 1, T) = Count(k2, Len(k2), T) + (IF x \in T THEN 1 ELSE 0)
    <3>1. n - 1 \in 0..Len(k2)
      BY <1>2, <1>4
    <3> QED
      BY <3>1, <1>3, <1>4, CountNext
  <2>2. Count(kk, n, T) = Count(k2, n - 1, T) + (IF x \in T THEN 1 ELSE 0)
    BY <2>1, <1>2, <1>4 DEF kk
  <2>3. Count(k2, n - 1, T) = Count(k, n - 1, T)
    BY <1>4 DEF Count
  <2>4. Count(kk, n, T) = Count(k, n, T)
    <3>1. \A m \in 1..n : m = n \/ m \in 1..(n - 1)
      BY <1>2
    <3>2. \A m \in 1..n : kk[m] = k[m]
      BY <3>1, <1>5 DEF x
    <3> QED
      BY <3>2 DEF Count
  <2> QED
    BY <2>1, <2>2, <2>3, <2>4
<1> DEFINE a == Count(k, n - 1, {"push"})
           b == Count(k, n - 1, {"pop", "xpop"})
<1>7. /\ a \in Nat /\ b \in Nat
      /\ Count(k, n, {"push"}) = a + (IF x \in {"push"} THEN 1 ELSE 0)
      /\ Count(k, n, {"pop", "xpop"}) = b + (IF x \in {"pop", "xpop"} THEN 1 ELSE 0)
  BY <1>6
<1>8. Depths(k)[n] = Lev(k, n - 1) + Begin(x)
  BY <1>2 DEF Depths, DepthIn, N, x, Begin
<1>9. Lev(k, n - 1) = a - b
  BY DEF Lev
<1>10. Lev(k, n) = (a + (IF x \in {"push"} THEN 1 ELSE 0)) - (b + (IF x \in {"pop", "xpop"} THEN 1 ELSE 0))
  BY <1>7 DEF Lev
<1> HIDE DEF a, b
<1>11. Lev(k, n) = (Lev(k, n - 1) + Begin(x)) - End(x) /\ Begin(x) \in 0..1 /\ End(x) \in 0..1
  BY <1>7, <1>9, <1>10 DEF Begin, End, Enders
<1>12. Lev(k, n - 1) \in Int /\ Lev(k, n) \in Int
  BY <1>7, <1>9, <1>10
<1>13. Lev(k, n) = Depths(k)[n] - End(x)
  BY <1>8, <1>11
<1> QED
  BY <1>8, <1>12, <1>13 DEF x

\* A record is at most one level deeper than the one before it.
LEMMA DepthStep ==
  ASSUME NEW S, NEW k \in Seq(S), NEW n \in 1..(Len(k) - 1)
  PROVE  Depths(k)[n] \in Int /\ Depths(k)[n + 1] \in Int /\ Depths(k)[n + 1] <= Depths(k)[n] + 1
<1>1. Len(k) \in Nat
  BY LenProperties
<1>2. n \in 1..Len(k) /\ n + 1 \in 1..Len(k) /\ (n + 1) - 1 = n
  BY <1>1
<1>3. Lev(k, n - 1) \in Int /\ Depths(k)[n] = Lev(k, n - 1) + Begin(k[n]) /\ Lev(k, n) = Depths(k)[n] - End(k[n])
  BY <1>2, LevelSteps
<1>4. Lev(k, n) \in Int /\ Depths(k)[n + 1] = Lev(k, n) + Begin(k[n + 1])
  BY <1>2, LevelSteps
<1> QED
  BY <1>3, <1>4 DEF Begin, End

\* What is read between a node and its parent is deeper than the parent.
LEMMA DeeperBetween ==
  ASSUME NEW N \in Nat, NEW d, NEW n \in 1..N, NEW p \in 1..N,
         \A m \in 1..(N - 1) : d[m] \in Int /\ d[m + 1] \in Int /\ d[m + 1] <= d[m] + 1,
         p < n, d[p] = d[n] - 1, \A m \in (p + 1)..(n - 1) : d[m] # d[n] - 1
  PROVE  \A m \in (p + 1)..(n - 1) : d[p] < d[m]
<1> DEFINE Bad == {m \in (p + 1)..(n - 1) : ~(d[p] < d[m])}
           Far == {n - m : m \in Bad}
<1>1. SUFFICES ASSUME Bad # {} PROVE FALSE
  OBVIOUS
<1>2. Far \subseteq Nat /\ Far # {}
  BY <1>1
<1>3. PICK f \in Far : \A g \in Far : f <= g
  <2> HIDE DEF Far
  <2> QED
    BY <1>2, LeastExists
<1>4. PICK m \in Bad : f = n - m
  BY <1>3
<1>5. m \in (p + 1)..(n - 1) /\ ~(d[p] < d[m]) /\ m \in 1..(N - 1)
  BY <1>4
<1>6. d[m] \in Int /\ d[m + 1] \in Int /\ d[m + 1] <= d[m] + 1 /\ p \in 1..(N - 1)
  BY <1>5
<1>7. d[p] \in Int /\ d[p] = d[n] - 1
  BY <1>6
<1>8. d[m] # d[p]
  BY <1>5, <1>7
<1>9. CASE m + 1 = n
  <2>1. d[n] <= d[m] + 1 /\ d[n] \in Int
    BY <1>6, <1>9
  <2> QED
    BY <2>1, <1>5, <1>6, <1>7, <1>8
<1>10. CASE m + 1 # n
  <2>1. m + 1 \in (p + 1)..(n - 1)
    BY SMTT(30), <1>5, <1>10
  <2>2. d[p] < d[m + 1]
    <3> SUFFICES ASSUME ~(d[p] < d[m + 1]) PROVE FALSE
      OBVIOUS
    <3>1. m + 1 \in Bad
      BY <2>1
    <3>2. n - (m + 1) \in Far
      BY <3>1
    <3>3. f <= n - (m + 1)
      BY <3>2, <1>3
    <3> QED
      BY <3>3, <1>4, <1>5
  <2> QED
    BY <2>2, <1>5, <1>6, <1>7, <1>8
<1> QED
  BY <1>9, <1>10

\* The parent of a node is one level above it, and everything between is deeper.
LEMMA ParentDepth ==
  ASSUME NEW S, NEW k \in Seq(S), NEW H, NEW par, NEW chi, NEW hp, Finished(Depths(k), par, chi, hp),
         Shape(Len(k), H, k, par, chi, hp), NEW n \in 1..Len(k), par[n] # 0
  PROVE  /\ par[n] \in 1..Len(k) /\ par[n] < n /\ Depths(k)[par[n]] = Depths(k)[n] - 1
         /\ \A m \in (par[n] + 1)..(n - 1) : Depths(k)[par[n]] < Depths(k)[m]
<1> DEFINE N == Len(k)
           d == Depths(k)
           p == par[n]
<1>1. N \in Nat /\ Len(d) = N
  <2>1. N \in Nat
    BY LenProperties
  <2>2. d = [m \in 1..N |-> DepthIn(k, m)]
    BY DEF Depths
  <2> QED
    BY <2>1, <2>2
<1>2. \A m \in 1..(N - 1) : d[m] \in Int /\ d[m + 1] \in Int /\ d[m + 1] <= d[m] + 1
  BY DepthStep
<1>3. p \in Nat /\ p < n /\ (p = 0 <=> n = 1)
  BY ParentsBefore
<1>4. n \in 1..N
  OBVIOUS
<1> HIDE DEF N, d, p
<1>5. n \in 2..N /\ p \in 1..N
  <2>1. p # 0
    BY DEF p
  <2>2. n # 1
    BY <2>1, <1>3
  <2> QED
    BY <2>1, <2>2, <1>1, <1>3, <1>4
<1>6. chi[p] # 0 /\ n \in Members(hp[chi[p]].elems)
  BY <1>5 DEF Shape, N, p
<1>7. ClosedOK(d, p, par, chi, hp)
  BY <1>1, <1>5 DEF Finished, d
<1>8. n \in Kids(d, p)
  BY <1>6, <1>7 DEF ClosedOK
<1>9. d[p] = d[n] - 1 /\ \A m \in (p + 1)..(n - 1) : d[m] # d[n] - 1
  BY <1>8 DEF Kids
<1>10. \A m \in (p + 1)..(n - 1) : d[p] < d[m]
  <2>1. N \in Nat /\ n \in 1..N /\ p \in 1..N /\ p < n
    BY <1>1, <1>3, <1>4, <1>5
  <2> QED
    BY ONLY <1>2, <1>9, <2>1, DeeperBetween, ZenonT(30)
<1>11. \A m \in (par[n] + 1)..(n - 1) : Depths(k)[par[n]] < Depths(k)[m]
  BY ONLY <1>10, Zenon DEF d, p
<1>12. par[n] \in 1..Len(k) /\ par[n] < n /\ Depths(k)[par[n]] = Depths(k)[n] - 1
  BY ONLY <1>3, <1>5, <1>9, Zenon DEF N, d, p
<1> QED
  BY ONLY <1>11, <1>12, Zenon

\* Subtrees of a loaded model do not cross.
LEMMA TreeIsNested == IInv /\ MoreInv /\ Complete => NoCross(Len(kind), parent)
<1> SUFFICES ASSUME IInv, MoreInv, Complete PROVE NoCross(Len(kind), parent)
  OBVIOUS
<1> DEFINE N == Len(kind)
           d == Depths(kind)
<1>1. kind \in Seq(Kinds \cup Roots) /\ Finished(d, parent, children, heap)
  BY DEF IInv, KindsOK
<1>2. Shape(N, Len(heap), kind, parent, children, heap)
  BY DEF MoreInv
<1>3. N \in Nat /\ Len(d) = N
  <2>1. N \in Nat
    BY <1>1, LenProperties
  <2>2. d = [m \in 1..N |-> DepthIn(kind, m)]
    BY DEF Depths
  <2> QED
    BY <2>1, <2>2
<1>4. \A m \in 1..(N - 1) : d[m] \in Int /\ d[m + 1] \in Int /\ d[m + 1] <= d[m] + 1
  BY <1>1, DepthStep
<1> HIDE DEF N, d
<1>5. ASSUME NEW n \in 1..N, parent[n] # 0
      PROVE  /\ parent[n] \in 1..N /\ parent[n] < n /\ d[parent[n]] = d[n] - 1
             /\ \A m \in (parent[n] + 1)..(n - 1) : d[parent[n]] < d[m]
  BY <1>1, <1>2, <1>5, ParentDepth DEF d, N
<1>6. ASSUME NEW n \in 1..N, NEW m \in 1..N, parent[n] # 0, parent[n] < m, m < n
      PROVE  parent[n] <= parent[m]
  <2> DEFINE p == parent[n]
             q == parent[m]
  <2>1. p \in 1..N /\ p < m /\ m < n /\ \A x \in (p + 1)..(n - 1) : d[p] < d[x]
    BY <1>5, <1>6
  <2>2. m \in (p + 1)..(n - 1) /\ m # 1
    BY <2>1, <1>3
  <2>3. d[p] < d[m]
    BY <2>1, <2>2
  <2>4. q # 0
    BY <2>2, <1>2, ParentsBefore
  <2>5. q \in 1..N /\ q < m /\ d[q] = d[m] - 1 /\ \A x \in (q + 1)..(m - 1) : d[q] < d[x]
    BY <2>4, <1>5
  <2> HIDE DEF p, q
  <2>6. SUFFICES ASSUME q < p PROVE FALSE
    BY <2>1, <2>5 DEF p, q
  <2>7. p \in (q + 1)..(m - 1)
    BY <2>1, <2>5, <2>6, <1>3
  <2>8. d[q] < d[p]
    BY <2>5, <2>7
  <2>9. d[p] \in Int /\ d[m] \in Int
    <3>1. p \in 1..(N - 1) /\ m \in 1..(N - 1)
      BY <2>1, <1>3
    <3> QED
      BY <3>1, <1>4
  <2> QED
    BY <2>3, <2>5, <2>8, <2>9
<1>7. NoCross(N, parent)
  BY <1>6 DEF NoCross
<1> QED
  BY <1>7 DEF N

\* A number below x has a place on the path: between a node of it and its parent.
LEMMA PlaceOnPath ==
  ASSUME NEW N, NEW par, NEW hp, NEW ls, NEW ch, NEW D, NEW x, PathTo(N, par, hp, ls, ch, D, x),
         NEW r \in Nat, r < x
  PROVE  \E l \in 1..D : Above(hp, ls, ch, l) <= r /\ r < Stop(hp, ls, ch, l)
<1> DEFINE Over == {l \in 1..D : r < Stop(hp, ls, ch, l)}
<1>1. D \in Nat /\ D \in 1..D /\ D \in Over
  <2>1. D \in Nat /\ D > 0 /\ x = Stop(hp, ls, ch, D)
    BY DEF PathTo
  <2> QED
    BY <2>1
<1>2. PICK l \in Over : \A m \in Over : l <= m
  <2>1. Over \subseteq Nat /\ Over # {}
    BY <1>1
  <2> HIDE DEF Over
  <2> QED
    BY <2>1, LeastExists
<1>3. CASE l = 1
  BY <1>2, <1>3 DEF PathTo
<1>4. CASE l # 1
  <2>1. l \in 1..D /\ l \in 2..D
    BY <1>2, <1>4
  <2>2. l - 1 \in 1..D /\ Above(hp, ls, ch, l) = Stop(hp, ls, ch, l - 1) /\ Above(hp, ls, ch, l) \in Nat
    BY <2>1 DEF PathTo
  <2>3. l - 1 \notin Over
    BY <2>1, <1>2
  <2>4. ~(r < Stop(hp, ls, ch, l - 1))
    BY <2>2, <2>3
  <2> QED
    BY <2>1, <2>2, <2>4, <1>2
<1> QED
  BY <1>3, <1>4

\* Place p of a list on the path is behind the node of the path.
Behind(hp, ls, ch, l, p) == p \in 1..Len(Row(hp, ls, l)) /\ p > ch[l]
\* What comes after x and is not below it stands in a list of the path, behind the
\* node of the path: if its parent comes before x.
LEMMA RestOfPath ==
  ASSUME NEW N, NEW H, NEW k, NEW par, NEW chi, NEW hp, NEW ls, NEW ch, NEW lm, NEW D, NEW x,
         Shape(N, H, k, par, chi, hp), Walked(H, chi, hp, ls, ch, lm), NoCross(N, par),
         D = Len(ls), ch[D] <= lm[D], x = Stop(hp, ls, ch, D), NEW n \in 1..N, x < n, par[n] < x
  PROVE  \E l \in 1..D : \E p : Behind(hp, ls, ch, l, p) /\ n = Row(hp, ls, l)[p]
<1>1. PathTo(N, par, hp, ls, ch, D, x)
  BY WalkIsPath
<1>2. par[n] \in Nat /\ n # 1 /\ par[n] # 0
  <2>1. x \in 1..N
    BY <1>1 DEF PathTo
  <2>2. n # 1
    BY <2>1
  <2> QED
    BY <2>2, ParentsBefore
<1>3. PICK l \in 1..D : Above(hp, ls, ch, l) <= par[n] /\ par[n] < Stop(hp, ls, ch, l)
  BY <1>1, <1>2, PlaceOnPath
<1> DEFINE s == Stop(hp, ls, ch, l)
           a == Above(hp, ls, ch, l)
           R == Row(hp, ls, l)
<1>4. s \in 1..N /\ s <= x /\ x \in 1..N /\ par[s] = a /\ a \in Nat
  BY <1>1 DEF PathTo
<1>5. par[n] = a
  <2> HIDE DEF s, a
  <2>1. par[n] <= par[s]
    BY <1>2, <1>3, <1>4 DEF NoCross, s
  <2> QED
    BY <2>1, <1>2, <1>3, <1>4 DEF a
<1>6. n \in Members(R)
  <2>1. chi[par[n]] # 0 /\ n \in Members(hp[chi[par[n]]].elems) /\ par[n] \in 1..(n - 1)
    <3>1. n \in 2..N
      BY <1>2
    <3> QED
      BY <3>1 DEF Shape
  <2>2. l # 1
    <3>1. Above(hp, ls, ch, 1) = 0
      BY DEF Above
    <3> QED
      BY <3>1, <1>2, <1>5
  <2>3. l - 1 \in 1..(Len(ls) - 1) /\ (l - 1) + 1 = l /\ D \in Nat
    BY <2>2, <1>1 DEF PathTo
  <2>4. ls[l] = chi[Stop(hp, ls, ch, l - 1)]
    BY <2>3 DEF Walked
  <2>5. a = Stop(hp, ls, ch, l - 1)
    BY <2>2 DEF Above
  <2> QED
    BY <2>1, <2>4, <2>5, <1>5 DEF Row
<1>7. /\ R \in Seq(1..N) /\ Rising(R) /\ lm[l] = Len(R) /\ ch[l] \in Nat \ {0} /\ lm[l] \in Nat
      /\ ch[l] <= lm[l] /\ s = R[ch[l]]
  <2>1. RowOK(N, k, par, chi, hp, ls, ch, lm, l)
    BY RowFacts
  <2>2. ch[l] <= lm[l]
    <3>1. l = D \/ l \in 1..(Len(ls) - 1)
      BY <1>1 DEF PathTo
    <3> QED
      BY <3>1 DEF Walked
  <2> QED
    BY <2>1, <2>2 DEF RowOK, Row, Stop
<1>8. PICK p \in 1..Len(R) : n = R[p]
  <2>1. DOMAIN R = 1..Len(R)
    BY <1>7, LenProperties
  <2> QED
    BY <2>1, <1>6 DEF Members
<1> HIDE DEF s, a, R
<1>9. p > ch[l]
  <2> SUFFICES ASSUME ~(p > ch[l]) PROVE FALSE
    OBVIOUS
  <2>1. ch[l] \in 1..Len(R)
    BY <1>7
  <2>2. p = ch[l] \/ p < ch[l]
    BY <2>1, <1>8
  <2>3. R[p] = R[ch[l]] \/ R[p] < R[ch[l]]
    BY <2>1, <2>2, <1>7, <1>8 DEF Rising
  <2> QED
    BY <2>3, <1>4, <1>7, <1>8
<1> QED
  BY <1>8, <1>9 DEF Behind, R

\* What stands in a list of the path, behind the node of the path, comes after x.
LEMMA RestComesAfter ==
  ASSUME NEW N, NEW H, NEW k, NEW par, NEW chi, NEW hp, NEW ls, NEW ch, NEW lm, NEW D, NEW x,
         Shape(N, H, k, par, chi, hp), Walked(H, chi, hp, ls, ch, lm), NoCross(N, par),
         D = Len(ls), ch[D] <= lm[D], x = Stop(hp, ls, ch, D), NEW l \in 1..D, NEW p, Behind(hp, ls, ch, l, p)
  PROVE  x < Row(hp, ls, l)[p]
<1> DEFINE R == Row(hp, ls, l)
           r == R[p]
           s(m) == Stop(hp, ls, ch, m)
           a(m) == Above(hp, ls, ch, m)
<1>1. PathTo(N, par, hp, ls, ch, D, x)
  BY WalkIsPath
<1>2. /\ R \in Seq(1..N) /\ Rising(R) /\ lm[l] = Len(R) /\ ch[l] \in Nat \ {0} /\ lm[l] \in Nat
      /\ ch[l] <= lm[l] /\ s(l) = R[ch[l]] /\ \A n \in Members(R) : n \in 1..N /\ par[n] = a(l)
  <2>1. RowOK(N, k, par, chi, hp, ls, ch, lm, l)
    BY RowFacts
  <2>2. ch[l] <= lm[l]
    <3>1. l = D \/ l \in 1..(Len(ls) - 1)
      BY <1>1 DEF PathTo
    <3> QED
      BY <3>1 DEF Walked
  <2> QED
    BY <2>1, <2>2 DEF RowOK, Row, Stop
<1>3. p \in 1..Len(R) /\ p > ch[l]
  BY DEF Behind
<1> HIDE DEF R, s, a
<1>4. s(l) < r
  <2>1. ch[l] \in 1..Len(R)
    BY <1>2
  <2> QED
    BY <2>1, <1>2, <1>3 DEF Rising
<1>5. r \in 1..N /\ par[r] = a(l)
  <2>1. r \in Members(R)
    <3>1. DOMAIN R = 1..Len(R)
      BY <1>2, LenProperties
    <3> QED
      BY <3>1, <1>3 DEF Members
  <2> QED
    BY <2>1, <1>2
<1> HIDE DEF r
<1>6. /\ D \in Nat /\ D > 0 /\ x \in 1..N /\ x = s(D)
      /\ \A m \in 1..D : s(m) \in 1..N /\ s(m) <= x /\ par[s(m)] = a(m) /\ a(m) \in Nat /\ a(m) < s(m)
      /\ \A m \in 2..D : m - 1 \in 1..D /\ a(m) = s(m - 1)
      /\ \A m, n \in 1..D : m < n => a(m) < a(n)
  BY <1>1 DEF PathTo, s, a
<1>7. SUFFICES ASSUME ~(x < r) PROVE FALSE
  BY DEF r, R
<1>8. l # D
  BY <1>4, <1>5, <1>6, <1>7
<1>9. D \in 1..D /\ l < D
  BY <1>6, <1>8
<1>10. r # x
  <2>1. par[x] = a(D)
    BY <1>6, <1>9
  <2>2. a(l) < a(D) /\ a(l) \in Nat /\ a(D) \in Nat
    BY <1>6, <1>9
  <2> QED
    BY <2>1, <2>2, <1>5
<1>11. PICK m \in 1..D : a(m) <= r /\ r < s(m)
  <2>1. r \in Nat /\ r < x
    BY <1>5, <1>6, <1>7, <1>10
  <2> QED
    BY <2>1, <1>1, PlaceOnPath DEF a, s
<1>12. /\ s(m) \in 1..N /\ par[s(m)] = a(m) /\ a(m) \in Nat /\ a(l) \in Nat /\ s(l) \in 1..N /\ a(l) < s(l)
  BY <1>6
<1>13. l < m
  <2> SUFFICES ASSUME ~(l < m) PROVE FALSE
    OBVIOUS
  <2>1. m # l
    BY <1>4, <1>5, <1>11, <1>12
  <2>2. m < l /\ m + 1 \in 2..D /\ (m + 1) - 1 = m /\ m + 1 \in 1..D
    BY <2>1, <1>6
  <2>3. a(m + 1) = s(m)
    BY <2>2, <1>6
  <2>4. a(m + 1) <= a(l)
    <3>1. m + 1 = l \/ m + 1 < l
      BY <2>2
    <3> QED
      BY <3>1, <2>2, <1>6, <1>12
  <2> QED
    BY <2>3, <2>4, <1>4, <1>5, <1>11, <1>12
<1>14. a(l) < a(m)
  BY <1>6, <1>13
<1>15. CASE a(m) < r
  <2>1. a(m) <= par[r]
    <3>1. par[s(m)] # 0
      BY <1>12, <1>14
    <3> QED
      BY <3>1, <1>5, <1>11, <1>12, <1>15 DEF NoCross
  <2> QED
    BY <2>1, <1>5, <1>12, <1>14
<1>16. CASE a(m) = r
  <2>1. m \in 2..D
    BY <1>13
  <2>2. m - 1 \in 1..D /\ r = s(m - 1)
    BY <2>1, <1>6, <1>16
  <2>3. par[r] = a(m - 1)
    BY <2>2, <1>6
  <2>4. l = m - 1 \/ l < m - 1
    BY <1>13
  <2>5. l # m - 1
    BY <2>2, <1>4, <1>5
  <2>6. a(l) < a(m - 1) /\ a(m - 1) \in Nat
    BY <2>2, <2>4, <2>5, <1>6
  <2> QED
    BY <2>3, <2>6, <1>5, <1>12
<1> QED
  BY <1>5, <1>11, <1>12, <1>15, <1>16

\* No node is called twice, so that the answer to a call is the answer of its node.
LEMMA AnswerOfCall ==
  ASSUME NEW N, NEW cs, Listed(N, cs), NEW a \in 1..Len(cs)
  PROVE  AnswerIn(cs, cs[a].node) = cs[a].code /\ cs[a].node \in 1..N /\ cs[a].code \in AllCodes
<1> DEFINE n == cs[a].node
           b == CHOOSE c \in DOMAIN cs : cs[c].node = n
<1>1. cs \in Seq(CallSet(N)) /\ InOrder(cs)
  BY DEF Listed
<1>2. DOMAIN cs = 1..Len(cs) /\ Len(cs) \in Nat
  BY <1>1, LenProperties
<1>3. \E c \in DOMAIN cs : cs[c].node = n
  BY <1>2
<1>4. b \in 1..Len(cs) /\ cs[b].node = n
  BY <1>2, <1>3
<1>5. cs[a].node \in 1..N /\ cs[a].code \in AllCodes
  <2>1. cs[a] \in CallSet(N)
    BY <1>1, ElementOfSeq
  <2> QED
    BY <2>1 DEF CallSet
<1> HIDE DEF b
<1>6. a = b
  <2>1. a < b \/ a = b \/ b < a
    BY <1>4
  <2>2. ~(a < b) /\ ~(b < a)
    BY <1>1, <1>4, <1>5 DEF InOrder
  <2> QED
    BY <2>1, <2>2
<1>7. AnswerIn(cs, n) = cs[b].code
  BY <1>3 DEF AnswerIn, b
<1> QED
  BY <1>5, <1>6, <1>7

\* A node has an answer when it was called.
LEMMA AnswerOfNode ==
  ASSUME NEW N, NEW cs, Listed(N, cs), NEW n
  PROVE  AnswerIn(cs, n) # "none" <=> \E a \in 1..Len(cs) : cs[a].node = n
<1>1. DOMAIN cs = 1..Len(cs)
  BY LenProperties DEF Listed
<1>2. CASE \E a \in 1..Len(cs) : cs[a].node = n
  <2>1. PICK a \in 1..Len(cs) : cs[a].node = n
    BY <1>2
  <2>2. AnswerIn(cs, n) = cs[a].code /\ cs[a].code \in AllCodes
    BY <2>1, AnswerOfCall
  <2>3. "none" \notin AllCodes
    BY DEF AllCodes
  <2> QED
    BY <2>2, <2>3, <1>2
<1>3. CASE ~ \E a \in 1..Len(cs) : cs[a].node = n
  BY <1>1, <1>3 DEF AnswerIn
<1> QED
  BY <1>2, <1>3

\* The answers after node x has given c ("none" if it was not asked).
Answered(ans, ans2, x, c) == DOMAIN ans2 = DOMAIN ans /\ \A n \in DOMAIN ans : ans2[n] = IF n = x THEN c ELSE ans[n]
\* A call of a node behind all others leaves the calls in order.
CalledNext(N, cs, x, c, cs2) ==
  /\ N \in Nat /\ Listed(N, cs) /\ x \in 1..N /\ c \in AllCodes
  /\ \A a \in 1..Len(cs) : cs[a].node < x
  /\ cs2 = Append(cs, [node |-> x, code |-> c])
LEMMA CallsGrow ==
  ASSUME NEW N, NEW cs, NEW x, NEW c, NEW cs2, CalledNext(N, cs, x, c, cs2)
  PROVE  /\ Listed(N, cs2) /\ Answered(Given(N, cs), Given(N, cs2), x, c)
         /\ \A a \in 1..Len(cs2) : cs2[a].node <= x
         /\ \E a \in DOMAIN cs2 : cs2[a].code = c
<1> DEFINE L == Len(cs)
           r == [node |-> x, code |-> c]
<1> USE DEF CalledNext
<1>1. cs \in Seq(CallSet(N)) /\ InOrder(cs) /\ r \in CallSet(N)
  BY DEF Listed, CallSet
<1>2. L \in Nat
  BY <1>1, LenProperties
<1>3. \A a \in 1..L : cs[a].node \in 1..N /\ cs[a].node < x
  BY AnswerOfCall
<1> HIDE DEF r
<1>4. cs2 \in Seq(CallSet(N)) /\ Len(cs2) = L + 1 /\ (\A a \in 1..L : cs2[a] = cs[a]) /\ cs2[L + 1] = r
  BY <1>1, AppendProperties DEF r
<1>5. \A a \in 1..(L + 1) : a = L + 1 \/ a \in 1..L
  BY <1>2
<1>6. r.node = x /\ r.code = c
  BY DEF r
<1>7. InOrder(cs) /\ \A a, b \in 1..L : a < b => cs[a].node < cs[b].node
  BY <1>1 DEF InOrder
<1> HIDE DEF L
<1>8. \A a \in 1..(L + 1) : cs2[a].node <= x
  <2>1. cs2[L + 1].node <= x
    BY <1>4, <1>6
  <2>2. ASSUME NEW a \in 1..L PROVE cs2[a].node <= x
    <3>1. cs2[a].node = cs[a].node
      BY <1>4
    <3>2. cs[a].node \in 1..N /\ cs[a].node < x
      BY <1>3
    <3>3. \A y \in 1..N : y < x => y <= x
      OBVIOUS
    <3> QED
      BY <3>1, <3>2, <3>3, Zenon
  <2> QED
    BY <2>1, <2>2, <1>5
<1>9. InOrder(cs2)
  <2> SUFFICES ASSUME NEW a \in 1..(L + 1), NEW b \in 1..(L + 1), a < b PROVE cs2[a].node < cs2[b].node
    BY <1>4 DEF InOrder
  <2>1. a \in 1..L
    BY <1>2
  <2>2. CASE b = L + 1
    BY <2>1, <2>2, <1>3, <1>4, <1>6
  <2>3. CASE b \in 1..L
    BY <2>1, <2>3, <1>4, <1>7
  <2> QED
    BY <2>2, <2>3, <1>5
<1>10. Listed(N, cs2)
  BY <1>4, <1>9 DEF Listed
<1>11. \A a \in 1..(L + 1) : AnswerIn(cs2, cs2[a].node) = cs2[a].code
  BY <1>4, <1>10, AnswerOfCall
<1>12. ASSUME NEW n PROVE AnswerIn(cs2, n) = IF n = x THEN c ELSE AnswerIn(cs, n)
  <2>1. CASE n = x
    <3>1. L + 1 \in 1..(L + 1)
      BY <1>2
    <3> QED
      BY <3>1, <2>1, <1>4, <1>6, <1>11
  <2>2. CASE n # x
    <3>1. CASE \E a \in 1..L : cs[a].node = n
      <4>1. PICK a \in 1..L : cs[a].node = n
        BY <3>1
      <4>2. AnswerIn(cs, n) = cs[a].code
        BY <4>1, AnswerOfCall DEF L
      <4>3. a \in 1..(L + 1)
        BY <1>2
      <4>4. AnswerIn(cs2, cs2[a].node) = cs2[a].code
        BY <4>3, <1>11
      <4> QED
        BY <4>1, <4>2, <4>4, <2>2, <1>4
    <3>2. CASE ~ \E a \in 1..L : cs[a].node = n
      <4>1. DOMAIN cs = 1..L /\ DOMAIN cs2 = 1..(L + 1)
        BY <1>1, <1>4, LenProperties DEF L
      <4>2. AnswerIn(cs, n) = "none"
        BY <4>1, <3>2 DEF AnswerIn
      <4>3. ~ \E a \in 1..(L + 1) : cs2[a].node = n
        BY <3>2, <2>2, <1>4, <1>5, <1>6
      <4>4. AnswerIn(cs2, n) = "none"
        BY <4>1, <4>3 DEF AnswerIn
      <4> QED
        BY <4>2, <4>4, <2>2
    <3> QED
      BY <3>1, <3>2
  <2> QED
    BY <2>1, <2>2
<1>13. Answered(Given(N, cs), Given(N, cs2), x, c)
  BY <1>12 DEF Answered, Given
<1>14. \E a \in DOMAIN cs2 : cs2[a].code = c
  <2>1. L + 1 \in 1..(L + 1) /\ DOMAIN cs2 = 1..(L + 1)
    BY <1>2, <1>4, LenProperties
  <2> QED
    BY <2>1, <1>4, <1>6
<1> QED
  BY <1>4, <1>8, <1>10, <1>13, <1>14

\* A node behind x that the traversal leaves out when it goes on from x.
Left(N, k, par, ans, n, x, c) ==
  par[n] > x \/ (par[n] = x /\ c # "CONTINUE") \/ Skipped(N, k, par, ans, n)
\* What the callback is called with comes rightly, and nothing behind it has been called.
Turn(N, k, par, fl, ans, x, c) ==
  /\ x \in 1..N /\ DOMAIN ans = 1..N /\ (c # "none" <=> fl[x] # "deleted")
  /\ ~Skipped(N, k, par, ans, x) /\ (x # 1 => ans[par[x]] = "CONTINUE")
  /\ \A n \in 1..N : n < x => Right(N, k, par, fl, ans, n)
  /\ \A n \in 1..N : ~(n < x) => ans[n] = "none"
\* The nodes up to x, and those that are left out behind it, are rightly called or not.
LEMMA RightGrows ==
  ASSUME NEW N, NEW H, NEW k, NEW par, NEW chi, NEW hp, Shape(N, H, k, par, chi, hp),
         NEW fl, NEW ans, NEW ans2, NEW x, NEW c, Turn(N, k, par, fl, ans, x, c), Answered(ans, ans2, x, c),
         NEW n \in 1..N, x < n => Left(N, k, par, ans2, n, x, c)
  PROVE  Right(N, k, par, fl, ans2, n)
<1>1. N \in Nat /\ par[n] \in Nat /\ par[n] < n /\ (par[n] = 0 <=> n = 1)
  <2>1. N \in Nat
    BY DEF Shape
  <2> QED
    BY <2>1, ParentsBefore
<1>2. /\ x \in 1..N /\ DOMAIN ans = 1..N /\ (c # "none" <=> fl[x] # "deleted")
      /\ ~Skipped(N, k, par, ans, x) /\ (x # 1 => ans[par[x]] = "CONTINUE")
      /\ \A m \in 1..N : m < x => Right(N, k, par, fl, ans, m)
      /\ \A m \in 1..N : ~(m < x) => ans[m] = "none"
  BY DEF Turn
<1>3. \A m \in 1..N : ans2[m] = IF m = x THEN c ELSE ans[m]
  BY <1>2 DEF Answered
<1>4. ASSUME n <= x PROVE ToCall(N, k, par, fl, ans2, n) <=> ToCall(N, k, par, fl, ans, n)
  <2>1. \A m \in 1..N : m < n => ans2[m] = ans[m]
    <3>1. \A m \in 1..N : m < n => m # x
      BY <1>2, <1>4
    <3> QED
      BY <3>1, <1>3
  <2>2. Skipped(N, k, par, ans2, n) <=> Skipped(N, k, par, ans, n)
    BY <2>1 DEF Skipped
  <2>3. n # 1 => par[n] \in 1..N
    BY <1>1
  <2>4. n # 1 => ans2[par[n]] = ans[par[n]]
    BY <2>1, <2>3, <1>1
  <2> QED
    BY <2>2, <2>4 DEF ToCall
<1>5. CASE n < x
  <2>1. ans2[n] = ans[n] /\ n <= x
    BY <1>2, <1>3, <1>5
  <2> QED
    BY <2>1, <1>2, <1>4, <1>5 DEF Right
<1>6. CASE n = x
  <2>1. ans2[n] = c /\ n <= x
    BY <1>2, <1>3, <1>6
  <2>2. ToCall(N, k, par, fl, ans, n) <=> fl[x] # "deleted"
    BY <1>2, <1>6 DEF ToCall
  <2> QED
    BY <2>1, <2>2, <1>2, <1>4 DEF Right
<1>7. CASE x < n
  <2>1. ~(n < x) /\ n # x
    BY <1>2, <1>7
  <2>2. ans2[n] = "none"
    BY <2>1, <1>2, <1>3
  <2>3. CASE Skipped(N, k, par, ans2, n)
    BY <2>2, <2>3 DEF Right, ToCall
  <2>4. CASE ~Skipped(N, k, par, ans2, n)
    <3>1. par[n] > x \/ (par[n] = x /\ c # "CONTINUE")
      BY <2>4, <1>7 DEF Left
    <3>2. par[n] \in 1..N /\ n # 1
      BY <3>1, <1>1, <1>2
    <3>3. CASE par[n] = x
      BY <3>1, <3>2, <3>3, <2>2, <1>2, <1>3 DEF Right, ToCall
    <3>4. CASE par[n] # x
      <4>1. ~(par[n] < x)
        BY <3>1, <3>4, <1>1, <1>2
      <4>2. ans2[par[n]] = "none"
        BY <4>1, <3>2, <3>4, <1>2, <1>3
      <4> QED
        BY <4>2, <3>2, <2>2 DEF Right, ToCall
    <3> QED
      BY <3>3, <3>4
  <2> QED
    BY <2>3, <2>4
<1> QED
  BY <1>1, <1>2, <1>5, <1>6, <1>7

\* The traversal stands at x, and has the answers ans.
StandsAt(N, H, k, par, chi, hp, ls, ch, lm, ans, D, x) ==
  /\ Shape(N, H, k, par, chi, hp) /\ Walked(H, chi, hp, ls, ch, lm) /\ NoCross(N, par)
  /\ D = Len(ls) /\ ch[D] <= lm[D] /\ x = Stop(hp, ls, ch, D)
  /\ PathAnswers(ans, hp, ls, ch) /\ PopsReached(k, ans, hp, ls, ch)
  /\ DOMAIN ans = 1..N /\ \A n \in 1..N : ~(n < x) => ans[n] = "none"
\* What it needs to know of the list it stands in.
LEMMA StandingList ==
  ASSUME NEW N, NEW H, NEW k, NEW par, NEW chi, NEW hp, NEW ls, NEW ch, NEW lm, NEW ans, NEW D, NEW x,
         StandsAt(N, H, k, par, chi, hp, ls, ch, lm, ans, D, x)
  PROVE  /\ D \in Nat /\ D \in 1..D /\ x \in 1..N /\ N \in Nat
         /\ Row(hp, ls, D) \in Seq(1..N) /\ Rising(Row(hp, ls, D)) /\ ch[D] \in 1..Len(Row(hp, ls, D))
         /\ Len(Row(hp, ls, D)) \in Nat /\ Row(hp, ls, D)[ch[D]] = x
         /\ par[x] = Above(hp, ls, ch, D) /\ par[x] \in Nat /\ par[x] < x
         /\ \A p \in 1..Len(Row(hp, ls, D)) : Row(hp, ls, D)[p] \in 1..N /\ par[Row(hp, ls, D)[p]] = par[x]
<1> USE DEF StandsAt
<1> DEFINE R == Row(hp, ls, D)
<1>1. D \in Nat /\ D \in 1..D /\ N \in Nat
  BY WalkedSizes DEF Shape
<1>2. RowOK(N, k, par, chi, hp, ls, ch, lm, D)
  BY <1>1, RowFacts
<1>3. /\ R \in Seq(1..N) /\ Rising(R) /\ lm[D] = Len(R) /\ lm[D] \in Nat /\ ch[D] \in Nat \ {0}
      /\ x \in 1..N /\ par[x] = Above(hp, ls, ch, D)
      /\ \A n \in Members(R) : n \in 1..N /\ par[n] = Above(hp, ls, ch, D)
  BY <1>2 DEF RowOK
<1>4. ch[D] \in 1..Len(R) /\ DOMAIN R = 1..Len(R)
  BY <1>3, LenProperties
<1>5. \A p \in 1..Len(R) : R[p] \in Members(R)
  BY <1>4 DEF Members
<1>6. par[x] \in Nat /\ par[x] < x
  BY <1>3, ParentsBefore
<1>7. R[ch[D]] = x
  BY DEF Row, Stop
<1> HIDE DEF R, StandsAt
<1>8. \A p \in 1..Len(R) : R[p] \in 1..N /\ par[R[p]] = par[x]
  BY <1>3, <1>5
<1>9. Len(R) \in Nat
  BY <1>3
<1> QED
  BY <1>1, <1>3, <1>4, <1>6, <1>7, <1>8, <1>9 DEF R

\* The nodes before x are the ones that are passed.
LEMMA PassedBefore ==
  ASSUME NEW N, NEW H, NEW k, NEW par, NEW chi, NEW hp, NEW ls, NEW ch, NEW lm, NEW ans, NEW D, NEW x,
         StandsAt(N, H, k, par, chi, hp, ls, ch, lm, ans, D, x), NEW n \in 1..N
  PROVE  Passed(hp, ls, ch, n) <=> n < x
<1>1. /\ D \in 1..D /\ x \in 1..N /\ ch[D] \in 1..Len(Row(hp, ls, D)) /\ Row(hp, ls, D)[ch[D]] = x
  BY StandingList
<1>2. D = Len(ls)
  BY DEF StandsAt
<1>3. ASSUME Passed(hp, ls, ch, n) PROVE n < x
  <2>1. D \in 1..Len(ls) /\ Ahead(Len(ls), ch, D, ch[D])
    BY <1>1, <1>2 DEF Ahead
  <2> QED
    BY <2>1, <1>1, <1>3 DEF Passed
<1>4. ASSUME n < x PROVE Passed(hp, ls, ch, n)
  <2> SUFFICES ASSUME NEW l \in 1..Len(ls), NEW p \in 1..Len(Row(hp, ls, l)), Ahead(Len(ls), ch, l, p)
               PROVE  n < Row(hp, ls, l)[p]
    BY DEF Passed
  <2>1. CASE l = D /\ p = ch[D]
    BY <2>1, <1>1, <1>4
  <2>2. CASE p > ch[l]
    <3> DEFINE r == Row(hp, ls, l)[p]
    <3>1. x < r
      BY <2>2, <1>2, RestComesAfter DEF Behind, StandsAt
    <3>2. r \in 1..N
      <4>1. Row(hp, ls, l) \in Seq(1..N)
        BY RowFacts DEF RowOK, StandsAt
      <4> QED
        BY <4>1, ElementOfSeq
    <3> HIDE DEF r
    <3>3. n < r
      BY <3>1, <3>2, <1>1, <1>4
    <3> QED
      BY <3>3 DEF r
  <2> QED
    BY <2>1, <2>2, <1>2 DEF Ahead
<1> QED
  BY <1>3, <1>4

\* Where the traversal stands the node was reached by the answers before.
LEMMA ReachedRightly ==
  ASSUME NEW N, NEW H, NEW k, NEW par, NEW chi, NEW hp, NEW ls, NEW ch, NEW lm, NEW ans, NEW D, NEW x,
         StandsAt(N, H, k, par, chi, hp, ls, ch, lm, ans, D, x)
  PROVE  ~Skipped(N, k, par, ans, x) /\ (x # 1 => ans[par[x]] = "CONTINUE")
<1> DEFINE R == Row(hp, ls, D)
<1>1. /\ Shape(N, H, k, par, chi, hp) /\ Walked(H, chi, hp, ls, ch, lm) /\ D = Len(ls)
      /\ PathAnswers(ans, hp, ls, ch) /\ PopsReached(k, ans, hp, ls, ch)
  BY DEF StandsAt
<1>2. /\ D \in Nat /\ D \in 1..D /\ x \in 1..N /\ N \in Nat
      /\ R \in Seq(1..N) /\ Rising(R) /\ ch[D] \in 1..Len(R) /\ Len(R) \in Nat /\ R[ch[D]] = x
      /\ par[x] = Above(hp, ls, ch, D) /\ par[x] \in Nat /\ par[x] < x
      /\ \A p \in 1..Len(R) : R[p] \in 1..N /\ par[R[p]] = par[x]
  BY StandingList
<1>3. x # 1 => ans[par[x]] = "CONTINUE"
  <2> SUFFICES ASSUME x # 1 PROVE ans[par[x]] = "CONTINUE"
    OBVIOUS
  <2>1. par[x] # 0
    BY <1>1, <1>2, ParentsBefore
  <2>2. D # 1
    BY <2>1, <1>2 DEF Above
  <2>3. D - 1 \in 1..(Len(ls) - 1)
    BY <2>2, <1>1, <1>2
  <2>4. par[x] = Stop(hp, ls, ch, D - 1)
    BY <2>2, <1>2 DEF Above
  <2> QED
    BY <2>3, <2>4, <1>1 DEF PathAnswers
<1>4. ASSUME Skipped(N, k, par, ans, x) PROVE FALSE
  <2>1. PICK m \in 1..N : /\ par[m] = par[x] /\ m < x /\ ans[m] = "POP"
                          /\ \A q \in 1..N : (par[q] = par[x] /\ m < q /\ q < x) => k[q] \notin Pops
    BY <1>4 DEF Skipped
  <2>2. m # 1
    <3>1. x # 1
      BY <2>1, <1>2
    <3>2. par[x] # 0
      BY <3>1, <1>1, <1>2, ParentsBefore
    <3> QED
      BY <3>2, <2>1, <1>1, ParentsBefore
  <2>3. \E p \in 1..Len(R) : m = R[p]
    <3>1. par[m] = Above(hp, ls, ch, D) /\ D \in 1..Len(ls)
      BY <2>1, <1>1, <1>2
    <3> QED
      BY <3>1, <2>2, <1>1, RowIsFull
  <2>4. m \in Members(R)
    <3>1. DOMAIN R = 1..Len(R)
      BY <1>2, LenProperties
    <3> QED
      BY <2>3, <3>1 DEF Members
  <2>5. PICK p \in 1..Len(R) : p <= ch[D] /\ m < R[p] /\ k[R[p]] \in Pops
    BY <2>1, <2>4, <1>1, <1>2 DEF PopsReached
  <2> HIDE DEF R
  <2>6. R[p] \in 1..N /\ par[R[p]] = par[x]
    BY <1>2
  <2>7. p = ch[D] \/ p < ch[D]
    BY <2>5, <1>2
  <2>8. R[p] = x \/ R[p] < x
    BY <2>7, <1>2 DEF Rising
  <2>9. k[x] \notin Pops
    BY <1>4 DEF Skipped
  <2> QED
    BY <2>1, <2>5, <2>6, <2>8, <2>9
<1> QED
  BY <1>3, <1>4

\* The traversal goes on from x to another path, after the answer c.
GoesOn(N, k, par, hp, ans, ls, ch, x, c) ==
  /\ \A n \in 1..N : n <= x => Passed(hp, ls, ch, n)
  /\ \A n \in 1..N : (x < n /\ Passed(hp, ls, ch, n)) => Left(N, k, par, ans, n, x, c)
  /\ PathAnswers(ans, hp, ls, ch) /\ PopsReached(k, ans, hp, ls, ch)

\* What follows x is below it, or in the rest of the path.
LEMMA WhatFollows ==
  ASSUME NEW N, NEW H, NEW k, NEW par, NEW chi, NEW hp, NEW ls, NEW ch, NEW lm, NEW ans, NEW D, NEW x,
         StandsAt(N, H, k, par, chi, hp, ls, ch, lm, ans, D, x), NEW n \in 1..N, x < n
  PROVE  par[n] > x \/ par[n] = x \/ \E l \in 1..D : \E p : Behind(hp, ls, ch, l, p) /\ n = Row(hp, ls, l)[p]
<1>1. par[n] \in Nat /\ x \in 1..N
  <2>1. par[n] \in Nat
    BY ParentsBefore DEF StandsAt
  <2> QED
    BY <2>1, StandingList
<1>2. par[n] > x \/ par[n] = x \/ par[n] < x
  BY <1>1
<1>3. ASSUME par[n] < x PROVE \E l \in 1..D : \E p : Behind(hp, ls, ch, l, p) /\ n = Row(hp, ls, l)[p]
  BY <1>3, RestOfPath DEF StandsAt
<1> QED
  BY <1>2, <1>3

\* The rest of the path comes after the nodes up to x.
LEMMA RestBehind ==
  ASSUME NEW N, NEW H, NEW k, NEW par, NEW chi, NEW hp, NEW ls, NEW ch, NEW lm, NEW ans, NEW D, NEW x,
         StandsAt(N, H, k, par, chi, hp, ls, ch, lm, ans, D, x), NEW n \in 1..N, n <= x,
         NEW l \in 1..D, NEW p, Behind(hp, ls, ch, l, p)
  PROVE  n < Row(hp, ls, l)[p]
<1> DEFINE r == Row(hp, ls, l)[p]
<1>1. x < r /\ x \in 1..N
  <2>1. x < r
    BY RestComesAfter DEF StandsAt
  <2> QED
    BY <2>1, StandingList
<1>2. r \in 1..N
  <2>1. Row(hp, ls, l) \in Seq(1..N)
    BY RowFacts DEF RowOK, StandsAt
  <2> QED
    BY <2>1, ElementOfSeq DEF Behind
<1> HIDE DEF r
<1>3. n < r
  BY <1>1, <1>2
<1> QED
  BY <1>3 DEF r

\* The answers of the path are not touched by the answer of x.
LEMMA OldAnswers ==
  ASSUME NEW N, NEW H, NEW k, NEW par, NEW chi, NEW hp, NEW ls, NEW ch, NEW lm, NEW ans, NEW D, NEW x,
         StandsAt(N, H, k, par, chi, hp, ls, ch, lm, ans, D, x), NEW ans2, NEW c, Answered(ans, ans2, x, c),
         NEW l \in 1..D
  PROVE  /\ l < D => ans2[Stop(hp, ls, ch, l)] = "CONTINUE"
         /\ \A m \in Members(Row(hp, ls, l)) :
              (ans2[m] = "POP" /\ m # x) =>
                \E p \in 1..Len(Row(hp, ls, l)) : p <= ch[l] /\ m < Row(hp, ls, l)[p] /\ k[Row(hp, ls, l)[p]] \in Pops
<1>1. /\ D = Len(ls) /\ PathAnswers(ans, hp, ls, ch) /\ PopsReached(k, ans, hp, ls, ch)
      /\ DOMAIN ans = 1..N /\ \A n \in 1..N : ~(n < x) => ans[n] = "none"
  BY DEF StandsAt
<1>2. x \in 1..N /\ D \in Nat
  BY StandingList
<1>3. \A n \in 1..N : n # x => ans2[n] = ans[n]
  BY <1>1 DEF Answered
<1>4. ASSUME l < D PROVE ans2[Stop(hp, ls, ch, l)] = "CONTINUE"
  <2> DEFINE s == Stop(hp, ls, ch, l)
  <2>1. ans[s] = "CONTINUE"
    <3>1. l \in 1..(D - 1)
      BY <1>2, <1>4
    <3> QED
      BY <3>1, <1>1 DEF PathAnswers
  <2>2. s \in 1..N
    <3>1. PathTo(N, par, hp, ls, ch, D, x)
      BY WalkIsPath DEF StandsAt
    <3> QED
      BY <3>1 DEF PathTo
  <2>3. ~(x < x)
    BY <1>2
  <2>4. s # x
    BY <2>1, <2>3, <1>1, <1>2
  <2> QED
    BY <2>1, <2>2, <2>4, <1>3
<1>5. \A m \in Members(Row(hp, ls, l)) : m \in 1..N
  BY RowFacts DEF RowOK, StandsAt
<1>6. \A m \in Members(Row(hp, ls, l)) : (ans2[m] = "POP" /\ m # x) => ans[m] = "POP"
  BY <1>3, <1>5
<1>7. \A m \in Members(Row(hp, ls, l)) :
        ans[m] = "POP" =>
          \E p \in 1..Len(Row(hp, ls, l)) : p <= ch[l] /\ m < Row(hp, ls, l)[p] /\ k[Row(hp, ls, l)[p]] \in Pops
  BY <1>1 DEF PopsReached
<1> QED
  BY <1>4, <1>6, <1>7

\* Going on to a later place of the same list, past nodes that are left out.
Onto(D, ls, ch, ch2) == D = Len(ls) /\ ch2[D] > ch[D] /\ ch2[D] \in Nat /\ \A l \in 1..(D - 1) : ch2[l] = ch[l]
LEMMA GoesOnward ==
  ASSUME NEW N, NEW H, NEW k, NEW par, NEW chi, NEW hp, NEW ls, NEW ch, NEW lm, NEW ans, NEW D, NEW x,
         StandsAt(N, H, k, par, chi, hp, ls, ch, lm, ans, D, x), NEW ans2, NEW c, Answered(ans, ans2, x, c),
         NEW ch2, Onto(D, ls, ch, ch2), c = "CONTINUE" => chi[x] = 0,
         c = "POP" => (ch2[D] \in 1..Len(Row(hp, ls, D)) /\ k[Row(hp, ls, D)[ch2[D]]] \in Pops),
         \A p \in 1..Len(Row(hp, ls, D)) :
           (ch[D] < p /\ p < ch2[D]) => Skipped(N, k, par, ans2, Row(hp, ls, D)[p])
  PROVE  GoesOn(N, k, par, hp, ans2, ls, ch2, x, c)
<1>1. D \in Nat /\ D \in 1..D /\ x \in 1..N /\ N \in Nat /\ ch[D] \in 1..Len(Row(hp, ls, D)) /\ Len(Row(hp, ls, D)) \in Nat
  BY StandingList
<1>2. D = Len(ls) /\ ch2[D] > ch[D] /\ ch2[D] \in Nat /\ \A l \in 1..(D - 1) : ch2[l] = ch[l]
  BY DEF Onto
<1>3. \A l \in 1..D : l = D \/ (l \in 1..(D - 1) /\ l < D)
  BY <1>1
<1>4. \A l \in 1..D : \A p \in 1..Len(Row(hp, ls, l)) : Ahead(D, ch2, l, p) => Behind(hp, ls, ch, l, p)
  <2> SUFFICES ASSUME NEW l \in 1..D, NEW p \in 1..Len(Row(hp, ls, l)), Ahead(D, ch2, l, p)
               PROVE  p > ch[l]
    BY DEF Behind
  <2>1. CASE l = D
    <3>1. p > ch2[D] \/ p = ch2[D]
      BY <2>1 DEF Ahead
    <3> QED
      BY <3>1, <2>1, <1>1, <1>2
  <2>2. CASE l # D
    BY <2>2, <1>2, <1>3 DEF Ahead
  <2> QED
    BY <2>1, <2>2
<1>5. ASSUME NEW n \in 1..N, n <= x PROVE Passed(hp, ls, ch2, n)
  <2>1. \A l \in 1..D : \A p : Behind(hp, ls, ch, l, p) => n < Row(hp, ls, l)[p]
    BY <1>5, RestBehind
  <2> QED
    BY <2>1, <1>2, <1>4 DEF Passed
<1>6. ASSUME NEW n \in 1..N, x < n, Passed(hp, ls, ch2, n) PROVE Left(N, k, par, ans2, n, x, c)
  <2>1. CASE par[n] > x
    BY <2>1 DEF Left
  <2>2. CASE par[n] = x
    <3>1. chi[par[n]] # 0
      <4>1. n \in 2..N
        BY <1>1, <1>6
      <4> QED
        BY <4>1 DEF StandsAt, Shape
    <3>2. c # "CONTINUE"
      BY <3>1, <2>2
    <3> QED
      BY <3>2, <2>2 DEF Left
  <2>3. CASE \E l \in 1..D : \E p : Behind(hp, ls, ch, l, p) /\ n = Row(hp, ls, l)[p]
    <3>0. PICK l \in 1..D : \E p : Behind(hp, ls, ch, l, p) /\ n = Row(hp, ls, l)[p]
      BY <2>3
    <3>1. PICK p : Behind(hp, ls, ch, l, p) /\ n = Row(hp, ls, l)[p]
      BY <3>0
    <3>2. p \in 1..Len(Row(hp, ls, l)) /\ p > ch[l]
      BY <3>1 DEF Behind
    <3>3. ~Ahead(D, ch2, l, p)
      <4>1. ~(n < n)
        OBVIOUS
      <4> QED
        BY <4>1, <3>1, <3>2, <1>2, <1>6 DEF Passed
    <3>4. l = D
      BY <3>2, <3>3, <1>2, <1>3 DEF Ahead
    <3>5. ~(p > ch2[D]) /\ p # ch2[D]
      BY <3>3, <3>4 DEF Ahead
    <3>6. ch[D] < p /\ p < ch2[D]
      BY <3>2, <3>4, <3>5, <1>1, <1>2
    <3> QED
      BY <3>1, <3>2, <3>4, <3>6 DEF Left
  <2> QED
    BY <2>1, <2>2, <2>3, <1>6, WhatFollows
<1>7. PathAnswers(ans2, hp, ls, ch2)
  <2> SUFFICES ASSUME NEW l \in 1..(D - 1) PROVE ans2[Stop(hp, ls, ch2, l)] = "CONTINUE"
    BY <1>2 DEF PathAnswers
  <2>1. l \in 1..D /\ l < D
    BY <1>1
  <2>2. Stop(hp, ls, ch2, l) = Stop(hp, ls, ch, l)
    BY <1>2 DEF Stop
  <2> QED
    BY <2>1, <2>2, OldAnswers
<1>8. PopsReached(k, ans2, hp, ls, ch2)
  <2> SUFFICES ASSUME NEW l \in 1..D, NEW m \in Members(Row(hp, ls, l)), ans2[m] = "POP"
               PROVE  \E p \in 1..Len(Row(hp, ls, l)) :
                        p <= ch2[l] /\ m < Row(hp, ls, l)[p] /\ k[Row(hp, ls, l)[p]] \in Pops
    BY <1>2 DEF PopsReached
  <2>1. CASE m # x
    <3>1. PICK p \in 1..Len(Row(hp, ls, l)) : p <= ch[l] /\ m < Row(hp, ls, l)[p] /\ k[Row(hp, ls, l)[p]] \in Pops
      BY <2>1, OldAnswers
    <3>2. p <= ch2[l]
      <4>1. CASE l = D
        BY <4>1, <3>1, <1>1, <1>2
      <4>2. CASE l # D
        BY <4>2, <3>1, <1>2, <1>3
      <4> QED
        BY <4>1, <4>2
    <3> QED
      BY <3>1, <3>2
  <2>2. CASE m = x
    <3>1. c = "POP"
      <4>1. x \in DOMAIN ans
        BY <1>1 DEF StandsAt
      <4> QED
        BY <4>1, <2>2 DEF Answered
    <3>2. l = D
      <4>1. x \in Members(Row(hp, ls, D))
        <5>1. RowOK(N, k, par, chi, hp, ls, ch, lm, D)
          BY <1>1, <1>2, RowFacts DEF StandsAt
        <5> QED
          BY <5>1 DEF RowOK, StandsAt
      <4> QED
        BY <4>1, <2>2, <1>1, <1>2, RowsApart DEF StandsAt
    <3> DEFINE p == ch2[D]
    <3>3. p \in 1..Len(Row(hp, ls, D)) /\ k[Row(hp, ls, D)[p]] \in Pops
      BY <3>1
    <3>4. Behind(hp, ls, ch, D, p)
      BY <3>3, <1>2 DEF Behind
    <3>5. x < Row(hp, ls, D)[p]
      <4>1. x <= x
        BY <1>1
      <4> HIDE DEF p
      <4> QED
        BY <4>1, <3>4, <1>1, RestBehind
    <3>6. p <= ch2[D]
      BY <1>2
    <3> QED
      BY <3>2, <3>3, <3>5, <3>6, <2>2
  <2> QED
    BY <2>1, <2>2
<1> QED
  BY <1>5, <1>6, <1>7, <1>8 DEF GoesOn

\* What lies between a node that answered POP and the next pop is left out.
LEMMA PopSkips ==
  ASSUME NEW N, NEW H, NEW k, NEW par, NEW chi, NEW hp, NEW ls, NEW ch, NEW lm, NEW ans, NEW D, NEW x,
         StandsAt(N, H, k, par, chi, hp, ls, ch, lm, ans, D, x), NEW ans2, Answered(ans, ans2, x, "POP"),
         NEW p \in 1..Len(Row(hp, ls, D)), ch[D] < p,
         \A q \in 1..Len(Row(hp, ls, D)) : (ch[D] < q /\ q <= p) => k[Row(hp, ls, D)[q]] \notin Pops
  PROVE  Skipped(N, k, par, ans2, Row(hp, ls, D)[p])
<1> DEFINE R == Row(hp, ls, D)
           n == R[p]
<1>1. /\ D \in Nat /\ D \in 1..D /\ x \in 1..N /\ N \in Nat
      /\ R \in Seq(1..N) /\ Rising(R) /\ ch[D] \in 1..Len(R) /\ Len(R) \in Nat /\ R[ch[D]] = x
      /\ par[x] = Above(hp, ls, ch, D) /\ par[x] \in Nat /\ par[x] < x
      /\ \A q \in 1..Len(R) : R[q] \in 1..N /\ par[R[q]] = par[x]
  BY StandingList
<1>2. D = Len(ls) /\ DOMAIN ans = 1..N /\ Shape(N, H, k, par, chi, hp) /\ Walked(H, chi, hp, ls, ch, lm)
  BY DEF StandsAt
<1>3. x < n
  BY <1>1 DEF Rising
<1>4. n \in 1..N /\ par[n] = par[x]
  BY <1>1
<1>5. ans2[x] = "POP"
  BY <1>1, <1>2 DEF Answered
<1>6. k[n] \notin Pops
  <2>1. p <= p
    OBVIOUS
  <2> QED
    BY <2>1
<1>7. ASSUME NEW q \in 1..N, par[q] = par[n], x < q, q < n PROVE k[q] \notin Pops
  <2>1. q # 1 /\ par[q] = Above(hp, ls, ch, D) /\ D \in 1..Len(ls)
    BY <1>1, <1>2, <1>4, <1>7
  <2>2. PICK r \in 1..Len(R) : q = R[r]
    BY <2>1, <1>2, RowIsFull
  <2> HIDE DEF R
  <2>3. ch[D] < r
    <3> SUFFICES ASSUME ~(ch[D] < r) PROVE FALSE
      OBVIOUS
    <3>1. r = ch[D] \/ r < ch[D]
      BY <2>2, <1>1
    <3>2. q = x \/ q < x
      BY <3>1, <2>2, <1>1 DEF Rising
    <3> QED
      BY <3>2, <1>1, <1>7
  <2>4. r <= p
    <3> SUFFICES ASSUME ~(r <= p) PROVE FALSE
      OBVIOUS
    <3>1. p \in 1..Len(R)
      BY DEF R
    <3>2. p < r
      BY <3>1, <2>2
    <3>3. n < q
      BY <3>1, <3>2, <2>2, <1>1 DEF Rising
    <3> QED
      BY <3>3, <1>4, <1>7
  <2> QED
    BY <2>2, <2>3, <2>4 DEF R
<1> HIDE DEF R, n
<1>8. Skipped(N, k, par, ans2, n)
  BY <1>1, <1>3, <1>4, <1>5, <1>6, <1>7 DEF Skipped
<1> QED
  BY <1>8 DEF n, R

\* Going down to the children of x, after the answer CONTINUE.
LEMMA GoesBelow ==
  ASSUME NEW N, NEW H, NEW k, NEW par, NEW chi, NEW hp, NEW ls, NEW ch, NEW lm, NEW ans, NEW D, NEW x,
         StandsAt(N, H, k, par, chi, hp, ls, ch, lm, ans, D, x), NEW ans2, Answered(ans, ans2, x, "CONTINUE"),
         chi[x] # 0, NEW ls2, NEW ch2, NEW lm2, Lower(D, hp[chi[x]].elems, x, hp, ls, ch, ls2, ch2, lm2)
  PROVE  GoesOn(N, k, par, hp, ans2, ls2, ch2, x, "CONTINUE")
<1> DEFINE s == hp[chi[x]].elems
           R(l) == Row(hp, ls, l)
           T(l) == Row(hp, ls2, l)
<1>1. D \in Nat /\ D \in 1..D /\ x \in 1..N /\ N \in Nat
  BY StandingList
<1>2. D = Len(ls) /\ x = Stop(hp, ls, ch, D) /\ DOMAIN ans = 1..N /\ \A n \in 1..N : ~(n < x) => ans[n] = "none"
  BY DEF StandsAt
<1>3. /\ Len(ls2) = D + 1 /\ ch2[D + 1] = 1 /\ T(D + 1) = s
      /\ \A l \in 1..D : ls2[l] = ls[l] /\ ch2[l] = ch[l]
  BY DEF Lower
<1>4. \A l \in 1..D : T(l) = R(l) /\ Stop(hp, ls2, ch2, l) = Stop(hp, ls, ch, l)
  BY <1>3 DEF Row, Stop
<1>5. \A l : l \in 1..(D + 1) <=> (l \in 1..D \/ l = D + 1)
  BY <1>1
<1>6. \A l \in 1..D : l # D + 1
  BY <1>1
<1>7. s \in Seq(1..N) /\ Len(s) \in Nat /\ DOMAIN s = 1..Len(s) /\ \A n \in Members(s) : n \in 1..N /\ par[n] = x
  <2>1. ChildList(N, k, par, chi, x, s)
    BY <1>1 DEF StandsAt, Shape
  <2>2. s \in Seq(1..N) /\ \A n \in Members(s) : par[n] = x
    BY <2>1 DEF ChildList
  <2>3. Len(s) \in Nat /\ DOMAIN s = 1..Len(s) /\ \A a \in 1..Len(s) : s[a] \in 1..N
    BY <2>2, LenProperties, ElementOfSeq
  <2>4. \A n \in Members(s) : n \in 1..N
    BY <2>3 DEF Members
  <2> QED
    BY <2>2, <2>3, <2>4
<1>8. \A n \in Members(s) : x < n
  <2> SUFFICES ASSUME NEW n \in Members(s) PROVE x < n
    OBVIOUS
  <2>1. n \in 1..N /\ par[n] = x
    BY <1>7
  <2> QED
    BY <2>1, ParentsBefore DEF StandsAt
<1>9. \A p \in 1..Len(s) : s[p] \in Members(s)
  BY <1>7 DEF Members
<1> HIDE DEF s, R, T
<1>10. ASSUME NEW l \in 1..D, NEW p \in 1..Len(R(l)) PROVE Ahead(D + 1, ch2, l, p) <=> p > ch[l]
  BY <1>3, <1>6 DEF Ahead
<1>11. ASSUME NEW n \in 1..N, n <= x PROVE Passed(hp, ls2, ch2, n)
  <2> SUFFICES ASSUME NEW l \in 1..(D + 1), NEW p \in 1..Len(T(l)), Ahead(D + 1, ch2, l, p) PROVE n < T(l)[p]
    BY <1>3 DEF Passed, T
  <2>1. CASE l \in 1..D
    <3>1. Behind(hp, ls, ch, l, p) /\ T(l) = R(l)
      BY <2>1, <1>4, <1>10 DEF Behind, R
    <3>2. n < Row(hp, ls, l)[p]
      BY <3>1, <2>1, <1>11, RestBehind
    <3> QED
      BY <3>1, <3>2 DEF R
  <2>2. CASE l = D + 1
    <3> DEFINE y == s[p]
    <3>1. T(l) = s /\ p \in 1..Len(s)
      BY <2>2, <1>3
    <3>2. y \in 1..N /\ x < y
      BY <3>1, <1>7, <1>8, <1>9
    <3> HIDE DEF y
    <3>3. n < y
      BY <3>2, <1>1, <1>11
    <3> QED
      BY <3>1, <3>3 DEF y
  <2> QED
    BY <2>1, <2>2, <1>5
<1>12. ASSUME NEW n \in 1..N, x < n, Passed(hp, ls2, ch2, n) PROVE Left(N, k, par, ans2, n, x, "CONTINUE")
  <2>1. \A l \in 1..(D + 1) : \A p \in 1..Len(T(l)) : Ahead(D + 1, ch2, l, p) => n < T(l)[p]
    BY <1>3, <1>12 DEF Passed, T
  <2>2. ~(n < n)
    OBVIOUS
  <2>3. CASE par[n] = x
    <3>1. n \in Members(s)
      <4>1. n \in 2..N
        BY <1>1, <1>12
      <4> QED
        BY <4>1, <2>3 DEF StandsAt, Shape, s
    <3>2. PICK p \in 1..Len(s) : n = s[p]
      BY <3>1, <1>7 DEF Members
    <3>3. Ahead(D + 1, ch2, D + 1, p)
      <4>1. p > 1 \/ p = 1
        BY <3>2
      <4> QED
        BY <4>1, <1>3 DEF Ahead
    <3>4. n < s[p]
      <4>1. D + 1 \in 1..(D + 1)
        BY <1>1
      <4> QED
        BY <4>1, <3>3, <2>1, <1>3
    <3> QED
      BY <3>2, <3>4, <2>2
  <2>4. CASE par[n] > x
    BY <2>4 DEF Left
  <2>5. CASE \E l \in 1..D : \E p : Behind(hp, ls, ch, l, p) /\ n = Row(hp, ls, l)[p]
    <3>0. PICK l \in 1..D : \E p : Behind(hp, ls, ch, l, p) /\ n = R(l)[p]
      BY <2>5 DEF R
    <3>1. PICK p : Behind(hp, ls, ch, l, p) /\ n = R(l)[p]
      BY <3>0
    <3>2. p \in 1..Len(R(l)) /\ p > ch[l]
      BY <3>1 DEF Behind, R
    <3>3. Ahead(D + 1, ch2, l, p) /\ p \in 1..Len(T(l)) /\ T(l) = R(l) /\ l \in 1..(D + 1)
      BY <3>2, <1>4, <1>5, <1>10
    <3>4. n < T(l)[p]
      BY <3>3, <2>1
    <3> QED
      BY <3>1, <3>3, <3>4, <2>2
  <2> QED
    BY <2>3, <2>4, <2>5, <1>12, WhatFollows
<1>13. PathAnswers(ans2, hp, ls2, ch2)
  <2> SUFFICES ASSUME NEW l \in 1..D PROVE ans2[Stop(hp, ls2, ch2, l)] = "CONTINUE"
    <3>1. Len(ls2) - 1 = D
      BY <1>1, <1>3
    <3> QED
      BY <3>1 DEF PathAnswers
  <2>1. CASE l = D
    <3>1. ans2[x] = "CONTINUE"
      BY <1>1, <1>2 DEF Answered
    <3> QED
      BY <3>1, <2>1, <1>1, <1>2, <1>4
  <2>2. CASE l # D
    <3>1. l < D
      BY <2>2, <1>1
    <3> QED
      BY <3>1, <1>4, OldAnswers
  <2> QED
    BY <2>1, <2>2
<1>14. PopsReached(k, ans2, hp, ls2, ch2)
  <2> SUFFICES ASSUME NEW l \in 1..(D + 1), NEW m \in Members(T(l)), ans2[m] = "POP"
               PROVE  \E p \in 1..Len(T(l)) : p <= ch2[l] /\ m < T(l)[p] /\ k[T(l)[p]] \in Pops
    BY <1>3 DEF PopsReached, T
  <2>1. m # x
    <3>1. ans2[x] = "CONTINUE"
      BY <1>1, <1>2 DEF Answered
    <3> QED
      BY <3>1
  <2>2. CASE l \in 1..D
    <3>1. T(l) = R(l) /\ ch2[l] = ch[l]
      BY <2>2, <1>3, <1>4
    <3>2. \E p \in 1..Len(R(l)) : p <= ch[l] /\ m < R(l)[p] /\ k[R(l)[p]] \in Pops
      <4>1. m \in Members(Row(hp, ls, l))
        BY <3>1 DEF R
      <4> QED
        BY <4>1, <2>1, <2>2, OldAnswers DEF R
    <3> QED
      BY <3>1, <3>2
  <2>3. CASE l = D + 1
    <3>1. m \in Members(s)
      BY <2>3, <1>3
    <3>2. m \in 1..N /\ x < m
      BY <3>1, <1>7, <1>8
    <3>3. ~(m < x)
      BY <3>2, <1>1
    <3>4. ans2[m] = "none"
      BY <3>2, <3>3, <2>1, <1>2 DEF Answered
    <3> QED
      BY <3>4
  <2> QED
    BY <2>2, <2>3, <1>5
<1> QED
  BY <1>11, <1>12, <1>13, <1>14 DEF GoesOn

\* Going up from a list that is exhausted changes nothing of what is passed.
LEMMA GoesUp ==
  ASSUME NEW N, NEW k, NEW par, NEW fl, NEW ans, NEW H, NEW chi, NEW hp, NEW ls, NEW ch, NEW lm, NEW D,
         Shape(N, H, k, par, chi, hp), Walked(H, chi, hp, ls, ch, lm), D = Len(ls), D > 1, ch[D] > lm[D],
         OnTheWay(N, k, par, fl, ans, hp, ls, ch),
         NEW ls2, NEW up, NEW lm2, NEW ch2, Upper(D, ls, ch, lm, ls2, up, lm2),
         Moved(ls2, ch[D - 1] + 1, up, ch2)
  PROVE  /\ OnTheWay(N, k, par, fl, ans, hp, ls2, ch2)
         /\ \A n : Passed(hp, ls, ch, n) <=> Passed(hp, ls2, ch2, n)
<1> DEFINE E == D - 1
<1>1. D \in Nat /\ E \in Nat /\ E \in 1..E /\ E \in 1..D /\ D - 1 = E /\ D # E
  <2>1. D \in Nat
    BY WalkedSizes
  <2> QED
    BY <2>1
<1>2. Len(ls2) = E /\ (\A l \in 1..E : ls2[l] = ls[l] /\ up[l] = ch[l])
  BY DEF Upper
<1>3. ch2[E] = ch[E] + 1 /\ \A l \in 1..(E - 1) : ch2[l] = up[l]
  BY <1>2 DEF Moved
<1> HIDE DEF E
<1>4. \A l \in 1..D : l \in 1..E \/ l = D
  BY <1>1
<1>5. \A l \in 1..E : l \in 1..D /\ l # D /\ (l = E \/ l \in 1..(E - 1))
  BY <1>1
<1>6. \A l \in 1..D : ch[l] \in Nat /\ lm[l] = Len(Row(hp, ls, l)) /\ lm[l] \in Nat
  BY RowFacts DEF RowOK
<1>7. \A l \in 1..E : Row(hp, ls2, l) = Row(hp, ls, l)
  BY <1>2 DEF Row
<1>8. \A l \in 1..E : \A p \in 1..Len(Row(hp, ls, l)) : Ahead(D, ch, l, p) <=> Ahead(E, ch2, l, p)
  <2> SUFFICES ASSUME NEW l \in 1..E, NEW p \in 1..Len(Row(hp, ls, l))
               PROVE  p > ch[l] <=> (p > ch2[l] \/ (l = E /\ p = ch2[E]))
    BY <1>5 DEF Ahead
  <2>1. CASE l = E
    <3> DEFINE c == ch[E]
    <3>1. c \in Nat /\ p \in Nat /\ ch2[E] = c + 1
      BY <1>1, <1>3, <1>6
    <3> HIDE DEF c
    <3>2. p > c <=> (p > c + 1 \/ p = c + 1)
      BY <3>1
    <3>3. p > c <=> (p > ch2[E] \/ p = ch2[E])
      BY <3>1, <3>2
    <3> QED
      BY <3>3, <2>1 DEF c
  <2>2. CASE l # E
    BY <2>2, <1>2, <1>3, <1>5
  <2> QED
    BY <2>1, <2>2
<1>9. \A p \in 1..Len(Row(hp, ls, D)) : ~Ahead(D, ch, D, p)
  <2> SUFFICES ASSUME NEW p \in 1..Len(Row(hp, ls, D)) PROVE ~(p > ch[D]) /\ p # ch[D]
    BY DEF Ahead
  <2>1. D \in 1..D
    BY <1>1
  <2> QED
    BY <2>1, <1>6
<1>10. ASSUME NEW n PROVE Passed(hp, ls, ch, n) <=> Passed(hp, ls2, ch2, n)
  BY <1>2, <1>4, <1>5, <1>7, <1>8, <1>9 DEF Passed
<1>11. PathAnswers(ans, hp, ls2, ch2)
  <2> SUFFICES ASSUME NEW l \in 1..(E - 1) PROVE ans[Stop(hp, ls2, ch2, l)] = "CONTINUE"
    BY <1>2 DEF PathAnswers
  <2>1. l \in 1..E /\ l \in 1..(D - 1)
    BY <1>1
  <2>2. Stop(hp, ls2, ch2, l) = Stop(hp, ls, ch, l)
    BY <2>1, <1>2, <1>3 DEF Stop
  <2> QED
    BY <2>1, <2>2 DEF OnTheWay, PathAnswers
<1>12. PopsReached(k, ans, hp, ls2, ch2)
  <2> SUFFICES ASSUME NEW l \in 1..E, NEW m \in Members(Row(hp, ls, l)), ans[m] = "POP"
               PROVE  \E p \in 1..Len(Row(hp, ls, l)) :
                        p <= ch2[l] /\ m < Row(hp, ls, l)[p] /\ k[Row(hp, ls, l)[p]] \in Pops
    BY <1>2, <1>7 DEF PopsReached
  <2>1. PICK p \in 1..Len(Row(hp, ls, l)) : p <= ch[l] /\ m < Row(hp, ls, l)[p] /\ k[Row(hp, ls, l)[p]] \in Pops
    BY <1>5 DEF OnTheWay, PopsReached
  <2>2. p <= ch2[l]
    <3>1. CASE l = E
      BY <3>1, <2>1, <1>1, <1>3, <1>6
    <3>2. CASE l # E
      BY <3>2, <2>1, <1>2, <1>3, <1>5
    <3> QED
      BY <3>1, <3>2
  <2> QED
    BY <2>1, <2>2
<1> QED
  BY <1>10, <1>11, <1>12 DEF OnTheWay

\* The node whose turn it is has its turn rightly,
LEMMA TurnComes ==
  ASSUME NEW N, NEW H, NEW k, NEW par, NEW chi, NEW hp, NEW ls, NEW ch, NEW lm, NEW ans, NEW D, NEW x, NEW fl, NEW c,
         StandsAt(N, H, k, par, chi, hp, ls, ch, lm, ans, D, x), OnTheWay(N, k, par, fl, ans, hp, ls, ch),
         c # "none" <=> fl[x] # "deleted"
  PROVE  Turn(N, k, par, fl, ans, x, c)
<1>1. x \in 1..N
  BY StandingList
<1>2. DOMAIN ans = 1..N /\ \A n \in 1..N : ~(n < x) => ans[n] = "none"
  BY DEF StandsAt
<1>3. ~Skipped(N, k, par, ans, x) /\ (x # 1 => ans[par[x]] = "CONTINUE")
  BY ReachedRightly
<1>4. ASSUME NEW n \in 1..N, n < x PROVE Right(N, k, par, fl, ans, n)
  <2>1. Passed(hp, ls, ch, n)
    BY <1>4, PassedBefore
  <2> QED
    BY <2>1 DEF OnTheWay
<1> QED
  BY <1>1, <1>2, <1>3, <1>4 DEF Turn

\* and the answers are still right when the traversal has gone on from it.
LEMMA TurnPasses ==
  ASSUME NEW N, NEW H, NEW k, NEW par, NEW chi, NEW hp, NEW fl, NEW ans, NEW ans2, NEW x, NEW c, NEW ls2, NEW ch2,
         Shape(N, H, k, par, chi, hp), Turn(N, k, par, fl, ans, x, c), Answered(ans, ans2, x, c),
         GoesOn(N, k, par, hp, ans2, ls2, ch2, x, c)
  PROVE  OnTheWay(N, k, par, fl, ans2, hp, ls2, ch2)
<1>1. PathAnswers(ans2, hp, ls2, ch2) /\ PopsReached(k, ans2, hp, ls2, ch2)
  BY DEF GoesOn
<1>2. ASSUME NEW n \in 1..N, Passed(hp, ls2, ch2, n) PROVE Right(N, k, par, fl, ans2, n)
  <2>1. x < n => Left(N, k, par, ans2, n, x, c)
    BY <1>2 DEF GoesOn
  <2> QED
    BY <2>1, RightGrows
<1> QED
  BY <1>1, <1>2 DEF OnTheWay

\* At the top of the loop the traversal stands at the node it is about to call.
Here == StandsAt(Len(kind), Len(heap) - 1, kind, parent, children, heap, lists, child, limit,
                 Given(Len(kind), calls), Len(lists), Current)
\* It does so with no node called but those before it.
LEMMA StandsHere ==
  ASSUME Storage, Place, at = "visit", NoCross(Len(kind), parent), CallInv
  PROVE  Here /\ \A a \in 1..Len(calls) : calls[a].node < Current
<1> DEFINE N == Len(kind)
           H == Len(heap) - 1
           D == Len(lists)
           x == Current
           ans == Given(N, calls)
<1>1. /\ Shape(N, H, kind, parent, children, heap) /\ Walked(H, children, heap, lists, child, limit)
      /\ child[D] <= limit[D] /\ D = Len(lists)
  BY DEF Storage, Place
<1>2. Standing(N, D)
  <2> HIDE DEF D
  <2> QED
    BY <1>1, StopReadable DEF D
<1>3. /\ x = Stop(heap, lists, child, D) /\ x \in 1..N /\ D \in 1..D
      /\ RowOK(N, kind, parent, children, heap, lists, child, limit, D)
  BY <1>2 DEF Standing
<1>4. /\ Listed(N, calls) /\ PathAnswers(ans, heap, lists, child) /\ PopsReached(kind, ans, heap, lists, child)
      /\ \A a \in 1..Len(calls) : Passed(heap, lists, child, calls[a].node)
  BY DEF CallInv, OnTheWay
<1>5. DOMAIN ans = 1..N /\ \A n \in 1..N : ans[n] = AnswerIn(calls, n)
  BY DEF Given
<1>6. child[D] \in 1..Len(Row(heap, lists, D)) /\ Row(heap, lists, D)[child[D]] = x
  <2>1. child[D] \in Nat \ {0} /\ limit[D] = Len(Row(heap, lists, D)) /\ limit[D] \in Nat
    BY <1>3 DEF RowOK
  <2>2. child[D] \in 1..Len(Row(heap, lists, D))
    BY <1>1, <2>1
  <2> QED
    BY <1>3, <2>2 DEF Row, Stop
<1>7. ASSUME NEW n, Passed(heap, lists, child, n) PROVE n < x
  <2>1. Ahead(D, child, D, child[D])
    BY DEF Ahead
  <2> QED
    BY <2>1, <1>3, <1>6, <1>7 DEF Passed
<1>8. \A a \in 1..Len(calls) : calls[a].node < x
  BY <1>4, <1>7
<1>9. ASSUME NEW n \in 1..N, ~(n < x) PROVE ans[n] = "none"
  <2>1. ~\E a \in 1..Len(calls) : calls[a].node = n
    BY <1>8, <1>9
  <2> HIDE DEF N
  <2>2. AnswerIn(calls, n) = "none"
    BY <2>1, <1>4, AnswerOfNode
  <2> QED
    BY <2>2, <1>5
<1> HIDE DEF N, H, D, x, ans
<1>10. StandsAt(N, H, kind, parent, children, heap, lists, child, limit, ans, D, x)
  <2>1. NoCross(N, parent)
    BY DEF N
  <2>2. \A n \in 1..N : ~(n < x) => ans[n] = "none"
    BY <1>9
  <2> QED
    BY <2>1, <2>2, <1>1, <1>3, <1>4, <1>5 DEF StandsAt
<1> QED
  BY <1>8, <1>10 DEF Here, N, H, D, x, ans

\* How it goes on from there, after the answer c.
Onwards(ans2, c) == heap' = heap /\ GoesOn(Len(kind), kind, parent, heap, ans2, lists', child', Current, c)
NewAnswer(ans2, c) == Answered(Given(Len(kind), calls), ans2, Current, c)

\* It goes down to the first child,
LEMMA OnToChildren ==
  ASSUME Storage, Place, at = "visit", Here, NEW ans2, NewAnswer(ans2, "CONTINUE"),
         Control(Current, "CONTINUE"), children[Current] # NULL
  PROVE  Onwards(ans2, "CONTINUE")
<1> DEFINE N == Len(kind)
           H == Len(heap) - 1
           D == Len(lists)
           x == Current
           ans == Given(N, calls)
           s == heap[children[x]].elems
<1>1. StandsAt(N, H, kind, parent, children, heap, lists, child, limit, ans, D, x) /\ Answered(ans, ans2, x, "CONTINUE")
  BY DEF Here, NewAnswer
<1>2. /\ Walked(H, children, heap, lists, child, limit) /\ child[D] <= limit[D] /\ x = Stop(heap, lists, child, D)
      /\ AllLive(N, children, heap)
  BY <1>1 DEF StandsAt, Storage
<1>3. x \in 1..N
  <2> HIDE DEF N, H, D, x, ans
  <2> QED
    BY <1>1, StandingList
<1>4. heap[children[x]].live /\ children[x] # 0
  BY <1>2, <1>3 DEF AllLive, NULL
<1>5. /\ heap' = heap /\ lists' = Append(lists, children[x]) /\ child' = Append(child, 1)
      /\ limit' = Append(limit, Len(s))
  BY <1>4 DEF Control, Elems
<1>6. Descent(children, heap, lists, child, limit, x, lists', child', limit')
  BY <1>2, <1>4, <1>5 DEF Descent
<1> HIDE DEF N, H, x, s, ans
<1>8. Lower(D, heap[children[x]].elems, x, heap, lists, child, lists', child', limit')
  <2>1. Shape(N, H, kind, parent, children, heap)
    BY <1>1 DEF StandsAt
  <2> QED
    BY <2>1, <1>2, <1>6, WalkedDown DEF D
<1> HIDE DEF D
<1>9. GoesOn(N, kind, parent, heap, ans2, lists', child', x, "CONTINUE")
  BY <1>1, <1>4, <1>8, GoesBelow
<1> QED
  BY <1>5, <1>9 DEF Onwards, N, x

\* to the next node of the list,
LEMMA OnToSibling ==
  ASSUME Storage, Place, at = "visit", Here, NEW c, NEW ans2, NewAnswer(ans2, c),
         c # "POP", c = "CONTINUE" => children[Current] = NULL,
         child' = [child EXCEPT ![Len(child)] = @ + 1], UNCHANGED <<heap, lists, limit>>
  PROVE  Onwards(ans2, c)
<1> DEFINE N == Len(kind)
           H == Len(heap) - 1
           D == Len(lists)
           x == Current
           ans == Given(N, calls)
           R == Row(heap, lists, D)
           y == child[D] + 1
<1>1. StandsAt(N, H, kind, parent, children, heap, lists, child, limit, ans, D, x) /\ Answered(ans, ans2, x, c)
  BY DEF Here, NewAnswer
<1>2. Walked(H, children, heap, lists, child, limit)
  BY <1>1 DEF StandsAt
<1> HIDE DEF N, H, x, ans
<1>3. D \in Nat /\ child[D] \in 1..Len(R) /\ Len(R) \in Nat
  <2> HIDE DEF D
  <2> QED
    BY <1>1, StandingList
<1>4. Len(child) = D /\ Len(lists) = D
  BY <1>2, WalkedSizes
<1>5. y \in Nat \ {0} /\ child[D] \in Nat /\ y > child[D]
  <2> DEFINE z == child[D]
             L == Len(R)
  <2>1. z \in 1..L /\ L \in Nat
    BY <1>3
  <2> HIDE DEF z, L
  <2>2. z + 1 \in Nat \ {0} /\ z \in Nat /\ z + 1 > z
    BY <2>1
  <2> QED
    BY <2>2 DEF z
<1>6. child' = [child EXCEPT ![Len(lists)] = y]
  BY <1>4
<1> HIDE DEF y, D, R
<1>7. Moved(lists, y, child, child')
  BY <1>2, <1>5, <1>6, WalkedMoves
<1>8. child'[D] = y /\ \A l \in 1..(D - 1) : child'[l] = child[l]
  BY <1>4, <1>7 DEF Moved
<1>9. Onto(D, lists, child, child')
  BY <1>4, <1>5, <1>8 DEF Onto
<1>10. ASSUME NEW p \in 1..Len(Row(heap, lists, D)), child[D] < p, p < child'[D] PROVE FALSE
  <2>1. p \in Nat /\ p < y
    BY <1>8, <1>10
  <2>2. y = child[D] + 1
    BY DEF y
  <2> DEFINE z == child[D]
  <2>3. z \in Nat /\ z < p /\ p < z + 1
    BY <2>1, <2>2, <1>5, <1>10
  <2> HIDE DEF z
  <2> QED
    BY <2>1, <2>3
<1>11. c = "CONTINUE" => children[x] = 0
  BY DEF x, NULL
<1>12. GoesOn(N, kind, parent, heap, ans2, lists, child', x, c)
  BY <1>1, <1>9, <1>10, <1>11, GoesOnward
<1> QED
  BY <1>12 DEF Onwards, N, x

\* or to the next pop of the list.
LEMMA OnToPop ==
  ASSUME Storage, Place, at = "visit", Here, NEW ans2, NewAnswer(ans2, "POP"),
         Control(Current, "POP"), MayPop(Current)
  PROVE  Onwards(ans2, "POP")
<1> DEFINE N == Len(kind)
           H == Len(heap) - 1
           D == Len(lists)
           x == Current
           ans == Given(N, calls)
           s == Row(heap, lists, D)
           pops == {q \in DOMAIN s : q > child[D] /\ kind[s[q]] \in {"pop", "xpop"}}
           y == CHOOSE q \in pops : \A z \in pops : q <= z
<1>1. StandsAt(N, H, kind, parent, children, heap, lists, child, limit, ans, D, x) /\ Answered(ans, ans2, x, "POP")
  BY DEF Here, NewAnswer
<1>2. Walked(H, children, heap, lists, child, limit) /\ Len(child) = D /\ child[D] <= limit[D] /\ D = Len(lists)
  BY <1>1, WalkedSizes DEF StandsAt
<1>3. Standing(N, D)
  <2> HIDE DEF D
  <2> QED
    BY <1>2, StopReadable DEF D
<1>4. s \in Seq(1..N) /\ Paired(kind, s) /\ limit[D] = Len(s) /\ child[D] \in Nat \ {0}
  BY <1>3 DEF Standing, RowOK
<1>5. Elems(Top(lists)) = s /\ Top(child) = child[D]
  BY <1>3 DEF Standing
<1>6. \E q \in 1..child[D] : kind[s[q]] = "push" /\ \A z \in q..child[D] : kind[s[z]] \notin {"pop", "xpop"}
  BY <1>5 DEF MayPop
<1>7. pops # {} /\ y \in Nat \ {0} /\ y <= Len(s)
  <2>1. child[D] <= Len(s)
    BY <1>2, <1>4
  <2> QED
    BY <2>1, <1>4, <1>6, PopIsThere
<1>8. DOMAIN s = 1..Len(s) /\ Len(s) \in Nat
  BY <1>4, LenProperties
<1>9. y \in pops /\ \A z \in pops : y <= z
  <2>1. \E q \in pops : \A z \in pops : q <= z
    <3>1. pops \in SUBSET Nat
      BY <1>8
    <3> HIDE DEF pops
    <3> QED
      BY <3>1, <1>7, LeastExists
  <2> HIDE DEF pops
  <2> QED
    BY <2>1
<1>10. child' = [child EXCEPT ![Len(child)] = y] /\ UNCHANGED <<heap, lists, limit>>
  BY <1>5, <1>7 DEF Control
<1>11. y \in 1..Len(s) /\ y > child[D] /\ kind[s[y]] \in Pops
  BY <1>8, <1>9 DEF Pops
<1>12. ASSUME NEW q \in 1..Len(s), child[D] < q, q < y PROVE kind[s[q]] \notin Pops
  <2> SUFFICES ASSUME kind[s[q]] \in Pops PROVE FALSE
    OBVIOUS
  <2>1. q > child[D]
    BY <1>4, <1>12
  <2>2. q \in pops
    BY <2>1, <1>8 DEF Pops
  <2>3. y <= q
    BY <2>2, <1>9
  <2>4. y \in Nat /\ q \in Nat
    BY <1>7
  <2> HIDE DEF y, pops, s
  <2> QED
    BY <2>3, <2>4, <1>12
<1> HIDE DEF N, H, D, x, ans, s, pops, y
<1>13. child' = [child EXCEPT ![Len(lists)] = y] /\ Len(lists) = D
  BY <1>2, <1>10 DEF D
<1>14. Moved(lists, y, child, child')
  BY <1>2, <1>7, <1>13, WalkedMoves
<1>15. child'[D] = y /\ \A l \in 1..(D - 1) : child'[l] = child[l]
  BY <1>13, <1>14 DEF Moved
<1>16. Onto(D, lists, child, child')
  BY <1>7, <1>11, <1>13, <1>15 DEF Onto
<1>17. child'[D] \in 1..Len(Row(heap, lists, D)) /\ kind[Row(heap, lists, D)[child'[D]]] \in Pops
  BY <1>11, <1>15 DEF s
<1>18. ASSUME NEW p \in 1..Len(Row(heap, lists, D)), child[D] < p, p < child'[D]
       PROVE  Skipped(N, kind, parent, ans2, Row(heap, lists, D)[p])
  <2>1. ASSUME NEW q \in 1..Len(Row(heap, lists, D)), child[D] < q, q <= p
        PROVE  kind[Row(heap, lists, D)[q]] \notin Pops
    <3>1. q \in 1..Len(s) /\ p \in Nat
      BY DEF s
    <3>2. q < y
      BY <3>1, <2>1, <1>7, <1>15, <1>18
    <3> QED
      BY <3>1, <3>2, <2>1, <1>12 DEF s
  <2> QED
    BY <2>1, <1>1, <1>18, PopSkips
<1>19. "POP" # "CONTINUE"
  OBVIOUS
<1>20. GoesOn(N, kind, parent, heap, ans2, lists, child', x, "POP")
  BY <1>1, <1>16, <1>17, <1>18, <1>19, GoesOnward
<1> QED
  BY <1>10, <1>20 DEF Onwards, N, x

\* What the order of the calls needs of a step from the top of the loop.
Ready == Storage /\ Place /\ at = "visit" /\ NoCross(Len(kind), parent) /\ CallInv
LEMMA GoesOnRightly ==
  ASSUME Ready, NEW code \in AllCodes, code # "EXIT", Control(Current, code), code = "POP" => MayPop(Current),
         NEW c, c = code \/ (c = "none" /\ code = "SIBLING"), NEW ans2, NewAnswer(ans2, c)
  PROVE  Onwards(ans2, c)
<1>1. Storage /\ Place /\ at = "visit" /\ Here
  BY StandsHere DEF Ready
<1>2. CASE code = "POP"
  BY <1>1, <1>2, OnToPop
<1>3. CASE code = "CONTINUE" /\ children[Current] # NULL
  BY <1>1, <1>3, OnToChildren
<1>4. CASE code \in {"SIBLING", "UP", "TRAVERSE"} \/ (code = "CONTINUE" /\ children[Current] = NULL)
  <2>1. child' = [child EXCEPT ![Len(child)] = @ + 1] /\ UNCHANGED <<heap, lists, limit>>
    BY <1>4 DEF Control
  <2>2. c # "POP" /\ (c = "CONTINUE" => children[Current] = NULL)
    BY <1>4
  <2> QED
    BY <2>1, <2>2, <1>1, OnToSibling
<1> QED
  BY <1>2, <1>3, <1>4 DEF AllCodes

\* The step of a node that is not called,
SameFlags == SameModel /\ flag' = flag
LEMMA SkipInOrder ==
  ASSUME Ready, flag[Current] = "deleted", Control(Current, "SIBLING"), SameFlags, calls' = calls
  PROVE  CallInv'
<1> DEFINE N == Len(kind)
           ans == Given(N, calls)
           x == Current
<1>1. Here /\ \A a \in 1..Len(calls) : calls[a].node < x
  BY StandsHere DEF Ready
<1>2. DOMAIN ans = 1..N /\ \A n \in 1..N : ~(n < x) => ans[n] = "none"
  BY <1>1 DEF Here, StandsAt
<1>3. x \in 1..N
  BY <1>1, StandingList DEF Here
<1>4. NewAnswer(ans, "none")
  <2>1. ~(x < x)
    BY <1>3
  <2> QED
    BY <2>1, <1>2, <1>3 DEF NewAnswer, Answered
<1>5. Onwards(ans, "none")
  <2>1. "SIBLING" \in AllCodes
    BY DEF AllCodes
  <2> QED
    BY <2>1, <1>4, GoesOnRightly
<1>6. Listed(N, calls) /\ OnTheWay(N, kind, parent, flag, ans, heap, lists, child)
  BY DEF Ready, CallInv
<1>7. Turn(N, kind, parent, flag, ans, x, "none")
  BY <1>1, <1>6, TurnComes DEF Here
<1>8. Shape(N, Len(heap) - 1, kind, parent, children, heap)
  BY DEF Ready, Storage
<1>9. OnTheWay(N, kind, parent, flag, ans, heap, lists', child')
  BY <1>4, <1>5, <1>7, <1>8, TurnPasses DEF NewAnswer, Onwards
<1>10. ASSUME NEW a \in 1..Len(calls) PROVE Passed(heap, lists', child', calls[a].node)
  <2>1. calls[a].node \in 1..N
    BY <1>6, AnswerOfCall
  <2>2. calls[a].node <= x
    BY <2>1, <1>1, <1>3
  <2> QED
    BY <2>1, <2>2, <1>5 DEF Onwards, GoesOn
<1> QED
  BY <1>5, <1>6, <1>9, <1>10 DEF CallInv, SameFlags, SameModel, Onwards

\* and of one that is called.
LEMMA CallInOrder ==
  ASSUME Ready, NEW code \in AllCodes, flag[Current] # "deleted", Control(Current, code), code = "POP" => MayPop(Current),
         SameFlags, calls' = Append(calls, [node |-> Current, code |-> code])
  PROVE  (code # "EXIT" => CallInv') /\ (code = "EXIT" => Exited' /\ at' = "done")
<1> DEFINE N == Len(kind)
           ans == Given(N, calls)
           ans2 == Given(N, calls')
           x == Current
<1>1. Here /\ \A a \in 1..Len(calls) : calls[a].node < x
  BY StandsHere DEF Ready
<1>2. x \in 1..N /\ N \in Nat
  BY <1>1, StandingList DEF Here
<1>3. Listed(N, calls) /\ OnTheWay(N, kind, parent, flag, ans, heap, lists, child)
  BY DEF Ready, CallInv
<1>4. /\ Listed(N, calls') /\ Answered(ans, ans2, x, code)
      /\ \A a \in 1..Len(calls') : calls'[a].node <= x
      /\ \E a \in DOMAIN calls' : calls'[a].code = code
  <2> DEFINE cs == calls
             cs2 == calls'
  <2>1. Listed(N, cs) /\ (\A a \in 1..Len(cs) : cs[a].node < x) /\ cs2 = Append(cs, [node |-> x, code |-> code])
    BY <1>1, <1>3
  <2> HIDE DEF N, x, cs, cs2
  <2>a. CalledNext(N, cs, x, code, cs2)
    BY <2>1, <1>2 DEF CalledNext
  <2>2. /\ Listed(N, cs2) /\ Answered(Given(N, cs), Given(N, cs2), x, code)
        /\ \A a \in 1..Len(cs2) : cs2[a].node <= x
        /\ \E a \in DOMAIN cs2 : cs2[a].code = code
    BY <2>a, CallsGrow
  <2> QED
    BY <2>2 DEF cs, cs2
<1>5. ASSUME code = "EXIT" PROVE Exited' /\ at' = "done"
  BY <1>4, <1>5 DEF Exited, Control
<1>6. ASSUME code # "EXIT" PROVE CallInv'
  <2>1. NewAnswer(ans2, code)
    BY <1>4 DEF NewAnswer
  <2>2. Onwards(ans2, code)
    BY <2>1, <1>6, GoesOnRightly
  <2>3. code # "none"
    BY DEF AllCodes
  <2>4. Turn(N, kind, parent, flag, ans, x, code)
    BY <2>3, <1>1, <1>3, TurnComes DEF Here
  <2>5. Shape(N, Len(heap) - 1, kind, parent, children, heap)
    BY DEF Ready, Storage
  <2>6. OnTheWay(N, kind, parent, flag, ans2, heap, lists', child')
    BY <2>2, <2>4, <2>5, <1>4, TurnPasses DEF Onwards
  <2>7. ASSUME NEW a \in 1..Len(calls') PROVE Passed(heap, lists', child', calls'[a].node)
    <3>1. calls'[a].node \in 1..N
      BY <1>4, AnswerOfCall
    <3> QED
      BY <3>1, <2>2, <1>4 DEF Onwards, GoesOn
  <2> QED
    BY <2>2, <2>6, <2>7, <1>4 DEF CallInv, SameFlags, SameModel, Onwards
<1> QED
  BY <1>5, <1>6

\* Going up,
LEMMA UpInOrder ==
  ASSUME Storage, Place, CallInv, Up
  PROVE  CallInv'
<1> DEFINE N == Len(kind)
           H == Len(heap) - 1
           D == Len(lists)
           up == Drop(child)
           y == child[D - 1] + 1
           ans == Given(N, calls)
<1>1. /\ lists' = Drop(lists) /\ limit' = Drop(limit) /\ child' = [up EXCEPT ![Len(child) - 1] = @ + 1]
      /\ SameHeap /\ flag' = flag /\ calls' = calls /\ Depth0 > 0 /\ Top(child) > Top(limit)
  BY DEF Up, vars, SameHeap, SameModel
<1>2. Walked(H, children, heap, lists, child, limit) /\ Shape(N, H, kind, parent, children, heap)
  BY DEF Place, Storage
<1>3. D \in Nat /\ Len(child) = D /\ Len(limit) = D
  BY <1>2, WalkedSizes
<1>4. D - 1 > 0 /\ child[D] > limit[D]
  BY <1>1, <1>3 DEF Depth0, Top
<1>5. lists' = Shorter(lists) /\ limit' = Shorter(limit) /\ up = Shorter(child) /\ Len(lists) = D
  BY <1>1 DEF Drop, Shorter
<1>6. child \in Seq(Nat \ {0})
  BY <1>2 DEF Walked
<1>7. OnTheWay(N, kind, parent, flag, ans, heap, lists, child) /\ \A a \in 1..Len(calls) : Passed(heap, lists, child, calls[a].node)
  BY DEF CallInv
<1> HIDE DEF N, H, D, up, ans
<1>8. D > 1 /\ D - 1 \in 1..(D - 1) /\ D - 1 \in 1..Len(child)
  BY <1>3, <1>4
<1>9. Walked(H, children, heap, lists', up, limit') /\ Upper(D, lists, child, limit, lists', up, limit')
  BY <1>2, <1>5, <1>8, WalkedUp
<1>10. Len(lists') = D - 1 /\ up[D - 1] = child[D - 1]
  BY <1>8, <1>9 DEF Upper
<1>11. child' = [up EXCEPT ![Len(lists')] = y]
  BY <1>1, <1>3, <1>10
<1>12. child[D - 1] \in Nat \ {0}
  BY <1>6, <1>8, ElementOfSeq
<1>13. y \in Nat \ {0}
  BY <1>12
<1> HIDE DEF y
<1>14. Moved(lists', y, up, child')
  BY <1>9, <1>11, <1>13, WalkedMoves
<1>15. Moved(lists', child[D - 1] + 1, up, child')
  BY <1>14 DEF y
<1>16. /\ OnTheWay(N, kind, parent, flag, ans, heap, lists', child')
       /\ \A n : Passed(heap, lists, child, n) <=> Passed(heap, lists', child', n)
  BY <1>2, <1>4, <1>5, <1>7, <1>8, <1>9, <1>15, GoesUp
<1>17. \A a \in 1..Len(calls) : Passed(heap, lists', child', calls[a].node)
  BY <1>7, <1>16
<1> QED
  BY <1>1, <1>16, <1>17 DEF CallInv, SameHeap, SameModel, N, ans

\* and behind the root.
LEMMA EndInOrder ==
  ASSUME Storage, Place, at = "up", CallInv, UpEnds
  PROVE  (at' = "visit" => CallInv') /\ (at' = "done" => AllRight')
<1> DEFINE N == Len(kind)
           D == Len(lists)
           ans == Given(N, calls)
<1>1. SameFlags /\ lists' = lists /\ child' = child /\ calls' = calls
  BY DEF UpEnds, SameFlags, SameModel
<1>2. ASSUME at' = "visit" PROVE CallInv'
  <2>1. heap' = heap
    BY <1>2 DEF UpEnds
  <2> QED
    BY <2>1, <1>1 DEF CallInv, SameFlags, SameModel
<1>3. ASSUME at' = "done" PROVE AllRight'
  <2>1. child[1] > limit[1]
    BY <1>3 DEF UpEnds
  <2>2. Walked(Len(heap) - 1, children, heap, lists, child, limit)
    BY DEF Place
  <2>3. /\ D \in Nat /\ D > 0 /\ Len(child) = D /\ child \in Seq(Nat \ {0}) /\ limit \in Seq(Nat) /\ Len(limit) = D
        /\ \A l \in 1..D : limit[l] = Len(Row(heap, lists, l))
        /\ \A l \in 1..(D - 1) : child[l] <= limit[l]
    BY <2>2, WalkedSizes DEF Walked
  <2> HIDE DEF D
  <2>4. child[1] \in Nat /\ limit[1] \in Nat
    <3>1. 1 \in 1..D
      BY <2>3
    <3>2. child[1] \in Nat \ {0} /\ limit[1] \in Nat
      BY <3>1, <2>3, ElementOfSeq
    <3> QED
      BY <3>2
  <2>5. D = 1
    <3> SUFFICES ASSUME D # 1 PROVE FALSE
      OBVIOUS
    <3>1. 1 \in 1..(D - 1)
      BY <2>3
    <3>2. child[1] <= limit[1]
      BY <3>1, <2>3
    <3> QED
      BY <3>2, <2>1, <2>4
  <2>6. \A p \in 1..Len(Row(heap, lists, 1)) : ~Ahead(1, child, 1, p)
    <3>1. limit[1] = Len(Row(heap, lists, 1))
      BY <2>3, <2>5
    <3> DEFINE L == Len(Row(heap, lists, 1))
               c == child[1]
    <3>2. c \in Nat /\ L \in Nat /\ c > L
      BY <3>1, <2>1, <2>4
    <3> HIDE DEF L, c
    <3>3. \A p \in 1..L : ~(p > c) /\ p # c
      BY <3>2
    <3> QED
      BY <3>3 DEF Ahead, L, c
  <2>7. \A l \in 1..D : l = 1
    BY <2>5
  <2>8. ASSUME NEW n PROVE Passed(heap, lists, child, n)
    BY <2>5, <2>6, <2>7 DEF Passed, D
  <2>9. Listed(N, calls) /\ \A n \in 1..N : Right(N, kind, parent, flag, ans, n)
    BY <2>8 DEF CallInv, OnTheWay
  <2> QED
    BY <2>9, <1>1 DEF AllRight, SameFlags, SameModel
<1> QED
  BY <1>2, <1>3

\* At the root nothing has been called.
LEMMA NothingCalled ==
  ASSUME NEW N, NEW H, NEW k, NEW par, NEW chi, NEW hp, NEW ls, NEW ch, NEW lm, NEW fl,
         Shape(N, H, k, par, chi, hp), Walked(H, chi, hp, ls, ch, lm), Len(ls) = 1, ch[1] = 1
  PROVE  Listed(N, <<>>) /\ OnTheWay(N, k, par, fl, Given(N, <<>>), hp, ls, ch)
<1> DEFINE ans == Given(N, <<>>)
<1>1. N \in Nat /\ Row(hp, ls, 1) = <<1>>
  BY DEF Shape, Walked, Row
<1>2. \A n \in 1..N : ans[n] = "none"
  BY DEF Given, AnswerIn
<1> HIDE DEF ans
<1>3. Listed(N, <<>>)
  BY DEF Listed, InOrder
<1>4. ASSUME NEW n \in 1..N, Passed(hp, ls, ch, n) PROVE FALSE
  <2>1. Ahead(1, ch, 1, 1) /\ 1 \in 1..1 /\ 1 \in 1..Len(<<1>>) /\ <<1>>[1] = 1
    BY DEF Ahead
  <2>2. n < 1
    BY <2>1, <1>1, <1>4 DEF Passed
  <2> QED
    BY <2>2
<1>5. PathAnswers(ans, hp, ls, ch)
  BY DEF PathAnswers
<1>6. PopsReached(k, ans, hp, ls, ch)
  <2> SUFFICES ASSUME NEW l \in 1..1, NEW m \in Members(Row(hp, ls, l)) PROVE ans[m] # "POP"
    BY DEF PopsReached
  <2>1. Row(hp, ls, l) = <<1>> /\ Members(<<1>>) = {1}
    BY <1>1 DEF Members
  <2>2. m \in 1..N
    BY <2>1 DEF Shape
  <2> QED
    BY <2>2, <1>2
<1> QED
  BY <1>3, <1>4, <1>5, <1>6 DEF OnTheWay, ans
\* That is how a traversal begins.
LEMMA StartInOrder ==
  ASSUME AtRest, NEW x \in Jobs, prf_model_traverse_io(x), InWalk'
  PROVE  CallInv'
<1>1. lists' = <<Len(heap) + 1>> /\ child' = <<1>> /\ calls' = <<>> /\ at' = "visit"
  BY DEF prf_model_traverse_io
<1>2. Storage' /\ Place'
  BY <1>1 DEF InWalk, WalkInv, Position
<1> DEFINE N == Len(kind')
           H == Len(heap') - 1
           ls == lists'
           ch == child'
<1>3. /\ Shape(N, H, kind', parent', children', heap')
      /\ Walked(H, children', heap', ls, ch, limit')
  BY <1>2 DEF Storage, Place
<1>4. Len(ls) = 1 /\ ch[1] = 1
  BY <1>1
<1> HIDE DEF N, H, ls, ch
<1>5. Listed(N, <<>>) /\ OnTheWay(N, kind', parent', flag', Given(N, <<>>), heap', ls, ch)
  BY <1>3, <1>4, NothingCalled
<1> QED
  BY <1>1, <1>5 DEF CallInv, N, ls, ch

\* What a step from the top of the loop leaves,
CallsSettled == ((Whole /\ InWalk /\ at # "done") => CallInv) /\ ((Whole /\ InWalk /\ at = "done" /\ ~Exited) => AllRight)
LEMMA CallSettled ==
  ASSUME Ready, NEW code \in AllCodes, flag[Current] # "deleted", Control(Current, code), code = "POP" => MayPop(Current),
         SameFlags, calls' = Append(calls, [node |-> Current, code |-> code])
  PROVE  CallsSettled'
<1>1. (code # "EXIT" => CallInv') /\ (code = "EXIT" => Exited' /\ at' = "done")
  BY CallInOrder
<1>2. code # "EXIT" => at' # "done"
  BY DEF Control
<1> QED
  BY <1>1, <1>2 DEF CallsSettled

\* and any step of a traversal in order.
LEMMA WalkSettled ==
  ASSUME InWalk, NoCross(Len(kind), parent), CallsSettled, Whole, Traverse
  PROVE  CallsSettled'
<1>1. ASSUME at # "done" PROVE Storage /\ Place /\ CallInv
  BY <1>1 DEF InWalk, WalkInv, Position, CallsSettled
<1>2. ASSUME at = "visit" PROVE Ready
  BY <1>1, <1>2 DEF Ready
<1>3. ASSUME NEW code \in Codes, VisitUser(code) PROVE CallsSettled'
  <2>1. /\ at = "visit" /\ flag[Current] # "deleted" /\ Control(Current, code) /\ (code = "POP" => MayPop(Current))
        /\ SameFlags /\ calls' = Append(calls, [node |-> Current, code |-> code])
    BY <1>3 DEF VisitUser, Call, SameFlags, SameModel
  <2>2. code \in AllCodes
    BY TraverseAssumption DEF AllCodes
  <2> QED
    BY <2>1, <2>2, <1>2, CallSettled
<1>4. CASE VisitSave
  <2> DEFINE code == save_cb(Current)
  <2>1. /\ at = "visit" /\ flag[Current] # "deleted" /\ Control(Current, code)
        /\ SameFlags /\ calls' = Append(calls, [node |-> Current, code |-> code])
    BY <1>4 DEF VisitSave, Call, SameFlags, SameModel
  <2>2. code \in AllCodes /\ code # "POP"
    BY DEF AllCodes, save_cb
  <2> HIDE DEF code
  <2> QED
    BY <2>1, <2>2, <1>2, CallSettled
<1>5. CASE VisitClone
  <2>1. at = "visit" /\ flag[Current] # "deleted" /\ clone_cb(Current) /\ SameFlags
    BY <1>5 DEF VisitClone, SameFlags, SameModel
  <2>2. CASE at' = "dead"
    BY <2>2 DEF CallsSettled, InWalk
  <2>3. CASE Call(Current, "CONTINUE")
    <3>1. Control(Current, "CONTINUE") /\ calls' = Append(calls, [node |-> Current, code |-> "CONTINUE"])
      BY <2>3 DEF Call
    <3>2. "CONTINUE" \in AllCodes /\ "CONTINUE" # "POP"
      BY DEF AllCodes
    <3> QED
      BY <3>1, <3>2, <2>1, <1>2, CallSettled
  <2> QED
    BY <2>1, <2>2, <2>3 DEF clone_cb
<1>6. CASE Skip
  <2>1. at = "visit" /\ flag[Current] = "deleted" /\ Control(Current, "SIBLING") /\ SameFlags /\ calls' = calls
    BY <1>6 DEF Skip, SameFlags, SameModel
  <2>2. CallInv'
    BY <2>1, <1>2, SkipInOrder
  <2>3. at' # "done"
    BY <2>1 DEF Control
  <2> QED
    BY <2>2, <2>3 DEF CallsSettled
<1>7. CASE Up
  <2>1. at = "up" /\ at' = "up"
    BY <1>7 DEF Up
  <2>2. CallInv'
    BY <2>1, <1>1, <1>7, UpInOrder
  <2> QED
    BY <2>1, <2>2 DEF CallsSettled
<1>8. CASE UpEnds
  <2>1. at = "up" /\ at' \in {"visit", "done"}
    BY <1>8 DEF UpEnds
  <2>2. (at' = "visit" => CallInv') /\ (at' = "done" => AllRight')
    BY <2>1, <1>1, <1>8, EndInOrder
  <2> QED
    BY <2>1, <2>2 DEF CallsSettled
<1>9. CASE Done
  BY <1>9 DEF Done, CallsSettled, InWalk
<1> QED
  BY <1>3, <1>4, <1>5, <1>6, <1>7, <1>8, <1>9 DEF Traverse

\* The order holds before the first record is read, and every step keeps it.
LEMMA OrderInit == BInit => OrderInv
BY DEF BInit, TInit, Init, OrderInv, Complete, InWalk

\* Every other step leaves the model as it is and no traversal in order under way.
SameTree == kind' = kind /\ parent' = parent /\ level' = level /\ status' = status
LEMMA StepsBeside ==
  ASSUME [BNext]_allvars
  PROVE  \/ Load \/ (\E x \in Jobs : prf_model_traverse_io(x)) \/ Traverse \/ UNCHANGED allvars
         \/ SameTree /\ at' \notin {"visit", "up", "done"}
<1>1. ASSUME NEW n \in Nodes, NEW f \in {"deleted", "virtual"}, FlagNode(n, f)
      PROVE  SameTree /\ at' \notin {"visit", "up", "done"}
  BY <1>1 DEF FlagNode, vars, walk, SameTree
<1>2. CASE prf_model_traverse_bf
  BY <1>2 DEF prf_model_traverse_bf, model, SameTree
<1>3. CASE Breadth
  <2>1. ASSUME NEW code, VisitBreadth(code) PROVE SameTree /\ at' \in {"end", "node"}
    BY <2>1 DEF VisitBreadth, model, SameTree
  <2>2. CASE NextList
    BY <2>2 DEF NextList, model, SameTree
  <2>3. CASE ListEnds
    BY <2>3 DEF ListEnds, model, SameTree
  <2>4. CASE ListGone
    BY <2>4 DEF ListGone, model, SameTree
  <2>5. CASE Rotate
    BY <2>5 DEF Rotate, model, SameTree
  <2>6. CASE EndBreadth
    BY <2>6 DEF EndBreadth, model, SameTree
  <2>7. CASE ReturnBreadth
    BY <2>7 DEF ReturnBreadth, model, SameTree
  <2> QED
    BY <1>3, <2>1, <2>2, <2>3, <2>4, <2>5, <2>6, <2>7 DEF Breadth
<1> QED
  BY <1>1, <1>2, <1>3 DEF BNext, TNext

\* A traversal in order on a whole model has been under way on a whole model.
LEMMA WalkBefore ==
  ASSUME TInv, Traverse
  PROVE  SameTree /\ (Whole' => Whole /\ InWalk)
<1>1. /\ SameTree /\ at \in {"visit", "up", "done"} /\ broken \in BOOLEAN
      /\ (broken' = FALSE => broken = FALSE) /\ broken' \in BOOLEAN
  <2>1. broken \in BOOLEAN /\ broken' \in BOOLEAN
    BY TraverseStep DEF TInv
  <2>2. ASSUME NEW n, NEW code, Control(n, code) PROVE broken' = FALSE => broken = FALSE
    BY <2>1, <2>2 DEF Control
  <2>3. ASSUME NEW code \in Codes, VisitUser(code)
        PROVE  SameTree /\ at = "visit" /\ Control(Current, code)
    BY <2>3 DEF VisitUser, Call, SameTree
  <2>4. CASE VisitSave
    <3>1. SameTree /\ at = "visit" /\ Control(Current, save_cb(Current))
      BY <2>4 DEF VisitSave, Call, SameTree
    <3> QED
      BY <3>1, <2>1, <2>2
  <2>5. CASE VisitClone
    <3>1. SameTree /\ at = "visit" /\ (broken' = broken \/ Control(Current, "CONTINUE"))
      BY <2>5 DEF VisitClone, clone_cb, Call, SameTree
    <3> QED
      BY <3>1, <2>1, <2>2
  <2>6. CASE Skip
    <3>1. SameTree /\ at = "visit" /\ Control(Current, "SIBLING")
      BY <2>6 DEF Skip, SameTree
    <3> QED
      BY <3>1, <2>1, <2>2
  <2>7. CASE Up
    BY <2>1, <2>7 DEF Up, vars, SameTree
  <2>8. CASE UpEnds
    BY <2>1, <2>8 DEF UpEnds, SameTree
  <2>9. CASE Done
    BY <2>1, <2>9 DEF Done, SameTree
  <2> QED
    BY <2>1, <2>2, <2>3, <2>4, <2>5, <2>6, <2>7, <2>8, <2>9 DEF Traverse
<1>2. Whole' => Whole /\ InWalk
  <2>1. Whole' => Whole
    BY <1>1 DEF Whole, SameTree
  <2>2. Whole => InWalk
    BY <1>1 DEF TInv, WholeInv, InLevels
  <2> QED
    BY <2>1, <2>2
<1> QED
  BY <1>1, <1>2

\* So the order is kept by every step.
LEMMA OrderNext == TInv /\ OrderInv /\ [BNext]_allvars => OrderInv'
<1> SUFFICES ASSUME TInv, OrderInv, [BNext]_allvars PROVE OrderInv'
  OBVIOUS
<1>0. (Complete => NoCross(Len(kind), parent)) /\ CallsSettled
  BY DEF OrderInv, CallsSettled
<1>1. CASE Load
  <2>1. LoadRecord /\ at' = at
    BY <1>1 DEF Load, walk
  <2>2. status = "loading"
    BY <2>1 DEF LoadRecord, LoadPrimary, LoadPop, LoadDies, LoadPush, LoadAncillary, LoadFails, EndOfFile, TrailingGarbage, Record
  <2>3. IInv /\ MoreInv /\ at = "idle"
    BY <2>2 DEF TInv
  <2>4. [Next]_vars
    BY <2>1 DEF Next
  <2>5. IInv' /\ MoreInv'
    BY <2>3, <2>4, NextOK, NextMore
  <2>6. (IInv /\ MoreInv /\ Complete => NoCross(Len(kind), parent))'
    BY TreeIsNested, PTL
  <2> QED
    BY <2>1, <2>3, <2>5, <2>6 DEF OrderInv, InWalk
<1>2. ASSUME NEW x \in Jobs, prf_model_traverse_io(x) PROVE OrderInv'
  <2>1. /\ status = "loaded" /\ at = "idle" /\ status' = status /\ broken' = broken /\ level' = level
        /\ kind' = kind /\ parent' = parent /\ at' = "visit"
    BY <1>2 DEF prf_model_traverse_io
  <2>2. Whole => AtRest
    BY <2>1 DEF TInv, WholeInv, InWalk, InLevels
  <2>3. Whole' => Whole
    BY <2>1 DEF Whole
  <2>4. ASSUME Whole', InWalk' PROVE CallInv'
    BY <2>2, <2>3, <2>4, <1>2, StartInOrder
  <2> QED
    BY <2>1, <2>4, <1>0 DEF OrderInv, Complete
<1>3. CASE Traverse
  <2>1. SameTree /\ (Whole' => Whole /\ InWalk)
    BY <1>3, WalkBefore
  <2>2. ASSUME Whole' PROVE CallsSettled'
    <3>1. Whole /\ InWalk
      BY <2>1, <2>2
    <3>2. NoCross(Len(kind), parent)
      BY <3>1, <1>0 DEF InWalk, Whole, Complete
    <3> QED
      BY <3>1, <3>2, <1>0, <1>3, WalkSettled
  <2>3. CallsSettled'
    BY <2>2 DEF CallsSettled
  <2> QED
    BY <2>1, <2>3, <1>0 DEF OrderInv, CallsSettled, Complete, SameTree
<1>4. CASE SameTree /\ at' \notin {"visit", "up", "done"}
  BY <1>0, <1>4 DEF OrderInv, Complete, InWalk, SameTree
<1>5. CASE UNCHANGED allvars
  <2>1. UNCHANGED <<kind, parent, children, heap, stack, level, status, flag, job, at, lists, child, limit, copy, broken, calls>>
    BY <1>5 DEF allvars, tvars, vars, walk, bvars
  <2>2. Storage' = Storage
    BY <2>1 DEF Storage
  <2>3. InWalk' = InWalk
    BY <2>1, <2>2 DEF InWalk, WalkInv, Position, Place, HeaderFirst, Clonable, Nodes
  <2>4. CallInv' = CallInv /\ AllRight' = AllRight /\ Exited' = Exited /\ Whole' = Whole
    BY <2>1 DEF CallInv, AllRight, Exited, Whole
  <2> QED
    BY <2>1, <2>3, <2>4 DEF OrderInv, Complete
<1> QED
  BY <1>1, <1>2, <1>3, <1>4, <1>5, StepsBeside

\* The recursion of Visible as a function has a result, and only one: the nodes
\* that were called, up to each node.
IsVis(N, k, par, fl, ans, f) ==
  f = [n \in 0..N |->
         IF n = 0 THEN {}
         ELSE IF /\ fl[n] # "deleted" /\ ~Skipped(N, k, par, ans, n)
                 /\ n # 1 => (par[n] \in f[n - 1] /\ ans[par[n]] = "CONTINUE")
              THEN f[n - 1] \cup {n} ELSE f[n - 1]]
CalledTo(ans, n) == {m \in 1..n : ans[m] # "none"}
\* One step of the recursion.
LEMMA VisStep ==
  ASSUME NEW N, NEW k, NEW par, NEW fl, NEW ans, TreeOf(N, par),
         NEW n \in 1..N, Right(N, k, par, fl, ans, n)
  PROVE  CalledTo(ans, n) =
           IF /\ fl[n] # "deleted" /\ ~Skipped(N, k, par, ans, n)
              /\ n # 1 => (par[n] \in CalledTo(ans, n - 1) /\ ans[par[n]] = "CONTINUE")
           THEN CalledTo(ans, n - 1) \cup {n} ELSE CalledTo(ans, n - 1)
<1>1. \A m : m \in 1..n <=> (m \in 1..(n - 1) \/ m = n)
  BY DEF TreeOf
<1>2. n # 1 => par[n] \in 1..(n - 1)
  BY DEF TreeOf
<1>3. ans[n] # "none" <=> /\ fl[n] # "deleted" /\ ~Skipped(N, k, par, ans, n)
                          /\ n # 1 => (par[n] \in CalledTo(ans, n - 1) /\ ans[par[n]] = "CONTINUE")
  BY <1>2 DEF Right, ToCall, CalledTo
<1> QED
  BY <1>1, <1>3 DEF CalledTo
\* All of them: it is the set of the nodes that were called.
LEMMA VisIsCalled ==
  ASSUME NEW N, NEW k, NEW par, NEW fl, NEW ans, TreeOf(N, par), \A n \in 1..N : Right(N, k, par, fl, ans, n)
  PROVE  /\ \E f : IsVis(N, k, par, fl, ans, f)
         /\ \A f : IsVis(N, k, par, fl, ans, f) => f[N] = CalledTo(ans, N)
<1> USE DEF TreeOf
<1>1. ASSUME NEW n \in 1..N
      PROVE  CalledTo(ans, n) =
               IF /\ fl[n] # "deleted" /\ ~Skipped(N, k, par, ans, n)
                  /\ n # 1 => (par[n] \in CalledTo(ans, n - 1) /\ ans[par[n]] = "CONTINUE")
               THEN CalledTo(ans, n - 1) \cup {n} ELSE CalledTo(ans, n - 1)
  BY VisStep
<1>2. \A n \in 0..N : n # 0 => n \in 1..N /\ n - 1 \in 0..N
  OBVIOUS
<1>3. CalledTo(ans, 0) = {}
  BY DEF CalledTo
<1>4. \E f : IsVis(N, k, par, fl, ans, f)
  <2> DEFINE f == [n \in 0..N |-> CalledTo(ans, n)]
  <2>1. \A n \in 0..N : f[n] = CalledTo(ans, n)
    OBVIOUS
  <2>2. f = [n \in 0..N |->
               IF n = 0 THEN {}
               ELSE IF /\ fl[n] # "deleted" /\ ~Skipped(N, k, par, ans, n)
                       /\ n # 1 => (par[n] \in f[n - 1] /\ ans[par[n]] = "CONTINUE")
                    THEN f[n - 1] \cup {n} ELSE f[n - 1]]
    BY <2>1, <1>1, <1>2, <1>3
  <2> HIDE DEF f
  <2> QED
    BY <2>2 DEF IsVis
<1>5. ASSUME NEW f, IsVis(N, k, par, fl, ans, f) PROVE f[N] = CalledTo(ans, N)
  <2> DEFINE bad == {n \in 0..N : f[n] # CalledTo(ans, n)}
  <2>1. bad = {}
    <3> SUFFICES ASSUME bad # {} PROVE FALSE
      OBVIOUS
    <3>1. PICK n \in bad : \A m \in bad : n <= m
      <4>1. bad \subseteq Nat
        OBVIOUS
      <4> HIDE DEF bad
      <4> QED
        BY <4>1, LeastExists
    <3>2. n # 0
      <4>1. 0 \in 0..N
        OBVIOUS
      <4>2. f[0] = {}
        BY <4>1, <1>5 DEF IsVis
      <4> QED
        BY <4>2, <1>3
    <3>3. n \in 1..N /\ n - 1 \in 0..N /\ ~(n <= n - 1) /\ n \in 0..N
      BY <3>2
    <3>4. f[n - 1] = CalledTo(ans, n - 1)
      BY <3>1, <3>3
    <3>5. f[n] = IF /\ fl[n] # "deleted" /\ ~Skipped(N, k, par, ans, n)
                    /\ n # 1 => (par[n] \in f[n - 1] /\ ans[par[n]] = "CONTINUE")
                 THEN f[n - 1] \cup {n} ELSE f[n - 1]
      BY <3>2, <3>3, <1>5 DEF IsVis
    <3>6. f[n] = CalledTo(ans, n)
      BY <3>3, <3>4, <3>5, <1>1
    <3> QED
      BY <3>6
  <2>2. N \in 0..N
    OBVIOUS
  <2> QED
    BY <2>1, <2>2
<1> QED
  BY <1>4, <1>5

\* The specification's set of visible nodes, when every node was rightly called or not.
VisFunction(f) ==
  f = [n \in 0..Len(kind) |->
         IF n = 0 THEN {}
         ELSE IF /\ flag[n] # "deleted"
                 /\ ~Jumped(n)
                 /\ n # 1 => (parent[n] \in f[n - 1] /\ Answer(parent[n]) = "CONTINUE")
              THEN f[n - 1] \cup {n} ELSE f[n - 1]]
\* So it is for the function of the specification.
LEMMA VisibleIsCalled ==
  ASSUME AllRight, TreeOf(Len(kind), parent)
  PROVE  Visible = CalledTo(Given(Len(kind), calls), Len(kind))
<1> DEFINE N == Len(kind)
           ans == Given(N, calls)
           V == CHOOSE f : VisFunction(f)
<1>1. \A n \in 1..N : Answer(n) = ans[n]
  BY DEF Answer, AnswerIn, Given
<1>2. ASSUME NEW n \in 1..N PROVE Jumped(n) <=> Skipped(N, kind, parent, ans, n)
  <2>1. \A m : m \in Siblings(n) <=> (m \in 1..N /\ parent[m] = parent[n])
    BY DEF Siblings, Nodes
  <2> HIDE DEF N, ans
  <2> QED
    BY <2>1, <1>1 DEF Jumped, Skipped, Pops
<1>3. \A n \in 2..N : parent[n] \in 1..N
  <2>1. \A n \in 2..N : parent[n] \in 1..(n - 1)
    BY DEF TreeOf
  <2>2. N \in Nat
    BY DEF TreeOf
  <2> HIDE DEF N
  <2> QED
    BY <2>1, <2>2
<1>4. Visible = V[N]
  BY DEF Visible, VisFunction
<1> HIDE DEF N, ans, V
<1>5. \A n \in 0..N : (n # 0 => n \in 1..N) /\ ((n # 0 /\ n # 1) => n \in 2..N)
  OBVIOUS
<1>6. ASSUME NEW f PROVE VisFunction(f) <=> IsVis(N, kind, parent, flag, ans, f)
  <2>1. ASSUME NEW n \in 0..N
        PROVE  (IF n = 0 THEN {}
                ELSE IF /\ flag[n] # "deleted"
                        /\ ~Jumped(n)
                        /\ n # 1 => (parent[n] \in f[n - 1] /\ Answer(parent[n]) = "CONTINUE")
                     THEN f[n - 1] \cup {n} ELSE f[n - 1])
               = (IF n = 0 THEN {}
                  ELSE IF /\ flag[n] # "deleted" /\ ~Skipped(N, kind, parent, ans, n)
                          /\ n # 1 => (parent[n] \in f[n - 1] /\ ans[parent[n]] = "CONTINUE")
                       THEN f[n - 1] \cup {n} ELSE f[n - 1])
    BY <1>1, <1>2, <1>3, <1>5
  <2> QED
    BY <2>1 DEF VisFunction, IsVis, N
<1>7. /\ \E f : IsVis(N, kind, parent, flag, ans, f)
      /\ \A f : IsVis(N, kind, parent, flag, ans, f) => f[N] = CalledTo(ans, N)
  <2>1. TreeOf(N, parent) /\ \A n \in 1..N : Right(N, kind, parent, flag, ans, n)
    BY DEF AllRight, N, ans
  <2> QED
    BY <2>1, VisIsCalled
<1>8. VisFunction(V)
  <2>1. \E f : VisFunction(f)
    BY <1>6, <1>7
  <2> QED
    BY <2>1 DEF V
<1>9. V[N] = CalledTo(ans, N)
  BY <1>6, <1>7, <1>8
<1> QED
  BY <1>4, <1>9 DEF N, ans

\* The nodes that were called are the visible ones, in the order of the file: also
\* those after an UP, of which the property says nothing.
LEMMA OrderIsRight == TInv /\ OrderInv => VisitsInFileOrder
<1> SUFFICES ASSUME TInv, OrderInv, Whole, at = "done", ~Exited
             PROVE  /\ {calls[x].node : x \in DOMAIN calls} \subseteq Visible
                    /\ Visible \ AfterUp \subseteq {calls[x].node : x \in DOMAIN calls}
                    /\ \A x \in 1..(Len(calls) - 1) : calls[x].node < calls[x + 1].node
  BY DEF VisitsInFileOrder
<1> DEFINE N == Len(kind)
           ans == Given(N, calls)
<1>1. InWalk /\ Storage
  BY DEF TInv, WholeInv, InLevels, InWalk, WalkInv
<1>2. AllRight
  BY <1>1 DEF OrderInv
<1>3. TreeOf(N, parent)
  BY <1>1 DEF Storage, Shape, TreeOf
<1>4. Visible = CalledTo(ans, N)
  BY <1>2, <1>3, VisibleIsCalled
<1>5. Listed(N, calls)
  BY <1>2 DEF AllRight
<1> HIDE DEF N
<1>6. calls \in Seq(CallSet(N)) /\ DOMAIN calls = 1..Len(calls) /\ Len(calls) \in Nat
  BY <1>5, LenProperties DEF Listed
<1>7. \A n \in 1..N : ans[n] # "none" <=> \E a \in 1..Len(calls) : calls[a].node = n
  <2>1. \A n \in 1..N : ans[n] = AnswerIn(calls, n)
    BY DEF Given
  <2> QED
    BY <2>1, <1>5, AnswerOfNode
<1>8. \A a \in 1..Len(calls) : calls[a].node \in 1..N
  BY <1>5, AnswerOfCall
<1>9. {calls[x].node : x \in DOMAIN calls} = CalledTo(ans, N)
  BY <1>6, <1>7, <1>8 DEF CalledTo
<1>10. ASSUME NEW x \in 1..(Len(calls) - 1) PROVE calls[x].node < calls[x + 1].node
  <2> DEFINE L == Len(calls)
  <2>1. L \in Nat /\ x \in 1..(L - 1)
    BY <1>6
  <2> HIDE DEF L
  <2>2. x \in 1..L /\ x + 1 \in 1..L /\ x < x + 1
    BY <2>1
  <2> QED
    BY <2>2, <1>5 DEF Listed, InOrder, L
<1> QED
  BY <1>4, <1>9, <1>10

\* A traversal in order that is not ended by PRF_TRAV_EXIT calls its callback for
\* each node that is neither deleted, nor below a node whose answer was not
\* PRF_TRAV_CONTINUE, nor between a node that answered PRF_TRAV_POP and the next
\* pop, nor after one that answered PRF_TRAV_UP; for those after such a node it may or
\* may not, for no other, once and in the order of the file.
THEOREM VisitsAreInFileOrder == BSpec => []VisitsInFileOrder
<1>1. TInv /\ OrderInv /\ [BNext]_allvars => (TInv /\ OrderInv)'
  BY BNextOK, OrderNext
<1>2. BInit => TInv /\ OrderInv
  BY BInitOK, OrderInit
<1> QED
  BY <1>1, <1>2, OrderIsRight, PTL DEF BSpec
-----------------------------------------------------------------------------
(* The clone *)

\* The clone so far: its header, and below each clone the clones of the called
\* children, in the order of the calls.
CalledBelow(par, cs, n) == {cs[a].node : a \in {b \in 1..Len(cs) : par[cs[b].node] = n}}
Below(N, par, cs, s, n) == s \in Seq(1..N) /\ Rising(s) /\ Members(s) = CalledBelow(par, cs, n)
CopyOK(N, par, cs, cp) ==
  /\ DOMAIN cp = CopyFields /\ DOMAIN cp.parent = 1..N /\ DOMAIN cp.kids = 1..N
  /\ DOMAIN cs = 1..Len(cs)
  /\ cp.header = IF Len(cs) = 0 THEN 0 ELSE 1
  /\ \A a \in 1..Len(cs) : cs[a].code = "CONTINUE"
  /\ \A a \in 1..Len(cs) : cs[a].node # 1 => cp.parent[cs[a].node] = par[cs[a].node]
  /\ \A n \in 1..N : Below(N, par, cs, cp.kids[n], n)
\* The clones' stack holds the originals of the path, down to level d.
Follows(N, st, hp, ls, ch, d) == st \in Seq(1..N) /\ d <= Len(st) /\ \A l \in 1..d : st[l] = Stop(hp, ls, ch, l)
StackOK(N, cs, cp, hp, ls, ch) == Follows(N, cp.stack, hp, ls, ch, Len(ls) - 1) /\ (Len(cs) = 0 => cp.stack = <<>>)
CopyInv ==
  (Whole /\ InWalk /\ job = "clone") =>
    /\ CopyOK(Len(kind), parent, calls, copy)
    /\ at # "done" => StackOK(Len(kind), calls, copy, heap, lists, child)

\* A node that is not the header is cloned below the clone on the stack above it.
LEMMA ClonedNode ==
  ASSUME DOMAIN copy = CopyFields, NEW n, kind[n] # "header"
  PROVE  /\ Cloned(n).parent = [copy.parent EXCEPT ![n] = copy.stack[Depth0]]
         /\ Cloned(n).kids = [copy.kids EXCEPT ![copy.stack[Depth0]] = Append(@, n)]
         /\ Cloned(n).stack = Append(SubSeq(copy.stack, 1, Depth0), n)
BY DEF Cloned, CopyFields

\* The header is cloned below nothing.
LEMMA ClonedRoot ==
  ASSUME DOMAIN copy = CopyFields, NEW n, kind[n] = "header"
  PROVE  /\ Cloned(n).parent = copy.parent /\ Cloned(n).kids = copy.kids
         /\ Cloned(n).stack = Append(copy.stack, n)
BY DEF Cloned, CopyFields

\* The children of a clone, when one more node has been called,
LEMMA BelowGrows ==
  ASSUME NEW N, NEW par, NEW cs, NEW x, NEW c, NEW cs2, CalledNext(N, cs, x, c, cs2), NEW s, NEW n, Below(N, par, cs, s, n)
  PROVE  IF par[x] = n THEN Below(N, par, cs2, Append(s, x), n) ELSE Below(N, par, cs2, s, n)
<1> DEFINE L == Len(cs)
           r == [node |-> x, code |-> c]
<1>1. /\ N \in Nat /\ Listed(N, cs) /\ x \in 1..N /\ (\A a \in 1..Len(cs) : cs[a].node < x) /\ cs2 = Append(cs, r)
      /\ c \in AllCodes
  BY DEF CalledNext
<1>2. cs \in Seq(CallSet(N)) /\ r \in CallSet(N)
  BY <1>1 DEF Listed, CallSet
<1>3. L \in Nat /\ Len(cs2) = L + 1 /\ (\A a \in 1..L : cs2[a] = cs[a]) /\ cs2[L + 1] = r
  BY <1>1, <1>2, LenProperties, AppendProperties
<1>4. s \in Seq(1..N) /\ Rising(s) /\ Members(s) = CalledBelow(par, cs, n)
  BY DEF Below
<1> HIDE DEF L
<1>5. \A a : a \in 1..(L + 1) <=> (a \in 1..L \/ a = L + 1)
  BY <1>3
<1>6. CalledBelow(par, cs2, n) = CalledBelow(par, cs, n) \cup (IF par[x] = n THEN {x} ELSE {})
  <2>1. \A a \in 1..L : cs2[a].node = cs[a].node
    BY <1>3
  <2>2. cs2[L + 1].node = x
    BY <1>3
  <2>3. Len(cs) = L /\ Len(cs2) = L + 1
    BY <1>3 DEF L
  <2> QED
    BY <2>1, <2>2, <2>3, <1>5 DEF CalledBelow
<1>7. CASE par[x] # n
  BY <1>4, <1>6, <1>7 DEF Below
<1>8. CASE par[x] = n
  <2> DEFINE M == Len(s)
             t == Append(s, x)
  <2>1. t \in Seq(1..N) /\ M \in Nat /\ Len(t) = M + 1 /\ (\A a \in 1..M : t[a] = s[a]) /\ t[M + 1] = x /\ DOMAIN s = 1..M
    BY <1>1, <1>4, LenProperties, AppendProperties
  <2>2. DOMAIN t = 1..(M + 1)
    BY <2>1, LenProperties
  <2> HIDE DEF t, M
  <2>3. \A a : a \in 1..(M + 1) <=> (a \in 1..M \/ a = M + 1)
    BY <2>1
  <2>4. Members(t) = Members(s) \cup {x}
    BY <2>1, <2>2, <2>3 DEF Members
  <2>5. Rising(t)
    <3> SUFFICES ASSUME NEW a \in 1..(M + 1), NEW b \in 1..(M + 1), a < b PROVE t[a] < t[b]
      BY <2>1 DEF Rising
    <3>1. a \in 1..M
      BY <2>1
    <3>2. CASE b \in 1..M
      BY <3>1, <3>2, <2>1, <1>4 DEF Rising, M
    <3>3. CASE b = M + 1
      <4>1. s[a] \in Members(s)
        BY <3>1, <2>1 DEF Members
      <4>2. PICK q \in 1..Len(cs) : s[a] = cs[q].node
        BY <4>1, <1>4 DEF CalledBelow
      <4>3. s[a] < x
        BY <4>2, <1>1
      <4> QED
        BY <4>3, <3>1, <3>3, <2>1
    <3> QED
      BY <2>3, <3>2, <3>3
  <2> QED
    BY <2>1, <2>4, <2>5, <1>4, <1>6, <1>8 DEF Below, t
<1> QED
  BY <1>7, <1>8

\* and the clone, with the node that was called.
Cloning(N, par, cp, x, cp2) ==
  /\ DOMAIN cp2 = CopyFields /\ cp2.header = 1
  /\ \/ x = 1 /\ cp2.parent = cp.parent /\ cp2.kids = cp.kids
     \/ /\ x # 1 /\ par[x] \in 1..N
        /\ cp2.parent = [cp.parent EXCEPT ![x] = par[x]]
        /\ cp2.kids = [cp.kids EXCEPT ![par[x]] = Append(@, x)]
LEMMA CopyGrows ==
  ASSUME NEW N, NEW par, NEW cs, NEW x, NEW cs2, CalledNext(N, cs, x, "CONTINUE", cs2),
         NEW cp, NEW cp2, CopyOK(N, par, cs, cp), Cloning(N, par, cp, x, cp2), par[1] = 0
  PROVE  CopyOK(N, par, cs2, cp2)
<1> DEFINE L == Len(cs)
           r == [node |-> x, code |-> "CONTINUE"]
<1>1. /\ N \in Nat /\ Listed(N, cs) /\ x \in 1..N /\ (\A a \in 1..Len(cs) : cs[a].node < x) /\ cs2 = Append(cs, r)
      /\ "CONTINUE" \in AllCodes
  BY DEF CalledNext
<1>2. cs \in Seq(CallSet(N)) /\ r \in CallSet(N)
  BY <1>1 DEF Listed, CallSet
<1>3. L \in Nat /\ Len(cs2) = L + 1 /\ (\A a \in 1..L : cs2[a] = cs[a]) /\ cs2[L + 1] = r
  BY <1>1, <1>2, LenProperties, AppendProperties
<1>4. \A a \in 1..L : cs[a].node \in 1..N
  <2>1. Listed(N, cs)
    BY <1>1
  <2> QED
    BY <2>1, AnswerOfCall
<1> HIDE DEF L
<1>5. \A a \in 1..(L + 1) : a \in 1..L \/ a = L + 1
  BY <1>3
<1>6. L + 1 # 0 /\ L = Len(cs)
  BY <1>3 DEF L
<1>7. DOMAIN cp2.parent = 1..N /\ DOMAIN cp2.kids = 1..N
  BY DEF CopyOK, Cloning
<1>8. \A a \in 1..(L + 1) : cs2[a].code = "CONTINUE"
  BY <1>3, <1>5, <1>6 DEF CopyOK
<1>9. ASSUME NEW a \in 1..(L + 1), cs2[a].node # 1 PROVE cp2.parent[cs2[a].node] = par[cs2[a].node]
  <2>1. CASE a \in 1..L
    <3> DEFINE n == cs[a].node
    <3>1. cs2[a].node = n /\ n \in 1..N /\ n < x /\ n # 1
      BY <2>1, <1>1, <1>3, <1>4, <1>6, <1>9
    <3>2. cp.parent[n] = par[n]
      BY <3>1, <2>1, <1>6 DEF CopyOK
    <3> HIDE DEF n
    <3>3. n # x
      BY <3>1, <1>1
    <3>4. cp2.parent[n] = cp.parent[n]
      BY <3>1, <3>3 DEF CopyOK, Cloning
    <3> QED
      BY <3>1, <3>2, <3>4
  <2>2. CASE a = L + 1
    <3>1. cs2[a].node = x
      BY <2>2, <1>3
    <3> QED
      BY <3>1, <1>1, <1>9 DEF CopyOK, Cloning
  <2> QED
    BY <2>1, <2>2, <1>5
<1>10. ASSUME NEW n \in 1..N PROVE Below(N, par, cs2, cp2.kids[n], n)
  <2>1. IF par[x] = n THEN Below(N, par, cs2, Append(cp.kids[n], x), n) ELSE Below(N, par, cs2, cp.kids[n], n)
    <3>1. Below(N, par, cs, cp.kids[n], n)
      BY DEF CopyOK
    <3> QED
      BY <3>1, BelowGrows
  <2>2. cp2.kids[n] = IF par[x] = n THEN Append(cp.kids[n], x) ELSE cp.kids[n]
    <3>1. CASE x = 1
      <4>1. par[x] # n
        BY <3>1
      <4> QED
        BY <4>1, <3>1 DEF Cloning
    <3>2. CASE x # 1
      BY <3>2 DEF Cloning, CopyOK
    <3> QED
      BY <3>1, <3>2
  <2> QED
    BY <2>1, <2>2
<1>11. DOMAIN cp2 = CopyFields /\ cp2.header = 1
  BY DEF Cloning
<1>12. DOMAIN cs2 = 1..Len(cs2)
  <2>1. cs2 \in Seq(CallSet(N))
    BY <1>1, <1>2, AppendProperties
  <2> QED
    BY <2>1, LenProperties
<1> QED
  BY <1>12, <1>3, <1>6, <1>7, <1>8, <1>9, <1>10, <1>11 DEF CopyOK
\* The stack of clones is cut back to the node's level, and the node is put on it.
CutBack(N, st, d, x, st2) ==
  st \in Seq(1..N) /\ d \in Nat /\ d <= Len(st) /\ x \in 1..N /\ st2 = Append(SubSeq(st, 1, d), x)
LEMMA StackGrows ==
  ASSUME NEW N, NEW st, NEW d, NEW x, NEW st2, CutBack(N, st, d, x, st2)
  PROVE  st2 \in Seq(1..N) /\ Len(st2) = d + 1 /\ (\A l \in 1..d : st2[l] = st[l]) /\ st2[d + 1] = x
<1> USE DEF CutBack
<1> DEFINE t == SubSeq(st, 1, d)
           M == Len(st)
<1>1. M \in Nat /\ DOMAIN st = 1..M /\ \A l \in 1..M : st[l] \in 1..N
  BY LenProperties, ElementOfSeq
<1>2. d <= M
  OBVIOUS
<1> HIDE DEF M
<1>3. \A l \in 1..d : l \in 1..M
  BY <1>1, <1>2
<1>4. t = [l \in 1..d |-> st[l]]
  BY <1>1, <1>2, SubSeqProperties DEF M
<1>5. \A l \in 1..d : st[l] \in 1..N
  BY <1>1, <1>3
<1>6. t \in Seq(1..N) /\ DOMAIN t = 1..d
  BY <1>4, <1>5, IsASeq
<1>7. Len(t) = d
  BY <1>6, LenProperties
<1>8. \A l \in 1..d : t[l] = st[l]
  BY <1>4
<1> HIDE DEF t
<1>9. st2 = Append(t, x)
  BY DEF t
<1>10. st2 \in Seq(1..N) /\ Len(st2) = Len(t) + 1 /\ (\A l \in 1..Len(t) : st2[l] = t[l]) /\ st2[Len(t) + 1] = x
  <2> DEFINE S == 1..N
  <2>1. t \in Seq(S) /\ x \in S
    BY <1>6
  <2> HIDE DEF S
  <2>2. /\ Append(t, x) \in Seq(S) /\ Len(Append(t, x)) = Len(t) + 1
        /\ (\A l \in 1..Len(t) : Append(t, x)[l] = t[l]) /\ Append(t, x)[Len(t) + 1] = x
    BY ONLY <2>1, AppendProperties
  <2> QED
    BY <2>2, <1>9 DEF S
<1> QED
  BY <1>7, <1>8, <1>10

\* The stack follows a path also when the path is left on a level above d or gets longer.
LEMMA StillFollows ==
  ASSUME NEW N, NEW st, NEW hp, NEW ls, NEW ch, NEW d \in Nat, Follows(N, st, hp, ls, ch, d), NEW ls2, NEW ch2, NEW e \in Int, e <= d,
         \A l \in 1..e : ls2[l] = ls[l] /\ ch2[l] = ch[l]
  PROVE  Follows(N, st, hp, ls2, ch2, e)
<1>1. st \in Seq(1..N) /\ Len(st) \in Nat /\ d <= Len(st)
  BY LenProperties DEF Follows
<1>2. e <= Len(st)
  BY <1>1
<1>3. ASSUME NEW l \in 1..e PROVE st[l] = Stop(hp, ls2, ch2, l)
  <2>1. l \in 1..d
    OBVIOUS
  <2>2. st[l] = Stop(hp, ls, ch, l)
    BY <2>1 DEF Follows
  <2> QED
    BY <2>2 DEF Stop
<1> QED
  BY <1>1, <1>2, <1>3 DEF Follows

\* Wherever an answer other than EXIT leads to, the path above is the same.
SamePath(e) == Len(lists') - 1 = e /\ \A l \in 1..e : lists'[l] = lists[l] /\ child'[l] = child[l]
LEMMA PathStays ==
  ASSUME Storage, Place, at = "visit", NEW D, D = Len(lists),
         NEW code \in AllCodes, code # "EXIT", Control(Current, code)
  PROVE  /\ heap' = heap /\ D \in Nat /\ D > 0 /\ at' # "done"
         /\ (code = "CONTINUE" /\ children[Current] # NULL) => (SamePath(D) /\ at' = "visit")
         /\ ~(code = "CONTINUE" /\ children[Current] # NULL) => SamePath(D - 1)
<1> DEFINE N == Len(kind)
           H == Len(heap) - 1
           x == Current
<1>1. /\ Shape(N, H, kind, parent, children, heap) /\ AllLive(N, children, heap)
      /\ Walked(H, children, heap, lists, child, limit) /\ child[D] <= limit[D]
  BY DEF Storage, Place
<1>2. Standing(N, D)
  BY <1>1, StopReadable
<1>3. x \in 1..N /\ x = Stop(heap, lists, child, D) /\ D \in Nat /\ D > 0 /\ Len(child) = D
  BY <1>2 DEF Standing
<1> HIDE DEF N, H
<1>4. CASE code = "CONTINUE" /\ children[x] # NULL
  <2>1. heap[children[x]].live
    BY <1>1, <1>3, <1>4 DEF AllLive, NULL
  <2>2. /\ heap' = heap /\ lists' = Append(lists, children[x]) /\ child' = Append(child, 1)
        /\ limit' = Append(limit, Len(heap[children[x]].elems)) /\ at' = "visit"
    BY <1>4, <2>1 DEF Control, Elems
  <2>3. Descent(children, heap, lists, child, limit, x, lists', child', limit')
    BY <1>1, <1>3, <1>4, <2>2 DEF Descent, NULL
  <2> HIDE DEF x
  <2>4. Lower(D, heap[children[x]].elems, x, heap, lists, child, lists', child', limit')
    BY <1>1, <2>3, WalkedDown
  <2>5. Len(lists') = D + 1 /\ \A l \in 1..D : lists'[l] = lists[l] /\ child'[l] = child[l]
    BY <2>4 DEF Lower
  <2>6. SamePath(D)
    BY <2>5, <1>3 DEF SamePath
  <2> QED
    BY <2>2, <2>6, <1>3, <1>4 DEF x
<1>5. CASE ~(code = "CONTINUE" /\ children[x] # NULL)
  <2>1. /\ heap' = heap /\ lists' = lists /\ at' # "done"
        /\ \E v : child' = [child EXCEPT ![Len(child)] = v]
    <3>1. CASE code = "POP"
      <4>1. DEFINE pops == {y \in DOMAIN Elems(Top(lists)) : y > Top(child) /\ kind[Elems(Top(lists))[y]] \in {"pop", "xpop"}}
                   v == CHOOSE y \in pops : \A z \in pops : y <= z
      <4>2. CASE pops = {}
        <5>1. child' = child
          BY <3>1, <4>2 DEF Control
        <5>2. child = [child EXCEPT ![Len(child)] = child[Len(child)]]
          BY <1>1 DEF Walked
        <5> QED
          BY <3>1, <4>2, <5>1, <5>2 DEF Control
      <4>3. CASE pops # {}
        <5>1. child' = [child EXCEPT ![Len(child)] = v]
          BY <3>1, <4>3 DEF Control
        <5> HIDE DEF v
        <5> QED
          BY <3>1, <4>3, <5>1 DEF Control
      <4> QED
        BY <4>2, <4>3
    <3>2. CASE code # "POP"
      <4>1. code \in {"SIBLING", "UP", "TRAVERSE"} \/ (code = "CONTINUE" /\ children[x] = NULL)
        BY <1>5, <3>2 DEF AllCodes
      <4>2. at' = "up" /\ child' = [child EXCEPT ![Len(child)] = @ + 1] /\ UNCHANGED <<heap, lists, limit>>
        BY <4>1 DEF Control
      <4> QED
        BY <4>2
    <3> QED
      BY <3>1, <3>2
  <2>2. \A l \in 1..(D - 1) : l # Len(child) /\ l \in 1..Len(child)
    BY <1>3
  <2>3. \A l \in 1..(D - 1) : child'[l] = child[l]
    <3>1. child \in Seq(Nat \ {0})
      BY <1>1 DEF Walked
    <3>2. DOMAIN child = 1..Len(child)
      BY <3>1, LenProperties
    <3> QED
      BY <3>2, <2>1, <2>2
  <2>4. SamePath(D - 1)
    BY <2>1, <2>3 DEF SamePath
  <2> QED
    BY <2>1, <2>4, <1>3, <1>5
<1> QED
  BY <1>4, <1>5
CopyHere == CopyOK(Len(kind), parent, calls, copy) /\ StackOK(Len(kind), calls, copy, heap, lists, child)
\* clone_cb clones a node that is called below the clone of its parent.
LEMMA CloneCopies ==
  ASSUME Ready, CopyHere, flag[Current] # "deleted", IF kind[Current] = "header" THEN copy.header = NULL /\ Depth0 = 0 ELSE copy.header # NULL,
         copy' = Cloned(Current), Control(Current, "CONTINUE"), SameModel,
         calls' = Append(calls, [node |-> Current, code |-> "CONTINUE"])
  PROVE  CopyHere' /\ at' # "done"
<1> DEFINE N == Len(kind)
           H == Len(heap) - 1
           D == Len(lists)
           x == Current
<1>1. Storage /\ Place /\ at = "visit" /\ Here /\ \A a \in 1..Len(calls) : calls[a].node < x
  BY StandsHere DEF Ready
<1>2. Listed(N, calls) /\ child[D] <= limit[D]
  BY <1>1 DEF Ready, CallInv, Place
<1>3. Standing(N, D)
  <2> HIDE DEF D
  <2> QED
    BY <1>1, <1>2, StopReadable DEF D
<1>4. /\ D \in Nat /\ D > 0 /\ D \in 1..D /\ x = Stop(heap, lists, child, D) /\ x \in 1..N /\ (x = 1 <=> D = 1)
      /\ RowOK(N, kind, parent, children, heap, lists, child, limit, D)
  BY <1>3 DEF Standing
<1>5. parent[x] = Above(heap, lists, child, D)
  BY <1>2, <1>4 DEF RowOK
<1>6. N \in Nat /\ parent[1] = 0 /\ \A n \in 2..N : parent[n] \in 1..(n - 1)
  BY <1>1 DEF Storage, Shape
<1>7. CalledNext(N, calls, x, "CONTINUE", calls')
  <2>1. "CONTINUE" \in AllCodes
    BY DEF AllCodes
  <2> QED
    BY <2>1, <1>1, <1>2, <1>4, <1>6 DEF CalledNext
<1>8. CopyOK(N, parent, calls, copy) /\ Follows(N, copy.stack, heap, lists, child, D - 1) /\ (Len(calls) = 0 => copy.stack = <<>>)
  BY DEF CopyHere, StackOK
<1>9. DOMAIN copy = CopyFields /\ copy.header = (IF Len(calls) = 0 THEN 0 ELSE 1)
  BY <1>8 DEF CopyOK
<1>10. Depth0 = D - 1
  BY DEF Depth0
<1>11. DOMAIN copy' = CopyFields /\ copy'.header = IF kind[x] = "header" THEN x ELSE copy.header
  BY <1>9, ClonedHeader
<1> HIDE DEF N, H, D, x
<1>12. /\ Cloning(N, parent, copy, x, copy')
       /\ Follows(N, copy'.stack, heap, lists, child, D)
  <2>1. CASE kind[x] = "header"
    <3>1. copy.header = 0 /\ D - 1 = 0
      BY <2>1, <1>10 DEF NULL, x
    <3>2. D = 1 /\ x = 1 /\ copy.stack = <<>>
      BY <3>1, <1>4, <1>8, <1>9
    <3>3. copy'.parent = copy.parent /\ copy'.kids = copy.kids /\ copy'.stack = Append(copy.stack, x)
      BY <2>1, <1>9, ClonedRoot DEF x
    <3>4. copy'.stack = <<1>>
      BY <3>2, <3>3
    <3>5. Cloning(N, parent, copy, x, copy')
      BY <3>2, <3>3, <2>1, <1>11 DEF Cloning
    <3>6. Follows(N, copy'.stack, heap, lists, child, D)
      <4>1. <<1>> \in Seq(1..N) /\ Len(<<1>>) = 1 /\ <<1>>[1] = 1 /\ \A l \in 1..1 : l = 1
        BY <3>2, <1>4
      <4> QED
        BY <4>1, <3>2, <3>4, <1>4 DEF Follows
    <3> QED
      BY <3>5, <3>6
  <2>2. CASE kind[x] # "header"
    <3>1. copy.header # 0
      BY <2>2 DEF NULL, x
    <3>2. Len(calls) # 0
      BY <3>1, <1>9
    <3>3. Len(calls) \in Nat
      BY <1>2, LenProperties DEF Listed
    <3>4. x # 1
      <4>1. 1 \in 1..Len(calls)
        BY <3>2, <3>3
      <4>2. calls[1].node \in 1..N
        BY <4>1, <1>2, AnswerOfCall
      <4>3. calls[1].node < x
        BY <4>1, <1>1 DEF x
      <4> QED
        BY <4>2, <4>3
    <3>5. D # 1 /\ D - 1 \in Nat /\ D - 1 \in 1..(D - 1)
      BY <3>4, <1>4
    <3> DEFINE d == D - 1
               st == copy.stack
    <3>6. st[d] = parent[x]
      <4>1. Above(heap, lists, child, D) = Stop(heap, lists, child, d)
        BY <3>5 DEF Above
      <4> QED
        BY <4>1, <3>5, <1>5, <1>8 DEF Follows
    <3>7. parent[x] \in 1..N
      <4>1. x \in 2..N
        BY <3>4, <1>4
      <4>2. parent[x] \in 1..(x - 1)
        BY <4>1, <1>6
      <4> QED
        BY <4>1, <4>2, <1>6
    <3>8. /\ copy'.parent = [copy.parent EXCEPT ![x] = st[d]]
          /\ copy'.kids = [copy.kids EXCEPT ![st[d]] = Append(@, x)]
          /\ copy'.stack = Append(SubSeq(st, 1, d), x)
      BY <2>2, <1>9, <1>10, ClonedNode DEF x
    <3>9. Cloning(N, parent, copy, x, copy')
      <4>1. copy'.header = 1
        BY <2>2, <3>1, <1>9, <1>11
      <4> QED
        BY <4>1, <3>4, <3>6, <3>7, <3>8, <1>11 DEF Cloning
    <3>10. Follows(N, copy'.stack, heap, lists, child, D)
      <4>1. st \in Seq(1..N) /\ d <= Len(st) /\ \A l \in 1..d : st[l] = Stop(heap, lists, child, l)
        BY <1>8 DEF Follows
      <4>2. d \in Nat
        BY <3>5
      <4> DEFINE st2 == copy'.stack
      <4>3. st2 = Append(SubSeq(st, 1, d), x)
        BY <3>8
      <4>4. d + 1 = D /\ \A l \in 1..D : l \in 1..d \/ l = D
        BY <3>5, <1>4
      <4> HIDE DEF st, d, st2
      <4>5. st2 \in Seq(1..N) /\ Len(st2) = d + 1 /\ (\A l \in 1..d : st2[l] = st[l]) /\ st2[d + 1] = x
        <5>1. CutBack(N, st, d, x, st2)
          BY <4>1, <4>2, <4>3, <1>4 DEF CutBack
        <5> QED
          BY <5>1, StackGrows
      <4>6. D <= Len(st2)
        BY <4>4, <4>5, <1>4
      <4>7. \A l \in 1..D : st2[l] = Stop(heap, lists, child, l)
        BY <4>1, <4>4, <4>5, <1>4
      <4> QED
        BY <4>5, <4>6, <4>7 DEF Follows, st2
    <3> QED
      BY <3>9, <3>10
  <2> QED
    BY <2>1, <2>2
<1>13. CopyOK(N, parent, calls', copy')
  BY <1>6, <1>7, <1>8, <1>12, CopyGrows
<1>14. /\ heap' = heap /\ at' # "done"
       /\ SamePath(D) \/ SamePath(D - 1)
  <2>1. "CONTINUE" \in AllCodes /\ Control(Current, "CONTINUE") /\ D = Len(lists)
    BY DEF D, AllCodes
  <2> QED
    BY <2>1, <1>1, PathStays
<1>15. Follows(N, copy'.stack, heap, lists', child', Len(lists') - 1)
  <2>1. ASSUME NEW e \in Int, e <= D, SamePath(e) PROVE Follows(N, copy'.stack, heap, lists', child', Len(lists') - 1)
    <3>1. Len(lists') - 1 = e /\ \A l \in 1..e : lists'[l] = lists[l] /\ child'[l] = child[l]
      BY <2>1 DEF SamePath
    <3>2. Follows(N, copy'.stack, heap, lists', child', e)
      BY <3>1, <2>1, <1>4, <1>12, StillFollows
    <3> QED
      BY <3>1, <3>2
  <2>2. D \in Int /\ D - 1 \in Int /\ D <= D /\ D - 1 <= D
    BY <1>4
  <2> QED
    BY <2>1, <2>2, <1>14
<1>16. Len(calls') # 0
  <2>1. calls \in Seq(CallSet(N)) /\ [node |-> x, code |-> "CONTINUE"] \in CallSet(N)
    BY <1>2, <1>7 DEF Listed, CallSet, CalledNext
  <2>2. Len(calls) \in Nat /\ Len(calls') = Len(calls) + 1
    BY <2>1, LenProperties, AppendProperties DEF x
  <2> QED
    BY <2>2
<1> QED
  BY <1>13, <1>14, <1>15, <1>16 DEF CopyHere, StackOK, N, SameModel

\* A step that neither calls nor copies keeps the clone and its stack: stepping over a
\* deleted node,
LEMMA SkipCopies ==
  ASSUME Storage, Place, at = "visit", CopyHere, Control(Current, "SIBLING"), SameModel, calls' = calls, copy' = copy
  PROVE  CopyHere'
<1> DEFINE N == Len(kind)
           D == Len(lists)
<1>1. heap' = heap /\ D \in Nat /\ SamePath(D - 1)
  <2>1. "SIBLING" \in AllCodes /\ D = Len(lists)
    BY DEF AllCodes
  <2> HIDE DEF D
  <2> QED
    BY <2>1, PathStays
<1>2. Follows(N, copy.stack, heap, lists, child, D - 1)
  BY DEF CopyHere, StackOK
<1>3. D > 0
  BY WalkedSizes DEF Place
<1>4. Len(lists') - 1 = D - 1 /\ \A l \in 1..(D - 1) : lists'[l] = lists[l] /\ child'[l] = child[l]
  BY <1>1 DEF SamePath
<1> HIDE DEF N, D
<1>5. D - 1 \in Nat /\ D - 1 \in Int /\ D - 1 <= D - 1
  BY <1>1, <1>3
<1>6. Follows(N, copy.stack, heap, lists', child', D - 1)
  BY <1>2, <1>4, <1>5, StillFollows
<1>7. Follows(N, copy.stack, heap, lists', child', Len(lists') - 1)
  BY <1>4, <1>6
<1> QED
  BY <1>1, <1>7 DEF CopyHere, StackOK, SameModel, N

\* and going up.
LEMMA UpCopies ==
  ASSUME Storage, Place, CopyHere, Up
  PROVE  CopyHere'
<1> DEFINE N == Len(kind)
           H == Len(heap) - 1
           D == Len(lists)
           up == Drop(child)
<1>1. /\ lists' = Drop(lists) /\ limit' = Drop(limit) /\ child' = [up EXCEPT ![Len(child) - 1] = @ + 1]
      /\ SameHeap /\ calls' = calls /\ copy' = copy /\ Depth0 > 0
  BY DEF Up, vars, SameHeap, SameModel
<1>2. Walked(H, children, heap, lists, child, limit)
  BY DEF Place
<1>3. D \in Nat /\ Len(child) = D
  BY <1>2, WalkedSizes
<1>4. D - 1 > 0
  BY <1>1 DEF Depth0
<1>5. lists' = Shorter(lists) /\ limit' = Shorter(limit) /\ up = Shorter(child) /\ Len(lists) = D
  BY <1>1 DEF Drop, Shorter
<1>6. Follows(N, copy.stack, heap, lists, child, D - 1)
  BY DEF CopyHere, StackOK
<1> HIDE DEF N, H, D, up
<1>7. D > 1 /\ D - 1 \in Nat /\ D - 2 \in Int /\ D - 2 <= D - 1 /\ (D - 1) - 1 = D - 2
  BY <1>3, <1>4
<1>8. Walked(H, children, heap, lists', up, limit') /\ Upper(D, lists, child, limit, lists', up, limit')
  BY <1>2, <1>5, <1>7, WalkedUp
<1>9. Len(lists') = D - 1 /\ Len(up) = D - 1 /\ up \in Seq(Nat \ {0}) /\ \A l \in 1..(D - 1) : lists'[l] = lists[l] /\ up[l] = child[l]
  <2>1. up \in Seq(Nat \ {0}) /\ Len(up) = Len(lists')
    BY <1>8 DEF Walked
  <2> QED
    BY <2>1, <1>8 DEF Upper
<1>10. \A l \in 1..(D - 2) : l \in 1..(D - 1) /\ l # Len(child) - 1
  BY <1>3, <1>7
<1>11. \A l \in 1..(D - 2) : lists'[l] = lists[l] /\ child'[l] = child[l]
  <2>1. DOMAIN up = 1..(D - 1)
    BY <1>9, LenProperties
  <2> QED
    BY <2>1, <1>1, <1>9, <1>10
<1>12. Follows(N, copy.stack, heap, lists', child', D - 2)
  BY <1>6, <1>7, <1>11, StillFollows
<1>13. Follows(N, copy.stack, heap, lists', child', Len(lists') - 1)
  BY <1>7, <1>9, <1>12
<1> QED
  BY <1>1, <1>13 DEF CopyHere, StackOK, SameHeap, SameModel, N
\* When the clone begins there is nothing of it.
LEMMA NothingCopied ==
  ASSUME Storage', NEW x \in Jobs, prf_model_traverse_io(x)
  PROVE  CopyHere'
<1> DEFINE N == Len(kind)
<1>1. /\ calls' = <<>> /\ kind' = kind /\ parent' = parent
      /\ copy' = [NoCopy EXCEPT !.parent = [n \in Nodes |-> NULL], !.kids = [n \in Nodes |-> <<>>]]
      /\ lists' = <<Len(heap) + 1>>
  BY DEF prf_model_traverse_io
<1>2. Nodes = 1..N
  BY DEF Nodes
<1>3. /\ DOMAIN copy' = CopyFields /\ copy'.header = 0 /\ copy'.stack = <<>>
      /\ copy'.parent = [n \in 1..N |-> NULL] /\ copy'.kids = [n \in 1..N |-> <<>>]
  BY <1>1, <1>2 DEF NoCopy, CopyFields, NULL
<1>4. N \in Nat
  BY <1>1 DEF Storage, Shape
<1> HIDE DEF N
<1>5. Len(<<>>) = 0 /\ DOMAIN <<>> = 1..Len(<<>>) /\ <<>> \in Seq(1..N) /\ 1..0 = {} /\ Rising(<<>>) /\ Members(<<>>) = {}
  BY DEF Rising, Members
<1>6. ASSUME NEW n PROVE CalledBelow(parent, <<>>, n) = {}
  BY <1>5 DEF CalledBelow
<1>7. ASSUME NEW n \in 1..N PROVE Below(N, parent, <<>>, <<>>, n)
  BY <1>5, <1>6 DEF Below
<1>8. CopyOK(N, parent, <<>>, copy')
  BY <1>3, <1>5, <1>7 DEF CopyOK
<1>9. Len(lists') - 1 = 0
  BY <1>1
<1>10. StackOK(N, <<>>, copy', heap', lists', child')
  <2>1. 0 <= Len(<<>>) /\ \A l \in 1..0 : FALSE
    BY <1>5
  <2>2. Follows(N, <<>>, heap', lists', child', 0)
    BY <2>1, <1>5 DEF Follows
  <2> QED
    BY <2>2, <1>3, <1>9 DEF StackOK
<1> QED
  BY <1>1, <1>8, <1>10 DEF CopyHere, N

\* So every step keeps the clone right.
LEMMA CopyNext == TInv /\ OrderInv /\ CopyInv /\ [BNext]_allvars => CopyInv'
<1> SUFFICES ASSUME TInv, OrderInv, CopyInv, [BNext]_allvars, Whole', InWalk', job' = "clone"
             PROVE  /\ CopyOK(Len(kind), parent, calls, copy)'
                    /\ at' # "done" => StackOK(Len(kind), calls, copy, heap, lists, child)'
  BY DEF CopyInv
<1>1. CASE Load
  <2>1. LoadRecord /\ at' = at
    BY <1>1 DEF Load, walk
  <2>2. status = "loading"
    BY <2>1 DEF LoadRecord, LoadPrimary, LoadPop, LoadDies, LoadPush, LoadAncillary, LoadFails, EndOfFile, TrailingGarbage, Record
  <2> QED
    BY <2>1, <2>2 DEF TInv, InWalk
<1>2. ASSUME NEW x \in Jobs, prf_model_traverse_io(x) PROVE CopyHere'
  <2>1. Storage'
    BY DEF InWalk, WalkInv
  <2> QED
    BY <2>1, <1>2, NothingCopied
<1>3. CASE Traverse
  <2>1. SameTree /\ Whole /\ InWalk
    BY <1>3, WalkBefore
  <2>2. ~Done
    BY DEF Done, InWalk
  <2>3. job = "clone" /\ (at' = "dead" \/ TRUE)
    BY <1>3, <2>2 DEF Traverse, VisitUser, VisitSave, VisitClone, Skip, Up, UpEnds
  <2>4. CopyOK(Len(kind), parent, calls, copy) /\ (at # "done" => CopyHere)
    BY <2>1, <2>3 DEF CopyInv, CopyHere
  <2>5. ASSUME at # "done" PROVE Storage /\ Place /\ CallInv /\ CopyHere
    BY <2>1, <2>4, <2>5 DEF InWalk, WalkInv, Position, OrderInv
  <2>6. ASSUME at = "visit" PROVE Ready /\ Storage /\ Place /\ CopyHere
    <3>1. NoCross(Len(kind), parent)
      BY <2>1 DEF OrderInv, InWalk, Whole, Complete
    <3> QED
      BY <3>1, <2>5, <2>6 DEF Ready
  <2>7. CASE VisitClone
    <3>1. at = "visit" /\ flag[Current] # "deleted" /\ clone_cb(Current) /\ SameModel
      BY <2>7 DEF VisitClone, SameModel
    <3>2. at' # "dead"
      BY DEF InWalk
    <3>3. IF kind[Current] = "header" THEN copy.header = NULL /\ Depth0 = 0 ELSE copy.header # NULL
      BY <3>1, <3>2 DEF clone_cb
    <3>4. copy' = Cloned(Current) /\ Call(Current, "CONTINUE")
      BY <3>1, <3>3 DEF clone_cb
    <3>5. Control(Current, "CONTINUE") /\ calls' = Append(calls, [node |-> Current, code |-> "CONTINUE"])
      BY <3>4 DEF Call
    <3>6. CopyHere'
      BY <3>1, <3>3, <3>4, <3>5, <2>6, CloneCopies
    <3> QED
      BY <3>6 DEF CopyHere
  <2>8. CASE Skip
    <3>1. at = "visit" /\ Control(Current, "SIBLING") /\ SameModel /\ calls' = calls /\ copy' = copy
      BY <2>8 DEF Skip, SameModel
    <3>2. CopyHere'
      BY <3>1, <2>6, SkipCopies
    <3> QED
      BY <3>2 DEF CopyHere
  <2>9. CASE Up
    <3>1. at # "done"
      BY <2>9 DEF Up
    <3>2. CopyHere'
      BY <3>1, <2>5, <2>9, UpCopies
    <3> QED
      BY <3>2 DEF CopyHere
  <2>10. CASE UpEnds
    <3>1. /\ at = "up" /\ kind' = kind /\ parent' = parent /\ calls' = calls /\ copy' = copy
          /\ lists' = lists /\ child' = child /\ (at' = "done" \/ heap' = heap)
      BY <2>10 DEF UpEnds
    <3>2. CopyHere
      BY <3>1, <2>4
    <3> QED
      BY <3>1, <3>2 DEF CopyHere, StackOK
  <2> QED
    BY <1>3, <2>2, <2>3, <2>7, <2>8, <2>9, <2>10 DEF Traverse, VisitUser, VisitSave
<1>4. CASE SameTree /\ at' \notin {"visit", "up", "done"}
  BY <1>4 DEF InWalk
<1>5. CASE UNCHANGED allvars
  <2>1. UNCHANGED <<kind, parent, children, heap, stack, level, status, flag, job, at, lists, child, limit, copy, broken, calls>>
    BY <1>5 DEF allvars, tvars, vars, walk, bvars
  <2>2. Storage' = Storage
    BY <2>1 DEF Storage
  <2>3. InWalk' = InWalk
    BY <2>1, <2>2 DEF InWalk, WalkInv, Position, Place, HeaderFirst, Clonable, Nodes
  <2>4. Whole' = Whole
    BY <2>1 DEF Whole
  <2> QED
    BY <2>1, <2>3, <2>4 DEF CopyInv
<1> QED
  BY <1>1, <1>2, <1>3, <1>4, <1>5, StepsBeside DEF CopyHere

\* When the traversal is over the clone has the visible nodes.
LEMMA CopyIsRight == TInv /\ OrderInv /\ CopyInv => CloneIsEqual
<1> SUFFICES ASSUME TInv, OrderInv, CopyInv, Whole, job = "clone", at = "done"
             PROVE  /\ copy.header = IF 1 \in Visible THEN 1 ELSE NULL
                    /\ \A n \in Visible : n # 1 => copy.parent[n] = parent[n]
                    /\ \A n \in Nodes :
                         /\ Members(copy.kids[n]) = {m \in Visible : parent[m] = n}
                         /\ Ascending(copy.kids[n])
  BY DEF CloneIsEqual
<1> DEFINE N == Len(kind)
           ans == Given(N, calls)
           called == {calls[a].node : a \in 1..Len(calls)}
<1>1. InWalk /\ Storage
  BY DEF TInv, WholeInv, InLevels, InWalk, WalkInv
<1>2. CopyOK(N, parent, calls, copy)
  BY <1>1 DEF CopyInv
<1>3. ~Exited
  BY <1>2 DEF CopyOK, Exited
<1>4. AllRight
  BY <1>1, <1>3 DEF OrderInv
<1>5. Listed(N, calls)
  BY <1>4 DEF AllRight
<1>6. TreeOf(N, parent) /\ parent[1] = 0 /\ N \in Nat
  BY <1>1 DEF Storage, Shape, TreeOf
<1>7. Visible = CalledTo(ans, N)
  BY <1>4, <1>6, VisibleIsCalled
<1> HIDE DEF N
<1>8. \A n \in 1..N : ans[n] # "none" <=> n \in called
  <2>1. \A n \in 1..N : ans[n] = AnswerIn(calls, n)
    BY DEF Given
  <2> QED
    BY <2>1, <1>5, AnswerOfNode
<1>9. \A a \in 1..Len(calls) : calls[a].node \in 1..N
  BY <1>5, AnswerOfCall
<1>10. Visible = called
  BY <1>7, <1>8, <1>9 DEF CalledTo
<1>11. copy.header = IF 1 \in called THEN 1 ELSE NULL
  <2>1. Len(calls) \in Nat
    BY <1>5, LenProperties DEF Listed
  <2>2. CASE Len(calls) = 0
    <3>1. 1 \notin called
      BY <2>2
    <3> QED
      BY <3>1, <2>2, <1>2 DEF CopyOK, NULL
  <2>3. CASE Len(calls) # 0
    <3> SUFFICES 1 \in called
      BY <2>3, <1>2 DEF CopyOK
    <3>1. 1 \in 1..Len(calls)
      BY <2>1, <2>3
    <3>2. calls[1].node \in called
      BY <3>1
    <3> HIDE DEF called, ans
    <3>3. \A n \in 1..N : (ans[n] # "none" /\ n # 1) => ans[parent[n]] # "none"
      BY <1>4 DEF AllRight, Right, ToCall, N, ans
    <3>4. \A n \in 1..N : (n \in called /\ n # 1) => parent[n] \in 1..N /\ parent[n] < n /\ parent[n] \in called
      <4> SUFFICES ASSUME NEW n \in 1..N, n \in called, n # 1
                   PROVE  parent[n] \in 1..N /\ parent[n] < n /\ parent[n] \in called
        OBVIOUS
      <4>1. n \in 2..N
        OBVIOUS
      <4>2. parent[n] \in 1..(n - 1)
        BY <4>1, <1>6 DEF TreeOf
      <4>3. parent[n] \in 1..N /\ parent[n] < n
        BY <4>1, <4>2, <1>6
      <4> QED
        BY <4>3, <3>3, <1>8
    <3>5. called \subseteq 1..N
      BY <1>9 DEF called
    <3>6. called # {} /\ called \subseteq Nat
      BY <3>2, <3>5
    <3>7. PICK n \in called : \A m \in called : n <= m
      BY <3>6, LeastExists
    <3>8. CASE n # 1
      <4>1. n \in 1..N /\ parent[n] \in 1..N /\ parent[n] < n /\ parent[n] \in called
        BY <3>4, <3>5, <3>7, <3>8
      <4>2. n <= parent[n]
        BY <4>1, <3>7
      <4> QED
        BY <4>1, <4>2
    <3> QED
      BY <3>7, <3>8
  <2> QED
    BY <2>2, <2>3
<1>12. \A n \in called : n # 1 => copy.parent[n] = parent[n]
  BY <1>2 DEF CopyOK
<1>13. ASSUME NEW n \in 1..N
       PROVE  Members(copy.kids[n]) = {m \in called : parent[m] = n} /\ Ascending(copy.kids[n])
  <2> DEFINE s == copy.kids[n]
  <2>1. s \in Seq(1..N) /\ Rising(s) /\ Members(s) = CalledBelow(parent, calls, n)
    BY <1>2 DEF CopyOK, Below
  <2>2. CalledBelow(parent, calls, n) = {m \in called : parent[m] = n}
    BY DEF CalledBelow
  <2> DEFINE L == Len(s)
  <2>3. L \in Nat
    BY <2>1, LenProperties
  <2> HIDE DEF L, s
  <2>4. \A x \in 1..(L - 1) : x \in 1..L /\ x + 1 \in 1..L /\ x < x + 1
    BY <2>3
  <2>5. Ascending(s)
    BY <2>1, <2>4 DEF Ascending, Rising, L
  <2> QED
    BY <2>1, <2>2, <2>5 DEF s
<1>14. Nodes = 1..N
  BY DEF Nodes, N
<1> QED
  BY <1>10, <1>11, <1>12, <1>13, <1>14

\* prf_model_clone gives the clone exactly the nodes that are neither deleted nor
\* below a deleted one, with the parents of the originals, and below each node
\* in the order of the file, whatever was traversed and flagged before.
THEOREM ClonesAreEqual == BSpec => []CloneIsEqual
<1>1. TInv /\ OrderInv /\ CopyInv /\ [BNext]_allvars => (TInv /\ OrderInv /\ CopyInv)'
  BY BNextOK, OrderNext, CopyNext
<1>2. BInit => TInv /\ OrderInv /\ CopyInv
  <2>1. BInit => CopyInv
    BY DEF BInit, TInit, CopyInv, InWalk
  <2> QED
    BY <2>1, BInitOK, OrderInit
<1> QED
  BY <1>1, <1>2, CopyIsRight, PTL DEF BSpec

-----------------------------------------------------------------------------
(* The state during a call *)

\* What a call at x is shown: the ancillary nodes called so far before a node of
\* the path, in its list.
Called(cs, a) == \E c \in 1..Len(cs) : cs[c].node = a
LevelScope(N, k, par, cs, hp, ls, ch, l) ==
  {a \in 1..N : k[a] = "anc" /\ Called(cs, a) /\ \E m \in 1..l : par[a] = Above(hp, ls, ch, m)}
NodeScope(N, k, par, cs, up, n) ==
  {a \in 1..N : k[a] = "anc" /\ Called(cs, a) /\ \E m \in up[n] : par[m] = par[a] /\ a <= m}
LEMMA ScopeOfPath ==
  ASSUME NEW N, NEW k, NEW par, NEW up, NEW cs, NEW hp, NEW ls, NEW ch, NEW D, NEW x,
         Rooted(N, par), NoCross(N, par), Lineage(N, par, up), PathTo(N, par, hp, ls, ch, D, x),
         \A c \in 1..Len(cs) : cs[c].node <= x
  PROVE  LevelScope(N, k, par, cs, hp, ls, ch, D) = NodeScope(N, k, par, cs, up, x)
<1> DEFINE s(l) == Stop(hp, ls, ch, l)
           u(l) == Above(hp, ls, ch, l)
<1>1. /\ D \in Nat /\ D > 0 /\ x \in 1..N /\ x = s(D) /\ u(1) = 0
      /\ \A l \in 1..D : s(l) \in 1..N /\ s(l) <= x /\ par[s(l)] = u(l) /\ u(l) \in Nat /\ u(l) < s(l)
      /\ \A l \in 2..D : l - 1 \in 1..D /\ u(l) = s(l - 1)
      /\ \A l, m \in 1..D : l < m => u(l) < u(m)
  BY DEF PathTo
<1>2. up[x] = StopsTo(hp, ls, ch, D) /\ D \in 1..D
  <2>1. D \in 1..D
    BY <1>1
  <2> QED
    BY <2>1, <1>1, PathIsLine
<1>3. \A m : m \in up[x] <=> \E l \in 1..D : m = s(l)
  BY <1>2 DEF StopsTo
<1> HIDE DEF s, u
<1>4. ASSUME NEW a \in 1..N, NEW l \in 1..D, par[a] = u(l), a <= x PROVE a <= s(l)
  <2> SUFFICES ASSUME s(l) < a PROVE FALSE
    BY <1>1
  <2>1. \A b, c \in 1..D : u(b) = u(c) => b = c
    <3>1. \A b, c \in 1..D : b < c \/ b = c \/ c < b
      BY <1>1
    <3>2. \A b \in 1..D : ~(u(b) < u(b))
      BY <1>1
    <3> QED
      BY <3>1, <3>2, <1>1
  <2>2. a # x
    <3>1. ASSUME a = x PROVE FALSE
      <4>1. u(D) = u(l)
        BY <3>1, <1>1, <1>2, <1>4
      <4>2. l = D
        BY <4>1, <2>1, <1>2
      <4> QED
        BY <4>2, <3>1, <1>1
    <3> QED
      BY <3>1
  <2>3. a < x /\ a \in Nat
    BY <2>2, <1>1, <1>4
  <2>4. PICK m \in 1..D : u(m) <= a /\ a < s(m)
    BY <2>3, PlaceOnPath DEF s, u
  <2>5. \A b \in 1..D : b < D => (b + 1 \in 2..D /\ b + 1 \in 1..D /\ (b + 1) - 1 = b)
    BY <1>1
  <2>6. \A b, c \in 1..D : b < c => s(b) < s(c)
    <3> SUFFICES ASSUME NEW b \in 1..D, NEW c \in 1..D, b < c PROVE s(b) < s(c)
      OBVIOUS
    <3>1. b < D /\ (b + 1 = c \/ b + 1 < c)
      BY <1>1
    <3>2. b + 1 \in 1..D /\ u(b + 1) = s(b)
      BY <3>1, <2>5, <1>1
    <3>4. u(c) < s(c) /\ u(c) \in Nat /\ s(b) \in Nat /\ s(c) \in Nat
      BY SMTT(30), <1>1
    <3>3. s(b) <= u(c)
      <4>1. CASE b + 1 = c
        <5>1. u(c) = s(b)
          BY <4>1, <3>2
        <5> QED
          BY <5>1, <3>4
      <4>2. CASE b + 1 < c
        <5>1. u(b + 1) < u(c)
          BY <4>2, <3>2, <1>1
        <5> QED
          BY <5>1, <3>2, <3>4
      <4> QED
        BY <3>1, <4>1, <4>2
    <3> QED
      BY <3>3, <3>4
  <2>7. l < m
    <3>1. ~(m = l) /\ ~(m < l)
      <4>1. s(l) < s(m)
        BY <2>4, <1>1
      <4>2. s(l) \in Nat /\ s(m) \in Nat
        BY <1>1
      <4>3. ~(s(m) < s(l)) /\ s(m) # s(l)
        BY <4>1, <4>2
      <4>4. m < l => s(m) < s(l)
        BY <2>6
      <4> QED
        BY <4>3, <4>4
    <3>2. l \in Nat /\ m \in Nat
      BY <1>1
    <3> QED
      BY <3>1, <3>2
  <2>8. m \in 2..D /\ m - 1 \in 1..D /\ u(m) = s(m - 1)
    <3>1. m \in 2..D
      BY <2>7, <1>1
    <3> QED
      BY <3>1, <1>1
  <2>9. CASE u(m) = a
    <3>1. par[a] = u(m - 1)
      BY <2>8, <2>9, <1>1
    <3>2. m - 1 = l
      BY <3>1, <2>1, <2>8, <1>4
    <3> QED
      BY <3>2, <2>8, <2>9, <1>1
  <2>10. CASE u(m) # a
    <3>1. u(m) < a /\ u(m) # 0
      BY <2>4, <2>8, <2>10, <1>1
    <3>2. par[s(m)] <= par[a]
      BY <3>1, <2>4, <1>1 DEF NoCross
    <3>3. u(m) <= u(l) /\ u(l) < u(m)
      BY <3>2, <2>7, <1>1, <1>4
    <3> QED
      BY <3>3, <1>1
  <2> QED
    BY <2>9, <2>10
<1>5. ASSUME NEW a \in 1..N, Called(cs, a) PROVE a <= x
  BY <1>5 DEF Called
<1>6. ASSUME NEW a \in 1..N, a <= x
      PROVE  (\E l \in 1..D : par[a] = u(l)) <=> (\E m \in up[x] : par[m] = par[a] /\ a <= m)
  <2>1. ASSUME NEW l \in 1..D, par[a] = u(l) PROVE \E m \in up[x] : par[m] = par[a] /\ a <= m
    <3>1. a <= s(l) /\ par[s(l)] = u(l) /\ s(l) \in up[x]
      BY <2>1, <1>1, <1>3, <1>4, <1>6
    <3> QED
      BY <3>1, <2>1
  <2>2. ASSUME NEW m \in up[x], par[m] = par[a] PROVE \E l \in 1..D : par[a] = u(l)
    <3>1. PICK l \in 1..D : m = s(l)
      BY <1>3
    <3> QED
      BY <3>1, <2>2, <1>1
  <2> QED
    BY <2>1, <2>2
<1> QED
  BY <1>5, <1>6 DEF LevelScope, NodeScope, u

\* A call adds its node to those that were called.
LEMMA CalledGrows ==
  ASSUME NEW N, NEW cs, NEW x, NEW c, NEW cs2, CalledNext(N, cs, x, c, cs2)
  PROVE  /\ \A a : Called(cs2, a) <=> (Called(cs, a) \/ a = x)
         /\ \A a : Called(cs, a) => a < x
         /\ Len(cs) \in Nat /\ Len(cs2) = Len(cs) + 1 /\ (\A b \in 1..Len(cs) : cs2[b] = cs[b]) /\ cs2[Len(cs) + 1].node = x
<1> DEFINE L == Len(cs)
           r == [node |-> x, code |-> c]
<1>1. /\ Listed(N, cs) /\ x \in 1..N /\ c \in AllCodes /\ (\A a \in 1..Len(cs) : cs[a].node < x) /\ cs2 = Append(cs, r)
  BY DEF CalledNext
<1>2. cs \in Seq(CallSet(N)) /\ r \in CallSet(N) /\ r.node = x
  BY <1>1 DEF Listed, CallSet
<1>3. L \in Nat /\ Len(cs2) = L + 1 /\ (\A a \in 1..L : cs2[a] = cs[a]) /\ cs2[L + 1] = r
  BY <1>1, <1>2, LenProperties, AppendProperties
<1>4. \A a \in 1..Len(cs) : cs[a].node < x
  BY <1>1
<1> HIDE DEF L, r
<1>5. \A a : a \in 1..(L + 1) <=> (a \in 1..L \/ a = L + 1)
  BY <1>3
<1>6. \A a : Called(cs, a) <=> \E b \in 1..L : cs[b].node = a
  BY DEF Called, L
<1>7. \A a : Called(cs2, a) <=> \E b \in 1..(L + 1) : cs2[b].node = a
  BY <1>3 DEF Called
<1> QED
  BY <1>2, <1>3, <1>4, <1>5, <1>6, <1>7 DEF L

\* What an earlier call was shown is in scope still.
LEMMA ScopeStays ==
  ASSUME NEW N, NEW k, NEW par, NEW up, NEW cs, NEW x, NEW c, NEW cs2, CalledNext(N, cs, x, c, cs2),
         Rooted(N, par), Lineage(N, par, up), NEW n \in 1..N, n < x
  PROVE  NodeScope(N, k, par, cs2, up, n) = NodeScope(N, k, par, cs, up, n)
<1>1. \A m \in up[n] : m \in 1..N /\ m <= n
  BY LineIsBefore
<1>2. x \in 1..N
  BY DEF CalledNext
<1>3. \A m \in up[n] : ~(x <= m)
  BY <1>1, <1>2
<1>4. \A a : Called(cs2, a) <=> (Called(cs, a) \/ a = x)
  BY CalledGrows
<1> QED
  BY <1>3, <1>4 DEF NodeScope

\* The matrices of the traversal state, one for each list of the path.
Matrices(N, k, par, cs, mx, hp, ls, ch) ==
  /\ mx \in Seq(Seq(1..N)) /\ Len(mx) = Len(ls)
  /\ \A l \in 1..Len(ls) : Rising(mx[l]) /\ Members(mx[l]) = LevelScope(N, k, par, cs, hp, ls, ch, l)
LEMMA CallMultiplies ==
  ASSUME NEW N, NEW k, NEW par, NEW cs, NEW x, NEW c, NEW cs2, CalledNext(N, cs, x, c, cs2),
         NEW hp, NEW ls, NEW ch, NEW D, D = Len(ls), PathTo(N, par, hp, ls, ch, D, x),
         NEW mx, NEW mx2, Matrices(N, k, par, cs, mx, hp, ls, ch), Multiplied(k, mx, D, x, mx2)
  PROVE  Matrices(N, k, par, cs2, mx2, hp, ls, ch)
<1> DEFINE u(l) == Above(hp, ls, ch, l)
           Sc(l) == LevelScope(N, k, par, cs, hp, ls, ch, l)
           Sc2(l) == LevelScope(N, k, par, cs2, hp, ls, ch, l)
<1>1. /\ D \in Nat /\ D > 0 /\ D \in 1..D /\ par[x] = u(D) /\ \A l, m \in 1..D : l < m => u(l) < u(m)
      /\ \A l \in 1..D : u(l) \in Nat
  <2>1. D \in Nat /\ D > 0 /\ x = Stop(hp, ls, ch, D) /\ \A l, m \in 1..D : l < m => u(l) < u(m)
    BY DEF PathTo
  <2>2. D \in 1..D
    BY <2>1
  <2>3. \A l \in 1..D : par[Stop(hp, ls, ch, l)] = u(l) /\ u(l) \in Nat
    BY DEF PathTo
  <2> QED
    BY <2>1, <2>2, <2>3
<1>2. N \in Nat /\ x \in 1..N
  BY DEF CalledNext
<1>3. (\A a : Called(cs2, a) <=> (Called(cs, a) \/ a = x)) /\ \A a : Called(cs, a) => a < x
  BY CalledGrows
<1>4. mx \in Seq(Seq(1..N)) /\ Len(mx) = D /\ \A l \in 1..D : Rising(mx[l]) /\ Members(mx[l]) = Sc(l)
  BY DEF Matrices
<1>5. DOMAIN mx = 1..D /\ \A l \in 1..D : mx[l] \in Seq(1..N)
  BY <1>4, LenProperties, ElementOfSeq
<1> HIDE DEF u
<1>6. Sc2(D) = Sc(D) \cup (IF k[x] = "anc" THEN {x} ELSE {})
  <2>1. \E m \in 1..D : par[x] = u(m)
    BY <1>1
  <2> QED
    BY <2>1, <1>2, <1>3 DEF LevelScope, u
<1>7. ASSUME NEW l \in 1..D, l # D PROVE Sc2(l) = Sc(l)
  <2>1. ~ \E m \in 1..l : par[x] = u(m)
    <3> SUFFICES ASSUME NEW m \in 1..l PROVE par[x] # u(m)
      OBVIOUS
    <3>1. m \in 1..D /\ m < D
      BY <1>1, <1>7
    <3>2. u(m) < u(D) /\ u(D) \in Nat
      BY <3>1, <1>1
    <3> QED
      BY <3>1, <3>2, <1>1
  <2> QED
    BY <2>1, <1>3 DEF LevelScope, u
<1>8. \A n \in Members(mx[D]) : n < x
  <2>1. \A n \in Sc(D) : Called(cs, n)
    BY DEF LevelScope
  <2> HIDE DEF Sc
  <2> QED
    BY <2>1, <1>1, <1>3, <1>4
<1> HIDE DEF Sc, Sc2
<1>9. mx2 \in Seq(Seq(1..N)) /\ Len(mx2) = D /\ \A l \in 1..D : Rising(mx2[l]) /\ Members(mx2[l]) = Sc2(l)
  <2>1. CASE k[x] # "anc"
    <3>1. mx2 = mx
      BY <2>1 DEF Multiplied
    <3>2. \A l \in 1..D : Sc2(l) = Sc(l)
      BY <2>1, <1>6, <1>7
    <3> QED
      BY <3>1, <3>2, <1>4
  <2>2. CASE k[x] = "anc"
    <3> DEFINE t == Append(mx[D], x)
    <3>1. t \in Seq(1..N) /\ Rising(t) /\ Members(t) = Members(mx[D]) \cup {x}
      BY <1>1, <1>2, <1>4, <1>5, <1>8, AppendRises
    <3>2. mx2 = [mx EXCEPT ![D] = t]
      BY <2>2 DEF Multiplied
    <3> HIDE DEF t
    <3>3. \A l \in 1..D : mx2[l] = IF l = D THEN t ELSE mx[l]
      BY <3>2, <1>5
    <3>4. DOMAIN mx2 = 1..D /\ \A l \in 1..D : mx2[l] \in Seq(1..N)
      BY <3>1, <3>2, <3>3, <1>5
    <3>5. mx2 \in Seq(Seq(1..N)) /\ Len(mx2) = D
      <4>1. mx2 = [l \in 1..D |-> mx2[l]]
        BY <3>2, <1>5
      <4>2. [l \in 1..D |-> mx2[l]] \in Seq(Seq(1..N))
        BY <3>4, <1>1, IsASeq
      <4>3. mx2 \in Seq(Seq(1..N))
        BY <4>1, <4>2
      <4> QED
        BY <4>3, <3>4, <1>1, LenProperties
    <3>6. Rising(mx2[D]) /\ Members(mx2[D]) = Sc2(D)
      BY <3>1, <3>3, <1>1, <1>4, <1>6, <2>2
    <3>7. \A l \in 1..D : l # D => Rising(mx2[l]) /\ Members(mx2[l]) = Sc2(l)
      BY <3>3, <1>4, <1>7
    <3> QED
      BY <3>5, <3>6, <3>7
  <2> QED
    BY <2>1, <2>2
<1> QED
  BY <1>9 DEF Matrices, Sc2

\* The path above level d is the same.
SameAbove(d, hp, ls, ch, ls2, ch2) == \A l \in 1..d : Above(hp, ls2, ch2, l) = Above(hp, ls, ch, l)
LEMMA SameScope ==
  ASSUME NEW N, NEW k, NEW par, NEW cs, NEW hp, NEW ls, NEW ch, NEW ls2, NEW ch2, NEW d \in Nat,
         SameAbove(d, hp, ls, ch, ls2, ch2), NEW l \in 1..d
  PROVE  LevelScope(N, k, par, cs, hp, ls2, ch2, l) = LevelScope(N, k, par, cs, hp, ls, ch, l)
<1>1. \A m \in 1..l : m \in 1..d
  OBVIOUS
<1>2. \A m \in 1..l : Above(hp, ls2, ch2, m) = Above(hp, ls, ch, m)
  BY <1>1 DEF SameAbove
<1> QED
  BY <1>2 DEF LevelScope

\* Along the list the matrices stay,
LEMMA MatricesStay ==
  ASSUME NEW N, NEW k, NEW par, NEW cs, NEW mx, NEW hp, NEW ls, NEW ch, NEW ls2, NEW ch2, NEW D \in Nat, D = Len(ls),
         Matrices(N, k, par, cs, mx, hp, ls, ch), Len(ls2) = D, SameAbove(D, hp, ls, ch, ls2, ch2)
  PROVE  Matrices(N, k, par, cs, mx, hp, ls2, ch2)
<1>1. \A l \in 1..D : LevelScope(N, k, par, cs, hp, ls2, ch2, l) = LevelScope(N, k, par, cs, hp, ls, ch, l)
  BY SameScope
<1> QED
  BY <1>1 DEF Matrices

\* a copy of the last one goes with the traversal to the children,
Pushes(mx, D, mx2) == mx2 = Append(mx, mx[D])
Opens(N, par, cs, x) == \A a \in 1..N : Called(cs, a) => par[a] # x
LEMMA MatricesPushed ==
  ASSUME NEW N, NEW k, NEW par, NEW cs, NEW mx, NEW mx2, NEW hp, NEW ls, NEW ch, NEW ls2, NEW ch2,
         NEW D \in Nat \ {0}, D = Len(ls), NEW x,
         Matrices(N, k, par, cs, mx, hp, ls, ch), Pushes(mx, D, mx2), Len(ls2) = D + 1,
         SameAbove(D, hp, ls, ch, ls2, ch2), Above(hp, ls2, ch2, D + 1) = x, Opens(N, par, cs, x)
  PROVE  Matrices(N, k, par, cs, mx2, hp, ls2, ch2)
<1> DEFINE Sc(l) == LevelScope(N, k, par, cs, hp, ls, ch, l)
           Sc2(l) == LevelScope(N, k, par, cs, hp, ls2, ch2, l)
<1>1. mx \in Seq(Seq(1..N)) /\ Len(mx) = D /\ \A l \in 1..D : Rising(mx[l]) /\ Members(mx[l]) = Sc(l)
  BY DEF Matrices
<1>2. \A l \in 1..D : Sc2(l) = Sc(l)
  BY SameScope
<1>3. D \in 1..D /\ (\A m : m \in 1..(D + 1) <=> (m \in 1..D \/ m = D + 1))
  OBVIOUS
<1>4. Sc2(D + 1) = Sc2(D)
  BY <1>3 DEF LevelScope, Opens
<1>5. mx[D] \in Seq(1..N)
  BY <1>1, <1>3, ElementOfSeq
<1>6. mx2 \in Seq(Seq(1..N)) /\ Len(mx2) = D + 1 /\ (\A l \in 1..D : mx2[l] = mx[l]) /\ mx2[D + 1] = mx[D]
  BY <1>1, <1>5, AppendProperties DEF Pushes
<1> HIDE DEF Sc, Sc2
<1>7. \A l \in 1..D : Rising(mx2[l]) /\ Members(mx2[l]) = Sc2(l)
  BY <1>1, <1>2, <1>6
<1>8. Rising(mx2[D + 1]) /\ Members(mx2[D + 1]) = Sc2(D + 1)
  BY <1>1, <1>2, <1>3, <1>4, <1>6
<1> QED
  BY <1>3, <1>6, <1>7, <1>8 DEF Matrices, Sc2

\* and goes when it comes back.
LEMMA MatricesPopped ==
  ASSUME NEW N, NEW k, NEW par, NEW cs, NEW mx, NEW mx2, NEW hp, NEW ls, NEW ch, NEW ls2, NEW ch2,
         NEW D \in Nat \ {0}, D + 1 = Len(ls), Matrices(N, k, par, cs, mx, hp, ls, ch),
         mx2 = SubSeq(mx, 1, D), Len(ls2) = D, SameAbove(D, hp, ls, ch, ls2, ch2)
  PROVE  Matrices(N, k, par, cs, mx2, hp, ls2, ch2)
<1>1. mx \in Seq(Seq(1..N)) /\ Len(mx) = D + 1
  BY DEF Matrices
<1>2. \A l \in 1..D : Rising(mx[l]) /\ Members(mx[l]) = LevelScope(N, k, par, cs, hp, ls, ch, l)
  <2>1. \A l \in 1..D : l \in 1..Len(ls)
    OBVIOUS
  <2> QED
    BY <2>1 DEF Matrices
<1>3. \A l \in 1..D : LevelScope(N, k, par, cs, hp, ls2, ch2, l) = LevelScope(N, k, par, cs, hp, ls, ch, l)
  BY SameScope
<1>4. mx2 \in Seq(Seq(1..N)) /\ Len(mx2) = D /\ \A l \in 1..D : mx2[l] = mx[l]
  <2>1. \A l \in 1..D : mx[l] \in Seq(1..N)
    <3>1. \A l \in 1..D : l \in 1..Len(mx)
      BY <1>1
    <3> QED
      BY <3>1, <1>1, ElementOfSeq
  <2>2. /\ SubSeq(mx, 1, D) \in Seq(Seq(1..N)) /\ Len(SubSeq(mx, 1, D)) = (IF 1 <= D THEN (D - 1) + 1 ELSE 0)
        /\ \A a \in 1..((D - 1) + 1) : SubSeq(mx, 1, D)[a] = mx[(1 + a) - 1]
    BY <2>1, <1>1, SubSeqProperties
  <2>3. (IF 1 <= D THEN (D - 1) + 1 ELSE 0) = D /\ (D - 1) + 1 = D /\ \A a \in 1..D : (1 + a) - 1 = a
    OBVIOUS
  <2> QED
    BY <2>2, <2>3
<1> QED
  BY <1>2, <1>3, <1>4 DEF Matrices

\* What the call of a node leaves behind.
After(k, s, n) == exit_f(k[n], n, During(k, s, n))

\* So the children find the matrices of the call, and no object.
LEMMA CallLeaves ==
  ASSUME NEW k, NEW n, NEW s, DOMAIN s = StateFields
  PROVE  /\ DOMAIN After(k, s, n) = StateFields
         /\ After(k, s, n).matrix = During(k, s, n).matrix
         /\ After(k, s, n).object = IF k[n] = "plain" THEN 0 ELSE s.object
<1> DEFINE d == During(k, s, n)
           e == After(k, s, n)
<1>1. DOMAIN d = StateFields /\ d.object = IF k[n] = "plain" THEN n ELSE s.object
  BY EntryMultiplies
<1>2. e = exit_f(k[n], n, d)
  BY DEF After
<1> HIDE DEF d, e
<1>3. DOMAIN e = StateFields /\ e.matrix = d.matrix /\ e.object = IF k[n] = "plain" THEN 0 ELSE d.object
  BY <1>1, <1>2, ExitResets
<1> QED
  BY <1>1, <1>3 DEF d, e

\* Every call was shown the matrices in its scope, and no object but its own.
ShownRightly(N, k, par, cs, up, s, n) ==
  /\ Matrix(s) \in Seq(1..N) /\ Rising(Matrix(s)) /\ Members(Matrix(s)) = NodeScope(N, k, par, cs, up, n)
  /\ s.object \in {0, n}
SeenRight(N, k, par, cs, sn, up) ==
  IsSequence(sn) /\ Len(sn) = Len(cs) /\ \A c \in 1..Len(cs) : ShownRightly(N, k, par, cs, up, sn[c], cs[c].node)
SeenHere ==
  /\ Rooted(Len(kind), parent) /\ Listed(Len(kind), calls)
  /\ SeenRight(Len(kind), kind, parent, calls, seen, Lines)
ScopeHere ==
  /\ DOMAIN state = StateFields /\ state.object = 0
  /\ Matrices(Len(kind), kind, parent, calls, state.matrix, heap, lists, child)
ScopeInv ==
  /\ (Whole /\ InWalk /\ at # "done") => ScopeHere
  /\ (Whole /\ job \in Jobs /\ at # "idle") => SeenHere
  /\ at = "idle" => calls = <<>>

\* One call more.
LEMMA SeenGrows ==
  ASSUME NEW N, NEW k, NEW par, NEW up, NEW cs, NEW x, NEW c, NEW cs2, CalledNext(N, cs, x, c, cs2),
         Rooted(N, par), Lineage(N, par, up), NEW sn, NEW s, SeenRight(N, k, par, cs, sn, up),
         ShownRightly(N, k, par, cs2, up, s, x)
  PROVE  SeenRight(N, k, par, cs2, Append(sn, s), up)
<1> DEFINE L == Len(cs)
           sn2 == Append(sn, s)
<1>1. /\ L \in Nat /\ Len(cs2) = L + 1 /\ (\A b \in 1..L : cs2[b] = cs[b]) /\ cs2[L + 1].node = x
  BY CalledGrows
<1>2. IsSequence(sn) /\ Len(sn) = L /\ \A b \in 1..L : ShownRightly(N, k, par, cs, up, sn[b], cs[b].node)
  BY DEF SeenRight
<1>3. IsSequence(sn2) /\ Len(sn2) = L + 1 /\ (\A b \in 1..L : sn2[b] = sn[b]) /\ sn2[L + 1] = s
  BY <1>2, AppendAny
<1>4. ASSUME NEW b \in 1..L PROVE cs[b].node \in 1..N /\ cs[b].node < x
  <2>1. Listed(N, cs) /\ \A a \in 1..Len(cs) : cs[a].node < x
    BY DEF CalledNext
  <2> QED
    BY <2>1, AnswerOfCall
<1> HIDE DEF L, sn2
<1>5. ASSUME NEW b \in 1..L PROVE ShownRightly(N, k, par, cs2, up, sn2[b], cs2[b].node)
  <2>1. cs[b].node \in 1..N /\ cs[b].node < x
    BY <1>4
  <2>2. NodeScope(N, k, par, cs2, up, cs[b].node) = NodeScope(N, k, par, cs, up, cs[b].node)
    BY <2>1, ScopeStays
  <2>3. ShownRightly(N, k, par, cs, up, sn[b], cs[b].node) /\ sn2[b] = sn[b] /\ cs2[b] = cs[b]
    BY <1>1, <1>2, <1>3
  <2> QED
    BY <2>2, <2>3 DEF ShownRightly
<1>6. \A b \in 1..(L + 1) : b \in 1..L \/ b = L + 1
  BY <1>1
<1> QED
  BY <1>1, <1>3, <1>5, <1>6 DEF SeenRight, sn2

\* The callback is shown the state in scope, and leaves the traversal so.
Shows(x) ==
  /\ seen' = Append(seen, During(kind, state, x))
  /\ state' = IF Len(lists') > Len(lists) THEN Pushed(After(kind, state, x)) ELSE After(kind, state, x)
LEMMA CallShows ==
  ASSUME Ready, ScopeHere, SeenHere, NEW code \in AllCodes, Control(Current, code), SameModel,
         calls' = Append(calls, [node |-> Current, code |-> code]), Shows(Current)
  PROVE  SeenHere' /\ (at' # "done" => ScopeHere')
<1> DEFINE N == Len(kind)
           H == Len(heap) - 1
           D == Len(lists)
           x == Current
           d == During(kind, state, x)
           e == After(kind, state, x)
<1>1. Storage /\ Place /\ at = "visit" /\ Here /\ NoCross(N, parent) /\ \A a \in 1..Len(calls) : calls[a].node < x
  BY StandsHere DEF Ready
<1>2. /\ Shape(N, H, kind, parent, children, heap) /\ Walked(H, children, heap, lists, child, limit) /\ child[D] <= limit[D]
      /\ x = Stop(heap, lists, child, D) /\ Listed(N, calls)
  BY <1>1 DEF Here, StandsAt, Ready, CallInv
<1>3. PathTo(N, parent, heap, lists, child, D, x)
  BY <1>2, WalkIsPath
<1>4. D \in Nat \ {0} /\ x \in 1..N /\ N \in Nat /\ Rooted(N, parent)
  <2>1. D \in Nat /\ D > 0 /\ x \in 1..N
    BY <1>3 DEF PathTo
  <2>2. N \in Nat /\ parent[1] = 0 /\ \A n \in 2..N : parent[n] \in 1..(n - 1)
    BY <1>2 DEF Shape
  <2> QED
    BY <2>1, <2>2 DEF Rooted, TreeOf
<1>5. Lineage(N, parent, Lines)
  BY <1>4, AncestorsAre
<1>6. CalledNext(N, calls, x, code, calls')
  BY <1>1, <1>2, <1>4 DEF CalledNext
<1>7. kind' = kind /\ parent' = parent /\ children' = children /\ Lines' = Lines
  <2>1. kind' = kind /\ parent' = parent /\ children' = children
    BY DEF SameModel
  <2> QED
    BY <2>1 DEF Lines, Ancestors
<1>8. Matrices(N, kind, parent, calls, state.matrix, heap, lists, child) /\ DOMAIN state = StateFields /\ state.object = 0
  BY DEF ScopeHere
<1>9. Len(state.matrix) = D
  BY <1>8 DEF Matrices
<1>10. /\ DOMAIN d = StateFields /\ Multiplied(kind, state.matrix, D, x, d.matrix)
       /\ d.object \in {0, x} /\ (kind[x] # "plain" => d.object = 0)
  <2>1. /\ DOMAIN d = StateFields /\ Multiplied(kind, state.matrix, D, x, d.matrix)
        /\ d.object = IF kind[x] = "plain" THEN x ELSE state.object
    BY <1>8, <1>9, EntryMultiplies
  <2> QED
    BY <2>1, <1>8
<1>11. DOMAIN e = StateFields /\ e.matrix = d.matrix /\ e.object = 0
  BY <1>8, CallLeaves
<1> DEFINE cs2 == calls'
           mx == d.matrix
<1>12. cs2 = calls'
  OBVIOUS
<1>13. seen' = Append(seen, d) /\ state' = IF Len(lists') > D THEN Pushed(e) ELSE e
  BY DEF Shows
<1> HIDE DEF N, H, D, x, d, e, cs2, mx
<1>14. Matrices(N, kind, parent, cs2, mx, heap, lists, child)
  BY <1>3, <1>6, <1>8, <1>10, CallMultiplies DEF cs2, mx, D
<1>15. \A b \in 1..Len(cs2) : cs2[b].node <= x
  <2>1. CalledNext(N, calls, x, code, cs2)
    BY <1>6 DEF cs2
  <2> QED
    BY <2>1, CallsGrow
<1>16. LevelScope(N, kind, parent, cs2, heap, lists, child, D) = NodeScope(N, kind, parent, cs2, Lines, x)
  BY <1>1, <1>3, <1>4, <1>5, <1>15, ScopeOfPath
<1>17. Len(mx) = D /\ D \in 1..D /\ D = Len(lists)
  BY <1>4, <1>14 DEF Matrices, D
<1>18. ShownRightly(N, kind, parent, cs2, Lines, d, x)
  <2>1. Matrix(d) = mx[D]
    BY <1>17 DEF Matrix, mx
  <2>2. Rising(mx[D]) /\ Members(mx[D]) = LevelScope(N, kind, parent, cs2, heap, lists, child, D)
    BY <1>14, <1>17 DEF Matrices
  <2>3. mx[D] \in Seq(1..N)
    <3>1. mx \in Seq(Seq(1..N)) /\ D \in 1..Len(mx)
      BY <1>14, <1>17 DEF Matrices
    <3> QED
      BY <3>1, ElementOfSeq
  <2> QED
    BY <2>1, <2>2, <2>3, <1>10, <1>16 DEF ShownRightly
<1>19. SeenRight(N, kind, parent, cs2, Append(seen, d), Lines)
  <2>1. SeenRight(N, kind, parent, calls, seen, Lines)
    BY DEF SeenHere, N
  <2>2. CalledNext(N, calls, x, code, cs2)
    BY <1>6 DEF cs2
  <2> QED
    BY <2>1, <2>2, <1>4, <1>5, <1>18, SeenGrows
<1>20. SeenHere'
  <2>1. CalledNext(N, calls, x, code, cs2)
    BY <1>6 DEF cs2
  <2>2. Listed(N, cs2)
    BY <2>1, CallsGrow
  <2> QED
    BY <2>2, <1>4, <1>7, <1>13, <1>19 DEF SeenHere, N, cs2
<1>21. ASSUME at' # "done" PROVE ScopeHere'
  <2>1. code # "EXIT"
    BY <1>21 DEF Control
  <2>2. /\ heap' = heap
        /\ (code = "CONTINUE" /\ children[x] # NULL) => SamePath(D)
        /\ ~(code = "CONTINUE" /\ children[x] # NULL) => SamePath(D - 1)
    BY <1>1, <2>1, PathStays DEF D, x
  <2>3. CASE code = "CONTINUE" /\ children[x] # NULL
    <3>1. Len(lists') - 1 = D /\ \A l \in 1..D : lists'[l] = lists[l] /\ child'[l] = child[l]
      BY <2>2, <2>3 DEF SamePath
    <3>2. Len(lists') = D + 1
      <4>1. lists' = Append(lists, children[x]) \/ lists' = lists
        BY <2>3 DEF Control, x
      <4>2. lists \in Seq(1..(H + 1))
        BY <1>2 DEF Walked
      <4>3. CASE lists' = lists
        <5>1. D - 1 = D
          BY <4>3, <3>1 DEF D
        <5> QED
          BY <5>1, <1>4
      <4>4. CASE lists' = Append(lists, children[x])
        <5>1. Len(lists') = D + 1
          BY <4>2, <4>4, SequenceOfAny, AppendAny DEF D
        <5> QED
          BY <5>1
      <4> QED
        BY <4>1, <4>3, <4>4
    <3>3. SameAbove(D, heap, lists, child, lists', child')
      BY <3>1, <1>4 DEF SameAbove, Above, Stop
    <3>4. Above(heap, lists', child', D + 1) = x
      <4>1. D + 1 # 1 /\ (D + 1) - 1 = D
        BY <1>4
      <4> QED
        BY <4>1, <3>1, <1>2, <1>17 DEF Above, Stop
    <3>5. Opens(N, parent, cs2, x)
      <4> SUFFICES ASSUME NEW a \in 1..N, Called(cs2, a) PROVE parent[a] # x
        BY DEF Opens
      <4>1. a <= x
        BY <1>15 DEF Called
      <4>2. parent[a] \in Nat /\ parent[a] < a
        BY <1>2, ParentsBefore
      <4> QED
        BY <4>1, <4>2, <1>4
    <3>6. Len(lists') > D
      BY <3>2, <1>4
    <3>7. state' = [e EXCEPT !.matrix = Append(@, @[Len(@)]), !.physical_level = @ + 1]
      BY <3>6, <1>13 DEF Pushed
    <3>8. DOMAIN state' = StateFields /\ state'.object = 0 /\ state'.matrix = Append(mx, mx[D])
      BY <3>7, <1>11, <1>17 DEF StateFields, mx
    <3>9. Matrices(N, kind, parent, cs2, state'.matrix, heap, lists', child')
      <4>1. Pushes(mx, D, state'.matrix)
        BY <3>8 DEF Pushes
      <4> DEFINE ls2 == lists'
                 ch2 == child'
                 mx2 == state'.matrix
      <4>2. Len(ls2) = D + 1 /\ SameAbove(D, heap, lists, child, ls2, ch2) /\ Above(heap, ls2, ch2, D + 1) = x /\ Pushes(mx, D, mx2)
        BY <3>2, <3>3, <3>4, <4>1
      <4> HIDE DEF ls2, ch2, mx2
      <4>3. Matrices(N, kind, parent, cs2, mx2, heap, ls2, ch2)
        BY <4>2, <3>5, <1>4, <1>14, <1>17, MatricesPushed
      <4> QED
        BY <4>3 DEF ls2, ch2, mx2
    <3> QED
      BY <3>8, <3>9, <2>2, <1>7 DEF ScopeHere, N, cs2
  <2>4. CASE ~(code = "CONTINUE" /\ children[x] # NULL)
    <3>1. Len(lists') - 1 = D - 1 /\ \A l \in 1..(D - 1) : lists'[l] = lists[l] /\ child'[l] = child[l]
      BY <2>2, <2>4 DEF SamePath
    <3>2. lists' = lists
      BY <2>1, <2>4 DEF Control, x
    <3>3. \A l \in 1..D : l # 1 => l - 1 \in 1..(D - 1)
      BY <1>4
    <3>4. SameAbove(D, heap, lists, child, lists', child')
      BY <3>1, <3>3 DEF SameAbove, Above, Stop
    <3>5. state' = e
      <4>1. ~(D > D)
        BY <1>4
      <4> QED
        BY <4>1, <3>2, <1>13, <1>17
    <3>6. Matrices(N, kind, parent, cs2, mx, heap, lists', child')
      <4> DEFINE ls2 == lists'
                 ch2 == child'
      <4>1. Len(ls2) = D /\ SameAbove(D, heap, lists, child, ls2, ch2) /\ D \in Nat
        BY <3>2, <3>4, <1>4, <1>17
      <4> HIDE DEF ls2, ch2
      <4>2. Matrices(N, kind, parent, cs2, mx, heap, ls2, ch2)
        BY <4>1, <1>14, <1>17, MatricesStay
      <4> QED
        BY <4>2 DEF ls2, ch2
    <3> QED
      BY <3>5, <3>6, <2>2, <1>7, <1>11 DEF ScopeHere, N, cs2, mx
  <2> QED
    BY <2>3, <2>4
<1> QED
  BY <1>20, <1>21

\* Stepping over a deleted node keeps the matrices,
LEMMA SkipScope ==
  ASSUME Storage, Place, at = "visit", ScopeHere, Control(Current, "SIBLING"), SameModel, calls' = calls, state' = state
  PROVE  ScopeHere'
<1> DEFINE N == Len(kind)
           D == Len(lists)
           mx == state.matrix
<1>1. heap' = heap /\ D \in Nat /\ D > 0 /\ SamePath(D - 1)
  <2>1. "SIBLING" \in AllCodes /\ D = Len(lists)
    BY DEF AllCodes
  <2> HIDE DEF D
  <2> QED
    BY <2>1, PathStays
<1>2. lists' = lists
  BY DEF Control
<1>3. Matrices(N, kind, parent, calls, mx, heap, lists, child)
  BY DEF ScopeHere
<1>4. \A l \in 1..(D - 1) : lists'[l] = lists[l] /\ child'[l] = child[l]
  BY <1>1 DEF SamePath
<1> DEFINE ls2 == lists'
           ch2 == child'
<1>5. D = Len(lists) /\ Len(ls2) = D
  BY <1>2
<1> HIDE DEF N, D, mx
<1>6. \A l \in 1..D : l # 1 => l - 1 \in 1..(D - 1)
  BY <1>1
<1>7. SameAbove(D, heap, lists, child, ls2, ch2)
  BY <1>4, <1>6 DEF SameAbove, Above, Stop
<1> HIDE DEF ls2, ch2
<1>8. Matrices(N, kind, parent, calls, mx, heap, ls2, ch2)
  BY <1>1, <1>3, <1>5, <1>7, MatricesStay
<1> QED
  BY <1>1, <1>8 DEF ScopeHere, SameModel, N, mx, ls2, ch2

\* and going up restores them.
LEMMA UpScope ==
  ASSUME Storage, Place, ScopeHere, Up
  PROVE  ScopeHere'
<1> DEFINE N == Len(kind)
           H == Len(heap) - 1
           D == Len(lists)
           up == Drop(child)
           mx == state.matrix
<1>1. /\ lists' = Drop(lists) /\ limit' = Drop(limit) /\ child' = [up EXCEPT ![Len(child) - 1] = @ + 1]
      /\ SameHeap /\ calls' = calls /\ state' = Popped(state) /\ Depth0 > 0
  BY DEF Up, vars, SameHeap, SameModel
<1>2. Walked(H, children, heap, lists, child, limit)
  BY DEF Place
<1>3. D \in Nat /\ Len(child) = D
  BY <1>2, WalkedSizes
<1>4. D - 1 > 0
  BY <1>1 DEF Depth0
<1>5. lists' = Shorter(lists) /\ limit' = Shorter(limit) /\ up = Shorter(child) /\ Len(lists) = D
  BY <1>1 DEF Drop, Shorter
<1>6. DOMAIN state = StateFields /\ state.object = 0 /\ Matrices(N, kind, parent, calls, mx, heap, lists, child)
  BY DEF ScopeHere
<1>7. Len(mx) = D
  BY <1>6 DEF Matrices
<1>8. DOMAIN state' = StateFields /\ state'.object = 0 /\ state'.matrix = SubSeq(mx, 1, D - 1)
  BY <1>1, <1>6, <1>7 DEF Popped, StateFields
<1> HIDE DEF N, H, D, up, mx
<1>9. D > 1 /\ D - 1 \in Nat \ {0} /\ (D - 1) + 1 = D
  BY <1>3, <1>4
<1>10. Walked(H, children, heap, lists', up, limit') /\ Upper(D, lists, child, limit, lists', up, limit')
  BY <1>2, <1>5, <1>9, WalkedUp
<1>11. Len(lists') = D - 1 /\ Len(up) = D - 1 /\ up \in Seq(Nat \ {0}) /\ \A l \in 1..(D - 1) : lists'[l] = lists[l] /\ up[l] = child[l]
  <2>1. up \in Seq(Nat \ {0}) /\ Len(up) = Len(lists')
    BY <1>10 DEF Walked
  <2> QED
    BY <2>1, <1>10 DEF Upper
<1>12. \A l \in 1..(D - 1) : l # 1 => l - 1 \in 1..(D - 1) /\ l - 1 # Len(child) - 1
  BY <1>3, <1>9
<1>13. \A l \in 1..(D - 1) : l # 1 => lists'[l - 1] = lists[l - 1] /\ child'[l - 1] = child[l - 1]
  <2>1. DOMAIN up = 1..(D - 1)
    BY <1>11, LenProperties
  <2> QED
    BY <2>1, <1>1, <1>11, <1>12
<1> DEFINE d == D - 1
           ls2 == lists'
           ch2 == child'
           mx2 == state'.matrix
<1>14. SameAbove(d, heap, lists, child, ls2, ch2)
  BY <1>13 DEF SameAbove, Above, Stop
<1>15. d \in Nat \ {0} /\ d + 1 = Len(lists) /\ mx2 = SubSeq(mx, 1, d) /\ Len(ls2) = d
  BY <1>5, <1>8, <1>9, <1>11
<1> HIDE DEF d, ls2, ch2, mx2
<1>16. Matrices(N, kind, parent, calls, mx2, heap, ls2, ch2)
  BY <1>6, <1>14, <1>15, MatricesPopped
<1> QED
  BY <1>1, <1>8, <1>16 DEF ScopeHere, SameHeap, SameModel, N, ls2, ch2, mx2

\* At the root there is only the identity.
LEMMA StartScope ==
  ASSUME Storage', NEW x \in Jobs, prf_model_traverse_io(x)
  PROVE  ScopeHere' /\ SeenHere'
<1> DEFINE N == Len(kind)
           ls == lists'
           ch == child'
           hp == heap'
<1>1. /\ calls' = <<>> /\ seen' = <<>> /\ kind' = kind /\ parent' = parent /\ state' = NewState
      /\ lists' = <<Len(heap) + 1>>
  BY DEF prf_model_traverse_io
<1>2. Rooted(N, parent) /\ N \in Nat
  <2>1. Shape(N, Len(heap') - 1, kind, parent, children', heap')
    BY <1>1 DEF Storage
  <2> QED
    BY <2>1 DEF Shape, Rooted, TreeOf
<1>3. DOMAIN state' = StateFields /\ state'.object = 0 /\ state'.matrix = <<<<>>>>
  BY <1>1 DEF NewState, StateFields
<1>4. Len(ls) = 1
  BY <1>1
<1> HIDE DEF N, ls, ch, hp
<1>5. Len(<<>>) = 0 /\ 1..0 = {} /\ <<>> \in Seq(1..N) /\ Rising(<<>>) /\ Members(<<>>) = {} /\ Listed(N, <<>>)
  BY DEF Rising, Members, Listed, InOrder
<1>6. \A a : ~Called(<<>>, a)
  BY <1>5 DEF Called
<1>7. \A l : LevelScope(N, kind, parent, <<>>, hp, ls, ch, l) = {}
  BY <1>6 DEF LevelScope
<1>8. <<<<>>>> \in Seq(Seq(1..N)) /\ Len(<<<<>>>>) = 1 /\ \A l \in 1..1 : <<<<>>>>[l] = <<>>
  <2>1. <<>> \in Seq(1..N)
    BY <1>5
  <2> QED
    BY <2>1
<1>9. Matrices(N, kind, parent, <<>>, <<<<>>>>, hp, ls, ch)
  BY <1>4, <1>5, <1>7, <1>8 DEF Matrices
<1>10. SeenRight(N, kind, parent, <<>>, <<>>, Lines')
  <2>1. IsSequence(<<>>)
    BY DEF IsSequence
  <2> QED
    BY <2>1, <1>5 DEF SeenRight
<1> QED
  BY <1>1, <1>2, <1>3, <1>5, <1>9, <1>10 DEF ScopeHere, SeenHere, N, ls, ch, hp

\* A call, whatever the job, shows its node the state in scope.
LEMMA VisitScope ==
  ASSUME Ready, ScopeHere, SeenHere, NEW code \in AllCodes, Call(Current, code), SameModel
  PROVE  SeenHere' /\ (at' # "done" => ScopeHere') /\ at' # "idle"
<1> DEFINE x == Current
<1>1. Control(x, code) /\ calls' = Append(calls, [node |-> x, code |-> code])
  BY DEF Call
<1>2. Shows(x)
  BY DEF Call, Shows, During, After
<1>3. at' # "idle"
  BY <1>1 DEF Control, AllCodes
<1> HIDE DEF x
<1> QED
  BY <1>1, <1>2, <1>3, CallShows DEF x
\* What a step of the loop leaves.
ScopeSettled == SeenHere /\ (at \notin {"done", "dead"} => ScopeHere) /\ at # "idle"
LEMMA WalkScope ==
  ASSUME InWalk, NoCross(Len(kind), parent), SeenHere, at # "done" => CallInv /\ ScopeHere, Traverse
  PROVE  ScopeSettled' \/ (at' = "idle" /\ calls' = <<>>)
<1>1. ASSUME at # "done" PROVE Storage /\ Place /\ CallInv /\ ScopeHere
  BY <1>1 DEF InWalk, WalkInv, Position
<1>2. ASSUME at = "visit" PROVE Ready /\ ScopeHere
  BY <1>1, <1>2 DEF Ready
<1>3. ASSUME NEW code \in AllCodes, at = "visit", Call(Current, code), SameModel PROVE ScopeSettled'
  BY <1>2, <1>3, VisitScope DEF ScopeSettled
<1>4. ASSUME NEW code \in Codes, VisitUser(code) PROVE ScopeSettled'
  <2>1. at = "visit" /\ Call(Current, code) /\ SameModel
    BY <1>4 DEF VisitUser, SameModel
  <2>2. code \in AllCodes
    BY TraverseAssumption DEF AllCodes
  <2> QED
    BY <2>1, <2>2, <1>3
<1>5. CASE VisitSave
  <2> DEFINE code == save_cb(Current)
  <2>1. at = "visit" /\ Call(Current, code) /\ SameModel
    BY <1>5 DEF VisitSave, SameModel
  <2>2. code \in AllCodes
    BY DEF AllCodes, save_cb
  <2> HIDE DEF code
  <2> QED
    BY <2>1, <2>2, <1>3
<1>6. CASE VisitClone
  <2>1. at = "visit" /\ clone_cb(Current) /\ SameModel
    BY <1>6 DEF VisitClone, SameModel
  <2>2. CASE at' = "dead" /\ UNCHANGED <<heap, lists, child, limit, state, calls, seen, copy, broken>>
    <3>1. Lines' = Lines
      BY <2>1 DEF SameModel, Lines, Ancestors
    <3> QED
      BY <3>1, <2>1, <2>2 DEF ScopeSettled, SeenHere, SameModel
  <2>3. CASE Call(Current, "CONTINUE")
    <3>1. "CONTINUE" \in AllCodes
      BY DEF AllCodes
    <3> QED
      BY <3>1, <2>1, <2>3, <1>3
  <2> QED
    BY <2>1, <2>2, <2>3 DEF clone_cb
<1>7. ASSUME SameModel, calls' = calls, seen' = seen PROVE SeenHere'
  <2>1. Lines' = Lines
    BY <1>7 DEF SameModel, Lines, Ancestors
  <2> QED
    BY <2>1, <1>7 DEF SeenHere, SameModel
<1>8. CASE Skip
  <2>1. at = "visit" /\ Control(Current, "SIBLING") /\ SameModel /\ calls' = calls /\ seen' = seen /\ state' = state
    BY <1>8 DEF Skip, SameModel
  <2>2. ScopeHere'
    BY <2>1, <1>1, SkipScope
  <2>3. at' # "idle"
    BY <2>1 DEF Control
  <2> QED
    BY <2>1, <2>2, <2>3, <1>7 DEF ScopeSettled
<1>9. CASE Up
  <2>1. at = "up" /\ at' = "up" /\ SameModel /\ calls' = calls /\ seen' = seen
    BY <1>9 DEF Up, vars, SameModel
  <2>2. ScopeHere'
    BY <2>1, <1>1, <1>9, UpScope
  <2> QED
    BY <2>1, <2>2, <1>7 DEF ScopeSettled
<1>10. CASE UpEnds
  <2>1. /\ at = "up" /\ SameModel /\ calls' = calls /\ seen' = seen /\ lists' = lists /\ child' = child /\ state' = state
        /\ at' \in {"visit", "done"} /\ (at' = "visit" => heap' = heap)
    BY <1>10 DEF UpEnds, SameModel
  <2>2. at' = "visit" => ScopeHere'
    BY <2>1, <1>1 DEF ScopeHere, SameModel
  <2> QED
    BY <2>1, <2>2, <1>7 DEF ScopeSettled
<1>11. CASE Done
  BY <1>11 DEF Done
<1> QED
  BY <1>4, <1>5, <1>6, <1>8, <1>9, <1>10, <1>11 DEF Traverse

\* Only a traversal that returns forgets its calls.
LEMMA OnlyDoneIdles ==
  ASSUME Traverse, at' = "idle"
  PROVE  calls' = <<>>
<1>1. ASSUME NEW n, NEW code, Control(n, code) PROVE FALSE
  BY <1>1 DEF Control
<1>2. ASSUME NEW code \in Codes, VisitUser(code) PROVE FALSE
  BY <1>1, <1>2 DEF VisitUser, Call
<1>3. CASE VisitSave
  BY <1>1, <1>3 DEF VisitSave, Call
<1>4. CASE VisitClone
  BY <1>1, <1>4 DEF VisitClone, clone_cb, Call
<1>5. CASE Skip
  BY <1>1, <1>5 DEF Skip
<1>6. CASE Up
  BY <1>6 DEF Up
<1>7. CASE UpEnds
  BY <1>7 DEF UpEnds
<1>8. CASE Done
  BY <1>8 DEF Done
<1> QED
  BY <1>2, <1>3, <1>4, <1>5, <1>6, <1>7, <1>8 DEF Traverse

\* Beside the traversals in order nothing is called for them.
LEMMA BesideScope ==
  ASSUME TInv, TInv', ScopeInv, [BNext]_allvars, at' \notin {"visit", "up", "done"}, ~Load, ~Traverse, ~UNCHANGED allvars
  PROVE  (Whole' => (job' \in Jobs => at' = "idle")) /\ (at' = "idle" => calls' = <<>>)
<1>1. "breadth" \notin Jobs
  BY TraverseAssumption
<1>2. ASSUME NEW n \in Nodes, NEW f \in {"deleted", "virtual"}, FlagNode(n, f)
      PROVE  at' = "idle" /\ calls' = <<>>
  BY <1>2 DEF FlagNode, walk, ScopeInv
<1>3. ASSUME NEW x \in Jobs, prf_model_traverse_io(x) PROVE FALSE
  BY <1>3 DEF prf_model_traverse_io
<1>4. CASE prf_model_traverse_bf
  BY <1>1, <1>4 DEF prf_model_traverse_bf
<1>5. CASE Breadth
  <2>1. ASSUME NEW code, VisitBreadth(code)
        PROVE  at = "node" /\ at' \in {"end", "node"} /\ job' = job /\ level' = level /\ broken' = broken
    BY <2>1 DEF VisitBreadth, model
  <2>3. /\ at \in {"list", "node", "end", "returned"} /\ level' = level /\ broken' = broken
        /\ (at' = "idle" => calls' = <<>>) /\ (job' = job \/ at' = "idle")
    <3>1. CASE NextList
      BY <3>1 DEF NextList, model
    <3>2. CASE ListEnds
      BY <3>2 DEF ListEnds, model
    <3>3. CASE ListGone
      BY <3>3 DEF ListGone, model
    <3>4. CASE Rotate
      BY <3>4 DEF Rotate, model
    <3>5. CASE EndBreadth
      BY <3>5 DEF EndBreadth, model
    <3>6. CASE ReturnBreadth
      BY <3>6 DEF ReturnBreadth, model
    <3> QED
      BY <1>5, <2>1, <3>1, <3>2, <3>3, <3>4, <3>5, <3>6 DEF Breadth
  <2>4. Whole' => Whole
    BY <2>3 DEF Whole
  <2>5. Whole => job = "breadth"
    BY <2>3 DEF TInv, WholeInv, InWalk, InLevels, LevelInv
  <2> QED
    BY <1>1, <2>3, <2>4, <2>5
<1> QED
  BY <1>2, <1>3, <1>4, <1>5 DEF BNext, TNext

\* So every step keeps the state in scope.
LEMMA ScopeNext == TInv /\ TInv' /\ OrderInv /\ ScopeInv /\ [BNext]_allvars => ScopeInv'
<1> SUFFICES ASSUME TInv, TInv', OrderInv, ScopeInv, [BNext]_allvars PROVE ScopeInv'
  OBVIOUS
<1>1. CASE Load
  <2>1. LoadRecord /\ at' = at /\ calls' = calls
    BY <1>1 DEF Load, walk
  <2>2. status = "loading"
    BY <2>1 DEF LoadRecord, LoadPrimary, LoadPop, LoadDies, LoadPush, LoadAncillary, LoadFails, EndOfFile, TrailingGarbage, Record
  <2>3. at = "idle"
    BY <2>2 DEF TInv
  <2> QED
    BY <2>1, <2>3 DEF ScopeInv, InWalk
<1>2. ASSUME NEW x \in Jobs, prf_model_traverse_io(x) PROVE ScopeInv'
  <2>1. /\ status = "loaded" /\ at = "idle" /\ status' = status /\ broken' = broken /\ level' = level /\ at' = "visit"
    BY <1>2 DEF prf_model_traverse_io
  <2>2. Whole' => Storage'
    BY <2>1 DEF TInv, WholeInv, InWalk, InLevels, WalkInv
  <2>3. Whole' => (ScopeHere' /\ SeenHere')
    BY <2>2, <1>2, StartScope
  <2> QED
    BY <2>1, <2>3 DEF ScopeInv
<1>3. CASE Traverse
  <2>1. SameTree /\ (Whole' => Whole /\ InWalk)
    BY <1>3, WalkBefore
  <2>2. ASSUME Whole' PROVE ScopeSettled' \/ (at' = "idle" /\ calls' = <<>>)
    <3>1. Whole /\ InWalk
      BY <2>1, <2>2
    <3>2. NoCross(Len(kind), parent) /\ (at # "done" => CallInv /\ ScopeHere)
      BY <3>1 DEF OrderInv, InWalk, Whole, Complete, ScopeInv
    <3>3. SeenHere
      BY <3>1 DEF ScopeInv, InWalk, WalkInv
    <3> QED
      BY <3>1, <3>2, <3>3, <1>3, WalkScope
  <2>3. at' = "idle" => calls' = <<>>
    BY <1>3, OnlyDoneIdles
  <2> QED
    BY <2>2, <2>3 DEF ScopeInv, ScopeSettled, InWalk
<1>4. CASE UNCHANGED allvars
  <2>1. UNCHANGED <<kind, parent, children, heap, stack, level, status, flag, job, at, lists, child, limit, state, seen, copy, broken, calls>>
    BY <1>4 DEF allvars, tvars, vars, walk, bvars
  <2>2. Storage' = Storage
    BY <2>1 DEF Storage
  <2>3. InWalk' = InWalk
    BY <2>1, <2>2 DEF InWalk, WalkInv, Position, Place, HeaderFirst, Clonable, Nodes
  <2>4. ScopeHere' = ScopeHere /\ Whole' = Whole
    BY <2>1 DEF ScopeHere, Whole
  <2>5. SeenHere' = SeenHere
    <3>1. Lines' = Lines
      BY <2>1 DEF Lines, Ancestors
    <3> QED
      BY <2>1, <3>1 DEF SeenHere
  <2> QED
    BY <2>1, <2>3, <2>4, <2>5 DEF ScopeInv
<1>5. CASE at' \notin {"visit", "up", "done"} /\ ~Load /\ ~Traverse /\ ~UNCHANGED allvars
  <2>1. (Whole' => (job' \in Jobs => at' = "idle")) /\ (at' = "idle" => calls' = <<>>)
    BY <1>5, BesideScope
  <2> QED
    BY <2>1, <1>5 DEF ScopeInv, InWalk
<1> QED
  BY <1>1, <1>2, <1>3, <1>4, <1>5, StepsBeside

\* The state in scope is what the model says of it.
LEMMA ScopeIsRight == ScopeInv => ScopeOfState
<1> SUFFICES ASSUME ScopeInv, Whole, job \in Jobs, NEW c \in DOMAIN calls
             PROVE  /\ Members(Matrix(seen[c])) = InScope(calls[c].node)
                    /\ Ascending(Matrix(seen[c]))
                    /\ seen[c].object \in {0, calls[c].node}
  BY DEF ScopeOfState
<1> DEFINE N == Len(kind)
           n == calls[c].node
           s == Matrix(seen[c])
<1>1. at # "idle"
  BY DEF ScopeInv
<1>2. Rooted(N, parent) /\ Listed(N, calls) /\ SeenRight(N, kind, parent, calls, seen, Lines)
  BY <1>1 DEF ScopeInv, SeenHere
<1>3. DOMAIN calls = 1..Len(calls) /\ N \in Nat
  BY <1>2, LenProperties DEF Listed, Rooted, TreeOf
<1>4. s \in Seq(1..N) /\ Rising(s) /\ Members(s) = NodeScope(N, kind, parent, calls, Lines, n) /\ seen[c].object \in {0, n}
  BY <1>2, <1>3 DEF SeenRight, ShownRightly
<1>5. n \in 1..N
  BY <1>2, <1>3, AnswerOfCall
<1>6. Lineage(N, parent, Lines)
  BY <1>2, AncestorsAre
<1>7. \A m \in Lines[n] : m \in 1..N
  BY <1>2, <1>5, <1>6, LineIsBefore
<1>8. Lines[n] = Ancestors(n) /\ Nodes = 1..N
  BY <1>3, <1>5 DEF Lines, Nodes
<1>9. \A a : Answer(a) # "none" <=> Called(calls, a)
  <2>1. \A a : Answer(a) = AnswerIn(calls, a)
    BY DEF Answer, AnswerIn
  <2> HIDE DEF N
  <2> QED
    BY <2>1, <1>2, AnswerOfNode DEF Called
<1>10. InScope(n) = NodeScope(N, kind, parent, calls, Lines, n)
  <2> HIDE DEF n, N
  <2>1. \A a \in 1..N : (\E m \in Ancestors(n) : m \in Siblings(a) /\ a <= m) <=> (\E m \in Lines[n] : parent[m] = parent[a] /\ a <= m)
    BY <1>7, <1>8 DEF Siblings
  <2> QED
    BY <2>1, <1>8, <1>9 DEF InScope, NodeScope
<1>11. Ascending(s)
  <2> DEFINE L == Len(s)
  <2>1. L \in Nat
    BY <1>4, LenProperties
  <2> HIDE DEF L, s
  <2>2. \A x \in 1..(L - 1) : x \in 1..L /\ x + 1 \in 1..L /\ x < x + 1
    BY <2>1
  <2> QED
    BY <2>2, <1>4 DEF Ascending, Rising, L
<1> QED
  BY <1>4, <1>10, <1>11
-----------------------------------------------------------------------------
(* The definitions *)

\* Nothing is taken away from the definitions, and nothing moves.
Extends(f, g) == IsSequence(f) /\ IsSequence(g) /\ Len(f) <= Len(g) /\ \A x \in 1..Len(f) : g[x] = f[x]
LEMMA ExtendsTrans ==
  ASSUME NEW f, NEW g, NEW h, Extends(f, g), Extends(g, h)
  PROVE  Extends(f, h)
<1>1. IsSequence(f) /\ IsSequence(g) /\ IsSequence(h)
  BY DEF Extends
<1>2. Len(f) \in Nat /\ Len(g) \in Nat /\ Len(h) \in Nat
  BY <1>1, AppendAny
<1> DEFINE L == Len(f)
           M == Len(g)
           N == Len(h)
<1>3. L <= M /\ M <= N
  BY DEF Extends
<1>4. (\A x \in 1..L : g[x] = f[x]) /\ \A x \in 1..M : h[x] = g[x]
  BY DEF Extends
<1> HIDE DEF L, M, N
<1>5. L <= N /\ \A x \in 1..L : x \in 1..M
  BY <1>2, <1>3 DEF L, M, N
<1>6. \A x \in 1..L : h[x] = f[x]
  BY <1>4, <1>5
<1> QED
  BY <1>1, <1>5, <1>6 DEF Extends, L, N

\* Definitions extend themselves,
LEMMA ExtendsSame ==
  ASSUME NEW f, IsSequence(f)
  PROVE  Extends(f, f)
<1>1. Len(f) \in Nat
  BY AppendAny
<1>2. Len(f) <= Len(f)
  BY <1>1
<1> QED
  BY <1>2 DEF Extends

\* and are extended by one more.
LEMMA ExtendsMore ==
  ASSUME NEW f, IsSequence(f), NEW e
  PROVE  Extends(f, Append(f, e))
<1>1. /\ IsSequence(Append(f, e)) /\ Len(f) \in Nat /\ Len(Append(f, e)) = Len(f) + 1
      /\ \A x \in 1..Len(f) : Append(f, e)[x] = f[x]
  BY AppendAny
<1>2. Len(f) <= Len(f) + 1
  BY <1>1
<1> QED
  BY <1>1, <1>2 DEF Extends

\* So a lookup that has found a node finds it again.
LEMMA FoundAgain ==
  ASSUME NEW f, NEW g, Extends(f, g), NEW number, NEW v, Lookup(f, number, v) # 0
  PROVE  Lookup(g, number, v) = Lookup(f, number, v)
<1> DEFINE Hits(x) == {y \in DOMAIN x : number[x[y]] = v}
           First(x) == CHOOSE y \in Hits(x) : \A h \in Hits(x) : y <= h
<1>1. IsSequence(f) /\ IsSequence(g) /\ Len(f) <= Len(g) /\ \A x \in 1..Len(f) : g[x] = f[x]
  BY DEF Extends
<1>2. DOMAIN f = 1..Len(f) /\ DOMAIN g = 1..Len(g) /\ Len(f) \in Nat /\ Len(g) \in Nat
  <2>1. f \in Seq({f[x] : x \in 1..Len(f)}) /\ g \in Seq({g[x] : x \in 1..Len(g)})
    BY <1>1 DEF IsSequence
  <2> QED
    BY <2>1, LenProperties
<1>3. /\ Lookup(f, number, v) = IF Hits(f) = {} THEN 0 ELSE f[First(f)]
      /\ Lookup(g, number, v) = IF Hits(g) = {} THEN 0 ELSE g[First(g)]
  BY DEF Lookup
<1>4. Hits(f) # {} /\ Hits(f) \subseteq Nat
  BY <1>2, <1>3
<1>5. PICK m \in Hits(f) : \A h \in Hits(f) : m <= h
  BY <1>4, LeastExists
<1>6. m \in 1..Len(f) /\ m \in Nat /\ m \in 1..Len(g)
  BY <1>1, <1>2, <1>5
<1>7. m \in Hits(g)
  BY <1>1, <1>2, <1>5, <1>6
<1>8. ASSUME NEW h \in Hits(g) PROVE m <= h
  <2>1. h \in Nat /\ h >= 1
    BY <1>2
  <2>2. CASE h <= Len(f)
    <3>1. h \in 1..Len(f)
      BY <2>1, <2>2, <1>2
    <3>2. h \in Hits(f)
      BY <3>1, <1>1, <1>2
    <3> QED
      BY <3>2, <1>5
  <2>3. CASE ~(h <= Len(f))
    BY <2>1, <2>3, <1>2, <1>6
  <2> QED
    BY <2>2, <2>3
<1>9. \A y \in Hits(f) : (\A h \in Hits(f) : y <= h) => y = m
  <2>1. \A y \in Hits(f) : y \in Nat
    BY <1>4
  <2> HIDE DEF Hits
  <2> QED
    BY <2>1, <1>5, <1>6
<1>10. \A y \in Hits(g) : (\A h \in Hits(g) : y <= h) => y = m
  <2>1. \A y \in Hits(g) : y \in Nat
    BY <1>2
  <2> HIDE DEF Hits
  <2> QED
    BY <2>1, <1>6, <1>7, <1>8
<1> HIDE DEF Hits
<1>11. First(f) = m /\ First(g) = m
  BY <1>5, <1>7, <1>8, <1>9, <1>10
<1> QED
  BY <1>1, <1>3, <1>4, <1>6, <1>7, <1>11

\* Nothing is found in an empty array.
LEMMA NothingFound ==
  ASSUME NEW number, NEW v
  PROVE  Lookup(<<>>, number, v) = 0
<1>1. DOMAIN <<>> = {}
  OBVIOUS
<1> QED
  BY <1>1 DEF Lookup

\* The materials after the call of n: those before, and perhaps n; or none, when n is
\* the registered header.
Renewed(k, before, s, n) == IF Registers(k, s, n) THEN s.materials = <<>> ELSE Extends(before, s.materials)
\* The definitions shown to the calls, one after the other, and those of now: f are
\* textures and instances, m are materials.
Defined(k, cs, sn, f, m) ==
  /\ IsSequence(cs) /\ IsSequence(sn) /\ Len(sn) = Len(cs) /\ IsSequence(f) /\ IsSequence(m)
  /\ \A c \in 1..Len(sn) : Extends(sn[c].found, f)
  /\ Len(sn) > 0 => sn[Len(sn)].materials = m
  /\ \A c \in 1..(Len(sn) - 1) :
       Extends(sn[c].found, sn[c + 1].found) /\ Renewed(k, sn[c].materials, sn[c + 1], cs[c + 1].node)
LEMMA DefinedGrows ==
  ASSUME NEW k, NEW cs, NEW sn, NEW f, NEW m, Defined(k, cs, sn, f, m), NEW r, NEW d, NEW f2, NEW m2,
         Extends(f, d.found), f2 = d.found, IsSequence(d.materials), m2 = d.materials,
         Renewed(k, m, d, r.node)
  PROVE  Defined(k, Append(cs, r), Append(sn, d), f2, m2)
<1> DEFINE L == Len(sn)
           cs2 == Append(cs, r)
           sn2 == Append(sn, d)
           Step(c) == /\ Extends(sn2[c].found, sn2[c + 1].found)
                      /\ Renewed(k, sn2[c].materials, sn2[c + 1], cs2[c + 1].node)
<1>1. IsSequence(cs) /\ IsSequence(sn) /\ Len(sn) = Len(cs)
  BY DEF Defined
<1>2. /\ IsSequence(sn2) /\ L \in Nat /\ Len(sn2) = L + 1 /\ sn2[L + 1] = d /\ (\A c \in 1..L : sn2[c] = sn[c])
      /\ IsSequence(cs2) /\ Len(cs2) = L + 1 /\ cs2[L + 1] = r /\ (\A c \in 1..L : cs2[c] = cs[c])
  BY <1>1, AppendAny
<1>3. /\ \A c \in 1..L : Extends(sn[c].found, f)
      /\ L > 0 => sn[L].materials = m
      /\ \A c \in 1..(L - 1) :
           Extends(sn[c].found, sn[c + 1].found) /\ Renewed(k, sn[c].materials, sn[c + 1], cs[c + 1].node)
  BY DEF Defined
<1>4. IsSequence(f2) /\ Extends(f2, f2) /\ Extends(f, f2)
  BY ExtendsSame DEF Extends
<1> HIDE DEF L, sn2, cs2
<1>5. (\A c \in 1..(L + 1) : c \in 1..L \/ c = L + 1) /\ (\A c \in 1..L : c \in 1..(L - 1) \/ c = L) /\ (L + 1) - 1 = L
      /\ (\A c \in 1..(L - 1) : c \in 1..L /\ c + 1 \in 1..L) /\ L + 1 > 0
  BY <1>2
<1>6. ASSUME NEW c \in 1..L PROVE Extends(sn2[c].found, f2)
  BY <1>2, <1>3, <1>4, ExtendsTrans
<1>7. \A c \in 1..(L + 1) : Extends(sn2[c].found, f2)
  BY <1>2, <1>4, <1>5, <1>6
<1>8. \A c \in 1..L : Step(c)
  <2> SUFFICES ASSUME NEW c \in 1..L PROVE Step(c)
    OBVIOUS
  <2>1. CASE c = L
    <3>1. L > 0 /\ L \in 1..L
      BY <2>1, <1>2
    <3>2. sn2[L].materials = m /\ sn2[L + 1] = d /\ cs2[L + 1] = r
      BY <3>1, <1>2, <1>3
    <3> QED
      BY <3>2, <2>1, <1>2, <1>6
  <2>2. CASE c \in 1..(L - 1)
    <3>1. sn2[c] = sn[c] /\ sn2[c + 1] = sn[c + 1] /\ cs2[c + 1] = cs[c + 1]
      BY <2>2, <1>2, <1>5
    <3> QED
      BY <3>1, <2>2, <1>3
  <2> QED
    BY <2>1, <2>2, <1>5
<1>9. sn2[L + 1].materials = m2 /\ IsSequence(m2)
  BY <1>2
<1> QED
  BY <1>2, <1>4, <1>5, <1>7, <1>8, <1>9 DEF Defined, sn2, cs2

\* What a call does to them.
LEMMA CallDefines ==
  ASSUME NEW k, NEW n, NEW s, DOMAIN s = StateFields, IsSequence(s.found), IsSequence(s.materials)
  PROVE  /\ Extends(s.found, During(k, s, n).found) /\ DOMAIN After(k, s, n) = StateFields
         /\ After(k, s, n).found = During(k, s, n).found
         /\ Renewed(k, s.materials, During(k, s, n), n) /\ IsSequence(During(k, s, n).materials)
         /\ After(k, s, n).materials = During(k, s, n).materials
<1> DEFINE d == During(k, s, n)
           e == After(k, s, n)
<1>1. /\ DOMAIN d = StateFields /\ d.found \in {s.found, Append(s.found, n)}
      /\ IF Registers(k, d, n) THEN d.materials = <<>> ELSE d.materials \in {s.materials, Append(s.materials, n)}
  BY EntryMultiplies
<1>2. /\ Extends(s.found, s.found) /\ Extends(s.found, Append(s.found, n))
      /\ Extends(s.materials, s.materials) /\ Extends(s.materials, Append(s.materials, n))
  BY ExtendsSame, ExtendsMore
<1>3. e = exit_f(k[n], n, d)
  BY DEF After
<1> HIDE DEF d, e
<1>4. DOMAIN e = StateFields /\ e.found = d.found /\ e.materials = d.materials
  BY <1>1, <1>3, ExitResets
<1>5. Renewed(k, s.materials, d, n)
  BY <1>1, <1>2 DEF Renewed
<1>6. IsSequence(d.materials)
  <2>1. IsSequence(<<>>)
    BY DEF IsSequence
  <2> QED
    BY <2>1, <1>1, <1>2 DEF Extends
<1> QED
  BY <1>1, <1>2, <1>4, <1>5, <1>6 DEF d, e

\* This holds of every traversal in order, also of a model that is not whole.
DefinedHere == DOMAIN state = StateFields /\ Defined(kind, calls, seen, state.found, state.materials)
DefinitionInv ==
  /\ (job \in Jobs /\ at # "idle") => DefinedHere /\ status = "loaded"
  /\ at = "idle" => calls = <<>>
  /\ at \in {"list", "node", "end", "returned"} => job = "breadth"
LEMMA CallDefinesMore ==
  ASSUME DefinedHere, kind' = kind, NEW n, NEW code, Call(n, code)
  PROVE  DefinedHere' /\ at' \in {"done", "visit", "dead", "up"}
<1> DEFINE d == During(kind, state, n)
           e == After(kind, state, n)
<1>1. /\ calls' = Append(calls, [node |-> n, code |-> code]) /\ seen' = Append(seen, d)
      /\ state' = (IF Len(lists') > Len(lists) THEN Pushed(e) ELSE e) /\ Control(n, code)
  BY DEF Call, During, After
<1>2. at' \in {"done", "visit", "dead", "up"}
  BY <1>1 DEF Control
<1>3. /\ DOMAIN state = StateFields /\ IsSequence(state.found) /\ IsSequence(state.materials)
      /\ Defined(kind, calls, seen, state.found, state.materials)
  BY DEF DefinedHere, Defined
<1>4. /\ Extends(state.found, d.found) /\ DOMAIN e = StateFields /\ e.found = d.found
      /\ Renewed(kind, state.materials, d, n) /\ IsSequence(d.materials) /\ e.materials = d.materials
  BY <1>3, CallDefines
<1> HIDE DEF d, e
<1>5. DOMAIN state' = StateFields /\ state'.found = d.found /\ state'.materials = d.materials
  <2>1. CASE Len(lists') > Len(lists)
    BY <2>1, <1>1, <1>4 DEF Pushed, StateFields
  <2>2. CASE ~(Len(lists') > Len(lists))
    BY <2>2, <1>1, <1>4
  <2> QED
    BY <2>1, <2>2
<1> DEFINE f2 == state'.found
           m2 == state'.materials
           r == [node |-> n, code |-> code]
<1>6. f2 = d.found /\ m2 = d.materials /\ r.node = n
  BY <1>5
<1> HIDE DEF f2, m2, r
<1>7. Defined(kind, Append(calls, r), Append(seen, d), f2, m2)
  BY <1>3, <1>4, <1>6, DefinedGrows
<1> QED
  BY <1>1, <1>2, <1>5, <1>7 DEF DefinedHere, f2, m2, r

\* Every step of a traversal keeps them,
LEMMA WalkDefines ==
  ASSUME at # "idle", (job \in Jobs => DefinedHere), Traverse, job' \in Jobs, at' # "idle"
  PROVE  DefinedHere'
<1>1. ASSUME NEW code \in Codes, VisitUser(code) PROVE DefinedHere'
  <2>1. job' = job /\ kind' = kind /\ Call(Current, code)
    BY <1>1 DEF VisitUser
  <2> QED
    BY <2>1, CallDefinesMore
<1>2. CASE VisitSave
  <2>1. job' = job /\ kind' = kind /\ Call(Current, save_cb(Current))
    BY <1>2 DEF VisitSave
  <2> QED
    BY <2>1, CallDefinesMore
<1>3. CASE VisitClone
  <2>1. job' = job /\ kind' = kind /\ clone_cb(Current)
    BY <1>3 DEF VisitClone
  <2>2. CASE Call(Current, "CONTINUE")
    BY <2>1, <2>2, CallDefinesMore
  <2>3. CASE UNCHANGED <<heap, lists, child, limit, state, calls, seen, copy, broken>>
    BY <2>1, <2>3 DEF DefinedHere
  <2> QED
    BY <2>1, <2>2, <2>3 DEF clone_cb
<1>4. CASE Skip
  <2>1. job' = job /\ UNCHANGED <<kind, state, calls, seen>>
    BY <1>4 DEF Skip
  <2> QED
    BY <2>1 DEF DefinedHere
<1>5. CASE Up
  <2>1. job' = job /\ UNCHANGED <<kind, calls, seen>> /\ state' = Popped(state)
    BY <1>5 DEF Up, vars
  <2>2. DOMAIN state = StateFields
    BY <2>1 DEF DefinedHere
  <2>3. DOMAIN state' = StateFields /\ state'.found = state.found /\ state'.materials = state.materials
    BY <2>1, <2>2 DEF Popped, StateFields
  <2> QED
    BY <2>1, <2>3 DEF DefinedHere
<1>6. CASE UpEnds
  <2>1. job' = job /\ UNCHANGED <<kind, state, calls, seen>>
    BY <1>6 DEF UpEnds
  <2> QED
    BY <2>1 DEF DefinedHere
<1>7. CASE Done
  BY <1>7 DEF Done
<1> QED
  BY <1>1, <1>2, <1>3, <1>4, <1>5, <1>6, <1>7 DEF Traverse
\* None of them loads.
LEMMA WalkStays ==
  ASSUME Traverse
  PROVE  status' = status /\ (at' # "idle" => job' = job)
<1>1. ASSUME NEW code \in Codes, VisitUser(code) PROVE status' = status /\ job' = job
  BY <1>1 DEF VisitUser
<1> QED
  BY <1>1 DEF Traverse, VisitSave, VisitClone, Skip, Up, UpEnds, Done, vars

\* Where a traversal in order is.
LEMMA WalkPlaces ==
  ASSUME Traverse
  PROVE  at \in {"visit", "up", "done"} /\ at' \in {"visit", "up", "done", "dead", "idle"}
<1>1. ASSUME NEW n, NEW code, Control(n, code) PROVE at' \in {"visit", "up", "done", "dead"}
  BY <1>1 DEF Control
<1>2. ASSUME NEW code \in Codes, VisitUser(code) PROVE at = "visit" /\ at' \in {"visit", "up", "done", "dead"}
  BY <1>1, <1>2 DEF VisitUser, Call
<1>3. CASE VisitSave
  BY <1>1, <1>3 DEF VisitSave, Call
<1>4. CASE VisitClone
  BY <1>1, <1>4 DEF VisitClone, clone_cb, Call
<1>5. CASE Skip
  BY <1>1, <1>5 DEF Skip
<1>6. CASE Up
  BY <1>6 DEF Up
<1>7. CASE UpEnds
  BY <1>7 DEF UpEnds
<1>8. CASE Done
  BY <1>8 DEF Done
<1> QED
  BY <1>2, <1>3, <1>4, <1>5, <1>6, <1>7, <1>8 DEF Traverse

\* and every other step begins or ends one or leaves it alone.
LEMMA DefinitionNext == DefinitionInv /\ [BNext]_allvars => DefinitionInv'
<1> SUFFICES ASSUME DefinitionInv, [BNext]_allvars PROVE DefinitionInv'
  OBVIOUS
<1>0. "breadth" \notin Jobs
  BY TraverseAssumption
<1>1. ASSUME UNCHANGED <<walk, kind, status>> PROVE DefinitionInv'
  BY <1>1 DEF DefinitionInv, DefinedHere, walk
<1>2. CASE Load
  <2>1. UNCHANGED walk
    BY <1>2 DEF Load
  <2>2. status = "loading"
    BY <1>2 DEF Load, LoadRecord, LoadPrimary, LoadPop, LoadDies, LoadPush, LoadAncillary, LoadFails,
                EndOfFile, TrailingGarbage, Record
  <2> QED
    BY <2>1, <2>2 DEF DefinitionInv, walk
<1>3. ASSUME NEW n \in Nodes, NEW f \in {"deleted", "virtual"}, FlagNode(n, f) PROVE DefinitionInv'
  BY <1>1, <1>3 DEF FlagNode, vars
<1>4. ASSUME NEW x \in Jobs, prf_model_traverse_io(x) PROVE DefinitionInv'
  <2>1. calls' = <<>> /\ seen' = <<>> /\ state' = NewState /\ at' = "visit" /\ status' = "loaded"
    BY <1>4 DEF prf_model_traverse_io
  <2>2. DOMAIN NewState = StateFields /\ NewState.found = <<>> /\ NewState.materials = <<>>
    BY DEF NewState, StateFields
  <2>3. IsSequence(<<>>) /\ Len(<<>>) = 0 /\ 1..0 = {} /\ 1..(0 - 1) = {}
    BY DEF IsSequence
  <2>4. Defined(kind', <<>>, <<>>, <<>>, <<>>)
    BY <2>3 DEF Defined
  <2> QED
    BY <2>1, <2>2, <2>4 DEF DefinitionInv, DefinedHere
<1>5. CASE Traverse
  <2>1. at \in {"visit", "up", "done"} /\ at' \in {"visit", "up", "done", "dead", "idle"}
    BY <1>5, WalkPlaces
  <2>2. job \in Jobs => DefinedHere /\ status = "loaded"
    BY <2>1 DEF DefinitionInv
  <2>3. (job' \in Jobs /\ at' # "idle") => DefinedHere'
    BY <2>1, <2>2, <1>5, WalkDefines
  <2>5. status' = status /\ (at' # "idle" => job' = job)
    BY <1>5, WalkStays
  <2>4. at' = "idle" => calls' = <<>>
    BY <1>5, OnlyDoneIdles
  <2> QED
    BY <2>1, <2>2, <2>3, <2>4, <2>5 DEF DefinitionInv
<1>6. CASE prf_model_traverse_bf
  BY <1>0, <1>6 DEF prf_model_traverse_bf, DefinitionInv
<1>7. CASE Breadth
  <2>1. ASSUME NEW code, VisitBreadth(code)
        PROVE  at = "node" /\ at' \in {"end", "node"} /\ job' = job
    BY <2>1 DEF VisitBreadth
  <2>2. /\ at \in {"list", "node", "end", "returned"}
        /\ \/ job' = job /\ at' \in {"list", "node", "end", "returned", "dead"}
           \/ at' = "idle" /\ calls' = <<>> /\ job' = "none"
    <3>1. CASE NextList
      BY <3>1 DEF NextList
    <3>2. CASE ListEnds
      BY <3>2 DEF ListEnds
    <3>3. CASE ListGone
      BY <3>3 DEF ListGone
    <3>4. CASE Rotate
      BY <3>4 DEF Rotate
    <3>5. CASE EndBreadth
      BY <3>5 DEF EndBreadth
    <3>6. CASE ReturnBreadth
      BY <3>6 DEF ReturnBreadth
    <3> QED
      BY <1>7, <2>1, <3>1, <3>2, <3>3, <3>4, <3>5, <3>6 DEF Breadth
  <2> QED
    BY <2>2, <1>0 DEF DefinitionInv
<1>8. CASE UNCHANGED allvars
  BY <1>1, <1>8 DEF allvars, tvars, vars
<1> QED
  BY <1>2, <1>3, <1>4, <1>5, <1>6, <1>7, <1>8 DEF BNext, TNext

\* That is what lookups rely on.
LEMMA DefinitionsAreFound == DefinitionInv => DefinitionsStay
<1> SUFFICES ASSUME DefinitionInv, job \in Jobs, NEW c \in 1..(Len(calls) - 1), NEW number \in {0, 1}
             PROVE  /\ Lookup(seen[c].found, Number, number) # 0 =>
                         Lookup(seen[c + 1].found, Number, number) = Lookup(seen[c].found, Number, number)
                    /\ Lookup(seen[c].materials, Number, number) # 0 =>
                         Lookup(seen[c + 1].materials, Number, number) =
                           IF Registering(c + 1) THEN 0 ELSE Lookup(seen[c].materials, Number, number)
  BY DEF DefinitionsStay
<1>1. at # "idle"
  BY DEF DefinitionInv
<1>2. Defined(kind, calls, seen, state.found, state.materials)
  BY <1>1 DEF DefinitionInv, DefinedHere
<1>3. Extends(seen[c].found, seen[c + 1].found) /\ Renewed(kind, seen[c].materials, seen[c + 1], calls[c + 1].node)
  BY <1>2 DEF Defined
<1>4. CASE Registering(c + 1)
  <2>1. seen[c + 1].materials = <<>>
    BY <1>3, <1>4 DEF Registering, Registers, Renewed
  <2> QED
    BY <2>1, <1>3, <1>4, FoundAgain, NothingFound
<1>5. CASE ~Registering(c + 1)
  <2>1. Extends(seen[c].materials, seen[c + 1].materials)
    BY <1>3, <1>5 DEF Registering, Registers, Renewed
  <2> QED
    BY <2>1, <1>3, <1>5, FoundAgain
<1> QED
  BY <1>4, <1>5

\* What a callback of a traversal in order is shown is in its scope: on a whole model
\* the product of the ancillary nodes before it and before its ancestors, each once and
\* in the order of the file, and no other object's transparency; on any model a texture
\* or instance that was found once is found again, and so is a material until the call
\* of the header that the state registers, which forgets it.
THEOREM StateIsInScope == BSpec => []StateInScope
<1>1. TInv /\ OrderInv /\ ScopeInv /\ DefinitionInv /\ [BNext]_allvars => (TInv /\ OrderInv /\ ScopeInv /\ DefinitionInv)'
  BY BNextOK, OrderNext, ScopeNext, DefinitionNext
<1>2. BInit => TInv /\ OrderInv /\ ScopeInv /\ DefinitionInv
  <2>1. BInit => ScopeInv /\ DefinitionInv
    BY TraverseAssumption DEF BInit, TInit, ScopeInv, InWalk, DefinitionInv
  <2> QED
    BY <2>1, BInitOK, OrderInit
<1>3. ScopeInv /\ DefinitionInv => StateInScope
  BY ScopeIsRight, DefinitionsAreFound DEF StateInScope
<1> QED
  BY <1>1, <1>2, <1>3, PTL DEF BSpec

-----------------------------------------------------------------------------
(* Sections *)

\* The records as a tree: d: the depths, lv: the levels after them.
Recorded(N, k, par, d, lv) ==
  /\ N \in Nat /\ N > 0 /\ lv[0] = 0 /\ lv[N] = 0 /\ d[1] = 0 /\ par[1] = 0
  /\ \A n \in 0..N : lv[n] \in Int
  /\ \A n \in 1..N : d[n] \in Nat /\ d[n] = lv[n - 1] + Begin(k[n]) /\ lv[n] = d[n] - End(k[n])
  /\ \A n \in 2..N :
       par[n] \in 1..(n - 1) /\ d[par[n]] = d[n] - 1 /\ \A m \in (par[n] + 1)..(n - 1) : d[par[n]] < d[m]
  /\ \A n \in 2..N : \A p \in 1..(n - 1) : (d[p] = d[n] - 1 /\ \A m \in (p + 1)..(n - 1) : d[m] # d[p]) => par[n] = p

\* Pushes and ancillary nodes stand outside the sections of their list, so a list
\* begins with one and one follows every pop or ancillary node, and nothing else;
\* it ends with a pop or an ancillary node, and no such node has children.
NextKid(par, n, m) == n < m /\ par[n] = par[m] /\ \A q \in (n + 1)..(m - 1) : par[q] # par[m]
Alternates(N, k, par) ==
  /\ N \in Nat /\ N > 0 /\ Begin(k[1]) = 0 /\ End(k[1]) = 0
  /\ \A m \in 2..N : (\A q \in 2..(m - 1) : par[q] # par[m]) => (Begin(k[m]) = 1 /\ End(k[par[m]]) = 0)
  /\ \A m \in 2..N : (\A q \in (m + 1)..N : par[q] # par[m]) => End(k[m]) = 1
  /\ \A n, m \in 2..N : NextKid(par, n, m) => End(k[n]) = Begin(k[m])

\* A node at the depth of n, with only deeper ones between it and the parent of n, has this parent.
LEMMA SameParent ==
  ASSUME NEW N, NEW k, NEW par, NEW d, NEW lv, Recorded(N, k, par, d, lv), NEW n \in 2..N, NEW q \in 2..N,
         par[n] < q, d[q] = d[n], \A m \in (par[n] + 1)..(q - 1) : d[par[n]] < d[m]
  PROVE  par[q] = par[n]
<1>1. N \in Nat /\ par[n] \in 1..(n - 1) /\ d[par[n]] = d[n] - 1 /\ \A m \in 1..N : d[m] \in Nat
  BY DEF Recorded
<1>2. par[n] \in 1..(q - 1) /\ d[par[n]] = d[q] - 1 /\ par[n] \in 1..N
  BY <1>1
<1>3. \A m \in (par[n] + 1)..(q - 1) : m \in 1..N
  BY <1>1, <1>2
<1>4. \A m \in (par[n] + 1)..(q - 1) : d[m] # d[par[n]]
  BY <1>1, <1>2, <1>3
<1> QED
  BY <1>2, <1>4 DEF Recorded

\* The first child comes right behind its parent.
LEMMA FirstKid ==
  ASSUME NEW N, NEW k, NEW par, NEW d, NEW lv, Recorded(N, k, par, d, lv), NEW m \in 2..N,
         \A q \in 2..(m - 1) : par[q] # par[m]
  PROVE  Begin(k[m]) = 1 /\ End(k[par[m]]) = 0
<1> DEFINE p == par[m]
<1>1. /\ N \in Nat /\ p \in 1..(m - 1) /\ d[p] = d[m] - 1 /\ d[p] \in Nat /\ d[m] \in Nat /\ p \in 1..N /\ p + 1 \in 2..N /\ (p + 1) - 1 = p
      /\ \A x \in (p + 1)..(m - 1) : d[p] < d[x]
  BY DEF Recorded
<1>2. lv[p] \in Int /\ lv[p] = d[p] - End(k[p]) /\ d[p + 1] = lv[p] + Begin(k[p + 1]) /\ d[p + 1] \in Nat
  <2>1. p + 1 \in 1..N /\ p \in 0..N
    BY <1>1
  <2> QED
    BY <2>1, <1>1 DEF Recorded
<1>3. Begin(k[p + 1]) \in 0..1 /\ End(k[p]) \in 0..1
  BY DEF Begin, End
<1> HIDE DEF p
<1>4. m = p + 1
  <2> SUFFICES ASSUME m # p + 1 PROVE FALSE
    OBVIOUS
  <2>1. p + 1 \in (p + 1)..(m - 1) /\ p + 1 \in 2..(m - 1)
    BY <1>1
  <2>2. d[p] < d[p + 1]
    BY <2>1, <1>1
  <2>3. d[p + 1] = d[m]
    BY <2>2, <1>1, <1>2, <1>3
  <2>4. p < p + 1 /\ \A x \in (p + 1)..((p + 1) - 1) : FALSE
    BY <1>1
  <2>5. par[p + 1] = par[m]
    BY <2>3, <2>4, <1>1, SameParent DEF p
  <2> QED
    BY <2>1, <2>5
<1>5. d[m] = d[p] - End(k[p]) + Begin(k[m])
  BY <1>2, <1>4
<1> QED
  BY <1>1, <1>3, <1>4, <1>5 DEF p

\* Between two neighbours of a list everything is deeper, and the level is kept.
LEMMA NextKidLevel ==
  ASSUME NEW N, NEW k, NEW par, NEW d, NEW lv, Recorded(N, k, par, d, lv), NEW n \in 2..N, NEW m \in 2..N, NextKid(par, n, m)
  PROVE  End(k[n]) = Begin(k[m])
<1> DEFINE p == par[m]
<1>1. /\ N \in Nat /\ n < m /\ par[n] = p /\ p \in 1..(n - 1) /\ d[p] = d[m] - 1 /\ d[p] = d[n] - 1 /\ d[p] \in Nat /\ d[n] \in Nat
      /\ \A x \in (p + 1)..(m - 1) : d[p] < d[x]
  BY DEF Recorded, NextKid
<1>2. d[m] = d[n]
  BY <1>1 DEF Recorded
<1>3. n - 1 \in 0..N /\ m - 1 \in 0..N /\ m - 1 \in 1..N /\ n \in 0..N /\ n \in 1..N /\ m \in 1..N
  BY <1>1
<1>4. lv[n] = d[n] - End(k[n]) /\ lv[m - 1] \in Int /\ d[m] = lv[m - 1] + Begin(k[m]) /\ lv[m - 1] = d[m - 1] - End(k[m - 1]) /\ d[m - 1] \in Nat
  BY <1>3 DEF Recorded
<1>5. End(k[n]) \in 0..1 /\ Begin(k[m]) \in 0..1 /\ End(k[m - 1]) \in 0..1 /\ Begin(k[n + 1]) \in 0..1
  BY DEF Begin, End
<1> HIDE DEF p
<1>6. CASE m = n + 1
  <2>1. m - 1 = n
    BY <1>3, <1>6
  <2> QED
    BY <2>1, <1>1, <1>2, <1>4, <1>5
<1>7. CASE m # n + 1
  <2>1. ASSUME NEW q \in (n + 1)..(m - 1) PROVE d[n] < d[q]
    <3>1. q \in (p + 1)..(m - 1) /\ q \in 2..N /\ q \in 1..N
      BY <1>1, <1>3
    <3>2. d[p] < d[q] /\ d[q] \in Nat
      BY <3>1, <1>1 DEF Recorded
    <3>3. d[q] # d[n]
      <4> SUFFICES ASSUME d[q] = d[n] PROVE FALSE
        OBVIOUS
      <4>1. p < q /\ d[q] = d[m]
        BY <3>1, <1>1, <1>2
      <4>2. \A x \in (p + 1)..(q - 1) : d[p] < d[x]
        <5>1. \A x \in (p + 1)..(q - 1) : x \in (p + 1)..(m - 1)
          BY <1>1, <1>3
        <5> QED
          BY <5>1, <1>1
      <4>3. par[q] = par[m]
        BY <3>1, <4>1, <4>2, SameParent DEF p
      <4> QED
        BY <4>3 DEF NextKid
    <3> QED
      BY <3>2, <3>3, <1>1
  <2>2. n + 1 \in (n + 1)..(m - 1) /\ m - 1 \in (n + 1)..(m - 1) /\ n + 1 \in 1..N /\ (n + 1) - 1 = n
    BY <1>1, <1>3, <1>7
  <2>3. d[n] < d[n + 1] /\ d[n] < d[m - 1] /\ d[n + 1] \in Nat /\ d[n + 1] = lv[n] + Begin(k[n + 1])
    <3>1. d[n + 1] \in Nat /\ d[n + 1] = lv[(n + 1) - 1] + Begin(k[n + 1])
      BY <2>2 DEF Recorded
    <3> QED
      BY <2>1, <2>2, <3>1
  <2>4. End(k[n]) = 0
    BY <2>3, <1>1, <1>4, <1>5
  <2>5. Begin(k[m]) = 0
    BY <2>3, <1>1, <1>2, <1>4, <1>5
  <2> QED
    BY <2>4, <2>5
<1> QED
  BY <1>6, <1>7

\* The last node of a list leaves its section, or the file would end inside of it.
LEMMA LastKid ==
  ASSUME NEW N, NEW k, NEW par, NEW d, NEW lv, Recorded(N, k, par, d, lv), NEW m \in 2..N,
         \A q \in (m + 1)..N : par[q] # par[m]
  PROVE  End(k[m]) = 1
<1> DEFINE p == par[m]
           Back == {q \in (m + 1)..N : d[q] <= d[m]}
<1>1. /\ N \in Nat /\ p \in 1..(m - 1) /\ d[p] = d[m] - 1 /\ d[p] \in Nat /\ d[m] \in Nat /\ lv[N] = 0
      /\ lv[m] = d[m] - End(k[m]) /\ \A x \in (p + 1)..(m - 1) : d[p] < d[x]
  BY DEF Recorded
<1>2. SUFFICES ASSUME End(k[m]) = 0 PROVE FALSE
  BY DEF End
<1>3. lv[m] = d[m] /\ d[m] > 0
  BY <1>1, <1>2
<1>4. ASSUME NEW q \in (m + 1)..N PROVE /\ q \in 1..N /\ q \in 2..N /\ q - 1 \in 0..N /\ q - 1 \in m..N /\ q - 1 \in 1..N
  BY <1>1
<1>5. ASSUME NEW q \in m..N, q = m \/ d[q] > d[m] PROVE lv[q] >= d[m] /\ lv[q] \in Int
  <2>1. q \in 1..N /\ q \in 0..N
    BY <1>1
  <2>2. lv[q] \in Int /\ lv[q] = d[q] - End(k[q]) /\ d[q] \in Nat
    BY <2>1 DEF Recorded
  <2>3. End(k[q]) \in 0..1
    BY DEF End
  <2> QED
    BY <2>2, <2>3, <1>1, <1>3, <1>5
<1> HIDE DEF p
<1>6. CASE Back = {}
  <2>1. N \in m..N /\ (N = m \/ N \in (m + 1)..N)
    BY <1>1
  <2>2. N = m \/ d[N] > d[m]
    <3>1. CASE N \in (m + 1)..N
      <4>1. ~(d[N] <= d[m])
        BY <3>1, <1>6
      <4>2. d[N] \in Nat
        BY <3>1, <1>4 DEF Recorded
      <4> QED
        BY <4>1, <4>2, <1>1
    <3> QED
      BY <2>1, <3>1
  <2>3. lv[N] >= d[m] /\ lv[N] \in Int
    BY <2>1, <2>2, <1>5
  <2> QED
    BY <2>3, <1>1, <1>3
<1>7. CASE Back # {}
  <2>1. PICK q \in Back : \A y \in Back : q <= y
    <3>1. Back \subseteq Nat
      BY <1>1
    <3> HIDE DEF Back
    <3> QED
      BY <3>1, <1>7, LeastExists
  <2>2. q \in (m + 1)..N /\ d[q] <= d[m]
    BY <2>1
  <2>3. /\ q \in 1..N /\ q \in 2..N /\ q - 1 \in 0..N /\ q - 1 \in m..N /\ q - 1 \in 1..N
    BY <2>2, <1>4
  <2>4. \A x \in (m + 1)..(q - 1) : d[x] > d[m]
    <3> SUFFICES ASSUME NEW x \in (m + 1)..(q - 1) PROVE d[x] > d[m]
      OBVIOUS
    <3>1. x \in (m + 1)..N /\ ~(q <= x)
      BY <2>3, <1>1
    <3>2. x \notin Back
      BY <3>1, <2>1
    <3>3. d[x] \in Nat
      BY <3>1, <1>4 DEF Recorded
    <3> QED
      BY <3>1, <3>2, <3>3, <1>1
  <2>5. q - 1 = m \/ q - 1 \in (m + 1)..(q - 1)
    BY <2>3, <1>1
  <2>6. lv[q - 1] >= d[m] /\ lv[q - 1] \in Int
    BY <2>3, <2>4, <2>5, <1>5
  <2>7. d[q] \in Nat /\ d[q] = lv[q - 1] + Begin(k[q]) /\ Begin(k[q]) \in 0..1
    BY <2>3 DEF Recorded, Begin
  <2>8. d[q] = d[m]
    BY <2>2, <2>6, <2>7, <1>1
  <2>9. p < q /\ \A x \in (p + 1)..(q - 1) : d[p] < d[x]
    <3>1. ASSUME NEW x \in (p + 1)..(q - 1) PROVE d[p] < d[x]
      <4>1. x \in (p + 1)..(m - 1) \/ x = m \/ x \in (m + 1)..(q - 1)
        BY <2>3, <1>1
      <4>2. x \in (m + 1)..(q - 1) => (d[x] > d[m] /\ d[x] \in Nat)
        <5>1. x \in (m + 1)..(q - 1) => x \in 1..N
          BY <2>3, <1>1
        <5> QED
          BY <5>1, <2>4 DEF Recorded
      <4> QED
        BY <4>1, <4>2, <1>1
    <3> QED
      BY <3>1, <2>3, <1>1
  <2>10. par[q] = par[m]
    BY <2>3, <2>8, <2>9, SameParent DEF p
  <2> QED
    BY <2>2, <2>10
<1> QED
  BY <1>6, <1>7

\* So the lists of a loaded tree alternate.
LEMMA RecordsAlternate ==
  ASSUME NEW N, NEW k, NEW par, NEW d, NEW lv, Recorded(N, k, par, d, lv)
  PROVE  Alternates(N, k, par)
<1>1. N \in Nat /\ N > 0 /\ par[1] = 0 /\ 1 \in 1..N /\ 0 \in 0..N /\ lv[0] = 0 /\ d[1] = 0 /\ 1 - 1 = 0
  BY DEF Recorded
<1>2. d[1] = lv[1 - 1] + Begin(k[1]) /\ lv[1] = d[1] - End(k[1])
  BY <1>1 DEF Recorded
<1>3. Begin(k[1]) = 0 /\ End(k[1]) \in 0..1
  BY <1>1, <1>2 DEF Begin, End
<1>4. End(k[1]) = 0
  <2>1. CASE N = 1
    <3>1. lv[1] = 0
      BY <2>1 DEF Recorded
    <3> QED
      BY <3>1, <1>1, <1>2, <1>3
  <2>2. CASE N # 1
    <3>1. 2 \in 2..N /\ 2..(2 - 1) = {}
      BY <2>2, <1>1
    <3>2. par[2] \in 1..(2 - 1)
      BY <3>1 DEF Recorded
    <3>3. par[2] = 1
      BY <3>2
    <3>4. End(k[par[2]]) = 0
      BY <3>1, FirstKid
    <3> QED
      BY <3>3, <3>4
  <2> QED
    BY <2>1, <2>2
<1> QED
  BY <1>1, <1>3, <1>4, FirstKid, LastKid, NextKidLevel DEF Alternates

\* What a finished load leaves is such a tree.
LEMMA TreeIsRecorded ==
  ASSUME NEW S, NEW k \in Seq(S), NEW H, NEW par, NEW chi, NEW hp, Finished(Depths(k), par, chi, hp),
         Shape(Len(k), H, k, par, chi, hp), Depths(k) \in Seq(Nat), Lev(k, Len(k)) = 0, Parented(Depths(k), par)
  PROVE  Recorded(Len(k), k, par, Depths(k), [n \in 0..Len(k) |-> Lev(k, n)])
<1> DEFINE N == Len(k)
           d == Depths(k)
           lv == [n \in 0..N |-> Lev(k, n)]
<1>1. N \in Nat /\ N > 0 /\ par[1] = 0 /\ Len(d) = N
  <2>1. N \in Nat \ {0} /\ par[1] = 0
    BY DEF Shape
  <2>2. d = [m \in 1..N |-> DepthIn(k, m)]
    BY DEF Depths
  <2> QED
    BY <2>1, <2>2
<1>2. \A n \in 1..N : Lev(k, n - 1) \in Int /\ Lev(k, n) \in Int /\ d[n] = Lev(k, n - 1) + Begin(k[n]) /\ Lev(k, n) = d[n] - End(k[n])
  BY LevelSteps
<1>3. \A n \in 1..N : d[n] \in Nat
  BY <1>1, ElementOfSeq
<1>4. lv[0] = 0
  <2>1. \A T : {m \in 1..0 : k[m] \in T} = {}
    OBVIOUS
  <2>2. \A T : Count(k, 0, T) = 0
    BY <2>1, FS_EmptySet DEF Count
  <2>3. Lev(k, 0) = 0
    BY <2>2 DEF Lev
  <2> QED
    BY <2>3, <1>1
<1>5. lv[N] = 0
  BY <1>1
<1>6. \A n \in 1..N : lv[n] = Lev(k, n) /\ lv[n - 1] = Lev(k, n - 1)
  <2>1. \A n \in 1..N : n \in 0..N /\ n - 1 \in 0..N
    BY <1>1
  <2> QED
    BY <2>1
<1> HIDE DEF N, d, lv
<1>7. \A n \in 0..N : lv[n] \in Int
  <2>1. \A n \in 0..N : n = 0 \/ n \in 1..N
    BY <1>1
  <2> QED
    BY <2>1, <1>2, <1>4, <1>6
<1>8. d[1] = 0
  <2>1. 1 \in 1..N
    BY <1>1
  <2>2. d[1] > 0 => \E p \in 1..Len(d) : 1 \in Kids(d, p)
    BY <2>1, <1>1 DEF Parented, d
  <2>3. \A p \in 1..Len(d) : 1 \notin Kids(d, p)
    BY <1>1 DEF Kids
  <2> QED
    BY <2>1, <2>2, <2>3, <1>3
<1>9. ASSUME NEW n \in 2..N
      PROVE  par[n] \in 1..(n - 1) /\ d[par[n]] = d[n] - 1 /\ \A m \in (par[n] + 1)..(n - 1) : d[par[n]] < d[m]
  <2>1. n \in 1..N /\ par[n] \in 1..(n - 1)
    <3>1. n \in 1..N
      BY <1>1
    <3>2. par[n] \in 1..(n - 1)
      BY DEF Shape, N
    <3> QED
      BY <3>1, <3>2
  <2>2. par[n] # 0
    BY <2>1
  <2> QED
    BY <2>1, <2>2, ParentDepth DEF d, N
<1>10. ASSUME NEW n \in 2..N, NEW p \in 1..(n - 1), d[p] = d[n] - 1, \A m \in (p + 1)..(n - 1) : d[m] # d[p]
       PROVE  par[n] = p
  <2>1. n \in 1..Len(d) /\ p \in 1..Len(d) /\ p < n
    BY <1>1
  <2>2. n \in Kids(d, p)
    BY <2>1, <1>10 DEF Kids
  <2>3. ClosedOK(d, p, par, chi, hp)
    BY <2>1 DEF Finished, d
  <2> QED
    BY <2>2, <2>3 DEF ClosedOK
<1>11. Recorded(N, k, par, d, lv)
  BY <1>1, <1>2, <1>3, <1>4, <1>5, <1>6, <1>7, <1>8, <1>9, <1>10 DEF Recorded
<1> QED
  BY <1>11 DEF N, d, lv

\* A load that ends completely ends with all sections closed.
LEMMA LoadAlternates ==
  ASSUME IInv, MoreInv, status = "loading", LoadRecord, IInv', MoreInv', Complete'
  PROVE  Alternates(Len(kind'), kind', parent')
<1>1. kind' = kind /\ parent' = parent /\ children' = children /\ level' = level /\ level = 0 /\ status' = "loaded"
  <2>1. status' = "loaded" /\ level' = 0
    BY DEF Complete
  <2>2. ASSUME NEW x, LoadPrimary(x) \/ LoadPop(x) \/ LoadDies(x) PROVE FALSE
    BY <2>1, <2>2 DEF LoadPrimary, LoadPop, LoadDies, Record
  <2>3. CASE LoadPush \/ LoadAncillary \/ LoadFails
    BY <2>1, <2>3 DEF LoadPush, LoadAncillary, LoadFails, Record
  <2>4. CASE EndOfFile
    BY <2>1, <2>4 DEF EndOfFile
  <2>5. CASE TrailingGarbage
    BY <2>1, <2>5 DEF TrailingGarbage
  <2> QED
    BY <2>2, <2>3, <2>4, <2>5 DEF LoadRecord
<1>2. kind \in Seq(Kinds \cup Roots) /\ level = Lev(kind, Len(kind)) /\ Depths(kind) \in Seq(Nat)
  BY DEF IInv, KindsOK, Tree, PreTree, TreeTypes
<1>3. Parented(Depths(kind), parent)
  BY DEF MoreInv, Extra
<1>4. Finished(Depths(kind), parent, children, heap')
  BY <1>1 DEF IInv
<1>5. Shape(Len(kind), Len(heap'), kind, parent, children, heap')
  BY <1>1 DEF MoreInv
<1>6. Lev(kind, Len(kind)) = 0
  BY <1>1, <1>2
<1> DEFINE lv == [n \in 0..Len(kind) |-> Lev(kind, n)]
<1>7. Recorded(Len(kind), kind, parent, Depths(kind), lv)
  BY <1>2, <1>3, <1>4, <1>5, <1>6, TreeIsRecorded
<1> HIDE DEF lv
<1>8. Alternates(Len(kind), kind, parent)
  BY <1>7, RecordsAlternate
<1> QED
  BY <1>1, <1>8

\* A list of the walk begins and ends its sections, and its nodes follow each other in them.
RowInStep(k, up, s) ==
  /\ Begin(k[s[1]]) = 1 /\ End(k[up]) = 0 /\ End(k[s[Len(s)]]) = 1
  /\ \A e \in 1..(Len(s) - 1) : End(k[s[e]]) = Begin(k[s[e + 1]])
LEMMA RowAlternates ==
  ASSUME NEW N, NEW H, NEW k, NEW par, NEW chi, NEW hp, NEW ls, NEW ch, NEW lm, Alternates(N, k, par),
         Shape(N, H, k, par, chi, hp), Walked(H, chi, hp, ls, ch, lm), NEW l \in 1..Len(ls), l # 1
  PROVE  RowInStep(k, Above(hp, ls, ch, l), Row(hp, ls, l))
<1> DEFINE s == Row(hp, ls, l)
           M == Len(s)
           up == Above(hp, ls, ch, l)
<1>1. RowOK(N, k, par, chi, hp, ls, ch, lm, l) /\ N \in Nat /\ Len(ls) \in Nat
  BY RowFacts, WalkedSizes DEF Alternates
<1>2. s \in Seq(1..N) /\ s # <<>> /\ Rising(s) /\ \A n \in Members(s) : n \in 1..N /\ par[n] = up
  BY <1>1 DEF RowOK
<1>3. M \in Nat /\ M # 0 /\ DOMAIN s = 1..M
  <2>1. M \in Nat /\ DOMAIN s = 1..M
    BY <1>2, LenProperties
  <2> QED
    BY <2>1, <1>2, EmptySeq
<1>4. up # 0
  <2>1. l - 1 \in 1..(Len(ls) - 1) /\ l - 1 \in 1..Len(ls)
    BY <1>1
  <2>2. ch[l - 1] <= lm[l - 1]
    BY <2>1 DEF Walked
  <2>3. Stop(hp, ls, ch, l - 1) \in 1..N
    BY <2>1, <2>2, RowFacts DEF RowOK
  <2> QED
    BY <2>3 DEF Above
<1>5. \A e \in 1..M : s[e] \in 2..N /\ par[s[e]] = up
  <2> SUFFICES ASSUME NEW e \in 1..M PROVE s[e] \in 2..N /\ par[s[e]] = up
    OBVIOUS
  <2>1. s[e] \in Members(s)
    BY <1>3 DEF Members
  <2>2. s[e] \in 1..N /\ par[s[e]] = up
    BY <2>1, <1>2
  <2>3. s[e] # 1
    BY <2>2, <1>4, ParentsBefore
  <2> QED
    BY <2>2, <2>3, <1>1
<1>6. \A q \in 2..N : par[q] = up => \E p \in 1..M : q = s[p]
  <2> SUFFICES ASSUME NEW q \in 2..N, par[q] = up PROVE \E p \in 1..M : q = s[p]
    OBVIOUS
  <2>1. q \in 1..N /\ q # 1
    BY <1>1
  <2> QED
    BY <2>1, RowIsFull
<1>7. \A a, b \in 1..M : a < b => s[a] < s[b]
  BY <1>2 DEF Rising
<1> HIDE DEF s, M, up
<1>8. 1 \in 1..M /\ M \in 1..M
  BY <1>3
<1>9. Begin(k[s[1]]) = 1 /\ End(k[up]) = 0
  <2>1. ASSUME NEW q \in 2..(s[1] - 1) PROVE par[q] # par[s[1]]
    <3> SUFFICES ASSUME par[q] = up PROVE FALSE
      BY <1>5, <1>8
    <3>1. s[1] \in 2..N
      BY <1>5, <1>8
    <3>2. q \in 2..N /\ q < s[1]
      BY <3>1, <1>1
    <3>3. PICK p \in 1..M : q = s[p]
      BY <3>2, <1>6
    <3>4. p # 1 => s[1] < s[p]
      <4>1. p # 1 => 1 < p
        BY <1>3
      <4> QED
        BY <4>1, <1>7, <1>8
    <3> QED
      BY <3>1, <3>2, <3>3, <3>4
  <2> QED
    BY <2>1, <1>5, <1>8 DEF Alternates
<1>10. End(k[s[M]]) = 1
  <2>1. ASSUME NEW q \in (s[M] + 1)..N PROVE par[q] # par[s[M]]
    <3> SUFFICES ASSUME par[q] = up PROVE FALSE
      BY <1>5, <1>8
    <3>1. s[M] \in 2..N
      BY <1>5, <1>8
    <3>2. q \in 2..N /\ s[M] < q
      BY <3>1, <1>1
    <3>3. PICK p \in 1..M : q = s[p]
      BY <3>2, <1>6
    <3>4. p # M => s[p] < s[M]
      <4>1. p # M => p < M
        BY <1>3
      <4> QED
        BY <4>1, <1>7, <1>8
    <3> QED
      BY <3>1, <3>2, <3>3, <3>4
  <2> QED
    BY <2>1, <1>5, <1>8 DEF Alternates
<1>11. ASSUME NEW e \in 1..(M - 1) PROVE End(k[s[e]]) = Begin(k[s[e + 1]])
  <2>1. e \in 1..M /\ e + 1 \in 1..M /\ e < e + 1
    BY <1>3
  <2>2. s[e] \in 2..N /\ s[e + 1] \in 2..N /\ s[e] < s[e + 1] /\ par[s[e]] = up /\ par[s[e + 1]] = up
    BY <2>1, <1>5, <1>7
  <2>3. ASSUME NEW q \in (s[e] + 1)..(s[e + 1] - 1) PROVE par[q] # par[s[e + 1]]
    <3> SUFFICES ASSUME par[q] = up PROVE FALSE
      BY <2>2
    <3>1. q \in 2..N /\ s[e] < q /\ q < s[e + 1]
      BY <2>2, <1>1
    <3>2. PICK p \in 1..M : q = s[p]
      BY <3>1, <1>6
    <3>3. p < e \/ p = e \/ p = e + 1 \/ e + 1 < p
      BY <2>1
    <3>4. (p < e => s[p] < s[e]) /\ (e + 1 < p => s[e + 1] < s[p])
      BY <2>1, <1>7
    <3> QED
      BY <2>2, <3>1, <3>2, <3>3, <3>4
  <2>4. NextKid(par, s[e], s[e + 1])
    BY <2>2, <2>3 DEF NextKid
  <2> QED
    BY <2>2, <2>4 DEF Alternates
<1> QED
  BY <1>9, <1>10, <1>11 DEF RowInStep, s, M, up

\* The last of the nodes before one in its list, if there is any from a on.
LEMMA NeighbourExists ==
  ASSUME NEW N \in Nat, NEW par, NEW a \in 2..N, NEW n \in 2..N, a < n, par[a] = par[n]
  PROVE  \E p \in 2..N : a <= p /\ NextKid(par, p, n)
<1> DEFINE D == {d \in 1..(n - a) : par[n - d] = par[n]}
<1>1. n - a \in D
  <2>1. n - a \in 1..(n - a) /\ n - (n - a) = a
    OBVIOUS
  <2> QED
    BY <2>1
<1>2. D \subseteq Nat
  OBVIOUS
<1>3. \A d \in D : d \in 1..(n - a) /\ par[n - d] = par[n]
  OBVIOUS
<1>4. \A d \in 1..(n - a) : par[n - d] = par[n] => d \in D
  OBVIOUS
<1> HIDE DEF D
<1>5. PICK d \in D : \A e \in D : d <= e
  BY <1>1, <1>2, LeastExists
<1>6. PICK p : p = n - d
  OBVIOUS
<1>7. d \in 1..(n - a) /\ par[p] = par[n] /\ p \in 2..N /\ a <= p /\ p < n
  BY <1>3, <1>5, <1>6
<1>8. ASSUME NEW q \in (p + 1)..(n - 1) PROVE par[q] # par[n]
  <2> SUFFICES ASSUME par[q] = par[n] PROVE FALSE
    OBVIOUS
  <2>1. n - q \in 1..(n - a) /\ n - (n - q) = q /\ ~(d <= n - q)
    BY <1>6, <1>7
  <2>2. n - q \in D
    BY <2>1, <1>4
  <2> QED
    BY <2>1, <2>2, <1>5
<1> QED
  BY <1>7, <1>8 DEF NextKid

\* In a push/pop section of its list, as InSection says.
InStep(N, k, par, x) ==
  \E m \in 1..N :
    /\ par[m] = par[x] /\ m <= x /\ k[m] = "push"
    /\ \A q \in 1..N : (par[q] = par[x] /\ m < q /\ q < x) => k[q] # "pop"
Pure(N, k) == \A n \in 1..N : k[n] # "xpop"
\* That is every node except the root and the ancillary ones:
LEMMA RootOutside ==
  ASSUME NEW N, NEW k, NEW par, Alternates(N, k, par), Rooted(N, par)
  PROVE  ~InStep(N, k, par, 1)
<1>1. N \in Nat /\ par[1] = 0 /\ (\A n \in 2..N : par[n] \in 1..(n - 1)) /\ Begin(k[1]) = 0
  BY DEF Alternates, Rooted, TreeOf
<1>2. k[1] # "push"
  BY <1>1 DEF Begin
<1>3. \A m \in 1..N : par[m] = par[1] => m = 1
  <2>1. \A m \in 1..N : m = 1 \/ m \in 2..N
    BY <1>1
  <2> QED
    BY <2>1, <1>1
<1> QED
  BY <1>2, <1>3 DEF InStep

\* before an ancillary node every push has had its pop,
LEMMA AncillaryOutside ==
  ASSUME NEW N, NEW k, NEW par, Alternates(N, k, par), Rooted(N, par), Pure(N, k), NEW x \in 2..N, k[x] = "anc"
  PROVE  ~InStep(N, k, par, x)
<1> SUFFICES ASSUME NEW m \in 1..N, par[m] = par[x], m <= x, k[m] = "push",
                    \A q \in 1..N : (par[q] = par[x] /\ m < q /\ q < x) => k[q] # "pop"
             PROVE  FALSE
  BY DEF InStep
<1>1. N \in Nat /\ par[1] = 0 /\ (\A n \in 2..N : par[n] \in 1..(n - 1))
  BY DEF Alternates, Rooted, TreeOf
<1>2. m \in 2..N /\ m < x
  <2>1. m # x
    OBVIOUS
  <2>2. par[x] # 0
    BY <1>1
  <2>3. m # 1
    BY <2>2, <1>1
  <2> QED
    BY <2>1, <2>3, <1>1
<1> DEFINE B == {q \in 2..N : m < q /\ q <= x /\ par[q] = par[x] /\ k[q] = "anc"}
<1>3. x \in B
  BY <1>2
<1>4. B \subseteq Nat
  OBVIOUS
<1>5. \A q : q \in B <=> q \in 2..N /\ m < q /\ q <= x /\ par[q] = par[x] /\ k[q] = "anc"
  OBVIOUS
<1> HIDE DEF B
<1>6. PICK b \in B : \A q \in B : b <= q
  BY <1>3, <1>4, LeastExists
<1>7. b \in 2..N /\ m < b /\ b <= x /\ par[b] = par[x] /\ k[b] = "anc"
  BY <1>5, <1>6
<1>8. PICK p \in 2..N : m <= p /\ NextKid(par, p, b)
  BY <1>1, <1>2, <1>7, NeighbourExists
<1>9. p < b /\ par[p] = par[x]
  BY <1>7, <1>8 DEF NextKid
<1>10. End(k[p]) = 1
  <2>1. End(k[p]) = Begin(k[b])
    BY <1>7, <1>8 DEF Alternates
  <2> QED
    BY <2>1, <1>7 DEF Begin
<1>11. k[p] \in {"pop", "xpop", "anc"}
  BY <1>10 DEF End, Enders
<1>12. p # m
  BY <1>11
<1>13. m < p /\ p < x /\ p \in 1..N
  BY <1>2, <1>7, <1>8, <1>9, <1>12
<1>14. k[p] = "anc"
  BY <1>9, <1>11, <1>13 DEF Pure
<1>15. p \in B
  <2>1. p <= x
    BY <1>13, <1>7
  <2> QED
    BY <2>1, <1>5, <1>9, <1>13, <1>14
<1>16. b <= p
  BY <1>6, <1>15
<1> QED
  BY <1>7, <1>9, <1>16

\* and every other node has a push before it, or is one.
LEMMA OthersInside ==
  ASSUME NEW N, NEW k, NEW par, Alternates(N, k, par), Rooted(N, par), NEW x \in 2..N, k[x] # "anc"
  PROVE  InStep(N, k, par, x)
<1> DEFINE W == {y \in 2..N : k[y] # "anc" /\ ~InStep(N, k, par, y)}
<1>1. N \in Nat
  BY DEF Alternates
<1>2. W \subseteq Nat
  OBVIOUS
<1>3. \A y : y \in W <=> y \in 2..N /\ k[y] # "anc" /\ ~InStep(N, k, par, y)
  OBVIOUS
<1> HIDE DEF W
<1>4. W = {}
  <2> SUFFICES ASSUME W # {} PROVE FALSE
    OBVIOUS
  <2>1. PICK y \in W : \A z \in W : y <= z
    BY <1>2, LeastExists
  <2>2. y \in 2..N /\ k[y] # "anc" /\ ~InStep(N, k, par, y) /\ y \in 1..N
    BY <2>1, <1>1, <1>3
  <2>3. k[y] # "push"
    <3> SUFFICES ASSUME k[y] = "push" PROVE FALSE
      OBVIOUS
    <3>1. y <= y /\ \A q \in 1..N : ~(y < q /\ q < y)
      BY <2>2
    <3>2. InStep(N, k, par, y)
      BY <2>2, <3>1 DEF InStep
    <3> QED
      BY <2>2, <3>2
  <2>4. Begin(k[y]) = 0
    BY <2>2, <2>3 DEF Begin
  <2>5. PICK a \in 2..(y - 1) : par[a] = par[y]
    BY <2>2, <2>4 DEF Alternates
  <2>6. a \in 2..N /\ a < y
    BY <2>2, <2>5, <1>1
  <2>7. PICK p \in 2..N : a <= p /\ NextKid(par, p, y)
    BY <1>1, <2>2, <2>5, <2>6, NeighbourExists
  <2>8. p < y /\ par[p] = par[y] /\ \A q \in (p + 1)..(y - 1) : par[q] # par[y]
    BY <2>7 DEF NextKid
  <2>9. End(k[p]) = 0
    <3>1. End(k[p]) = Begin(k[y])
      BY <2>2, <2>7 DEF Alternates
    <3> QED
      BY <3>1, <2>4
  <2>10. k[p] \notin {"pop", "xpop", "anc"}
    BY <2>9 DEF End, Enders
  <2>11. p \notin W
    <3>1. ~(y <= p)
      BY <2>2, <2>7, <2>8
    <3> QED
      BY <3>1, <2>1
  <2>12. InStep(N, k, par, p)
    BY <2>7, <2>10, <2>11, <1>3
  <2>13. PICK m \in 1..N : /\ par[m] = par[p] /\ m <= p /\ k[m] = "push"
                           /\ \A q \in 1..N : (par[q] = par[p] /\ m < q /\ q < p) => k[q] # "pop"
    BY <2>12 DEF InStep
  <2>14. ASSUME NEW q \in 1..N, par[q] = par[y], m < q, q < y PROVE k[q] # "pop"
    <3>1. q < p \/ q = p \/ q \in (p + 1)..(y - 1)
      BY <2>2, <2>7, <2>14
    <3> QED
      BY <3>1, <2>8, <2>10, <2>13, <2>14
  <2>15. m <= y
    BY <2>2, <2>7, <2>8, <2>13
  <2>16. InStep(N, k, par, y)
    BY <2>8, <2>13, <2>14, <2>15 DEF InStep
  <2> QED
    BY <2>2, <2>16
<1> QED
  BY <1>3, <1>4

\* No ancillary node is above another node.
LEMMA ParentsOpen ==
  ASSUME NEW N, NEW k, NEW par, Alternates(N, k, par), NEW m \in 2..N
  PROVE  End(k[par[m]]) = 0
<1> DEFINE S == {q \in 2..N : par[q] = par[m]}
<1>1. m \in S /\ S \subseteq Nat
  OBVIOUS
<1>2. \A q : q \in S <=> q \in 2..N /\ par[q] = par[m]
  OBVIOUS
<1>3. N \in Nat
  BY DEF Alternates
<1> HIDE DEF S
<1>4. PICK f \in S : \A q \in S : f <= q
  BY <1>1, LeastExists
<1>5. f \in 2..N /\ par[f] = par[m]
  BY <1>2, <1>4
<1>6. ASSUME NEW q \in 2..(f - 1) PROVE par[q] # par[f]
  <2>1. q \in 2..N /\ ~(f <= q)
    BY <1>3, <1>5
  <2> QED
    BY <2>1, <1>2, <1>4, <1>5
<1> QED
  BY <1>5, <1>6 DEF Alternates

\* Above a node are the root and parents, and it is in its own line.
LEMMA LineIsOfParents ==
  ASSUME NEW N, NEW par, NEW up, Rooted(N, par), Lineage(N, par, up), NEW n \in 1..N
  PROVE  1 \in up[n] /\ n \in up[n] /\ \A x \in up[n] : x = n \/ \E m \in 2..N : par[m] = x
<1> DEFINE Fine(r) == 1 \in up[r] /\ \A x \in up[r] : x = r \/ \E m \in 2..N : par[m] = x
           W == {r \in 1..N : ~Fine(r)}
<1>1. N \in Nat /\ par[1] = 0 /\ \A r \in 2..N : par[r] \in 1..(r - 1)
  BY DEF Rooted, TreeOf
<1>2. up[0] = {} /\ \A r \in 1..N : up[r] = {r} \cup up[par[r]]
  BY DEF Lineage
<1>3. \A r : r \in W <=> r \in 1..N /\ ~Fine(r)
  OBVIOUS
<1>4. W \subseteq Nat
  OBVIOUS
<1> HIDE DEF W
<1>5. W = {}
  <2> SUFFICES ASSUME W # {} PROVE FALSE
    OBVIOUS
  <2>1. PICK r \in W : \A q \in W : r <= q
    BY <1>4, LeastExists
  <2>2. r \in 1..N /\ ~Fine(r)
    BY <2>1, <1>3
  <2>3. CASE r = 1
    <3>1. up[1] = {1}
      BY <2>2, <2>3, <1>1, <1>2
    <3> QED
      BY <2>2, <2>3, <3>1
  <2>4. CASE r # 1
    <3>1. r \in 2..N
      BY <2>2, <2>4, <1>1
    <3>2. par[r] \in 1..N /\ ~(r <= par[r])
      <4>1. par[r] \in 1..(r - 1)
        BY <3>1, <1>1
      <4> QED
        BY <4>1, <3>1, <1>1
    <3>3. Fine(par[r])
      BY <3>2, <2>1, <1>3
    <3>4. up[r] = {r} \cup up[par[r]]
      BY <2>2, <1>2
    <3>5. Fine(r)
      BY <3>1, <3>3, <3>4
    <3> QED
      BY <2>2, <3>5
  <2> QED
    BY <2>3, <2>4
<1>6. n \in up[n]
  BY <1>2
<1> QED
  BY <1>3, <1>5, <1>6

\* So the sections a node is in are as many as the nodes above it.
Outer(k, n, c) == c - 1 - (IF k[n] = "anc" THEN 1 ELSE 0)
LEMMA SectionsCount ==
  ASSUME NEW N, NEW k, NEW par, NEW up, Alternates(N, k, par), Rooted(N, par), Lineage(N, par, up), Pure(N, k), NEW n \in 1..N
  PROVE  Cardinality({x \in up[n] : InStep(N, k, par, x)}) = Outer(k, n, Cardinality(up[n]))
<1> DEFINE U == up[n]
           T == {x \in U : InStep(N, k, par, x)}
<1>1. N \in Nat
  BY DEF Alternates
<1>2. \A x \in U : x \in 1..N
  BY LineIsBefore
<1>3. 1 \in U /\ n \in U /\ \A x \in U : x = n \/ \E m \in 2..N : par[m] = x
  BY LineIsOfParents
<1>4. IsFiniteSet(U)
  <2>1. U \subseteq 1..N
    BY <1>2
  <2> HIDE DEF U
  <2>2. IsFiniteSet(1..N)
    BY <1>1, FS_Interval
  <2> QED
    BY <2>1, <2>2, FS_Subset
<1>5. \A x \in U : InStep(N, k, par, x) <=> (x # 1 /\ k[x] # "anc")
  <2> SUFFICES ASSUME NEW x \in U PROVE InStep(N, k, par, x) <=> (x # 1 /\ k[x] # "anc")
    OBVIOUS
  <2>1. x = 1 \/ x \in 2..N
    BY <1>1, <1>2
  <2> QED
    BY <2>1, RootOutside, AncillaryOutside, OthersInside
<1>6. \A x \in U : x # n => k[x] # "anc"
  <2> SUFFICES ASSUME NEW x \in U, x # n PROVE k[x] # "anc"
    OBVIOUS
  <2>1. PICK m \in 2..N : par[m] = x
    BY <1>3
  <2>2. End(k[x]) = 0
    BY <2>1, ParentsOpen
  <2> QED
    BY <2>2 DEF End, Enders
<1>7. k[1] # "anc"
  BY DEF Alternates, Begin
<1> HIDE DEF U
<1> DEFINE U1 == U \ {1}
<1>8. IsFiniteSet(U1) /\ Cardinality(U1) = Cardinality(U) - 1 /\ Cardinality(U) \in Nat
  BY <1>3, <1>4, FS_RemoveElement, FS_CardinalityType
<1>9. CASE k[n] = "anc"
  <2>1. T = U1 \ {n}
    BY <1>5, <1>6, <1>9
  <2>2. n \in U1
    BY <1>3, <1>7, <1>9
  <2> HIDE DEF U1, T
  <2>3. Cardinality(T) = Cardinality(U1) - 1
    BY <2>1, <2>2, <1>8, FS_RemoveElement
  <2>4. Cardinality(T) = Cardinality(U) - 1 - 1
    BY <2>3, <1>8
  <2> QED
    BY <2>4, <1>9 DEF Outer, T, U
<1>10. CASE k[n] # "anc"
  <2>1. T = U1
    BY <1>5, <1>6, <1>10
  <2> HIDE DEF U1, T
  <2>2. Cardinality(T) = Cardinality(U) - 1 - 0
    BY <2>1, <1>8
  <2> QED
    BY <2>2, <1>10 DEF Outer, T, U
<1> QED
  BY <1>9, <1>10

-----------------------------------------------------------------------------
(* The counters of the traversal state *)

\* Between the calls push_level says how many lists below the root's are entered by
\* their pushes, and physical_level how many there are.
Level(depth, out) == (depth - out) % 65536
CounterHere ==
  LET D == Len(lists) IN
  /\ DOMAIN state = StateFields /\ state.physical_level = D - 1
  /\ at = "visit" => state.push_level = Level(D - 1, Begin(kind[Stop(heap, lists, child, D)]))
  /\ at = "up" => /\ child[D] - 1 <= limit[D]
                  /\ state.push_level = Level(D - 1, End(kind[Row(heap, lists, D)[child[D] - 1]]))
CountedRightly(k, up, s, n) ==
  /\ s.physical_level = Cardinality(up[n]) - 1
  /\ s.push_level = Outer(k, n, Cardinality(up[n])) % 65536
CountersSeen ==
  /\ Alternates(Len(kind), kind, parent)
  /\ \A c \in 1..Len(calls) : CountedRightly(kind, Lines, seen[c], calls[c].node)
CounterInv ==
  /\ Complete => Alternates(Len(kind), kind, parent)
  /\ (Whole /\ Balanced /\ InWalk /\ at # "done") => CounterHere
  /\ (Whole /\ Balanced /\ job \in Jobs /\ at # "idle") => CountersSeen

\* Counting in 16 bits.
LEMMA LevelMoves ==
  ASSUME NEW d \in Int
  PROVE  /\ Level(d, 0) = d % 65536 /\ (Level(d, 1) + 1) % 65536 = Level(d, 0) /\ (Level(d, 0) - 1) % 65536 = Level(d, 1)
         /\ Level(d + 1, 1) = Level(d, 0)
<1>1. d - 0 = d /\ (d + 1) - 1 = d
  OBVIOUS
<1>2. \A v \in Int : (((v - 1) % 65536) + 1) % 65536 = v % 65536 /\ ((v % 65536) - 1) % 65536 = (v - 1) % 65536
  OBVIOUS
<1> QED
  BY <1>1, <1>2 DEF Level

\* What the call of x shows and leaves.
LEMMA CallCounts ==
  ASSUME NEW k, NEW x, NEW s, NEW d \in Int, DOMAIN s = StateFields, s.physical_level = d,
         s.push_level = Level(d, Begin(k[x])), k[x] # "xpop"
  PROVE  /\ During(k, s, x).physical_level = d /\ After(k, s, x).physical_level = d
         /\ During(k, s, x).push_level = Level(d, IF k[x] = "anc" THEN 1 ELSE 0)
         /\ After(k, s, x).push_level = Level(d, End(k[x]))
         /\ DOMAIN After(k, s, x) = StateFields
<1> DEFINE t == During(k, s, x)
           e == After(k, s, x)
<1>1. DOMAIN t = StateFields /\ t.push_level = LevelOpened(k[x], s.push_level) /\ t.physical_level = s.physical_level
  BY EntryMultiplies
<1>2. e = exit_f(k[x], x, t)
  BY DEF After
<1> HIDE DEF t, e
<1>3. DOMAIN e = StateFields /\ e.push_level = LevelClosed(k[x], t.push_level) /\ e.physical_level = t.physical_level
  BY <1>1, <1>2, ExitResets
<1>4. /\ (Level(d, 1) + 1) % 65536 = Level(d, 0) /\ (Level(d, 0) - 1) % 65536 = Level(d, 1)
  BY LevelMoves
<1>5. CASE k[x] = "push"
  <2>1. Begin(k[x]) = 1 /\ End(k[x]) = 0
    BY <1>5 DEF Begin, End, Enders
  <2>2. t.push_level = Level(d, 0)
    BY <2>1, <1>1, <1>4, <1>5 DEF LevelOpened
  <2>3. e.push_level = Level(d, 0)
    BY <2>2, <1>3, <1>5 DEF LevelClosed
  <2> QED
    BY <2>1, <2>2, <2>3, <1>1, <1>3, <1>5 DEF t, e
<1>6. CASE k[x] = "pop"
  <2>1. Begin(k[x]) = 0 /\ End(k[x]) = 1
    BY <1>6 DEF Begin, End, Enders
  <2>2. t.push_level = Level(d, 0)
    BY <2>1, <1>1, <1>6 DEF LevelOpened
  <2>3. e.push_level = Level(d, 1)
    BY <2>2, <1>3, <1>4, <1>6 DEF LevelClosed
  <2> QED
    BY <2>1, <2>2, <2>3, <1>1, <1>3, <1>6 DEF t, e
<1>7. CASE k[x] \notin {"push", "pop"}
  <2>1. t.push_level = s.push_level /\ e.push_level = s.push_level
    BY <1>1, <1>3, <1>7 DEF LevelOpened, LevelClosed
  <2>2. Begin(k[x]) = (IF k[x] = "anc" THEN 1 ELSE 0) /\ End(k[x]) = Begin(k[x])
    BY <1>7 DEF Begin, End, Enders
  <2> QED
    BY <2>1, <2>2, <1>1, <1>3 DEF t, e
<1> QED
  BY <1>5, <1>6, <1>7

\* PRF_TRAV_POP is answered where the section is open behind the node.
LEMMA PopFromInside ==
  ASSUME NEW k, NEW up, NEW s, NEW M \in Nat, Len(s) = M, RowInStep(k, up, s), NEW c \in 1..M,
         \E e \in 1..c : k[s[e]] = "push" /\ \A q \in e..c : k[s[q]] \notin {"pop", "xpop"}
  PROVE  End(k[s[c]]) = 0
<1>1. PICK e \in 1..c : k[s[e]] = "push" /\ \A q \in e..c : k[s[q]] \notin {"pop", "xpop"}
  OBVIOUS
<1> DEFINE A == {q \in e..c : k[s[q]] = "anc"}
<1>2. A \subseteq Nat /\ \A q : q \in A <=> q \in e..c /\ k[s[q]] = "anc"
  OBVIOUS
<1> HIDE DEF A
<1>3. A = {}
  <2> SUFFICES ASSUME A # {} PROVE FALSE
    OBVIOUS
  <2>1. PICK a \in A : \A q \in A : a <= q
    BY <1>2, LeastExists
  <2>2. a \in e..c /\ k[s[a]] = "anc"
    BY <2>1, <1>2
  <2>3. a # e
    BY <2>2, <1>1
  <2>4. PICK b : b = a - 1
    OBVIOUS
  <2>5. b \in e..c /\ b \in 1..(M - 1) /\ b + 1 = a /\ ~(a <= b)
    BY <2>2, <2>3, <2>4
  <2>6. End(k[s[b]]) = Begin(k[s[a]])
    BY <2>5 DEF RowInStep
  <2>7. k[s[b]] \in {"pop", "xpop", "anc"}
    BY <2>2, <2>6 DEF Begin, End, Enders
  <2>8. k[s[b]] = "anc"
    BY <2>5, <2>7, <1>1
  <2> QED
    BY <2>1, <2>5, <2>8, <1>2
<1>4. c \in e..c
  OBVIOUS
<1> QED
  BY <1>1, <1>2, <1>3, <1>4 DEF End, Enders

\* Where the loop goes from a node, the counters count.
LEMMA MoveCounts ==
  ASSUME Storage, Place, at = "visit", Alternates(Len(kind), kind, parent), Storage', Place', SameModel,
         at' \in {"visit", "up"}, NEW code \in AllCodes, Control(Current, code), code = "POP" => MayPop(Current),
         NEW e, DOMAIN e = StateFields, e.physical_level = Len(lists) - 1,
         e.push_level = Level(Len(lists) - 1, End(kind[Current])),
         state' = IF Len(lists') > Len(lists) THEN Pushed(e) ELSE e
  PROVE  CounterHere'
<1> DEFINE N == Len(kind)
           H == Len(heap) - 1
           D == Len(lists)
           x == Current
           s == Row(heap, lists, D)
<1>1. /\ Shape(N, H, kind, parent, children, heap) /\ Walked(H, children, heap, lists, child, limit) /\ child[D] <= limit[D]
  BY DEF Storage, Place
<1>2. Standing(N, D)
  BY <1>1, StopReadable
<1>3. /\ D \in Nat /\ D > 0 /\ D \in 1..D /\ Len(lists) = D /\ Len(child) = D /\ Len(limit) = D
      /\ Top(child) = child[D] /\ Elems(Top(lists)) = s /\ x = s[child[D]] /\ (x = 1 <=> D = 1)
      /\ child[D] \in Nat \ {0} /\ s \in Seq(1..N) /\ Len(s) = limit[D] /\ limit[D] \in Nat
  BY <1>2 DEF Standing, Stop, Row, RowOK
<1>4. DOMAIN child = 1..D /\ child[D] \in 1..Len(s) /\ DOMAIN s = 1..Len(s)
  <2>1. child \in Seq(Nat \ {0})
    BY <1>1 DEF Walked
  <2>2. DOMAIN child = 1..Len(child) /\ DOMAIN s = 1..Len(s)
    BY <2>1, <1>3, LenProperties
  <2> QED
    BY <2>2, <1>1, <1>3
<1>5. code # "EXIT"
  BY DEF Control
<1>6. /\ heap' = heap /\ kind' = kind /\ parent' = parent /\ children' = children
      /\ (code = "CONTINUE" /\ children[x] # NULL) => (SamePath(D) /\ at' = "visit")
  BY <1>5, PathStays DEF SameModel
<1>7. Shape(N, H, kind, parent, children, heap) /\ Walked(H, children, heap, lists', child', limit')
  BY <1>1, <1>6 DEF Place
<1>8. Alternates(N, kind, parent)
  OBVIOUS
<1>9. e.physical_level = D - 1 /\ e.push_level = Level(D - 1, End(kind[x]))
  OBVIOUS
<1>10. code = "POP" => \E a \in 1..child[D] : kind[s[a]] = "push" /\ \A q \in a..child[D] : kind[s[q]] \notin {"pop", "xpop"}
  BY <1>3 DEF MayPop
<1> DEFINE pops == {q \in DOMAIN s : q > child[D] /\ kind[s[q]] \in {"pop", "xpop"}}
           v == CHOOSE q \in pops : \A z \in pops : q <= z
<1>11. ASSUME code = "POP" PROVE lists' = lists /\ limit' = limit /\ pops # {} /\ child' = [child EXCEPT ![D] = v] /\ at' = "visit"
  <2>1. Elems(Top(lists)) = s /\ Top(child) = child[D] /\ Len(child) = D
    BY <1>3
  <2>2. lists' = lists /\ limit' = limit
    BY <1>11 DEF Control
  <2>3. pops # {}
    <3>1. pops = {} => at' = "dead"
      BY <2>1, <1>11 DEF Control
    <3> HIDE DEF pops
    <3> QED
      BY <3>1
  <2>4. child' = [child EXCEPT ![Len(child)] = v] /\ at' = "visit"
    BY <2>1, <2>3, <1>11 DEF Control
  <2> HIDE DEF pops, v
  <2> QED
    BY <2>1, <2>2, <2>3, <2>4
<1>12. ASSUME code = "CONTINUE", children[x] # NULL PROVE child' = Append(child, 1)
  BY <1>12 DEF Control, x
<1>13. ASSUME code # "POP", ~(code = "CONTINUE" /\ children[x] # NULL)
       PROVE  lists' = lists /\ limit' = limit /\ child' = [child EXCEPT ![D] = child[D] + 1] /\ at' = "up"
  <2>1. code \in {"SIBLING", "UP", "TRAVERSE"} \/ (code = "CONTINUE" /\ children[x] = NULL)
    BY <1>5, <1>13 DEF AllCodes
  <2> QED
    BY <2>1, <1>3 DEF Control
<1> HIDE DEF N, H, D, x, s, pops
<1>14. CASE code = "CONTINUE" /\ children[x] # NULL
  <2>1. Len(lists') - 1 = D /\ (\A l \in 1..D : lists'[l] = lists[l] /\ child'[l] = child[l]) /\ at' = "visit"
    BY <1>6, <1>14 DEF SamePath
  <2>2. Len(lists') = D + 1 /\ D + 1 \in 1..Len(lists') /\ D + 1 # 1 /\ (D + 1) - 1 = D
    <3>1. Len(lists') \in Nat
      BY <1>7, WalkedSizes
    <3> QED
      BY <3>1, <2>1, <1>3
  <2>3. child'[D + 1] = 1
    <3>1. child \in Seq(Nat \ {0}) /\ 1 \in Nat \ {0}
      BY <1>1 DEF Walked
    <3>2. Append(child, 1)[Len(child) + 1] = 1
      BY <3>1, AppendProperties
    <3> QED
      BY <3>2, <1>3, <1>12, <1>14
  <2> DEFINE ls2 == lists'
             ch2 == child'
             lm2 == limit'
             t == Row(heap, ls2, D + 1)
  <2>4. Above(heap, ls2, ch2, D + 1) = x
    BY <2>1, <2>2, <1>3 DEF Above, Stop, s, Row
  <2>5. Walked(H, children, heap, ls2, ch2, lm2) /\ D + 1 \in 1..Len(ls2)
    BY <1>7, <2>2
  <2>6. Stop(heap, ls2, ch2, D + 1) = t[1]
    BY <2>3 DEF Stop, Row
  <2> HIDE DEF ls2, ch2, lm2
  <2>7. RowInStep(kind, x, t)
    BY <2>2, <2>4, <2>5, <1>1, <1>8, RowAlternates
  <2>8. Begin(kind[Stop(heap, ls2, ch2, D + 1)]) = 1 /\ End(kind[x]) = 0
    BY <2>6, <2>7 DEF RowInStep
  <2>9. Len(lists') > D
    BY <2>2, <1>3
  <2>10. state' = [e EXCEPT !.matrix = Append(@, @[Len(@)]), !.physical_level = @ + 1]
    BY <2>9 DEF Pushed, D
  <2>11. DOMAIN state' = StateFields /\ state'.physical_level = D /\ state'.push_level = Level(D - 1, 0)
    <3>1. (D - 1) + 1 = D
      BY <1>3
    <3> QED
      BY <3>1, <2>8, <2>10, <1>9 DEF StateFields
  <2>12. Level(D, 1) = Level(D - 1, 0)
    <3>1. D - 1 \in Int /\ (D - 1) + 1 = D
      BY <1>3
    <3>2. Level((D - 1) + 1, 1) = Level(D - 1, 0)
      BY <3>1, LevelMoves
    <3> QED
      BY <3>1, <3>2
  <2>13. state'.push_level = Level(Len(lists') - 1, Begin(kind'[Stop(heap', lists', child', Len(lists'))]))
    BY <2>1, <2>2, <2>8, <2>11, <2>12, <1>6 DEF ls2, ch2
  <2> QED
    BY <2>1, <2>11, <2>13 DEF CounterHere
<1>15. CASE code = "POP"
  <2>1. lists' = lists /\ limit' = limit /\ pops # {} /\ child' = [child EXCEPT ![D] = v] /\ at' = "visit"
    BY <1>11, <1>15
  <2>2. v \in pops
    <3>1. pops \subseteq Nat
      BY <1>4 DEF pops
    <3>2. \E q \in pops : \A z \in pops : q <= z
      BY <3>1, <2>1, LeastExists
    <3> QED
      BY <3>2
  <2>3. kind[s[v]] \in {"pop", "xpop"}
    BY <2>2 DEF pops
  <2> HIDE DEF v
  <2>4. child'[D] = v
    BY <2>1, <1>3, <1>4
  <2>5. Begin(kind[s[v]]) = 0
    BY <2>3 DEF Begin
  <2>6. Stop(heap', lists', child', D) = s[v]
    BY <2>1, <2>4, <1>6 DEF Stop, s, Row
  <2>7. End(kind[x]) = 0
    <3>1. CASE D = 1
      BY <3>1, <1>3, <1>8 DEF Alternates
    <3>2. CASE D # 1
      <4>1. RowInStep(kind, Above(heap, lists, child, D), s)
        <5>1. D \in 1..Len(lists)
          BY <1>3
        <5> QED
          BY <5>1, <3>2, <1>1, <1>8, RowAlternates DEF s
      <4>2. Len(s) \in Nat
        BY <1>3
      <4>3. End(kind[s[child[D]]]) = 0
        BY <4>1, <4>2, <1>4, <1>10, <1>15, PopFromInside
      <4> QED
        BY <4>3, <1>3
    <3> QED
      BY <3>1, <3>2
  <2>8. state' = e
    <3>1. ~(Len(lists) > Len(lists))
      BY <1>3
    <3> QED
      BY <3>1, <2>1
  <2>9. Len(lists') = D
    BY <2>1, <1>3
  <2>10. state'.push_level = Level(Len(lists') - 1, Begin(kind'[Stop(heap', lists', child', Len(lists'))]))
    BY <2>5, <2>6, <2>7, <2>8, <2>9, <1>6, <1>9
  <2> QED
    BY <2>1, <2>8, <2>9, <2>10, <1>9 DEF CounterHere
<1>16. CASE code # "POP" /\ ~(code = "CONTINUE" /\ children[x] # NULL)
  <2>1. lists' = lists /\ limit' = limit /\ child' = [child EXCEPT ![D] = child[D] + 1] /\ at' = "up"
    BY <1>13, <1>16
  <2>2. child'[D] = child[D] + 1
    BY <2>1, <1>3, <1>4
  <2>3. child'[D] - 1 = child[D]
    BY <2>2, <1>3
  <2>4. state' = e
    <3>1. ~(Len(lists) > Len(lists))
      BY <1>3
    <3> QED
      BY <3>1, <2>1
  <2>5. Len(lists') = D
    BY <2>1, <1>3
  <2>6. Row(heap', lists', Len(lists'))[child'[Len(lists')] - 1] = x
    BY <2>1, <2>3, <2>5, <1>3, <1>6 DEF s
  <2>7. child'[Len(lists')] - 1 <= limit'[Len(lists')]
    BY <2>1, <2>3, <2>5, <1>1 DEF D
  <2>8. state'.push_level = Level(Len(lists') - 1, End(kind'[Row(heap', lists', Len(lists'))[child'[Len(lists')] - 1]]))
    BY <2>4, <2>5, <2>6, <1>6, <1>9
  <2> QED
    BY <2>1, <2>4, <2>5, <2>7, <2>8, <1>9 DEF CounterHere
<1> QED
  BY <1>14, <1>15, <1>16

\* Going up, the section of the last child is left and the owner's is entered still.
LEMMA UpCounts ==
  ASSUME Storage, Place, CounterHere, Alternates(Len(kind), kind, parent), Up
  PROVE  CounterHere'
<1> DEFINE N == Len(kind)
           H == Len(heap) - 1
           D == Len(lists)
           d == D - 1
           up == Drop(child)
           s == Row(heap, lists, D)
<1>1. /\ lists' = Drop(lists) /\ limit' = Drop(limit) /\ child' = [up EXCEPT ![Len(child) - 1] = @ + 1]
      /\ heap' = heap /\ kind' = kind /\ state' = Popped(state) /\ Depth0 > 0 /\ at = "up" /\ at' = "up" /\ Top(child) > Top(limit)
  BY DEF Up, vars
<1>2. Walked(H, children, heap, lists, child, limit) /\ Shape(N, H, kind, parent, children, heap) /\ Alternates(N, kind, parent)
  BY DEF Place, Storage
<1>3. D \in Nat /\ Len(child) = D /\ Len(limit) = D /\ D \in 1..D /\ Len(lists) = D
  BY <1>2, WalkedSizes
<1>4. D - 1 > 0 /\ child[D] > limit[D]
  BY <1>1, <1>3 DEF Depth0, Top
<1>5. lists' = Shorter(lists) /\ limit' = Shorter(limit) /\ up = Shorter(child) /\ Len(lists) = D
  BY <1>1 DEF Drop, Shorter
<1>6. /\ DOMAIN state = StateFields /\ state.physical_level = D - 1 /\ child[D] - 1 <= limit[D]
      /\ state.push_level = Level(D - 1, End(kind[s[child[D] - 1]]))
  BY <1>1 DEF CounterHere
<1>7. /\ DOMAIN state' = StateFields /\ state'.physical_level = state.physical_level - 1
      /\ state'.push_level = state.push_level
  BY <1>1, <1>6 DEF Popped, StateFields
<1> HIDE DEF N, H, D, d, up, s
<1>8. d \in Nat \ {0} /\ d + 1 = D /\ D > 1 /\ D # 1 /\ d = D - 1 /\ d \in 1..d /\ d \in 1..(D - 1) /\ d \in 1..D
  BY <1>3, <1>4 DEF d
<1>9. Walked(H, children, heap, lists', up, limit') /\ Upper(D, lists, child, limit, lists', up, limit')
  BY <1>2, <1>5, <1>8, WalkedUp
<1>10. Len(lists') = d /\ lists'[d] = lists[d] /\ up[d] = child[d] /\ limit'[d] = limit[d]
  BY <1>8, <1>9 DEF Upper
<1>11. up \in Seq(Nat \ {0}) /\ Len(up) = d /\ DOMAIN up = 1..d
  <2>1. up \in Seq(Nat \ {0}) /\ Len(up) = Len(lists')
    BY <1>9 DEF Walked
  <2> QED
    BY <2>1, <1>10, LenProperties
<1>12. child'[d] = child[d] + 1 /\ child[d] \in Nat
  <2>1. Len(child) - 1 = d
    BY <1>3, <1>8
  <2>2. up[d] \in Nat \ {0}
    BY <1>8, <1>11, ElementOfSeq
  <2> QED
    BY <2>1, <2>2, <1>1, <1>8, <1>10, <1>11
<1>13. child'[d] - 1 = child[d]
  BY <1>12
<1>14. child[d] <= limit[d]
  BY <1>2, <1>3, <1>8 DEF Walked
<1>15. RowInStep(kind, Above(heap, lists, child, D), s)
  <2>1. D \in 1..Len(lists)
    BY <1>3
  <2> QED
    BY <2>1, <1>2, <1>8, RowAlternates DEF s
<1>16. Above(heap, lists, child, D) = Row(heap, lists, d)[child[d]]
  BY <1>8 DEF Above, Stop, Row
<1>17. child[D] - 1 = Len(s)
  <2>1. RowOK(N, kind, parent, children, heap, lists, child, limit, D)
    <3>1. D \in 1..Len(lists)
      BY <1>3
    <3> QED
      BY <3>1, <1>2, RowFacts
  <2>2. limit[D] = Len(s) /\ limit[D] \in Nat /\ child[D] \in Nat
    BY <2>1 DEF RowOK, s
  <2> QED
    BY <2>2, <1>4, <1>6
<1>18. End(kind[s[child[D] - 1]]) = 1 /\ End(kind[Row(heap, lists, d)[child[d]]]) = 0
  BY <1>15, <1>16, <1>17 DEF RowInStep
<1>19. state'.push_level = Level(d, 1) /\ state'.physical_level = d - 1
  BY <1>6, <1>7, <1>8, <1>18
<1>20. Level(d, 1) = Level(d - 1, 0)
  <2>1. d - 1 \in Int /\ (d - 1) + 1 = d
    BY <1>8
  <2>2. Level((d - 1) + 1, 1) = Level(d - 1, 0)
    BY <2>1, LevelMoves
  <2> QED
    BY <2>1, <2>2
<1>21. Row(heap', lists', Len(lists'))[child'[Len(lists')] - 1] = Row(heap, lists, d)[child[d]]
  BY <1>1, <1>10, <1>13 DEF Row
<1>22. state'.push_level = Level(Len(lists') - 1, End(kind'[Row(heap', lists', Len(lists'))[child'[Len(lists')] - 1]]))
  BY <1>1, <1>10, <1>18, <1>19, <1>20, <1>21
<1>23. child'[Len(lists')] - 1 <= limit'[Len(lists')]
  BY <1>10, <1>13, <1>14
<1> QED
  BY <1>1, <1>7, <1>10, <1>19, <1>22, <1>23 DEF CounterHere

\* The next node of a list stands in the section the one before it has left.
LEMMA UpEndsCounts ==
  ASSUME Storage, Place, CounterHere, Alternates(Len(kind), kind, parent), UpEnds, at' = "visit"
  PROVE  CounterHere'
<1> DEFINE N == Len(kind)
           H == Len(heap) - 1
           D == Len(lists)
           s == Row(heap, lists, D)
<1>1. /\ lists' = lists /\ limit' = limit /\ child' = child /\ heap' = heap /\ kind' = kind /\ state' = state
      /\ at = "up" /\ child[1] <= limit[1] /\ ~(Depth0 > 0 /\ Top(child) > Top(limit))
  BY DEF UpEnds
<1>2. Walked(H, children, heap, lists, child, limit) /\ Shape(N, H, kind, parent, children, heap) /\ Alternates(N, kind, parent)
      /\ child[D] > 1
  BY <1>1 DEF Place, Storage
<1>3. D \in Nat /\ D > 0 /\ Len(child) = D /\ Len(limit) = D /\ D \in 1..Len(lists) /\ D = Len(lists)
  BY <1>2, WalkedSizes
<1>4. /\ DOMAIN state = StateFields /\ state.physical_level = D - 1
      /\ state.push_level = Level(D - 1, End(kind[s[child[D] - 1]]))
  BY <1>1 DEF CounterHere
<1>5. ~(D - 1 > 0 /\ child[D] > limit[D])
  BY <1>1, <1>3 DEF Depth0, Top
<1>6. D = Len(lists)
  OBVIOUS
<1> HIDE DEF N, H, D, s
<1>7. limit[D] = Len(s) /\ limit[D] \in Nat /\ child[D] \in Nat
  BY <1>2, <1>3, RowFacts DEF RowOK, s
<1>8. D # 1
  <2> SUFFICES ASSUME D = 1 PROVE FALSE
    OBVIOUS
  <2>1. limit[1] = 1
    <3>1. s = <<1>>
      BY <1>2 DEF Walked, s, Row
    <3> QED
      BY <3>1, <1>7
  <2> QED
    BY <2>1, <1>1, <1>2, <1>7
<1>9. child[D] - 1 \in 1..(Len(s) - 1) /\ (child[D] - 1) + 1 = child[D]
  BY <1>2, <1>3, <1>5, <1>7, <1>8
<1>10. RowInStep(kind, Above(heap, lists, child, D), s)
  BY <1>2, <1>3, <1>8, RowAlternates DEF s
<1>11. End(kind[s[child[D] - 1]]) = Begin(kind[s[child[D]]])
  BY <1>9, <1>10 DEF RowInStep
<1>12. Stop(heap', lists', child', Len(lists')) = s[child[D]]
  BY <1>1, <1>6 DEF Stop, s, Row
<1>13. state'.push_level = Level(Len(lists') - 1, Begin(kind'[Stop(heap', lists', child', Len(lists'))]))
  BY <1>1, <1>4, <1>6, <1>11, <1>12
<1> QED
  BY <1>1, <1>4, <1>6, <1>13 DEF CounterHere

\* Every call was shown the counters of its place, and the next will be.
LEMMA CallCounted ==
  ASSUME Ready, SeenHere, CounterHere, CountersSeen, Pure(Len(kind), kind), NEW code \in AllCodes, Call(Current, code),
         SameModel, code = "POP" => MayPop(Current), at' \in {"visit", "up"} => Storage' /\ Place'
  PROVE  CountersSeen' /\ (at' \in {"visit", "up"} => CounterHere')
<1> DEFINE N == Len(kind)
           H == Len(heap) - 1
           D == Len(lists)
           x == Current
           t == During(kind, state, x)
           e == After(kind, state, x)
<1>1. /\ calls' = Append(calls, [node |-> x, code |-> code]) /\ seen' = Append(seen, t)
      /\ state' = (IF Len(lists') > Len(lists) THEN Pushed(e) ELSE e) /\ Control(x, code)
  BY DEF Call, During, After
<1>2. Storage /\ Place /\ at = "visit"
  BY DEF Ready
<1>3. Shape(N, H, kind, parent, children, heap) /\ Walked(H, children, heap, lists, child, limit) /\ child[D] <= limit[D]
  BY <1>2 DEF Storage, Place
<1>4. Standing(N, D)
  BY <1>2, <1>3, StopReadable
<1>5. D \in Nat /\ D > 0 /\ D = Len(lists) /\ D \in 1..D /\ x \in 1..N /\ x = Stop(heap, lists, child, D)
  BY <1>4 DEF Standing
<1>6. /\ Alternates(N, kind, parent) /\ Rooted(N, parent) /\ Listed(N, calls)
      /\ SeenRight(N, kind, parent, calls, seen, Lines)
      /\ \A c \in 1..Len(calls) : CountedRightly(kind, Lines, seen[c], calls[c].node)
  BY DEF CountersSeen, SeenHere
<1>7. kind' = kind /\ parent' = parent /\ Lines' = Lines
  <2>1. kind' = kind /\ parent' = parent
    BY DEF SameModel
  <2> QED
    BY <2>1 DEF Lines, Ancestors
<1>8. /\ DOMAIN state = StateFields /\ state.physical_level = D - 1
      /\ state.push_level = Level(D - 1, Begin(kind[x]))
  BY <1>2, <1>5 DEF CounterHere
<1>9. kind[x] # "xpop"
  BY <1>5 DEF Pure
<1> HIDE DEF N, H, D, x
<1>10. /\ t.physical_level = D - 1 /\ t.push_level = Level(D - 1, IF kind[x] = "anc" THEN 1 ELSE 0)
       /\ DOMAIN e = StateFields /\ e.physical_level = D - 1 /\ e.push_level = Level(D - 1, End(kind[x]))
  <2>1. D - 1 \in Int
    BY <1>5
  <2> QED
    BY <2>1, <1>8, <1>9, CallCounts
<1> HIDE DEF t, e
<1>11. Cardinality(Lines[x]) = D
  <2>1. PathTo(N, parent, heap, lists, child, D, x)
    BY <1>3, <1>5, WalkIsPath
  <2>2. Lineage(N, parent, Lines)
    BY <1>6, AncestorsAre DEF N
  <2>3. Lines[Stop(heap, lists, child, D)] = StopsTo(heap, lists, child, D)
    BY <2>1, <2>2, <1>5, <1>6, PathIsLine
  <2>4. Cardinality(StopsTo(heap, lists, child, D)) = D
    BY <2>1, StopsCount
  <2> QED
    BY <2>3, <2>4, <1>5
<1>12. CountedRightly(kind, Lines, t, x)
  BY <1>10, <1>11 DEF CountedRightly, Outer, Level
<1>13. CountersSeen'
  <2> DEFINE c1 == [node |-> x, code |-> code]
             M == Len(calls)
             up == Lines
  <2>1. IsSequence(calls) /\ IsSequence(seen) /\ Len(seen) = M
    <3>1. calls \in Seq(CallSet(N))
      BY <1>6 DEF Listed
    <3>2. IsSequence(calls)
      BY <3>1, SequenceOfAny
    <3> QED
      BY <3>2, <1>6 DEF SeenRight
  <2>2. M \in Nat /\ Len(calls') = M + 1 /\ (\A c \in 1..M : calls'[c] = calls[c]) /\ calls'[M + 1] = c1
    BY <2>1, <1>1, AppendAny
  <2>3. (\A c \in 1..M : seen'[c] = seen[c]) /\ seen'[M + 1] = t
    BY <2>1, <1>1, AppendAny
  <2>4. c1.node = x
    OBVIOUS
  <2>5. \A c \in 1..M : CountedRightly(kind, up, seen[c], calls[c].node)
    BY <1>6
  <2>6. CountedRightly(kind, up, t, x)
    BY <1>12
  <2> HIDE DEF c1, M, up
  <2>7. \A c \in 1..(M + 1) : CountedRightly(kind, up, seen'[c], calls'[c].node)
    <3>1. \A c \in 1..(M + 1) : c \in 1..M \/ c = M + 1
      BY <2>2
    <3> QED
      BY <3>1, <2>2, <2>3, <2>4, <2>5, <2>6
  <2> QED
    BY <2>2, <2>7, <1>6, <1>7 DEF CountersSeen, N, up
<1>14. ASSUME at' \in {"visit", "up"} PROVE CounterHere'
  <2>1. Storage' /\ Place'
    BY <1>14
  <2>2. /\ e.physical_level = Len(lists) - 1 /\ e.push_level = Level(Len(lists) - 1, End(kind[Current]))
        /\ Control(Current, code) /\ Alternates(Len(kind), kind, parent)
    BY <1>1, <1>6, <1>10 DEF D, x, N
  <2> QED
    BY <2>1, <2>2, <1>1, <1>2, <1>10, <1>14, MoveCounts
<1> QED
  BY <1>13, <1>14

\* A node that is stepped over begins as many sections as it ends.
LEMMA SkipCounts ==
  ASSUME Storage, Place, CounterHere, Alternates(Len(kind), kind, parent), Balanced, Skip, Storage', Place'
  PROVE  CounterHere'
<1> DEFINE D == Len(lists)
           x == Current
<1>1. /\ at = "visit" /\ flag[x] = "deleted" /\ Control(x, "SIBLING") /\ SameModel /\ state' = state
  BY DEF Skip, SameModel
<1>2. child[D] <= limit[D]
  BY <1>1 DEF Place
<1>3. Standing(Len(kind), D)
  BY <1>2, StopReadable
<1>4. D \in Nat /\ x \in 1..Len(kind) /\ x = Stop(heap, lists, child, D)
  BY <1>3 DEF Standing
<1>5. kind[x] \notin {"push", "pop", "xpop"}
  BY <1>1, <1>4 DEF Balanced, OwnPops, Nodes
<1>6. End(kind[x]) = Begin(kind[x])
  BY <1>5 DEF Begin, End, Enders
<1>7. /\ DOMAIN state = StateFields /\ state.physical_level = D - 1 /\ state.push_level = Level(D - 1, End(kind[x]))
  BY <1>1, <1>4, <1>6 DEF CounterHere
<1>8. lists' = lists /\ at' = "up"
  BY <1>1 DEF Control
<1>9. state' = IF Len(lists') > Len(lists) THEN Pushed(state) ELSE state
  <2>1. ~(Len(lists) > Len(lists))
    BY <1>4
  <2> QED
    BY <2>1, <1>1, <1>8
<1>10. "SIBLING" \in AllCodes /\ "SIBLING" # "POP"
  BY DEF AllCodes
<1> QED
  BY <1>1, <1>7, <1>8, <1>9, <1>10, MoveCounts

\* So every step of a traversal in order keeps them,
LEMMA WalkCounts ==
  ASSUME InWalk, NoCross(Len(kind), parent), SeenHere, CountersSeen, at # "done" => CallInv /\ CounterHere, Balanced, Traverse,
         at' \in {"visit", "up"} => Storage' /\ Place'
  PROVE  (at' = "idle" \/ CountersSeen') /\ (at' \in {"visit", "up"} => CounterHere')
<1>1. ASSUME at # "done" PROVE Storage /\ Place /\ CallInv /\ CounterHere
  BY <1>1 DEF InWalk, WalkInv, Position
<1>2. ASSUME at = "visit" PROVE Ready /\ CounterHere
  BY <1>1, <1>2 DEF Ready
<1>3. Pure(Len(kind), kind) /\ Alternates(Len(kind), kind, parent)
  BY DEF Balanced, OwnPops, Nodes, Pure, CountersSeen
<1>4. ASSUME NEW code \in AllCodes, at = "visit", Call(Current, code), SameModel, code = "POP" => MayPop(Current)
      PROVE  CountersSeen' /\ (at' \in {"visit", "up"} => CounterHere')
  BY <1>2, <1>3, <1>4, CallCounted
<1>5. ASSUME NEW code \in Codes, VisitUser(code) PROVE CountersSeen' /\ (at' \in {"visit", "up"} => CounterHere')
  <2>1. at = "visit" /\ Call(Current, code) /\ SameModel /\ (code = "POP" => MayPop(Current))
    BY <1>5 DEF VisitUser, SameModel
  <2>2. code \in AllCodes
    BY TraverseAssumption DEF AllCodes
  <2> QED
    BY <2>1, <2>2, <1>4
<1>6. CASE VisitSave
  <2> DEFINE code == save_cb(Current)
  <2>1. at = "visit" /\ Call(Current, code) /\ SameModel
    BY <1>6 DEF VisitSave, SameModel
  <2>2. code \in AllCodes /\ code # "POP"
    BY DEF AllCodes, save_cb
  <2> HIDE DEF code
  <2> QED
    BY <2>1, <2>2, <1>4
<1>7. ASSUME SameModel, calls' = calls, seen' = seen PROVE CountersSeen'
  <2>1. Lines' = Lines /\ kind' = kind /\ parent' = parent
    BY <1>7 DEF SameModel, Lines, Ancestors
  <2> QED
    BY <2>1, <1>7 DEF CountersSeen
<1>8. CASE VisitClone
  <2>1. at = "visit" /\ clone_cb(Current) /\ SameModel
    BY <1>8 DEF VisitClone, SameModel
  <2>2. CASE at' = "dead" /\ UNCHANGED <<heap, lists, child, limit, state, calls, seen, copy, broken>>
    BY <2>1, <2>2, <1>7
  <2>3. CASE Call(Current, "CONTINUE")
    <3>1. "CONTINUE" \in AllCodes /\ "CONTINUE" # "POP"
      BY DEF AllCodes
    <3> QED
      BY <3>1, <2>1, <2>3, <1>4
  <2> QED
    BY <2>1, <2>2, <2>3 DEF clone_cb
<1>9. CASE Skip
  <2>1. at = "visit" /\ SameModel /\ calls' = calls /\ seen' = seen
    BY <1>9 DEF Skip, SameModel
  <2>2. at' \in {"visit", "up"} => CounterHere'
    BY <2>1, <1>1, <1>3, <1>9, SkipCounts
  <2> QED
    BY <2>1, <2>2, <1>7
<1>10. CASE Up
  <2>1. at = "up" /\ SameModel /\ calls' = calls /\ seen' = seen
    BY <1>10 DEF Up, vars, SameModel
  <2>2. CounterHere'
    BY <2>1, <1>1, <1>3, <1>10, UpCounts
  <2> QED
    BY <2>1, <2>2, <1>7
<1>11. CASE UpEnds
  <2>1. at = "up" /\ SameModel /\ calls' = calls /\ seen' = seen /\ at' \in {"visit", "done"}
    BY <1>11 DEF UpEnds, SameModel
  <2>2. at' = "visit" => CounterHere'
    BY <2>1, <1>1, <1>3, <1>11, UpEndsCounts
  <2> QED
    BY <2>1, <2>2, <1>7
<1>12. CASE Done
  BY <1>12 DEF Done
<1> QED
  BY <1>5, <1>6, <1>8, <1>9, <1>10, <1>11, <1>12 DEF Traverse

\* which begins at the root, outside of all sections.
LEMMA StartCounts ==
  ASSUME Alternates(Len(kind), kind, parent), Storage', Place', NEW x \in Jobs, prf_model_traverse_io(x)
  PROVE  CounterHere' /\ CountersSeen'
<1>1. /\ calls' = <<>> /\ seen' = <<>> /\ kind' = kind /\ parent' = parent /\ state' = NewState
      /\ lists' = <<Len(heap) + 1>> /\ child' = <<1>> /\ at' = "visit"
  BY DEF prf_model_traverse_io
<1>2. DOMAIN state' = StateFields /\ state'.physical_level = 0 /\ state'.push_level = 0
  BY <1>1 DEF NewState, StateFields
<1>3. Len(lists') = 1 /\ child'[1] = 1
  BY <1>1
<1>4. Stop(heap', lists', child', 1) = 1
  <2>1. heap'[lists'[1]].elems = <<1>>
    BY DEF Place, Walked
  <2> QED
    BY <2>1, <1>3 DEF Stop
<1>5. Begin(kind'[Stop(heap', lists', child', 1)]) = 0
  BY <1>1, <1>4 DEF Alternates
<1>6. Level(1 - 1, 0) = 0
  BY DEF Level
<1>7. CounterHere'
  BY <1>1, <1>2, <1>3, <1>5, <1>6 DEF CounterHere
<1>8. CountersSeen'
  <2>1. Len(<<>>) = 0 /\ 1..0 = {}
    OBVIOUS
  <2> QED
    BY <2>1, <1>1 DEF CountersSeen
<1> QED
  BY <1>7, <1>8

\* A traversal flags no node.
LEMMA FlagsStay ==
  ASSUME Traverse
  PROVE  flag' = flag
<1>1. ASSUME NEW code \in Codes, VisitUser(code) PROVE flag' = flag
  BY <1>1 DEF VisitUser
<1> QED
  BY <1>1 DEF Traverse, VisitSave, VisitClone, Skip, Up, UpEnds, Done

\* So every step keeps the counters in step.
LEMMA CounterNext == TInv /\ TInv' /\ OrderInv /\ ScopeInv /\ CounterInv /\ [BNext]_allvars => CounterInv'
<1> SUFFICES ASSUME TInv, TInv', OrderInv, ScopeInv, CounterInv, [BNext]_allvars PROVE CounterInv'
  OBVIOUS
<1>1. CASE Load
  <2>1. LoadRecord /\ at' = at
    BY <1>1 DEF Load, walk
  <2>2. status = "loading"
    BY <2>1 DEF LoadRecord, LoadPrimary, LoadPop, LoadDies, LoadPush, LoadAncillary, LoadFails, EndOfFile, TrailingGarbage, Record
  <2>3. IInv /\ MoreInv /\ at = "idle"
    BY <2>2 DEF TInv
  <2>4. [Next]_vars
    BY <2>1 DEF Next
  <2>5. IInv' /\ MoreInv'
    BY <2>3, <2>4, NextOK, NextMore
  <2>6. Complete' => Alternates(Len(kind'), kind', parent')
    BY <2>1, <2>2, <2>3, <2>5, LoadAlternates
  <2> QED
    BY <2>1, <2>3, <2>6 DEF CounterInv, InWalk
<1>2. ASSUME NEW x \in Jobs, prf_model_traverse_io(x) PROVE CounterInv'
  <2>1. /\ status = "loaded" /\ at = "idle" /\ status' = status /\ broken' = broken /\ level' = level /\ at' = "visit"
        /\ kind' = kind /\ parent' = parent
    BY <1>2 DEF prf_model_traverse_io
  <2>2. Whole' => (Storage' /\ Place' /\ Alternates(Len(kind), kind, parent))
    <3>1. Whole' => (Storage' /\ Place')
      BY <2>1 DEF TInv, WholeInv, InWalk, InLevels, WalkInv, Position
    <3>2. Whole' => Complete
      BY <2>1 DEF Whole, Complete
    <3> QED
      BY <3>1, <3>2 DEF CounterInv
  <2>3. Whole' => (CounterHere' /\ CountersSeen')
    BY <2>2, <1>2, StartCounts
  <2>4. Complete' => Alternates(Len(kind'), kind', parent')
    BY <2>1 DEF CounterInv, Complete
  <2> QED
    BY <2>3, <2>4 DEF CounterInv
<1>3. CASE Traverse
  <2>1. SameTree /\ (Whole' => Whole /\ InWalk)
    BY <1>3, WalkBefore
  <2>2. flag' = flag
    BY <1>3, FlagsStay
  <2>3. Balanced' => Balanced
    BY <2>1, <2>2 DEF Balanced, OwnPops, Nodes, SameTree
  <2>4. ASSUME Whole', Balanced'
        PROVE  (at' = "idle" \/ CountersSeen') /\ ((InWalk' /\ at' # "done") => CounterHere')
    <3>1. Whole /\ InWalk /\ Balanced
      BY <2>1, <2>3, <2>4
    <3>2. NoCross(Len(kind), parent) /\ (at # "done" => CallInv /\ CounterHere)
      BY <3>1 DEF OrderInv, InWalk, Whole, Complete, CounterInv
    <3>3. SeenHere /\ CountersSeen
      BY <3>1 DEF ScopeInv, CounterInv, InWalk, WalkInv
    <3>4. at' \in {"visit", "up"} => (InWalk' /\ Storage' /\ Place')
      BY <2>4 DEF TInv, WholeInv, InWalk, InLevels, WalkInv, Position
    <3>5. (at' = "idle" \/ CountersSeen') /\ (at' \in {"visit", "up"} => CounterHere')
      BY <3>1, <3>2, <3>3, <3>4, <1>3, WalkCounts
    <3>6. (InWalk' /\ at' # "done") => at' \in {"visit", "up"}
      BY DEF InWalk
    <3> QED
      BY <3>5, <3>6
  <2>5. Complete' => Alternates(Len(kind'), kind', parent')
    BY <2>1 DEF CounterInv, Complete, SameTree
  <2> QED
    BY <2>4, <2>5 DEF CounterInv
<1>4. CASE UNCHANGED allvars
  <2>1. UNCHANGED <<kind, parent, children, heap, stack, level, status, flag, job, at, lists, child, limit, state, seen, copy, broken, calls>>
    BY <1>4 DEF allvars, tvars, vars, walk, bvars
  <2>2. Storage' = Storage
    BY <2>1 DEF Storage
  <2>3. InWalk' = InWalk
    BY <2>1, <2>2 DEF InWalk, WalkInv, Position, Place, HeaderFirst, Clonable, Nodes
  <2>4. CounterHere' = CounterHere /\ Whole' = Whole /\ Complete' = Complete
    BY <2>1 DEF CounterHere, Whole, Complete
  <2>5. Balanced' = Balanced
    BY <2>1 DEF Balanced, OwnPops, Nodes
  <2>6. CountersSeen' = CountersSeen
    <3>1. Lines' = Lines
      BY <2>1 DEF Lines, Ancestors
    <3> QED
      BY <2>1, <3>1 DEF CountersSeen
  <2>7. Alternates(Len(kind'), kind', parent') <=> Alternates(Len(kind), kind, parent)
    BY <2>1
  <2> QED
    BY <2>1, <2>3, <2>4, <2>5, <2>6, <2>7 DEF CounterInv
<1>5. CASE SameTree /\ at' \notin {"visit", "up", "done"} /\ ~Load /\ ~Traverse /\ ~UNCHANGED allvars
  <2>1. Whole' => (job' \in Jobs => at' = "idle")
    BY <1>5, BesideScope
  <2>2. Complete' => Alternates(Len(kind'), kind', parent')
    BY <1>5 DEF CounterInv, Complete, SameTree
  <2> QED
    BY <2>1, <2>2, <1>5 DEF CounterInv, InWalk
<1> QED
  BY <1>1, <1>2, <1>3, <1>4, <1>5, StepsBeside

\* And they are what the model says of them.
LEMMA CountersAreRight == ScopeInv /\ CounterInv => LevelsInStep
<1> SUFFICES ASSUME ScopeInv, CounterInv, Whole, Balanced, job \in Jobs, NEW c \in DOMAIN calls
             PROVE  /\ seen[c].push_level = Cardinality(Sections(calls[c].node)) % 65536
                    /\ seen[c].physical_level = Cardinality(Ancestors(calls[c].node)) - 1
  BY DEF LevelsInStep
<1> DEFINE N == Len(kind)
           n == calls[c].node
<1>1. at # "idle"
  BY DEF ScopeInv
<1>2. Rooted(N, parent) /\ Listed(N, calls) /\ Alternates(N, kind, parent)
      /\ \A a \in 1..Len(calls) : CountedRightly(kind, Lines, seen[a], calls[a].node)
  BY <1>1 DEF ScopeInv, SeenHere, CounterInv, CountersSeen
<1>3. DOMAIN calls = 1..Len(calls) /\ N \in Nat
  BY <1>2, LenProperties DEF Listed, Rooted, TreeOf
<1>4. n \in 1..N
  BY <1>2, <1>3, AnswerOfCall
<1>5. CountedRightly(kind, Lines, seen[c], n)
  BY <1>2, <1>3
<1>6. Lineage(N, parent, Lines)
  BY <1>2, AncestorsAre
<1>7. \A m \in Lines[n] : m \in 1..N
  BY <1>2, <1>4, <1>6, LineIsBefore
<1>8. Lines[n] = Ancestors(n) /\ Nodes = 1..N
  BY <1>3, <1>4 DEF Lines, Nodes
<1>9. Pure(N, kind)
  BY <1>8 DEF Balanced, OwnPops, Pure
<1> HIDE DEF n, N
<1>10. \A x \in 1..N : InSection(x) <=> InStep(N, kind, parent, x)
  <2> SUFFICES ASSUME NEW x \in 1..N PROVE InSection(x) <=> InStep(N, kind, parent, x)
    OBVIOUS
  <2>1. Siblings(x) = {m \in 1..N : parent[m] = parent[x]}
    BY <1>8 DEF Siblings
  <2> QED
    BY <2>1 DEF InSection, InStep
<1>11. Sections(n) = {x \in Lines[n] : InStep(N, kind, parent, x)}
  BY <1>7, <1>8, <1>10 DEF Sections
<1>12. Cardinality({x \in Lines[n] : InStep(N, kind, parent, x)}) = Outer(kind, n, Cardinality(Lines[n]))
  BY <1>2, <1>4, <1>6, <1>9, SectionsCount
<1>13. seen[c].push_level = Cardinality(Sections(n)) % 65536 /\ seen[c].physical_level = Cardinality(Ancestors(n)) - 1
  BY <1>5, <1>8, <1>11, <1>12 DEF CountedRightly
<1> QED
  BY <1>13 DEF n

\* The counters of a traversal in order on a whole model say at every call in how many
\* push/pop sections the node is, in 16 bits, and how deep in the tree, whatever the
\* callback has left out, unless a push or a pop is deleted or a section ends with
\* another sort of pop.
THEOREM CountersAreInStep == BSpec => []LevelsInStep
<1>1. TInv /\ OrderInv /\ ScopeInv /\ CounterInv /\ [BNext]_allvars => (TInv /\ OrderInv /\ ScopeInv /\ CounterInv)'
  BY BNextOK, OrderNext, ScopeNext, CounterNext
<1>2. BInit => TInv /\ OrderInv /\ ScopeInv /\ CounterInv
  <2>1. BInit => ScopeInv /\ CounterInv
    BY TraverseAssumption DEF BInit, TInit, Init, ScopeInv, InWalk, CounterInv, Complete
  <2> QED
    BY <2>1, BInitOK, OrderInit
<1>3. ScopeInv /\ CounterInv => LevelsInStep
  BY CountersAreRight
<1> QED
  BY <1>1, <1>2, <1>3, PTL DEF BSpec
=============================================================================
