-------------------------- MODULE ModelLoadProofs ---------------------------
(***************************************************************************)
(* Proofs about prf_model_load_with_callback, for files of any length and  *)
(* depth and every way realloc may move the lists.                         *)
(*                                                                         *)
(* The invariant relates three things: the depths of the records that were *)
(* read, the lists on the stack, and the pointers in the nodes.  It is     *)
(* stated about values, not about the variables, so that a record can be   *)
(* taken apart: a node joins a list, and a list is attached to its owner.  *)
(***************************************************************************)
EXTENDS ModelLoad, TraversalState, SequenceTheorems, FiniteSetTheorems, WellFoundedInduction, TLAPS

-----------------------------------------------------------------------------
\* Every non-empty set of naturals has a least element: the first free slot of
\* a table, and the least counterexample in a proof by induction.
LEMMA LeastExists ==
  ASSUME NEW S, S \subseteq Nat, S # {}
  PROVE  \E x \in S : \A y \in S : x <= y
<1>1. PICK n \in S : TRUE
  OBVIOUS
<1> DEFINE U == 0..n
           T == {0..k : k \in {s \in S : s <= n}}
<1>2. IsFiniteSet(U)
  BY FS_Interval
<1>3. IsWellFoundedOn(StrictSubsetOrdering(U), FiniteSubsetsOf(U))
  BY FS_StrictSubsetOrderingWellFounded
<1>4. T \subseteq FiniteSubsetsOf(U) /\ T # {}
  <2>1. ASSUME NEW k \in S, k <= n PROVE 0..k \in FiniteSubsetsOf(U)
    BY <2>1, FS_Interval DEF FiniteSubsetsOf
  <2> QED
    BY <2>1
<1> HIDE DEF T, U
<1>5. PICK x \in T : \A y \in T : ~(<<y, x>> \in StrictSubsetOrdering(U))
  BY <1>3, <1>4, WFMin
<1>6. PICK k \in S : k <= n /\ x = 0..k
  BY <1>5 DEF T
<1>7. ASSUME NEW y \in S PROVE k <= y
  <2>1. SUFFICES ASSUME y < k PROVE FALSE
    BY <1>6
  <2>2. 0..y \in T
    BY <1>6, <2>1 DEF T
  <2>3. 0..y \subseteq 0..k /\ 0..y # 0..k /\ 0..y \in SUBSET U /\ 0..k \in SUBSET U
    BY <1>6, <2>1 DEF U
  <2>4. <<0..y, x>> \in StrictSubsetOrdering(U)
    BY <1>6, <2>3 DEF StrictSubsetOrdering
  <2> QED
    BY <1>5, <2>2, <2>4
<1> QED
  BY <1>7

-----------------------------------------------------------------------------
(* The inductive invariant.  d: the depths of the nodes; L: the deepest open
   level; par, chi: the nodes' pointers; hp: the arrays; st: the stack. *)

ArrayOf(n) == [elems : Seq(1..n), size : Nat, live : BOOLEAN]
Lst(hp, st, l) == hp[st[l + 1]].elems
Own(hp, st, l) == LastOf(Lst(hp, st, l))
\* The node whose children stand on level l, 0 for the roots.
Before(hp, st, l) == IF l = 0 THEN 0 ELSE Own(hp, st, l - 1)
Rising(s) == \A i, j \in 1..Len(s) : i < j => s[i] < s[j]

\* The logical children of p: see LogicalChildren.
Kids(d, p) ==
  {n \in 1..Len(d) : p < n /\ d[p] = d[n] - 1 /\ \A m \in (p + 1)..(n - 1) : d[m] # d[n] - 1}

TreeTypes(d, L, par, chi, hp, st) ==
  /\ d \in Seq(Nat) /\ L \in Nat
  /\ hp \in Seq(ArrayOf(Len(d))) /\ st \in Seq(1..Len(hp)) /\ L + 1 <= Len(st)
  /\ par \in [1..Len(d) -> 0..Len(d)] /\ chi \in [1..Len(d) -> 0..Len(hp)]

\* An open list holds the nodes of its depth that came after its owner.
ListOK(d, hp, st, l) ==
  /\ hp[st[l + 1]].live /\ Rising(Lst(hp, st, l))
  /\ \A n : n \in Members(Lst(hp, st, l)) <=> (n \in 1..Len(d) /\ d[n] = l /\ n > Before(hp, st, l))
ListsOK(d, L, hp, st) ==
  (\A l \in 0..L : ListOK(d, hp, st, l)) /\ (\A l \in 0..(L - 1) : Lst(hp, st, l) # <<>>)

\* No two pointers to one array, but for the list of an open level and its owner.
Apart(d, L, chi, hp, st) ==
  /\ \A l, m \in 0..L : st[l + 1] = st[m + 1] => l = m
  /\ \A p \in 1..Len(d), l \in 0..L : chi[p] = st[l + 1] => (l > 0 /\ p = Own(hp, st, l - 1))
  /\ \A p, q \in 1..Len(d) : (chi[p] = chi[q] /\ chi[p] # 0) => p = q
Full(d, chi, hp) == \A p \in 1..Len(d) : chi[p] # 0 => hp[chi[p]].elems # <<>>

\* A node whose list is not open has its logical children, and they know it.
ClosedOK(d, p, par, chi, hp) ==
  \/ chi[p] = 0 /\ Kids(d, p) = {}
  \/ /\ chi[p] # 0 /\ hp[chi[p]].live /\ Rising(hp[chi[p]].elems)
     /\ Members(hp[chi[p]].elems) = Kids(d, p)
     /\ \A n \in Kids(d, p) : par[n] = p
Open(hp, st, L, p) == \E l \in 0..(L - 1) : p = Own(hp, st, l)
AllClosed(d, L, par, chi, hp, st) ==
  \A p \in 1..Len(d) : ~Open(hp, st, L, p) => ClosedOK(d, p, par, chi, hp)

\* The tree under construction, its deepest list perhaps still empty.
PreTree(d, L, par, chi, hp, st) ==
  /\ TreeTypes(d, L, par, chi, hp, st) /\ ListsOK(d, L, hp, st)
  /\ Apart(d, L, chi, hp, st) /\ Full(d, chi, hp) /\ AllClosed(d, L, par, chi, hp, st)
\* If the last node of the deepest list has children, the stack has their list.
Reopens(L, chi, hp, st) ==
  (Lst(hp, st, L) # <<>> /\ chi[Own(hp, st, L)] # 0) => (L + 2 <= Len(st) /\ st[L + 2] = chi[Own(hp, st, L)])
Tree(d, L, par, chi, hp, st) == PreTree(d, L, par, chi, hp, st) /\ Reopens(L, chi, hp, st)

\* The level after the first n records of k, and the depths: see Depth.
Count(k, n, T) == Cardinality({m \in 1..n : k[m] \in T})
Lev(k, n) == Count(k, n, {"push"}) - Count(k, n, {"pop", "xpop"})
DepthIn(k, n) == Lev(k, n - 1) + (IF k[n] \in {"push", "anc"} THEN 1 ELSE 0)
Depths(k) == [n \in 1..Len(k) |-> DepthIn(k, n)]

KindsOK == kind \in Seq(Kinds \cup Roots) /\ Len(kind) <= MaxNodes
\* What a finished load leaves.
Finished(d, par, chi, hp) ==
  \A p \in 1..Len(d) :
    /\ ClosedOK(d, p, par, chi, hp)
    /\ chi[p] # 0 => (Kids(d, p) # {} /\ Ascending(hp[chi[p]].elems))
IInv ==
  /\ KindsOK
  /\ status \in {"loading", "loaded", "refused", "failed", "asserted", "overrun"}
  /\ status = "loading" =>
       (level = Lev(kind, Len(kind)) /\ Tree(Depths(kind), level, parent, children, heap, stack))
  /\ Complete => Finished(Depths(kind), parent, children, heap)

-----------------------------------------------------------------------------
(* Lists *)

\* A sequence is one over every set that holds its elements.
LEMMA SeqOver ==
  ASSUME NEW S, NEW T, NEW s \in Seq(S), \A i \in 1..Len(s) : s[i] \in T
  PROVE  s \in Seq(T)
<1>1. Len(s) \in Nat /\ s = [i \in 1..Len(s) |-> s[i]]
  BY LenProperties
<1> QED
  BY <1>1, IsASeq

\* The last element of a rising list is one of its members, and the largest.
LEMMA LastIsLargest ==
  ASSUME NEW N \in Nat, NEW s \in Seq(1..N), Rising(s), s # <<>>
  PROVE  LastOf(s) \in Members(s) /\ LastOf(s) \in 1..N /\ \A x \in Members(s) : x <= LastOf(s)
<1> DEFINE n == Len(s)
<1>1. n \in Nat /\ n # 0 /\ DOMAIN s = 1..n
  BY EmptySeq, LenProperties
<1>2. \A i \in 1..n : s[i] \in 1..N
  BY ElementOfSeq
<1>3. \A i, j \in 1..n : i < j => s[i] < s[j]
  BY DEF Rising
<1>4. LastOf(s) = s[n]
  BY DEF LastOf
<1> HIDE DEF n
<1>5. n \in 1..n
  BY <1>1
<1>6. LastOf(s) \in Members(s) /\ LastOf(s) \in 1..N
  BY <1>1, <1>2, <1>4, <1>5 DEF Members
<1>7. ASSUME NEW x \in Members(s) PROVE x <= LastOf(s)
  <2>1. PICK i \in 1..n : x = s[i]
    BY <1>1 DEF Members
  <2>2. i = n \/ i < n
    BY <1>1
  <2>3. s[i] = s[n] \/ s[i] < s[n]
    BY <2>2, <1>3, <1>5
  <2>4. s[i] \in 1..N /\ s[n] \in 1..N
    BY <1>2, <1>5
  <2> QED
    BY <2>1, <2>3, <2>4, <1>4
<1> QED
  BY <1>6, <1>7

\* A larger number at the end of a rising list.
LEMMA AppendFacts ==
  ASSUME NEW N \in Nat, NEW s \in Seq(1..N), Rising(s), NEW x \in Nat, x > N
  PROVE  /\ Append(s, x) \in Seq(1..x) /\ Append(s, x) # <<>> /\ Rising(Append(s, x))
         /\ LastOf(Append(s, x)) = x /\ Members(Append(s, x)) = Members(s) \cup {x}
<1>1. Len(s) \in Nat /\ DOMAIN s = 1..Len(s)
  BY LenProperties
<1>2. \A i \in 1..Len(s) : s[i] \in 1..N
  BY ElementOfSeq
<1>3. s \in Seq(1..x)
  <2>1. \A i \in 1..Len(s) : s[i] \in 1..x
    BY <1>2
  <2> QED
    BY <2>1, SeqOver
<1> DEFINE t == Append(s, x)
<1>4. t \in Seq(1..x) /\ t # <<>> /\ Len(t) = Len(s) + 1
  <2>1. x \in 1..x
    OBVIOUS
  <2> QED
    BY <1>3, <2>1, AppendProperties
<1>5. (\A i \in 1..Len(s) : t[i] = s[i]) /\ t[Len(s) + 1] = x
  <2>1. x \in 1..x
    OBVIOUS
  <2> QED
    BY <1>3, <2>1, AppendProperties
<1>6. DOMAIN t = 1..Len(t)
  BY <1>4, LenProperties
<1> HIDE DEF t
<1>7. LastOf(t) = x
  BY <1>4, <1>5 DEF LastOf
<1>8. Rising(t)
  <2> SUFFICES ASSUME NEW i \in 1..Len(t), NEW j \in 1..Len(t), i < j PROVE t[i] < t[j]
    BY DEF Rising
  <2>1. i \in 1..Len(s) /\ t[i] = s[i] /\ s[i] \in 1..N
    BY <1>1, <1>2, <1>4, <1>5
  <2>2. CASE j = Len(s) + 1
    BY <2>1, <2>2, <1>5
  <2>3. CASE j \in 1..Len(s)
    BY <2>1, <2>3, <1>5 DEF Rising
  <2>4. j = Len(s) + 1 \/ j \in 1..Len(s)
    <3>1. PICK n \in Nat : n = Len(s)
      BY <1>1
    <3>2. j \in 1..(n + 1)
      BY <3>1, <1>4
    <3>3. j = n + 1 \/ j \in 1..n
      BY <3>2
    <3> QED
      BY <3>1, <3>3
  <2> QED
    BY <2>2, <2>3, <2>4
<1>9. Members(t) = Members(s) \cup {x}
  <2>1. ASSUME NEW y \in Members(t) PROVE y \in Members(s) \cup {x}
    <3>1. PICK i \in 1..Len(t) : y = t[i]
      BY <1>6 DEF Members
    <3>2. i = Len(s) + 1 \/ i \in 1..Len(s)
      BY <1>1, <1>4
    <3> QED
      BY <3>1, <3>2, <1>1, <1>5 DEF Members
  <2>2. ASSUME NEW y \in Members(s) PROVE y \in Members(t)
    <3>1. PICK i \in 1..Len(s) : y = s[i]
      BY <1>1 DEF Members
    <3>2. i \in 1..Len(t) /\ t[i] = y
      BY <3>1, <1>1, <1>4, <1>5
    <3> QED
      BY <3>2, <1>6 DEF Members
  <2>3. x \in Members(t)
    <3>1. Len(s) + 1 \in 1..Len(t)
      BY <1>1, <1>4
    <3> QED
      BY <3>1, <1>5, <1>6 DEF Members
  <2> QED
    BY <2>1, <2>2, <2>3
<1> QED
  BY <1>4, <1>7, <1>8, <1>9 DEF t

-----------------------------------------------------------------------------
(* Logical children *)

\* A node is the logical child of one node at most.
LEMMA OneParent ==
  ASSUME NEW d \in Seq(Nat), NEW p \in 1..Len(d), NEW q \in 1..Len(d),
         NEW n \in Kids(d, p), n \in Kids(d, q)
  PROVE  p = q
<1>1. Len(d) \in Nat
  BY LenProperties
<1>2. n \in 1..Len(d) /\ p < n /\ q < n /\ d[p] = d[n] - 1 /\ d[q] = d[n] - 1
  BY DEF Kids
<1>3. ~(p < q)
  <2>1. p < q => q \in (p + 1)..(n - 1)
    BY <1>1, <1>2
  <2> QED
    BY <2>1, <1>2 DEF Kids
<1>4. ~(q < p)
  <2>1. q < p => p \in (q + 1)..(n - 1)
    BY <1>1, <1>2
  <2> QED
    BY <2>1, <1>2 DEF Kids
<1> QED
  BY <1>1, <1>3, <1>4

\* The next record is a child of the last node one level up, of that one only,
\* and has no children yet.
LEMMA KidsOfNext ==
  ASSUME NEW d \in Seq(Nat), NEW x \in Nat
  PROVE  /\ Kids(Append(d, x), Len(d) + 1) = {}
         /\ \A p \in 1..Len(d) :
              \/ Kids(Append(d, x), p) = Kids(d, p)
              \/ d[p] = x - 1 /\ \A m \in 1..Len(d) : d[m] = x - 1 => m <= p
<1> DEFINE N == Len(d)
           e == Append(d, x)
<1>1. N \in Nat /\ Len(e) = N + 1 /\ (\A n \in 1..N : e[n] = d[n]) /\ e[N + 1] = x
  BY AppendProperties, LenProperties
<1> HIDE DEF N, e
<1>2. Kids(e, N + 1) = {}
  BY <1>1 DEF Kids
<1>3. ASSUME NEW p \in 1..N,
             ~(d[p] = x - 1 /\ \A m \in 1..N : d[m] = x - 1 => m <= p)
      PROVE  Kids(e, p) = Kids(d, p)
  <2>1. N + 1 \notin Kids(e, p)
    <3> SUFFICES ASSUME N + 1 \in Kids(e, p) PROVE FALSE
      OBVIOUS
    <3>1. d[p] = x - 1 /\ \A m \in (p + 1)..N : e[m] # x - 1
      BY <1>1 DEF Kids
    <3>2. PICK m \in 1..N : d[m] = x - 1 /\ ~(m <= p)
      BY <3>1, <1>3
    <3>3. m \in (p + 1)..N
      BY <3>2, <1>1
    <3> QED
      BY <3>1, <3>2, <3>3, <1>1
  <2>2. ASSUME NEW n \in 1..N PROVE n \in Kids(e, p) <=> n \in Kids(d, p)
    <3>1. \A m \in (p + 1)..(n - 1) : m \in 1..N
      BY <1>1
    <3>2. n \in 1..Len(e) /\ n \in 1..Len(d) /\ e[n] = d[n] /\ e[p] = d[p]
      BY <1>1 DEF N
    <3>3. (\A m \in (p + 1)..(n - 1) : e[m] # e[n] - 1) <=> (\A m \in (p + 1)..(n - 1) : d[m] # d[n] - 1)
      BY <3>1, <3>2, <1>1
    <3> QED
      BY <3>2, <3>3 DEF Kids
  <2>3. Kids(e, p) \subseteq 1..(N + 1) /\ Kids(d, p) \subseteq 1..N
    BY <1>1 DEF Kids, N
  <2>4. \A n \in Kids(e, p) : n \in 1..N
    <3> SUFFICES ASSUME NEW n \in Kids(e, p) PROVE n \in 1..N
      OBVIOUS
    <3>1. n \in 1..(N + 1) /\ n # N + 1
      BY <2>1, <2>3
    <3> QED
      BY <3>1, <1>1
  <2> QED
    BY <2>2, <2>3, <2>4
<1> QED
  BY <1>2, <1>3 DEF N, e

-----------------------------------------------------------------------------
(* The owners of the open lists *)

\* The parts of the types that most steps need.
LEMMA Sizes ==
  ASSUME NEW d, NEW L, NEW par, NEW chi, NEW hp, NEW st, TreeTypes(d, L, par, chi, hp, st)
  PROVE  /\ Len(d) \in Nat /\ Len(hp) \in Nat /\ Len(st) \in Nat
         /\ \A n \in 1..Len(d) : d[n] \in Nat
         /\ \A a \in 1..Len(hp) : hp[a] \in ArrayOf(Len(d)) /\ hp[a].elems \in Seq(1..Len(d))
         /\ \A i \in 1..Len(st) : st[i] \in 1..Len(hp)
         /\ \A l \in 0..L : l + 1 \in 1..Len(st) /\ st[l + 1] \in 1..Len(hp) /\ Lst(hp, st, l) \in Seq(1..Len(d))
<1>1. d \in Seq(Nat) /\ L \in Nat /\ hp \in Seq(ArrayOf(Len(d))) /\ st \in Seq(1..Len(hp)) /\ L + 1 <= Len(st)
  BY DEF TreeTypes
<1>2. Len(d) \in Nat /\ Len(hp) \in Nat /\ Len(st) \in Nat
  BY <1>1, LenProperties
<1>3. \A n \in 1..Len(d) : d[n] \in Nat
  BY <1>1, ElementOfSeq
<1>4. \A a \in 1..Len(hp) : hp[a] \in ArrayOf(Len(d))
  BY <1>1, ElementOfSeq
<1>5. \A a \in 1..Len(hp) : hp[a].elems \in Seq(1..Len(d))
  BY <1>4 DEF ArrayOf
<1>6. \A i \in 1..Len(st) : st[i] \in 1..Len(hp)
  BY <1>1, ElementOfSeq
<1>7. \A l \in 0..L : l + 1 \in 1..Len(st)
  BY <1>1, <1>2
<1>8. \A l \in 0..L : st[l + 1] \in 1..Len(hp)
  BY <1>6, <1>7
<1>9. \A l \in 0..L : Lst(hp, st, l) \in Seq(1..Len(d))
  BY <1>5, <1>8 DEF Lst
<1> QED
  BY <1>2, <1>3, <1>4, <1>5, <1>6, <1>7, <1>8, <1>9

\* The owner of a list is the last node of its depth, and stands after the
\* owners above it.
LEMMA OwnerFacts ==
  ASSUME NEW d, NEW L, NEW par, NEW chi, NEW hp, NEW st,
         TreeTypes(d, L, par, chi, hp, st), ListsOK(d, L, hp, st),
         NEW l \in 0..L, Lst(hp, st, l) # <<>>
  PROVE  /\ Own(hp, st, l) \in 1..Len(d) /\ d[Own(hp, st, l)] = l
         /\ \A n \in 1..Len(d) : d[n] = l => n <= Own(hp, st, l)
<1> DEFINE N == Len(d)
           o == Own(hp, st, l)
           b == Before(hp, st, l)
           s == Lst(hp, st, l)
<1>1. N \in Nat /\ s \in Seq(1..N) /\ L \in Nat
  BY Sizes DEF TreeTypes
<1>2. Rising(s) /\ \A n : n \in Members(s) <=> (n \in 1..N /\ d[n] = l /\ n > b)
  BY DEF ListsOK, ListOK
<1>3. o = LastOf(s) /\ s # <<>>
  BY DEF Own
<1> HIDE DEF N, o, b, s
<1>4. o \in Members(s) /\ o \in 1..N /\ \A n \in Members(s) : n <= o
  BY <1>1, <1>2, <1>3, LastIsLargest
<1>5. d[o] = l /\ o > b
  BY <1>2, <1>4
<1>6. b \in Nat
  <2>1. CASE l = 0
    BY <2>1 DEF b, Before
  <2>2. CASE l # 0
    <3>1. PICK k \in 0..(L - 1) : k = l - 1
      BY <1>1, <2>2
    <3>2. k \in 0..L
      BY <1>1
    <3>3. b = LastOf(Lst(hp, st, k)) /\ Lst(hp, st, k) # <<>> /\ Rising(Lst(hp, st, k))
      BY <2>2, <3>1, <3>2 DEF b, Before, Own, ListsOK, ListOK
    <3>4. Lst(hp, st, k) \in Seq(1..N)
      BY <3>2, Sizes DEF N
    <3> QED
      BY <3>3, <3>4, <1>1, LastIsLargest
  <2> QED
    BY <2>1, <2>2
<1>7. ASSUME NEW n \in 1..N, d[n] = l PROVE n <= o
  <2>1. CASE n > b
    BY <2>1, <1>2, <1>4, <1>7
  <2>2. CASE ~(n > b)
    BY <2>2, <1>4, <1>5, <1>6
  <2> QED
    BY <2>1, <2>2
<1> QED
  BY <1>4, <1>5, <1>7 DEF N, o

\* The list below an owner is the list of its logical children.
LEMMA KidsOfOwner ==
  ASSUME NEW d, NEW L, NEW par, NEW chi, NEW hp, NEW st,
         TreeTypes(d, L, par, chi, hp, st), ListsOK(d, L, hp, st),
         NEW l \in 0..L, Lst(hp, st, l) # <<>>
  PROVE  \A n : n \in Kids(d, Own(hp, st, l)) <=> (n \in 1..Len(d) /\ d[n] = l + 1 /\ n > Own(hp, st, l))
<1> DEFINE N == Len(d)
           o == Own(hp, st, l)
<1>1. N \in Nat /\ L \in Nat /\ \A n \in 1..N : d[n] \in Nat
  BY Sizes DEF TreeTypes
<1>2. o \in 1..N /\ d[o] = l /\ \A n \in 1..N : d[n] = l => n <= o
  BY OwnerFacts
<1> HIDE DEF o
<1>3. ASSUME NEW n \in Kids(d, o) PROVE n \in 1..N /\ d[n] = l + 1 /\ n > o
  <2>1. n \in 1..N /\ o < n /\ d[o] = d[n] - 1
    BY DEF Kids
  <2>2. d[n] \in Nat
    BY <2>1, <1>1
  <2> QED
    BY <2>1, <2>2, <1>1, <1>2
<1>4. ASSUME NEW n \in 1..N, d[n] = l + 1, n > o PROVE n \in Kids(d, o)
  <2>1. \A m \in (o + 1)..(n - 1) : m \in 1..N /\ ~(m <= o)
    BY <1>1, <1>2
  <2>2. \A m \in (o + 1)..(n - 1) : d[m] # l
    BY <2>1, <1>2
  <2>3. d[n] - 1 = l
    BY <1>1, <1>4
  <2> QED
    BY <2>2, <2>3, <1>2, <1>4 DEF Kids
<1> QED
  BY <1>3, <1>4 DEF o

\* So two open lists have different owners.
LEMMA OwnersDiffer ==
  ASSUME NEW d, NEW L, NEW par, NEW chi, NEW hp, NEW st,
         TreeTypes(d, L, par, chi, hp, st), ListsOK(d, L, hp, st),
         NEW l \in 0..L, Lst(hp, st, l) # <<>>, NEW m \in 0..L, Lst(hp, st, m) # <<>>,
         Own(hp, st, l) = Own(hp, st, m)
  PROVE  l = m
<1>1. d[Own(hp, st, l)] = l
  BY OwnerFacts
<1>2. d[Own(hp, st, m)] = m
  BY OwnerFacts
<1> QED
  BY <1>1, <1>2

-----------------------------------------------------------------------------
(* A list is attached to its owner *)

\* Attach, about values.
Attached(L, par, chi, hp, st, par2, chi2) ==
  /\ chi2 = [chi EXCEPT ![Own(hp, st, L - 1)] = st[L + 1]]
  /\ par2 = [n \in DOMAIN par |->
               IF n \in Members(Lst(hp, st, L)) THEN Own(hp, st, L - 1) ELSE par[n]]

\* The deepest list is closed: its owner has its logical children, and they
\* know it; nothing else changes.
LEMMA AttachStep ==
  ASSUME NEW d, NEW L, NEW par, NEW chi, NEW hp, NEW st, NEW par2, NEW chi2,
         PreTree(d, L, par, chi, hp, st), L > 0, Lst(hp, st, L) # <<>>,
         Attached(L, par, chi, hp, st, par2, chi2)
  PROVE  Tree(d, L - 1, par2, chi2, hp, st)
<1> DEFINE N == Len(d)
           K == L - 1
           o == Own(hp, st, K)
           a == st[L + 1]
<1>1. /\ TreeTypes(d, L, par, chi, hp, st) /\ ListsOK(d, L, hp, st) /\ Apart(d, L, chi, hp, st)
      /\ Full(d, chi, hp) /\ AllClosed(d, L, par, chi, hp, st)
  BY DEF PreTree
<1>2. /\ N \in Nat /\ L \in Nat /\ K \in Nat /\ L = K + 1 /\ L \in 0..L /\ K \in 0..L /\ K \in 0..(L - 1)
      /\ L + 1 <= Len(st) /\ Len(st) \in Nat
  BY <1>1, Sizes DEF TreeTypes
<1>3. Lst(hp, st, K) # <<>>
  BY <1>1, <1>2 DEF ListsOK
<1>4. o \in 1..N /\ d[o] = K
  BY <1>1, <1>2, <1>3, OwnerFacts
<1>5. \A n : n \in Kids(d, o) <=> (n \in 1..N /\ d[n] = L /\ n > o)
  BY <1>1, <1>2, <1>3, KidsOfOwner
<1>6. a \in 1..Len(hp) /\ hp[a] \in ArrayOf(N) /\ Len(hp) \in Nat
  BY <1>1, <1>2, Sizes
<1>7. hp[a].live /\ Rising(hp[a].elems) /\ hp[a].elems = Lst(hp, st, L) /\ hp[a].elems # <<>>
  BY <1>1, <1>2 DEF ListsOK, ListOK, Lst
<1>8. Members(Lst(hp, st, L)) = Kids(d, o)
  <2>1. Before(hp, st, L) = o
    BY <1>2 DEF Before
  <2>2. \A n : n \in Members(Lst(hp, st, L)) <=> (n \in 1..N /\ d[n] = L /\ n > o)
    BY <2>1, <1>1, <1>2 DEF ListsOK, ListOK
  <2> QED
    BY <2>2, <1>5
<1>9. chi \in [1..N -> 0..Len(hp)] /\ par \in [1..N -> 0..N]
  BY <1>1 DEF TreeTypes
<1>10. chi2 = [chi EXCEPT ![o] = a] /\ par2 = [n \in 1..N |-> IF n \in Kids(d, o) THEN o ELSE par[n]]
  BY <1>8, <1>9 DEF Attached
<1> HIDE DEF o, a, K, N
<1>11. chi2 \in [1..N -> 0..Len(hp)] /\ chi2[o] = a /\ (\A p \in 1..N : p # o => chi2[p] = chi[p])
  BY <1>4, <1>6, <1>9, <1>10
<1>12. par2 \in [1..N -> 0..N] /\ (\A n \in 1..N : par2[n] = IF n \in Kids(d, o) THEN o ELSE par[n])
  BY <1>2, <1>4, <1>9, <1>10
<1>13. \A l \in 0..K : l \in 0..L /\ l # L
  BY <1>2
<1>14. TreeTypes(d, K, par2, chi2, hp, st)
  <2>1. K + 1 <= Len(st)
    BY <1>2
  <2> QED
    BY <2>1, <1>1, <1>2, <1>11, <1>12 DEF TreeTypes, N
<1>15. ListsOK(d, K, hp, st)
  <2>1. \A l \in 0..(K - 1) : l \in 0..(L - 1)
    BY <1>2
  <2> QED
    BY <2>1, <1>1, <1>13 DEF ListsOK
<1>16. Apart(d, K, chi2, hp, st)
  <2>1. \A l, m \in 0..K : st[l + 1] = st[m + 1] => l = m
    BY <1>1, <1>13 DEF Apart
  <2>2. ASSUME NEW p \in 1..N, NEW l \in 0..K, chi2[p] = st[l + 1]
        PROVE  l > 0 /\ p = Own(hp, st, l - 1)
    <3>1. p # o
      BY <2>2, <1>1, <1>2, <1>11, <1>13 DEF Apart, a
    <3>2. chi[p] = st[l + 1]
      BY <2>2, <3>1, <1>11
    <3> QED
      BY <3>2, <1>1, <1>13 DEF Apart, N
  <2>3. ASSUME NEW p \in 1..N, NEW q \in 1..N, chi2[p] = chi2[q], chi2[p] # 0
        PROVE  p = q
    <3>1. ASSUME NEW r \in 1..N, chi[r] = a PROVE r = o
      BY <3>1, <1>1, <1>2 DEF Apart, N, a, o, K
    <3>2. CASE p = o
      BY <3>1, <3>2, <2>3, <1>11
    <3>3. CASE q = o
      BY <3>1, <3>3, <2>3, <1>11
    <3>4. CASE p # o /\ q # o
      BY <3>4, <2>3, <1>1, <1>11 DEF Apart, N
    <3> QED
      BY <3>2, <3>3, <3>4
  <2> QED
    BY <2>1, <2>2, <2>3 DEF Apart, N
<1>17. Full(d, chi2, hp)
  <2> SUFFICES ASSUME NEW p \in 1..N, chi2[p] # 0 PROVE hp[chi2[p]].elems # <<>>
    BY DEF Full, N
  <2>1. CASE p = o
    BY <2>1, <1>7, <1>11
  <2>2. CASE p # o
    BY <2>2, <1>1, <1>11 DEF Full, N
  <2> QED
    BY <2>1, <2>2
<1>18. AllClosed(d, K, par2, chi2, hp, st)
  <2> SUFFICES ASSUME NEW p \in 1..N, ~Open(hp, st, K, p) PROVE ClosedOK(d, p, par2, chi2, hp)
    BY DEF AllClosed, N
  <2>1. Kids(d, p) \subseteq 1..N
    BY DEF Kids, N
  <2>2. CASE p = o
    <3>1. chi2[p] # 0
      BY <2>2, <1>6, <1>11
    <3>2. \A n \in Kids(d, p) : par2[n] = p
      BY <2>1, <2>2, <1>12
    <3> QED
      BY <2>2, <3>1, <3>2, <1>7, <1>8, <1>11 DEF ClosedOK
  <2>3. CASE p # o
    <3>1. ~Open(hp, st, L, p)
      <4>1. \A l \in 0..(L - 1) : l \in 0..(K - 1) \/ l = K
        BY <1>2
      <4> QED
        BY <4>1, <2>3 DEF Open, o
    <3>2. ClosedOK(d, p, par, chi, hp)
      BY <3>1, <1>1 DEF AllClosed, N
    <3>3. \A n \in Kids(d, p) : par2[n] = par[n]
      <4> SUFFICES ASSUME NEW n \in Kids(d, p) PROVE par2[n] = par[n]
        OBVIOUS
      <4>1. n \notin Kids(d, o)
        BY <2>3, <1>1, <1>4, OneParent DEF N, TreeTypes
      <4> QED
        BY <4>1, <2>1, <1>12
    <3> QED
      BY <2>3, <3>2, <3>3, <1>11 DEF ClosedOK
  <2> QED
    BY <2>2, <2>3
<1>19. Reopens(K, chi2, hp, st)
  <2>1. K + 2 <= Len(st) /\ K + 2 = L + 1
    BY <1>2
  <2> QED
    BY <2>1, <1>11 DEF Reopens, o, a
<1>20. PreTree(d, K, par2, chi2, hp, st)
  BY <1>14, <1>15, <1>16, <1>17, <1>18 DEF PreTree
<1> QED
  BY <1>19, <1>20 DEF Tree, K

-----------------------------------------------------------------------------
(* A list is opened below the last node *)

\* The last node has children: their list is opened again.
LEMMA ReopenStep ==
  ASSUME NEW d, NEW L, NEW par, NEW chi, NEW hp, NEW st,
         Tree(d, L, par, chi, hp, st), Lst(hp, st, L) # <<>>, chi[Own(hp, st, L)] # 0
  PROVE  PreTree(d, L + 1, par, chi, hp, st)
<1> DEFINE N == Len(d)
           K == L + 1
           o == Own(hp, st, L)
           a == st[K + 1]
<1>1. /\ TreeTypes(d, L, par, chi, hp, st) /\ ListsOK(d, L, hp, st) /\ Apart(d, L, chi, hp, st)
      /\ Full(d, chi, hp) /\ AllClosed(d, L, par, chi, hp, st)
  BY DEF Tree, PreTree
<1>2. L \in Nat /\ K \in Nat /\ K + 1 = L + 2 /\ L \in 0..L /\ K - 1 = L /\ K # 0
  BY <1>1 DEF TreeTypes
<1>3. K + 1 <= Len(st) /\ a = chi[o]
  BY <1>2 DEF Tree, Reopens
<1>4. o \in 1..N /\ d[o] = L
  BY <1>1, <1>2, OwnerFacts
<1>5. \A n : n \in Kids(d, o) <=> (n \in 1..N /\ d[n] = K /\ n > o)
  BY <1>1, <1>2, KidsOfOwner
<1>6. \A l \in 0..(L - 1) : l \in 0..L /\ l # L /\ Lst(hp, st, l) # <<>>
  BY <1>1, <1>2 DEF ListsOK
<1>7. ~Open(hp, st, L, o)
  BY <1>1, <1>2, <1>6, OwnersDiffer DEF Open
<1>8. ClosedOK(d, o, par, chi, hp)
  BY <1>1, <1>4, <1>7 DEF AllClosed
<1>9. hp[a].live /\ Rising(hp[a].elems) /\ Members(hp[a].elems) = Kids(d, o)
  BY <1>3, <1>8 DEF ClosedOK
<1>10. \A l \in 0..K : l \in 0..L \/ l = K
  BY <1>2
<1>11. Before(hp, st, K) = o
  BY <1>2 DEF Before
<1> HIDE DEF N, K, o, a
<1>12. TreeTypes(d, K, par, chi, hp, st)
  BY <1>1, <1>2, <1>3 DEF TreeTypes
<1>13. ListsOK(d, K, hp, st)
  <2>1. ListOK(d, hp, st, K)
    BY <1>5, <1>9, <1>11 DEF ListOK, Lst, N, a
  <2>2. \A l \in 0..(K - 1) : l \in 0..(L - 1) \/ l = L
    BY <1>2
  <2> QED
    BY <2>1, <2>2, <1>1, <1>10 DEF ListsOK
<1>14. Apart(d, K, chi, hp, st)
  <2>1. ASSUME NEW l \in 0..L PROVE st[l + 1] # a
    <3> SUFFICES ASSUME st[l + 1] = a PROVE FALSE
      OBVIOUS
    <3>1. l > 0 /\ o = Own(hp, st, l - 1)
      BY <1>1, <1>3, <1>4 DEF Apart, N
    <3>2. PICK m \in 0..(L - 1) : m = l - 1
      BY <3>1, <1>2
    <3> QED
      BY <3>1, <3>2, <1>7 DEF Open
  <2>2. \A l, m \in 0..K : st[l + 1] = st[m + 1] => l = m
    BY <2>1, <1>1, <1>10 DEF Apart, a
  <2>3. ASSUME NEW p \in 1..N, chi[p] = a PROVE p = o
    BY <2>3, <1>1, <1>3, <1>4 DEF Apart, N, o
  <2>4. ASSUME NEW p \in 1..N, NEW l \in 0..K, chi[p] = st[l + 1]
        PROVE  l > 0 /\ p = Own(hp, st, l - 1)
    <3>1. CASE l = K
      <4>1. p = o
        BY <3>1, <2>3, <2>4 DEF a
      <4> QED
        BY <3>1, <4>1, <1>2 DEF o
    <3>2. CASE l \in 0..L
      BY <3>2, <2>4, <1>1 DEF Apart, N
    <3> QED
      BY <3>1, <3>2, <1>10
  <2> QED
    BY <2>2, <2>4, <1>1 DEF Apart, N
<1>15. AllClosed(d, K, par, chi, hp, st)
  <2>1. \A l \in 0..(L - 1) : l \in 0..(K - 1)
    BY <1>2
  <2>2. \A p : Open(hp, st, L, p) => Open(hp, st, K, p)
    BY <2>1 DEF Open
  <2> QED
    BY <2>2, <1>1 DEF AllClosed
<1> QED
  BY <1>1, <1>12, <1>13, <1>14, <1>15 DEF PreTree, K

\* The heap, of H arrays, and the stack with an empty list on the next level.
NewList(N, L, H, hp, st, hp2, st2) ==
  /\ hp2 \in Seq(ArrayOf(N)) /\ Len(hp2) = H + 1 /\ hp2[H + 1] = EmptyArray
  /\ \A i \in 1..H : hp2[i] = hp[i]
  /\ st2 \in Seq(1..(H + 1)) /\ Len(st2) = L + 2 /\ st2[L + 2] = H + 1
  /\ \A l \in 0..L : st2[l + 1] = st[l + 1]
\* A list that is opened gets an array of its own, on top of the stack.
LEMMA NewListFacts ==
  ASSUME NEW d, NEW L, NEW par, NEW chi, NEW hp, NEW st, NEW hp2, NEW st2,
         TreeTypes(d, L, par, chi, hp, st),
         hp2 = Append(hp, EmptyArray), st2 = Append(SubSeq(st, 1, L + 1), Len(hp) + 1)
  PROVE  NewList(Len(d), L, Len(hp), hp, st, hp2, st2)
<1> DEFINE N == Len(d)
           H == Len(hp)
<1>1. TreeTypes(d, L, par, chi, hp, st)
  OBVIOUS
<1>2. L \in Nat /\ H \in Nat /\ N \in Nat
  BY <1>1, Sizes DEF TreeTypes
<1>8. EmptyArray \in ArrayOf(N) /\ EmptyArray.elems = <<>> /\ EmptyArray.live
  <2>1. InitSize \in Nat
    BY LoadAssumption
  <2>2. <<>> \in Seq(1..N)
    BY EmptySeq
  <2> QED
    BY <2>1, <2>2 DEF EmptyArray, ArrayOf
<1>9. hp \in Seq(ArrayOf(N)) /\ st \in Seq(1..H)
  BY <1>1 DEF TreeTypes
<1>10. /\ hp2 \in Seq(ArrayOf(N)) /\ Len(hp2) = H + 1 /\ hp2[H + 1] = EmptyArray
       /\ \A i \in 1..H : hp2[i] = hp[i]
  BY <1>8, <1>9, AppendProperties
<1>11. st2 \in Seq(1..(H + 1)) /\ Len(st2) = L + 2 /\ st2[L + 2] = H + 1 /\ \A l \in 0..L : st2[l + 1] = st[l + 1]
  <2> DEFINE s == SubSeq(st, 1, L + 1)
  <2>1. L + 1 <= Len(st) /\ \A i \in 1..(L + 1) : i \in 1..Len(st)
    BY <1>1, <1>2, Sizes DEF TreeTypes
  <2>2. \A i \in 1..(L + 1) : st[i] \in 1..(H + 1)
    <3>1. \A i \in 1..(L + 1) : st[i] \in 1..H
      BY <2>1, <1>9, ElementOfSeq
    <3> QED
      BY <3>1, <1>2
  <2>3. s \in Seq(1..(H + 1)) /\ Len(s) = L + 1 /\ \A i \in 1..(L + 1) : s[i] = st[i]
    <3>1. st \in Seq(1..(H + 1))
      <4>1. \A i \in 1..Len(st) : st[i] \in 1..(H + 1)
        <5>1. \A i \in 1..Len(st) : st[i] \in 1..H
          BY <1>9, ElementOfSeq
        <5> QED
          BY <5>1, <1>2
      <4> QED
        BY <4>1, <1>9, SeqOver
    <3> QED
      BY <3>1, <2>1, <2>2, <1>2, SubSeqProperties
  <2> HIDE DEF s, H, N
  <2>4. H + 1 \in 1..(H + 1)
    BY <1>2
  <2>5. st2 = Append(s, H + 1)
    BY DEF s, H
  <2>6. st2 \in Seq(1..(H + 1)) /\ Len(st2) = L + 2 /\ st2[L + 2] = H + 1 /\ \A i \in 1..(L + 1) : st2[i] = s[i]
    <3>1. /\ st2 \in Seq(1..(H + 1)) /\ Len(st2) = Len(s) + 1 /\ st2[Len(s) + 1] = H + 1
          /\ \A i \in 1..Len(s) : st2[i] = s[i]
      BY <2>3, <2>4, <2>5, AppendProperties
    <3>2. Len(s) + 1 = L + 2
      BY <2>3, <1>2
    <3> QED
      BY <3>1, <3>2, <2>3
  <2>7. \A l \in 0..L : l + 1 \in 1..(L + 1)
    BY <1>2
  <2>8. \A l \in 0..L : st2[l + 1] = s[l + 1] /\ s[l + 1] = st[l + 1]
    BY <2>3, <2>6, <2>7
  <2> QED
    BY <2>6, <2>8
<1> QED
  BY <1>10, <1>11 DEF NewList

\* The last node has no children: it gets an empty list.
LEMMA NewListStep ==
  ASSUME NEW d, NEW L, NEW par, NEW chi, NEW hp, NEW st, NEW hp2, NEW st2,
         PreTree(d, L, par, chi, hp, st), Lst(hp, st, L) # <<>>, chi[Own(hp, st, L)] = 0,
         hp2 = Append(hp, EmptyArray), st2 = Append(SubSeq(st, 1, L + 1), Len(hp) + 1)
  PROVE  PreTree(d, L + 1, par, chi, hp2, st2)
<1> DEFINE N == Len(d)
           K == L + 1
           H == Len(hp)
           o == Own(hp, st, L)
<1>1. /\ TreeTypes(d, L, par, chi, hp, st) /\ ListsOK(d, L, hp, st) /\ Apart(d, L, chi, hp, st)
      /\ Full(d, chi, hp) /\ AllClosed(d, L, par, chi, hp, st)
  BY DEF PreTree
<1>2. /\ L \in Nat /\ K \in Nat /\ L \in 0..L /\ K - 1 = L /\ K # 0 /\ K + 1 = L + 2
      /\ H \in Nat /\ N \in Nat
  BY <1>1, Sizes DEF TreeTypes
<1>3. o \in 1..N /\ d[o] = L
  BY <1>1, <1>2, OwnerFacts
<1>4. \A n : n \in Kids(d, o) <=> (n \in 1..N /\ d[n] = K /\ n > o)
  BY <1>1, <1>2, KidsOfOwner
<1>5. \A l \in 0..(L - 1) : l \in 0..L /\ l # L /\ Lst(hp, st, l) # <<>>
  BY <1>1, <1>2 DEF ListsOK
<1>6. ~Open(hp, st, L, o)
  BY <1>1, <1>2, <1>5, OwnersDiffer DEF Open
<1>7. Kids(d, o) = {}
  <2>1. ClosedOK(d, o, par, chi, hp)
    BY <1>1, <1>3, <1>6 DEF AllClosed
  <2> QED
    BY <2>1 DEF ClosedOK
<1>8. EmptyArray.elems = <<>> /\ EmptyArray.live
  BY DEF EmptyArray
<1>0. hp2 = Append(hp, EmptyArray) /\ st2 = Append(SubSeq(st, 1, L + 1), Len(hp) + 1)
  OBVIOUS
<1>9. NewList(N, L, H, hp, st, hp2, st2)
  BY <1>0, <1>1, NewListFacts
<1>10. /\ hp2 \in Seq(ArrayOf(N)) /\ Len(hp2) = H + 1 /\ hp2[H + 1] = EmptyArray
       /\ \A i \in 1..H : hp2[i] = hp[i]
  BY <1>9 DEF NewList
<1>11. st2 \in Seq(1..(H + 1)) /\ Len(st2) = L + 2 /\ st2[L + 2] = H + 1 /\ \A l \in 0..L : st2[l + 1] = st[l + 1]
  BY <1>9 DEF NewList
<1> HIDE DEF N, K, H, o
<1>12. \A l \in 0..L : st[l + 1] \in 1..H
  BY <1>1, Sizes DEF H
<1>13. \A l \in 0..L : Lst(hp2, st2, l) = Lst(hp, st, l) /\ hp2[st2[l + 1]] = hp[st[l + 1]]
  BY ZenonT(30), <1>10, <1>11, <1>12 DEF Lst
<1>14. \A l \in 0..L : Own(hp2, st2, l) = Own(hp, st, l)
  BY <1>13 DEF Own
<1>15. \A l \in 0..K : l \in 0..L \/ l = K
  BY <1>2
<1>16. Lst(hp2, st2, K) = <<>> /\ hp2[st2[K + 1]].live
  BY <1>2, <1>8, <1>10, <1>11 DEF Lst
<1>17. TreeTypes(d, K, par, chi, hp2, st2)
  <2>1. chi \in [1..N -> 0..H] /\ par \in [1..N -> 0..N] /\ d \in Seq(Nat)
    BY <1>1 DEF TreeTypes, N, H
  <2>2. chi \in [1..N -> 0..(H + 1)]
    BY <2>1, <1>2
  <2>3. K + 1 <= Len(st2)
    BY <1>2, <1>11
  <2> QED
    BY <2>1, <2>2, <2>3, <1>2, <1>10, <1>11 DEF TreeTypes, N
<1>18. ListsOK(d, K, hp2, st2)
  <2>1. \A l \in 0..L : Before(hp2, st2, l) = Before(hp, st, l)
    <3>1. \A l \in 0..L : l # 0 => l - 1 \in 0..L
      BY <1>2
    <3> QED
      BY <3>1, <1>14 DEF Before
  <2>2. \A l \in 0..L : ListOK(d, hp2, st2, l)
    BY <2>1, <1>1, <1>13 DEF ListsOK, ListOK
  <2>3. ListOK(d, hp2, st2, K)
    <3>1. Before(hp2, st2, K) = o
      BY <1>2, <1>14 DEF Before, o
    <3>2. Rising(<<>>) /\ Members(<<>>) = {}
      BY DEF Rising, Members
    <3> QED
      BY <3>1, <3>2, <1>4, <1>7, <1>16 DEF ListOK, N
  <2>4. \A l \in 0..(K - 1) : (l \in 0..(L - 1) \/ l = L) /\ l \in 0..L
    BY <1>2
  <2> QED
    BY <2>2, <2>3, <2>4, <1>1, <1>13, <1>15 DEF ListsOK
<1>19. Apart(d, K, chi, hp2, st2)
  <2>1. \A l \in 0..L : st2[l + 1] = st[l + 1] /\ st[l + 1] # H + 1
    BY <1>2, <1>11, <1>12
  <2>2. st2[K + 1] = H + 1
    BY <1>2, <1>11
  <2>3. ASSUME NEW l \in 0..K, NEW m \in 0..K, st2[l + 1] = st2[m + 1] PROVE l = m
    <3>1. CASE l \in 0..L /\ m \in 0..L
      BY ZenonT(30), <3>1, <2>1, <2>3, <1>1 DEF Apart
    <3>2. CASE l = K \/ m = K
      BY ZenonT(30), <3>2, <2>1, <2>2, <2>3, <1>15
    <3> QED
      BY <3>1, <3>2, <1>15
  <2>4. \A p \in 1..N : chi[p] # H + 1
    <3>1. \A p \in 1..N : chi[p] \in 0..H
      BY <1>1 DEF TreeTypes, N, H
    <3> QED
      BY <3>1, <1>2
  <2>5. ASSUME NEW p \in 1..N, NEW l \in 0..K, chi[p] = st2[l + 1]
        PROVE  l > 0 /\ p = Own(hp2, st2, l - 1)
    <3>1. l \in 0..L /\ chi[p] = st[l + 1]
      BY <2>1, <2>2, <2>4, <2>5, <1>15
    <3>2. l > 0 /\ p = Own(hp, st, l - 1)
      BY <3>1, <1>1 DEF Apart, N
    <3>3. l - 1 \in 0..L
      BY <3>1, <3>2, <1>2
    <3> QED
      BY <3>2, <3>3, <1>14
  <2> QED
    BY <2>3, <2>5, <1>1 DEF Apart, N
<1>20. \A p \in 1..N : chi[p] # 0 => hp2[chi[p]] = hp[chi[p]]
  <2>1. \A p \in 1..N : chi[p] \in 0..H
    BY <1>1 DEF TreeTypes, N, H
  <2>2. \A p \in 1..N : chi[p] # 0 => chi[p] \in 1..H
    BY <2>1, <1>2
  <2> QED
    BY <2>2, <1>10
<1>21. Full(d, chi, hp2)
  BY <1>1, <1>20 DEF Full, N
<1>22. AllClosed(d, K, par, chi, hp2, st2)
  <2> SUFFICES ASSUME NEW p \in 1..N, ~Open(hp2, st2, K, p) PROVE ClosedOK(d, p, par, chi, hp2)
    BY DEF AllClosed, N
  <2>1. \A l \in 0..(L - 1) : l \in 0..(K - 1) /\ l \in 0..L
    BY <1>2
  <2>2. ~Open(hp, st, L, p)
    BY <2>1, <1>14 DEF Open
  <2>3. ClosedOK(d, p, par, chi, hp)
    BY <2>2, <1>1 DEF AllClosed, N
  <2> QED
    BY <2>3, <1>20 DEF ClosedOK
<1> QED
  BY <1>17, <1>18, <1>19, <1>21, <1>22 DEF PreTree, K

-----------------------------------------------------------------------------
(* A node joins the deepest list *)

\* What prf_array_append_ptr leaves: in place, or moved to a new array.
Joined(L, x, hp, st, hp2, st2) ==
  /\ hp2 \in Seq(ArrayOf(x)) /\ Len(hp2) >= Len(hp)
  /\ st2 \in Seq(1..Len(hp2)) /\ Len(st2) = Len(st)
  /\ \A i \in 1..Len(st) : i # L + 1 => st2[i] = st[i]
  /\ st2[L + 1] \in {st[L + 1], Len(hp) + 1}
  /\ hp2[st2[L + 1]].elems = Append(Lst(hp, st, L), x) /\ hp2[st2[L + 1]].live
  /\ \A a \in 1..Len(hp) : a # st[L + 1] => hp2[a] = hp[a]
  /\ Lst(hp, st, L) # <<>> => hp2[st[L + 1]].elems # <<>>
  /\ st2[L + 1] # st[L + 1] => hp2[st[L + 1]].live = FALSE
  /\ \A a \in 1..Len(hp2) : a \in 1..Len(hp) \/ a = st2[L + 1]

\* The array that an append fills, moves or grows.
LEMMA GrownArray ==
  ASSUME NEW N \in Nat, NEW r \in ArrayOf(N), r.live, Rising(r.elems), NEW e,
         e = [r EXCEPT !.elems = Append(@, N + 1), !.size = IF Len(r.elems) >= @ THEN 2 * @ ELSE @]
  PROVE  /\ r \in ArrayOf(N + 1) /\ [r EXCEPT !.live = FALSE] \in ArrayOf(N + 1)
         /\ e \in ArrayOf(N + 1) /\ e.live /\ e.elems = Append(r.elems, N + 1) /\ e.elems # <<>>
<1>1. r.elems \in Seq(1..N) /\ r.size \in Nat /\ r.live \in BOOLEAN
  BY DEF ArrayOf
<1>2. r.elems \in Seq(1..(N + 1)) /\ r = [elems |-> r.elems, size |-> r.size, live |-> r.live]
  <2>1. \A i \in 1..Len(r.elems) : r.elems[i] \in 1..(N + 1)
    <3>1. \A i \in 1..Len(r.elems) : r.elems[i] \in 1..N
      BY <1>1, ElementOfSeq
    <3> QED
      BY <3>1
  <2>2. r.elems \in Seq(1..(N + 1))
    BY <2>1, <1>1, SeqOver
  <2> QED
    BY <2>2 DEF ArrayOf
<1>3. Append(r.elems, N + 1) \in Seq(1..(N + 1)) /\ Append(r.elems, N + 1) # <<>>
  <2>1. N + 1 \in 1..(N + 1)
    OBVIOUS
  <2> QED
    BY <1>2, <2>1, AppendProperties
<1>4. (IF Len(r.elems) >= r.size THEN 2 * r.size ELSE r.size) \in Nat
  BY <1>1
<1>5. e = [elems |-> Append(r.elems, N + 1), live |-> r.live,
           size |-> IF Len(r.elems) >= r.size THEN 2 * r.size ELSE r.size]
  BY <1>2
<1>6. r \in ArrayOf(N + 1)
  BY <1>1, <1>2 DEF ArrayOf
<1>7. [r EXCEPT !.live = FALSE] \in ArrayOf(N + 1)
  BY <1>6 DEF ArrayOf
<1> QED
  BY <1>1, <1>3, <1>4, <1>5, <1>6, <1>7 DEF ArrayOf

\* prf_array_append_ptr does that.
LEMMA AppendJoins ==
  ASSUME NEW d, NEW L, NEW par, NEW chi, NEW hp, NEW st,
         PreTree(d, L, par, chi, hp, st), prf_array_append_ptr(hp, st, L, Len(d) + 1)
  PROVE  Joined(L, Len(d) + 1, hp, st, heap', stack')
<1> DEFINE N == Len(d)
           H == Len(hp)
           a == st[L + 1]
           r == hp[a]
           e == Appended(hp, a, N + 1)
           g == [r EXCEPT !.live = FALSE]
<1>1. TreeTypes(d, L, par, chi, hp, st) /\ ListsOK(d, L, hp, st)
  BY DEF PreTree
<1>2. /\ L \in Nat /\ L \in 0..L /\ H \in Nat /\ N \in Nat /\ Len(st) \in Nat /\ L + 1 \in 1..Len(st)
      /\ a \in 1..H /\ hp \in Seq(ArrayOf(N)) /\ st \in Seq(1..H)
  BY <1>1, Sizes DEF TreeTypes
<1>3. \A i \in 1..H : hp[i] \in ArrayOf(N)
  BY <1>2, ElementOfSeq
<1>4. r \in ArrayOf(N) /\ r.live /\ Rising(r.elems) /\ Lst(hp, st, L) = r.elems
  BY <1>1, <1>2, <1>3 DEF ListsOK, ListOK, Lst
<1>5. /\ g \in ArrayOf(N + 1) /\ g.elems = r.elems /\ g.live = FALSE
      /\ e \in ArrayOf(N + 1) /\ e.live /\ e.elems = Append(r.elems, N + 1) /\ e.elems # <<>>
  <2>1. g.elems = r.elems /\ g.live = FALSE
    BY <1>4 DEF ArrayOf
  <2>2. e = [r EXCEPT !.elems = Append(@, N + 1), !.size = IF Len(r.elems) >= @ THEN 2 * @ ELSE @]
    BY DEF Appended
  <2> HIDE DEF N, r, e
  <2> QED
    BY ZenonT(30), <2>1, <2>2, <1>2, <1>4, GrownArray
<1>6. hp \in Seq(ArrayOf(N + 1))
  <2>1. ASSUME NEW i \in 1..H PROVE hp[i] \in ArrayOf(N + 1)
    <3>1. hp[i].elems \in Seq(1..N) /\ hp[i] \in ArrayOf(N)
      BY <1>3 DEF ArrayOf
    <3>2. \A j \in 1..Len(hp[i].elems) : hp[i].elems[j] \in 1..(N + 1)
      <4>1. \A j \in 1..Len(hp[i].elems) : hp[i].elems[j] \in 1..N
        BY <3>1, ElementOfSeq
      <4> QED
        BY SMTT(30), <4>1, <1>2
    <3>3. hp[i].elems \in Seq(1..(N + 1))
      BY <3>1, <3>2, SeqOver
    <3> QED
      BY <3>1, <3>3 DEF ArrayOf
  <2> QED
    BY <2>1, <1>2, SeqOver
<1>7. AppendInPlace(hp, st, L, N + 1) \/ AppendMoved(hp, st, L, N + 1)
  BY DEF prf_array_append_ptr
<1>8. ASSUME AppendInPlace(hp, st, L, N + 1) PROVE Joined(L, N + 1, hp, st, heap', stack')
  <2>1. heap' = [hp EXCEPT ![a] = e] /\ stack' = st
    BY <1>8 DEF AppendInPlace
  <2> HIDE DEF N, H, a, r, e, g
  <2>2. heap' \in Seq(ArrayOf(N + 1)) /\ Len(heap') = H
    BY <2>1, <1>2, <1>5, <1>6, ExceptSeq DEF H
  <2>3. heap'[a] = e /\ \A i \in 1..H : i # a => heap'[i] = hp[i]
    <3>1. DOMAIN hp = 1..H
      BY <1>6, LenProperties DEF H
    <3> QED
      BY <2>1, <3>1, <1>2
  <2> QED
    BY <2>1, <2>2, <2>3, <1>2, <1>4, <1>5 DEF Joined, H, a
<1>9. ASSUME AppendMoved(hp, st, L, N + 1) PROVE Joined(L, N + 1, hp, st, heap', stack')
  <2>1. heap' = Append([hp EXCEPT ![a] = g], e) /\ stack' = [st EXCEPT ![L + 1] = H + 1]
    BY <1>9 DEF AppendMoved
  <2> DEFINE f == [hp EXCEPT ![a] = g]
  <2> HIDE DEF N, H, a, r, e, g
  <2>2. f \in Seq(ArrayOf(N + 1)) /\ Len(f) = H
    BY <1>2, <1>5, <1>6, ExceptSeq DEF H
  <2>3. f[a] = g /\ \A i \in 1..H : i # a => f[i] = hp[i]
    <3>1. DOMAIN hp = 1..H
      BY <1>6, LenProperties DEF H
    <3> QED
      BY <3>1, <1>2
  <2>4. heap' = Append(f, e)
    BY <2>1
  <2> HIDE DEF f
  <2>5. /\ heap' \in Seq(ArrayOf(N + 1)) /\ Len(heap') = H + 1 /\ heap'[H + 1] = e
        /\ \A i \in 1..H : heap'[i] = f[i]
    BY <2>2, <2>4, <1>5, AppendProperties
  <2>6. st \in Seq(1..(H + 1)) /\ H + 1 \in 1..(H + 1)
    <3>1. \A i \in 1..Len(st) : st[i] \in 1..(H + 1)
      <4>1. \A i \in 1..Len(st) : st[i] \in 1..H
        BY <1>2, ElementOfSeq
      <4> QED
        BY <4>1, <1>2
    <3>2. st \in Seq(1..(H + 1))
      BY <3>1, <1>2, SeqOver
    <3> QED
      BY <3>2, <1>2
  <2>7. stack' \in Seq(1..(H + 1)) /\ Len(stack') = Len(st)
    BY <2>1, <2>6, <1>2, ExceptSeq
  <2>8. stack'[L + 1] = H + 1 /\ \A i \in 1..Len(st) : i # L + 1 => stack'[i] = st[i]
    <3>1. DOMAIN st = 1..Len(st)
      BY <2>6, LenProperties
    <3> QED
      BY <2>1, <3>1, <1>2
  <2>9. \A i \in 1..H : i # a => heap'[i] = hp[i]
    BY <2>3, <2>5
  <2>10. heap'[a].elems = r.elems /\ heap'[a].live = FALSE
    BY <2>3, <2>5, <1>2, <1>5
  <2>11. Len(heap') >= H /\ \A i \in 1..Len(heap') : i \in 1..H \/ i = H + 1
    BY <2>5, <1>2
  <2> QED
    BY <2>5, <2>7, <2>8, <2>9, <2>10, <2>11, <1>4, <1>5 DEF Joined, H, a
<1> QED
  BY <1>7, <1>8, <1>9

\* A pointer of the new node: NULL.
NullEnded(N, k, f, f2) ==
  f2 \in [1..(N + 1) -> 0..k] /\ f2[N + 1] = 0 /\ \A n \in 1..N : f2[n] = f[n]
LEMMA NullAppended ==
  ASSUME NEW N \in Nat, NEW m \in Nat, NEW k \in Nat, m <= k, NEW f \in [1..N -> 0..m]
  PROVE  NullEnded(N, k, f, Append(f, NULL))
<1>1. f \in Seq(0..k)
  <2>1. \A n \in 1..N : f[n] \in 0..k
    OBVIOUS
  <2>2. f = [n \in 1..N |-> f[n]]
    OBVIOUS
  <2> QED
    BY <2>1, <2>2, IsASeq
<1>2. Len(f) = N
  BY <1>1, LenProperties
<1>3. 0 \in 0..k
  OBVIOUS
<1>4. /\ Append(f, 0) \in Seq(0..k) /\ Len(Append(f, 0)) = N + 1 /\ Append(f, 0)[N + 1] = 0
      /\ \A n \in 1..N : Append(f, 0)[n] = f[n]
  BY <1>1, <1>2, <1>3, AppendProperties
<1>5. Append(f, 0) \in [1..(N + 1) -> 0..k]
  BY <1>4, LenProperties
<1> QED
  BY <1>4, <1>5 DEF NULL, NullEnded

\* The new node stands on the deepest open level, after the owners of the open
\* lists; the other lists, and what is closed, stay as they are.
LEMMA JoinStep ==
  ASSUME NEW d, NEW L, NEW par, NEW chi, NEW hp, NEW st, NEW hp2, NEW st2,
         PreTree(d, L, par, chi, hp, st), Joined(L, Len(d) + 1, hp, st, hp2, st2)
  PROVE  /\ Tree(Append(d, L), L, Append(par, NULL), Append(chi, NULL), hp2, st2)
         /\ Lst(hp2, st2, L) # <<>>
<1> DEFINE N == Len(d)
           e == Append(d, L)
           par2 == Append(par, NULL)
           chi2 == Append(chi, NULL)
           a == st[L + 1]
<1>1. /\ TreeTypes(d, L, par, chi, hp, st) /\ ListsOK(d, L, hp, st) /\ Apart(d, L, chi, hp, st)
      /\ Full(d, chi, hp) /\ AllClosed(d, L, par, chi, hp, st)
  BY DEF PreTree
<1>2. /\ d \in Seq(Nat) /\ L \in Nat /\ L \in 0..L /\ N \in Nat /\ Len(hp) \in Nat /\ Len(st) \in Nat
      /\ L + 1 <= Len(st) /\ a \in 1..Len(hp)
  BY <1>1, Sizes DEF TreeTypes
<1>3. /\ e \in Seq(Nat) /\ Len(e) = N + 1 /\ e[N + 1] = L /\ \A n \in 1..N : e[n] = d[n]
  BY <1>2, AppendProperties
<1>4. Kids(e, N + 1) = {} /\ \A p \in 1..N : Kids(e, p) = Kids(d, p) \/ (d[p] = L - 1 /\ \A m \in 1..N : d[m] = L - 1 => m <= p)
  BY <1>2, KidsOfNext
<1>5. /\ hp2 \in Seq(ArrayOf(N + 1)) /\ Len(hp2) >= Len(hp) /\ st2 \in Seq(1..Len(hp2)) /\ Len(st2) = Len(st)
      /\ st2[L + 1] \in {a, Len(hp) + 1} /\ hp2[st2[L + 1]].live
  BY DEF Joined
<1>6. Len(hp2) \in Nat
  BY <1>5, LenProperties
<1>7. par2 \in [1..(N + 1) -> 0..(N + 1)] /\ par2[N + 1] = 0 /\ \A n \in 1..N : par2[n] = par[n]
  <2> DEFINE K == N + 1
  <2>1. par \in [1..N -> 0..N] /\ N \in Nat /\ K \in Nat /\ N <= K
    BY <1>1, <1>2 DEF TreeTypes
  <2> HIDE DEF N, K
  <2>2. NullEnded(N, K, par, Append(par, NULL))
    BY <2>1, NullAppended
  <2> QED
    BY <2>2 DEF NullEnded, K
<1>8. chi2 \in [1..(N + 1) -> 0..Len(hp2)] /\ chi2[N + 1] = 0 /\ \A n \in 1..N : chi2[n] = chi[n]
  <2>1. chi \in [1..N -> 0..Len(hp)]
    BY <1>1 DEF TreeTypes
  <2> DEFINE H == Len(hp)
             G == Len(hp2)
  <2>2. H <= G /\ H \in Nat /\ G \in Nat
    BY <1>2, <1>5, <1>6
  <2>3. chi \in [1..N -> 0..H] /\ N \in Nat
    BY <2>1, <1>2
  <2> HIDE DEF N, H, G
  <2>4. chi2 \in [1..(N + 1) -> 0..G] /\ chi2[N + 1] = 0 /\ \A n \in 1..N : chi2[n] = chi[n]
    <3>1. NullEnded(N, G, chi, Append(chi, NULL))
      BY <2>2, <2>3, NullAppended
    <3> QED
      BY <3>1 DEF NullEnded
  <2> QED
    BY <2>4 DEF G
<1>9. /\ \A l \in 0..L : l # L => st2[l + 1] = st[l + 1]
      /\ \A i \in 1..Len(hp) : i # a => hp2[i] = hp[i]
      /\ Lst(hp, st, L) # <<>> => hp2[a].elems # <<>>
      /\ Lst(hp2, st2, L) = Append(Lst(hp, st, L), N + 1)
  <2>1. \A l \in 0..L : l # L => (l + 1 \in 1..Len(st) /\ l + 1 # L + 1)
    BY <1>2
  <2> QED
    BY <2>1 DEF Joined, Lst
<1>10. \A p \in 1..N : chi[p] \in 0..Len(hp)
  BY <1>1 DEF TreeTypes
<1>11. \A l \in 0..L : st[l + 1] \in 1..Len(hp)
  BY <1>1, Sizes
<1> HIDE DEF N, e, par2, chi2, a
<1>12. \A l \in 0..L : l # L => st[l + 1] # a
  BY <1>1, <1>2 DEF Apart, a
<1>13. \A l \in 0..L : l # L => hp2[st2[l + 1]] = hp[st[l + 1]]
  BY <1>9, <1>11, <1>12
<1>14. \A l \in 0..L : l # L => Lst(hp2, st2, l) = Lst(hp, st, l)
  BY <1>13 DEF Lst
<1>15. \A l \in 0..L : l # L => Own(hp2, st2, l) = Own(hp, st, l)
  BY <1>14 DEF Own
<1>16. /\ Rising(Lst(hp2, st2, L)) /\ Own(hp2, st2, L) = N + 1 /\ Lst(hp2, st2, L) # <<>>
       /\ Members(Lst(hp2, st2, L)) = Members(Lst(hp, st, L)) \cup {N + 1}
  <2>1. Lst(hp, st, L) \in Seq(1..N)
    BY <1>1, <1>2, Sizes DEF N
  <2>2. Rising(Lst(hp, st, L))
    BY <1>1, <1>2 DEF ListsOK, ListOK
  <2>3. N + 1 \in Nat /\ N + 1 > N
    BY <1>2
  <2> QED
    BY <2>1, <2>2, <2>3, <1>2, <1>9, AppendFacts DEF Own
<1>17. \A l \in 0..L : l # 0 => (l - 1 \in 0..L /\ l - 1 # L /\ l - 1 \in 0..(L - 1))
  BY <1>2
<1>18. \A l \in 0..L : Before(hp2, st2, l) = Before(hp, st, l)
  BY <1>15, <1>17 DEF Before
<1>19. \A l \in 0..(L - 1) : l \in 0..L /\ l # L /\ Lst(hp, st, l) # <<>>
  BY <1>1, <1>2 DEF ListsOK
<1>20. \A l \in 0..(L - 1) : Own(hp, st, l) \in 1..N /\ d[Own(hp, st, l)] = l /\ \A n \in 1..N : d[n] = l => n <= Own(hp, st, l)
  BY <1>1, <1>19, OwnerFacts DEF N
<1>21. \A n : n \in 1..(N + 1) <=> (n \in 1..N \/ n = N + 1)
  BY <1>2
<1>22. TreeTypes(e, L, par2, chi2, hp2, st2)
  BY <1>2, <1>3, <1>5, <1>7, <1>8 DEF TreeTypes
<1>23. ListsOK(e, L, hp2, st2)
  <2>1. ASSUME NEW l \in 0..L, l # L PROVE ListOK(e, hp2, st2, l)
    <3> DEFINE s == Lst(hp, st, l)
               b == Before(hp, st, l)
    <3>1. hp[st[l + 1]].live /\ Rising(s) /\ \A n : n \in Members(s) <=> (n \in 1..N /\ d[n] = l /\ n > b)
      BY <1>1 DEF ListsOK, ListOK, N
    <3>2. Lst(hp2, st2, l) = s /\ Before(hp2, st2, l) = b /\ hp2[st2[l + 1]].live
      BY <2>1, <3>1, <1>13, <1>14, <1>18
    <3> HIDE DEF s, b
    <3>3. \A n : n \in Members(s) <=> (n \in 1..(N + 1) /\ e[n] = l /\ n > b)
      BY <3>1, <2>1, <1>3, <1>21
    <3> QED
      BY <3>1, <3>2, <3>3, <1>3 DEF ListOK
  <2>2. ListOK(e, hp2, st2, L)
    <3> DEFINE s == Lst(hp, st, L)
               b == Before(hp, st, L)
    <3>1. \A n : n \in Members(s) <=> (n \in 1..N /\ d[n] = L /\ n > b)
      BY <1>1, <1>2 DEF ListsOK, ListOK, N
    <3>2. N + 1 > b
      <4>1. CASE L = 0
        BY <4>1, <1>2 DEF Before
      <4>2. CASE L # 0
        <5>1. b = Own(hp, st, L - 1) /\ Own(hp, st, L - 1) \in 1..N
          BY <4>2, <1>2, <1>17, <1>20 DEF Before
        <5> QED
          BY <5>1, <1>2
      <4> QED
        BY <4>1, <4>2
    <3>3. Before(hp2, st2, L) = b /\ Members(Lst(hp2, st2, L)) = Members(s) \cup {N + 1}
      BY <1>2, <1>16, <1>18
    <3> HIDE DEF s, b
    <3>4. \A n : n \in Members(s) \cup {N + 1} <=> (n \in 1..(N + 1) /\ e[n] = L /\ n > b)
      BY <3>1, <3>2, <1>3, <1>21
    <3> QED
      BY <3>3, <3>4, <1>3, <1>5, <1>16 DEF ListOK
  <2>3. \A l \in 0..(L - 1) : Lst(hp2, st2, l) # <<>>
    BY <1>14, <1>19
  <2> QED
    BY <2>1, <2>2, <2>3 DEF ListsOK
<1>24. \A l \in 0..L : st2[l + 1] # 0
  <2>1. \A l \in 0..L : l # L => st2[l + 1] \in 1..Len(hp)
    BY <1>9, <1>11
  <2>2. st2[L + 1] \in 1..(Len(hp) + 1)
    BY SMTT(30), <1>2, <1>5
  <2> QED
    BY <2>1, <2>2
<1>25. Apart(e, L, chi2, hp2, st2)
  <2>1. \A l \in 0..L : l # L => st2[l + 1] # st2[L + 1]
    <3>1. ASSUME NEW l \in 0..L, l # L PROVE st2[l + 1] # st2[L + 1]
      <4>1. st2[l + 1] = st[l + 1] /\ st[l + 1] # a /\ st[l + 1] \in 1..Len(hp)
        BY <3>1, <1>9, <1>11, <1>12
      <4> QED
        BY SMTT(30), <4>1, <1>2, <1>5
    <3> QED
      BY <3>1
  <2>2. ASSUME NEW l \in 0..L, NEW m \in 0..L, st2[l + 1] = st2[m + 1] PROVE l = m
    <3>1. CASE l # L /\ m # L
      BY <3>1, <2>2, <1>1, <1>9 DEF Apart
    <3>2. CASE l = L \/ m = L
      BY <3>2, <2>1, <2>2
    <3> QED
      BY <3>1, <3>2
  <2>3. ASSUME NEW p \in 1..N, NEW l \in 0..L, chi[p] = st2[l + 1]
        PROVE  l > 0 /\ p = Own(hp2, st2, l - 1)
    <3>1. chi[p] = st[l + 1]
      <4>1. CASE l # L
        BY <4>1, <2>3, <1>9
      <4>2. CASE l = L
        <5>1. chi[p] \in 0..Len(hp)
          BY <1>10
        <5>2. chi[p] # Len(hp) + 1
          BY <5>1, <1>2
        <5> QED
          BY <4>2, <5>2, <2>3, <1>5 DEF a
      <4> QED
        BY <4>1, <4>2
    <3>2. l > 0 /\ p = Own(hp, st, l - 1)
      BY <3>1, <1>1 DEF Apart, N
    <3>3. l - 1 \in 0..L /\ l - 1 # L
      BY <3>2, <1>17
    <3> QED
      BY <3>2, <3>3, <1>15
  <2>4. ASSUME NEW p \in 1..(N + 1), NEW l \in 0..L, chi2[p] = st2[l + 1]
        PROVE  l > 0 /\ p = Own(hp2, st2, l - 1)
    <3>1. p \in 1..N
      BY <2>4, <1>8, <1>21, <1>24
    <3> QED
      BY <3>1, <2>3, <2>4, <1>8
  <2>5. ASSUME NEW p \in 1..(N + 1), NEW q \in 1..(N + 1), chi2[p] = chi2[q], chi2[p] # 0
        PROVE  p = q
    <3>1. p \in 1..N /\ q \in 1..N
      BY <2>5, <1>8, <1>21
    <3> QED
      BY <3>1, <2>5, <1>1, <1>8 DEF Apart, N
  <2> QED
    BY <2>2, <2>4, <2>5, <1>3 DEF Apart
<1>26. \A p \in 1..N : (chi[p] # 0 /\ chi[p] # a) => hp2[chi[p]] = hp[chi[p]]
  <2>1. \A p \in 1..N : chi[p] # 0 => chi[p] \in 1..Len(hp)
    BY <1>2, <1>10
  <2> QED
    BY <2>1, <1>9
<1>27. Full(e, chi2, hp2)
  <2> SUFFICES ASSUME NEW p \in 1..(N + 1), chi2[p] # 0 PROVE hp2[chi2[p]].elems # <<>>
    BY <1>3 DEF Full
  <2>1. p \in 1..N /\ chi2[p] = chi[p] /\ hp[chi[p]].elems # <<>>
    BY <1>1, <1>8, <1>21 DEF Full, N
  <2>2. CASE chi[p] = a
    BY <2>1, <2>2, <1>9 DEF Lst, a
  <2>3. CASE chi[p] # a
    BY <2>1, <2>3, <1>26
  <2> QED
    BY <2>2, <2>3
<1>28. AllClosed(e, L, par2, chi2, hp2, st2)
  <2> SUFFICES ASSUME NEW p \in 1..(N + 1), ~Open(hp2, st2, L, p) PROVE ClosedOK(e, p, par2, chi2, hp2)
    BY <1>3 DEF AllClosed
  <2>1. CASE p = N + 1
    BY <2>1, <1>4, <1>8 DEF ClosedOK
  <2>2. CASE p \in 1..N
    <3>1. \A l \in 0..(L - 1) : p # Own(hp, st, l)
      BY <1>15, <1>19 DEF Open
    <3>2. ClosedOK(d, p, par, chi, hp)
      BY <2>2, <3>1, <1>1 DEF AllClosed, Open, N
    <3>3. chi2[p] = chi[p] /\ chi[p] # a
      <4>1. chi[p] # a
        <5> SUFFICES ASSUME chi[p] = a PROVE FALSE
          OBVIOUS
        <5>1. L > 0 /\ p = Own(hp, st, L - 1)
          BY <2>2, <1>1, <1>2 DEF Apart, N, a
        <5> QED
          BY <3>1, <5>1, <1>2, <1>17
      <4> QED
        BY <4>1, <2>2, <1>8
    <3>4. Kids(e, p) = Kids(d, p)
      <4> SUFFICES ASSUME d[p] = L - 1, \A m \in 1..N : d[m] = L - 1 => m <= p PROVE FALSE
        BY <2>2, <1>4
      <4>1. d[p] \in Nat
        BY <2>2, <1>1, Sizes DEF N
      <4>2. PICK l \in 0..(L - 1) : l = L - 1
        BY <4>1, <1>2
      <4>3. Own(hp, st, l) <= p /\ p <= Own(hp, st, l) /\ Own(hp, st, l) \in 1..N
        BY <2>2, <4>2, <1>20
      <4>4. p = Own(hp, st, l)
        BY <2>2, <4>3, <1>2
      <4> QED
        BY <4>4, <3>1
    <3>5. \A n \in Kids(d, p) : par2[n] = par[n]
      <4>1. Kids(d, p) \subseteq 1..N
        BY DEF Kids, N
      <4> QED
        BY <4>1, <1>7
    <3> QED
      BY <2>2, <3>2, <3>3, <3>4, <3>5, <1>26 DEF ClosedOK
  <2> QED
    BY <2>1, <2>2, <1>21
<1>29. Reopens(L, chi2, hp2, st2)
  BY <1>8, <1>16 DEF Reopens
<1> QED
  BY <1>16, <1>22, <1>23, <1>25, <1>27, <1>28, <1>29 DEF Tree, PreTree, e, par2, chi2

-----------------------------------------------------------------------------
(* Depths *)

\* The logical children of the model are those of the invariant.
LEMMA LogicalKids ==
  ASSUME kind \in Seq(Kinds \cup Roots), NEW p \in 1..Len(kind)
  PROVE  LogicalChildren(p) = Kids(Depths(kind), p) /\ Len(Depths(kind)) = Len(kind)
<1> DEFINE d == Depths(kind)
           N == Len(kind)
<1>1. N \in Nat
  BY LenProperties
<1>2. d = [n \in 1..N |-> Depth(n)]
  <2>1. \A n : Lev(kind, n) = Opened(n) - Closed(n)
    <3>1. \A n : {m \in 1..n : kind[m] \in {"push"}} = {m \in 1..n : kind[m] = "push"}
      OBVIOUS
    <3> QED
      BY <3>1 DEF Lev, Count, Opened, Closed
  <2> QED
    BY <2>1 DEF Depths, DepthIn, Depth
<1>3. Len(d) = N
  BY <1>1, <1>2
<1>4. \A n \in 1..N : d[n] = Depth(n)
  BY <1>2
<1> HIDE DEF d, N
<1>5. ASSUME NEW n \in 1..N, p < n
      PROVE  IsLogicalParent(p, n) <=> (d[p] = d[n] - 1 /\ \A m \in (p + 1)..(n - 1) : d[m] # d[n] - 1)
  <2>1. \A m \in (p + 1)..(n - 1) : m \in 1..N
    BY <1>1
  <2>2. p \in 1..N
    BY DEF N
  <2> QED
    BY <2>1, <2>2, <1>4, <1>5 DEF IsLogicalParent
<1>6. p \in 1..N
  BY DEF N
<1>7. \A n \in 1..N : n > p <=> p < n
  BY <1>1, <1>6
<1> QED
  BY <1>3, <1>5, <1>7 DEF LogicalChildren, Kids, Nodes, N, d

\* Counting up to the next record.
LEMMA CountNext ==
  ASSUME NEW S, NEW k \in Seq(S), NEW x \in S, NEW T
  PROVE  /\ \A n \in 0..Len(k) : Count(k, n, T) \in Nat /\ Count(Append(k, x), n, T) = Count(k, n, T)
         /\ Count(Append(k, x), Len(k) + 1, T) = Count(k, Len(k), T) + (IF x \in T THEN 1 ELSE 0)
<1> DEFINE N == Len(k)
           j == Append(k, x)
           A == {m \in 1..N : k[m] \in T}
           B == {m \in 1..(N + 1) : j[m] \in T}
<1>1. N \in Nat /\ (\A m \in 1..N : j[m] = k[m]) /\ j[N + 1] = x
  BY LenProperties, AppendProperties
<1> HIDE DEF N, j
<1>2. \A n \in 0..N : IsFiniteSet({m \in 1..n : k[m] \in T})
  <2> SUFFICES ASSUME NEW n \in 0..N PROVE IsFiniteSet({m \in 1..n : k[m] \in T})
    OBVIOUS
  <2>1. IsFiniteSet(1..n)
    BY <1>1, FS_Interval
  <2>2. {m \in 1..n : k[m] \in T} \subseteq 1..n
    OBVIOUS
  <2> QED
    BY <2>1, <2>2, FS_Subset
<1>3. \A n \in 0..N : Cardinality({m \in 1..n : k[m] \in T}) \in Nat
  BY <1>2, FS_CardinalityType
<1>4. ASSUME NEW n \in 0..N PROVE {m \in 1..n : j[m] \in T} = {m \in 1..n : k[m] \in T}
  <2>1. \A m \in 1..n : m \in 1..N
    BY <1>1
  <2> QED
    BY <2>1, <1>1
<1>5. N \in 0..N /\ N + 1 \notin 1..N /\ \A m : m \in 1..(N + 1) <=> (m \in 1..N \/ m = N + 1)
  BY <1>1
<1>6. IsFiniteSet(A) /\ N + 1 \notin A /\ Cardinality(A) \in Nat
  BY <1>2, <1>3, <1>5
<1>7. CASE x \in T
  <2>1. B = A \cup {N + 1}
    BY <1>1, <1>5, <1>7
  <2>2. Cardinality(A \cup {N + 1}) = Cardinality(A) + 1
    BY <1>6, FS_AddElement
  <2> QED
    BY <2>1, <2>2, <1>3, <1>4, <1>7 DEF N, j, Count
<1>8. CASE x \notin T
  <2>1. B = A
    BY <1>1, <1>5, <1>8
  <2>2. Cardinality(B) = Cardinality(A) + 0
    <3> HIDE DEF A, B
    <3> QED
      BY <2>1, <1>6
  <2> QED
    BY <2>2, <1>3, <1>4, <1>8 DEF N, j, Count
<1> QED
  BY <1>7, <1>8

\* The depth of the next record, and the level after it; the depths of the
\* records before it stay.
LEMMA DepthNext ==
  ASSUME NEW S, NEW k \in Seq(S), NEW x \in S
  PROVE  /\ Lev(k, Len(k)) \in Int /\ Len(Depths(k)) = Len(k)
         /\ Depths(Append(k, x)) = Append(Depths(k), Lev(k, Len(k)) + (IF x \in {"push", "anc"} THEN 1 ELSE 0))
         /\ Lev(Append(k, x), Len(Append(k, x)))
              = (Lev(k, Len(k)) + (IF x = "push" THEN 1 ELSE 0)) - (IF x \in {"pop", "xpop"} THEN 1 ELSE 0)
<1> DEFINE N == Len(k)
           j == Append(k, x)
           P(q, n) == Count(q, n, {"push"})
           Q(q, n) == Count(q, n, {"pop", "xpop"})
           y == Lev(k, N) + (IF x \in {"push", "anc"} THEN 1 ELSE 0)
<1>1. N \in Nat /\ Len(j) = N + 1 /\ (\A m \in 1..N : j[m] = k[m]) /\ j[N + 1] = x
  BY LenProperties, AppendProperties
<1>2. \A q, n : Lev(q, n) = P(q, n) - Q(q, n)
  BY DEF Lev
<1>3. /\ \A n \in 0..N : P(k, n) \in Nat /\ P(j, n) = P(k, n)
      /\ P(j, N + 1) = P(k, N) + (IF x \in {"push"} THEN 1 ELSE 0)
  BY CountNext
<1>4. /\ \A n \in 0..N : Q(k, n) \in Nat /\ Q(j, n) = Q(k, n)
      /\ Q(j, N + 1) = Q(k, N) + (IF x \in {"pop", "xpop"} THEN 1 ELSE 0)
  BY CountNext
<1> HIDE DEF N, j, P, Q
<1>5. N \in 0..N
  BY <1>1
<1>6. \A n \in 0..N : Lev(k, n) \in Int /\ Lev(j, n) = Lev(k, n)
  BY <1>2, <1>3, <1>4
<1>7. Lev(j, N + 1) = (Lev(k, N) + (IF x = "push" THEN 1 ELSE 0)) - (IF x \in {"pop", "xpop"} THEN 1 ELSE 0)
  <2>1. P(k, N) \in Nat /\ Q(k, N) \in Nat
    BY <1>3, <1>4, <1>5
  <2> QED
    BY <2>1, <1>2, <1>3, <1>4
<1>8. y \in Int
  BY <1>5, <1>6
<1>9. \A n \in 1..N : n - 1 \in 0..N
  BY <1>1
<1>10. \A n \in 1..N : DepthIn(k, n) \in Int /\ DepthIn(j, n) = DepthIn(k, n)
  <2>1. \A n \in 1..N : Lev(k, n - 1) \in Int /\ Lev(j, n - 1) = Lev(k, n - 1)
    BY <1>6, <1>9
  <2> QED
    BY <2>1, <1>1 DEF DepthIn
<1>11. DepthIn(j, N + 1) = y
  <2>1. (N + 1) - 1 = N
    BY <1>1
  <2> QED
    BY <2>1, <1>1, <1>5, <1>6 DEF DepthIn
<1> HIDE DEF y
<1>12. Depths(k) \in Seq(Int) /\ Len(Depths(k)) = N /\ \A n \in 1..N : Depths(k)[n] = DepthIn(k, n)
  <2>1. Depths(k) = [n \in 1..N |-> DepthIn(k, n)]
    BY DEF Depths, N
  <2>2. Depths(k) \in Seq(Int)
    BY <2>1, <1>1, <1>10, IsASeq
  <2> QED
    BY <2>1, <2>2, <1>1, LenProperties
<1>13. Depths(j) = [n \in 1..(N + 1) |-> DepthIn(j, n)]
  BY <1>1 DEF Depths
<1>14. /\ Append(Depths(k), y) \in Seq(Int) /\ Len(Append(Depths(k), y)) = N + 1
       /\ Append(Depths(k), y)[N + 1] = y /\ \A n \in 1..N : Append(Depths(k), y)[n] = Depths(k)[n]
  BY <1>8, <1>12, AppendProperties
<1>15. \A n : n \in 1..(N + 1) <=> (n \in 1..N \/ n = N + 1)
  BY <1>1
<1>16. \A n \in 1..(N + 1) : Append(Depths(k), y)[n] = DepthIn(j, n)
  BY <1>10, <1>11, <1>12, <1>14, <1>15
<1>17. Append(Depths(k), y) = [n \in 1..(N + 1) |-> Append(Depths(k), y)[n]]
  BY <1>14, LenProperties
<1>18. Depths(j) = Append(Depths(k), y)
  BY <1>13, <1>16, <1>17
<1> QED
  BY <1>1, <1>5, <1>6, <1>7, <1>12, <1>18 DEF N, j, y

-----------------------------------------------------------------------------
(* The records of a file keep the invariant *)

\* The empty tree.
LEMMA InitOK == Init => IInv
<1> SUFFICES ASSUME Init PROVE IInv
  OBVIOUS
<1>1. kind = <<>> /\ parent = <<>> /\ children = <<>> /\ heap = <<EmptyArray>> /\ stack = <<1>> /\ level = 0 /\ status = "loading"
  BY DEF Init
<1> DEFINE d == Depths(kind)
<1>2. Len(kind) = 0 /\ kind \in Seq(Kinds \cup Roots)
  BY <1>1, EmptySeq
<1>3. d = <<>> /\ d \in Seq(Nat) /\ Len(d) = 0
  <2>1. d = <<>>
    BY <1>2 DEF Depths
  <2> QED
    BY <2>1, EmptySeq
<1>4. Lev(kind, Len(kind)) = 0
  <2>1. \A T : Count(kind, 0, T) = 0
    <3>1. \A T : {m \in 1..0 : kind[m] \in T} = {}
      OBVIOUS
    <3> QED
      BY <3>1, FS_EmptySet DEF Count
  <2> QED
    BY <2>1, <1>2 DEF Lev
<1> HIDE DEF d
<1>5. EmptyArray \in ArrayOf(0) /\ EmptyArray.elems = <<>> /\ EmptyArray.live
  <2>1. InitSize \in Nat
    BY LoadAssumption
  <2>2. <<>> \in Seq(1..0)
    BY EmptySeq
  <2> QED
    BY <2>1, <2>2 DEF EmptyArray, ArrayOf
<1>6. heap \in Seq(ArrayOf(0)) /\ Len(heap) = 1 /\ heap[1] = EmptyArray
  BY <1>1, <1>5
<1>7. stack \in Seq(1..1) /\ Len(stack) = 1 /\ stack[1] = 1
  BY <1>1
<1>8. parent \in [1..0 -> 0..0] /\ children \in [1..0 -> 0..1]
  BY <1>1
<1>9. TreeTypes(d, 0, parent, children, heap, stack)
  BY <1>3, <1>6, <1>7, <1>8 DEF TreeTypes
<1>10. Lst(heap, stack, 0) = <<>> /\ heap[stack[0 + 1]].live
  BY <1>5, <1>6, <1>7 DEF Lst
<1>11. ListsOK(d, 0, heap, stack)
  <2>1. Rising(<<>>) /\ Members(<<>>) = {}
    BY DEF Rising, Members
  <2>2. ListOK(d, heap, stack, 0)
    BY <2>1, <1>3, <1>10 DEF ListOK
  <2>3. \A l \in 0..0 : l = 0
    OBVIOUS
  <2>4. 0..(0 - 1) = {}
    OBVIOUS
  <2> QED
    BY <2>2, <2>3, <2>4 DEF ListsOK
<1>12. Apart(d, 0, children, heap, stack) /\ Full(d, children, heap) /\ AllClosed(d, 0, parent, children, heap, stack)
  BY <1>3 DEF Apart, Full, AllClosed
<1>13. Reopens(0, children, heap, stack)
  BY <1>10 DEF Reopens
<1>14. Tree(d, 0, parent, children, heap, stack)
  BY <1>9, <1>11, <1>12, <1>13 DEF Tree, PreTree
<1>15. KindsOK
  BY <1>2, LoadAssumption DEF KindsOK
<1> QED
  BY <1>1, <1>4, <1>14, <1>15 DEF IInv, Complete, d

\* What every record starts from, and the depths after it.
LEMMA RecordFacts ==
  ASSUME IInv, NEW k, Record(k), k \in Kinds \cup Roots
  PROVE  /\ KindsOK' /\ Node = Len(Depths(kind)) + 1 /\ level \in Nat
         /\ Tree(Depths(kind), level, parent, children, heap, stack)
         /\ PreTree(Depths(kind), level, parent, children, heap, stack)
         /\ Depths(kind') = Append(Depths(kind), level + (IF k \in {"push", "anc"} THEN 1 ELSE 0))
         /\ Lev(kind', Len(kind')) = (level + (IF k = "push" THEN 1 ELSE 0)) - (IF k \in {"pop", "xpop"} THEN 1 ELSE 0)
<1>1. kind \in Seq(Kinds \cup Roots) /\ status = "loading" /\ Node <= MaxNodes /\ kind' = Append(kind, k)
  BY DEF IInv, KindsOK, Record
<1>2. level = Lev(kind, Len(kind)) /\ Tree(Depths(kind), level, parent, children, heap, stack)
  BY <1>1 DEF IInv
<1>3. /\ Len(Depths(kind)) = Len(kind)
      /\ Depths(kind') = Append(Depths(kind), level + (IF k \in {"push", "anc"} THEN 1 ELSE 0))
      /\ Lev(kind', Len(kind')) = (level + (IF k = "push" THEN 1 ELSE 0)) - (IF k \in {"pop", "xpop"} THEN 1 ELSE 0)
  BY <1>1, <1>2, DepthNext
<1>4. KindsOK'
  <2>1. kind' \in Seq(Kinds \cup Roots) /\ Len(kind') = Len(kind) + 1
    BY <1>1, AppendProperties
  <2> QED
    BY <2>1, <1>1 DEF KindsOK, Node
<1> QED
  BY <1>2, <1>3, <1>4 DEF Tree, PreTree, TreeTypes, Node

\* A record that is loaded, from the tree that it leaves.
LEMMA LoadedRecord ==
  ASSUME IInv, NEW k, Record(k), k \in Kinds \cup Roots, UNCHANGED status,
         level' = (level + (IF k = "push" THEN 1 ELSE 0)) - (IF k \in {"pop", "xpop"} THEN 1 ELSE 0),
         Tree(Append(Depths(kind), level + (IF k \in {"push", "anc"} THEN 1 ELSE 0)),
              level', parent', children', heap', stack')
  PROVE  IInv'
<1>1. status' = "loading"
  BY DEF Record
<1>2. level' = Lev(kind', Len(kind')) /\ KindsOK'
  BY RecordFacts
<1>3. Tree(Depths(kind'), level', parent', children', heap', stack')
  BY RecordFacts
<1> QED
  BY <1>1, <1>2, <1>3 DEF IInv, Complete

\* A primary node.
LEMMA PrimaryKeeps ==
  ASSUME IInv, NEW k \in Kinds \cup Roots, LoadPrimary(k)
  PROVE  IInv'
<1> DEFINE d == Depths(kind)
<1>1. /\ Record(k) /\ prf_array_append_ptr(heap, stack, level, Node) /\ UNCHANGED <<level, status>>
      /\ parent' = Append(parent, NULL) /\ children' = Append(children, NULL)
      /\ k # "push" /\ k \notin {"push", "anc"} /\ k \notin {"pop", "xpop"}
  BY DEF LoadPrimary
<1>2. PreTree(d, level, parent, children, heap, stack) /\ Node = Len(d) + 1 /\ level \in Nat
  BY <1>1, RecordFacts
<1> HIDE DEF d
<1>3. Joined(level, Len(d) + 1, heap, stack, heap', stack')
  BY <1>1, <1>2, AppendJoins
<1>4. Tree(Append(d, level), level, parent', children', heap', stack')
  BY <1>1, <1>2, <1>3, JoinStep
<1>5. level' = level /\ level = level + 0 /\ level = (level + 0) - 0
  BY <1>1, <1>2
<1>6. level' = (level + (IF k = "push" THEN 1 ELSE 0)) - (IF k \in {"pop", "xpop"} THEN 1 ELSE 0)
  BY <1>1, <1>5
<1>7. Tree(Append(d, level + (IF k \in {"push", "anc"} THEN 1 ELSE 0)), level', parent', children', heap', stack')
  BY <1>1, <1>4, <1>5
<1> QED
  BY <1>1, <1>6, <1>7, LoadedRecord DEF d

\* The list that a push or an ancillary node joins.
LEMMA OpenStep ==
  ASSUME NEW d, Tree(d, level, parent, children, heap, stack), ~NoOwner
  PROVE  PreTree(d, level + 1, parent, children, OpenedHeap, OpenedStack)
<1>1. Lst(heap, stack, level) # <<>> /\ Owner(level) = Own(heap, stack, level) /\ PreTree(d, level, parent, children, heap, stack)
  BY DEF NoOwner, Elems, List, Lst, Owner, Own, Tree
<1>2. CASE NeedsList
  <2>1. children[Own(heap, stack, level)] = 0
    BY <1>1, <1>2 DEF NeedsList, NULL
  <2>2. OpenedHeap = Append(heap, EmptyArray) /\ OpenedStack = Append(SubSeq(stack, 1, level + 1), Len(heap) + 1)
    BY <1>2 DEF OpenedHeap, OpenedStack
  <2> QED
    BY <2>1, <2>2, <1>1, NewListStep
<1>3. CASE ~NeedsList
  <2>1. children[Own(heap, stack, level)] # 0
    BY <1>1, <1>3 DEF NeedsList, NULL
  <2>2. OpenedHeap = heap /\ OpenedStack = stack
    BY <1>3 DEF OpenedHeap, OpenedStack
  <2> QED
    BY <2>1, <2>2, <1>1, ReopenStep
<1> QED
  BY <1>2, <1>3

\* Attach, about values.
LEMMA AttachIsAttached ==
  ASSUME NEW L \in Nat \ {0}, NEW par, NEW chi, Attach(L, par, chi)
  PROVE  Attached(L, par, chi, heap', stack', parent', children')
<1>1. (L - 1) + 1 = L
  OBVIOUS
<1>2. LastOf(heap'[stack'[L]].elems) = Own(heap', stack', L - 1) /\ heap'[stack'[L + 1]].elems = Lst(heap', stack', L)
  BY <1>1 DEF Own, Lst
<1> DEFINE o == Own(heap', stack', L - 1)
           s == Lst(heap', stack', L)
<1> HIDE DEF o, s
<1>3. /\ children' = [chi EXCEPT ![o] = stack'[L + 1]]
      /\ parent' = [n \in DOMAIN par |-> IF \E i \in DOMAIN s : s[i] = n THEN o ELSE par[n]]
  BY <1>2 DEF Attach, o, s
<1>4. \A n : (\E i \in DOMAIN s : s[i] = n) <=> n \in Members(s)
  BY DEF Members
<1>5. parent' = [n \in DOMAIN par |-> IF n \in Members(s) THEN o ELSE par[n]]
  BY <1>3, <1>4
<1> QED
  BY <1>3, <1>5 DEF Attached, o, s

\* A push: the list is opened and the node is its last.
LEMMA PushKeeps ==
  ASSUME IInv, "push" \in Kinds \cup Roots, LoadPush
  PROVE  IInv'
<1> DEFINE d == Depths(kind)
           L == level + 1
<1>1. /\ Record("push") /\ ~NoOwner /\ prf_array_append_ptr(OpenedHeap, OpenedStack, L, Node)
      /\ level' = L /\ UNCHANGED status
      /\ parent' = Append(parent, NULL) /\ children' = Append(children, NULL)
  BY DEF LoadPush
<1>2. Tree(d, level, parent, children, heap, stack) /\ Node = Len(d) + 1 /\ level \in Nat
  BY <1>1, RecordFacts
<1>3. PreTree(d, L, parent, children, OpenedHeap, OpenedStack)
  BY <1>1, <1>2, OpenStep
<1> HIDE DEF d, L
<1>4. Joined(L, Len(d) + 1, OpenedHeap, OpenedStack, heap', stack')
  BY <1>1, <1>2, <1>3, AppendJoins
<1>5. Tree(Append(d, L), L, parent', children', heap', stack')
  BY <1>1, <1>3, <1>4, JoinStep
<1>6. L = (level + 1) - 0 /\ L = level + 1
  BY <1>2 DEF L
<1>7. level' = (level + (IF "push" = "push" THEN 1 ELSE 0)) - (IF "push" \in {"pop", "xpop"} THEN 1 ELSE 0)
  BY <1>1, <1>6
<1>8. Tree(Append(d, level + (IF "push" \in {"push", "anc"} THEN 1 ELSE 0)), level', parent', children', heap', stack')
  BY <1>1, <1>5, <1>6
<1> QED
  BY <1>1, <1>7, <1>8, LoadedRecord DEF d

\* An ancillary node: the list is opened, gets the node and is closed again.
LEMMA AncillaryKeeps ==
  ASSUME IInv, "anc" \in Kinds \cup Roots, LoadAncillary
  PROVE  IInv'
<1> DEFINE d == Depths(kind)
           L == level + 1
<1>1. /\ Record("anc") /\ ~NoOwner /\ prf_array_append_ptr(OpenedHeap, OpenedStack, L, Node)
      /\ Attach(L, Append(parent, NULL), Append(children, NULL)) /\ UNCHANGED <<level, status>>
  BY DEF LoadAncillary
<1>2. Tree(d, level, parent, children, heap, stack) /\ Node = Len(d) + 1 /\ level \in Nat
  BY <1>1, RecordFacts
<1>3. PreTree(d, L, parent, children, OpenedHeap, OpenedStack)
  BY <1>1, <1>2, OpenStep
<1>4. L \in Nat \ {0} /\ L > 0 /\ L - 1 = level /\ L = level + 1 /\ level = (level + 0) - 0
  BY <1>2
<1> HIDE DEF d, L
<1>5. Joined(L, Len(d) + 1, OpenedHeap, OpenedStack, heap', stack')
  BY <1>1, <1>2, <1>3, AppendJoins
<1>6. /\ Tree(Append(d, L), L, Append(parent, NULL), Append(children, NULL), heap', stack')
      /\ Lst(heap', stack', L) # <<>>
  BY <1>3, <1>5, JoinStep
<1>7. PreTree(Append(d, L), L, Append(parent, NULL), Append(children, NULL), heap', stack')
  BY <1>6 DEF Tree
<1>8. Attached(L, Append(parent, NULL), Append(children, NULL), heap', stack', parent', children')
  BY <1>1, <1>4, AttachIsAttached
<1>9. Tree(Append(d, L), L - 1, parent', children', heap', stack')
  BY <1>4, <1>6, <1>7, <1>8, AttachStep
<1>10. level' = (level + (IF "anc" = "push" THEN 1 ELSE 0)) - (IF "anc" \in {"pop", "xpop"} THEN 1 ELSE 0)
  BY <1>1, <1>4
<1>11. Tree(Append(d, level + (IF "anc" \in {"push", "anc"} THEN 1 ELSE 0)), level', parent', children', heap', stack')
  BY <1>1, <1>4, <1>9
<1> QED
  BY <1>1, <1>10, <1>11, LoadedRecord DEF d

\* A pop: the node joins the deepest list, which is closed.
LEMMA PopKeeps ==
  ASSUME IInv, NEW k \in Kinds \cup Roots, LoadPop(k)
  PROVE  IInv'
<1> DEFINE d == Depths(kind)
<1>1. /\ Record(k) /\ k \in {"pop", "xpop"} /\ level > 0 /\ prf_array_append_ptr(heap, stack, level, Node)
      /\ Attach(level, Append(parent, NULL), Append(children, NULL)) /\ level' = level - 1 /\ UNCHANGED status
      /\ k # "push" /\ k \notin {"push", "anc"}
  BY DEF LoadPop
<1>2. PreTree(d, level, parent, children, heap, stack) /\ Node = Len(d) + 1 /\ level \in Nat
  BY <1>1, RecordFacts
<1> HIDE DEF d
<1>3. Joined(level, Len(d) + 1, heap, stack, heap', stack')
  BY <1>1, <1>2, AppendJoins
<1>4. /\ Tree(Append(d, level), level, Append(parent, NULL), Append(children, NULL), heap', stack')
      /\ Lst(heap', stack', level) # <<>>
  BY <1>2, <1>3, JoinStep
<1>5. PreTree(Append(d, level), level, Append(parent, NULL), Append(children, NULL), heap', stack')
  BY <1>4 DEF Tree
<1>6. level \in Nat \ {0} /\ level + 0 = level /\ level - 1 = (level + 0) - 1
  BY <1>1, <1>2
<1>7. Attached(level, Append(parent, NULL), Append(children, NULL), heap', stack', parent', children')
  BY <1>1, <1>6, AttachIsAttached
<1>8. Tree(Append(d, level), level - 1, parent', children', heap', stack')
  BY <1>1, <1>4, <1>5, <1>7, AttachStep
<1>9. level' = (level + (IF k = "push" THEN 1 ELSE 0)) - (IF k \in {"pop", "xpop"} THEN 1 ELSE 0)
  BY <1>1, <1>6
<1>10. Tree(Append(d, level + (IF k \in {"push", "anc"} THEN 1 ELSE 0)), level', parent', children', heap', stack')
  BY <1>1, <1>6, <1>8
<1> QED
  BY <1>1, <1>9, <1>10, LoadedRecord DEF d

\* The end of the file, or garbage at its end: the list of the roots is freed,
\* and no node points to it.
LEMMA FinishKeeps ==
  ASSUME IInv, status = "loading", Finish, UNCHANGED <<kind, parent, children, stack, level>>
  PROVE  IInv'
<1> DEFINE d == Depths(kind)
<1>1. KindsOK' /\ Depths(kind') = d
  BY DEF IInv, KindsOK
<1>2. CASE status' = "refused"
  BY <1>1, <1>2 DEF IInv, Complete
<1>3. CASE status' = "loaded" /\ heap' = [heap EXCEPT ![List(0)].live = FALSE]
  <2>1. ASSUME level = 0 PROVE Finished(d, parent, children, heap')
    <3>1. Tree(d, 0, parent, children, heap, stack)
      BY <2>1 DEF IInv
    <3>2. /\ TreeTypes(d, 0, parent, children, heap, stack) /\ Apart(d, 0, children, heap, stack)
          /\ Full(d, children, heap) /\ AllClosed(d, 0, parent, children, heap, stack)
      BY <3>1 DEF Tree, PreTree
    <3> HIDE DEF d
    <3> SUFFICES ASSUME NEW p \in 1..Len(d)
                 PROVE  /\ ClosedOK(d, p, parent, children, heap')
                        /\ children[p] # 0 => (Kids(d, p) # {} /\ Ascending(heap'[children[p]].elems))
      BY DEF Finished
    <3>3. ~Open(heap, stack, 0, p)
      BY DEF Open
    <3>4. ClosedOK(d, p, parent, children, heap)
      BY <3>2, <3>3 DEF AllClosed
    <3>5. children[p] # stack[0 + 1]
      BY <3>2 DEF Apart
    <3>6. children[p] # 0 => heap'[children[p]] = heap[children[p]]
      <4>1. children[p] \in 0..Len(heap) /\ Len(heap) \in Nat /\ DOMAIN heap = 1..Len(heap)
        BY <3>2, LenProperties DEF TreeTypes
      <4>2. children[p] # 0 => children[p] \in DOMAIN heap
        BY <4>1
      <4>3. List(0) = stack[0 + 1]
        BY DEF List
      <4> QED
        BY <4>2, <4>3, <3>5, <1>3
    <3>7. ASSUME children[p] # 0 PROVE Kids(d, p) # {} /\ Ascending(heap[children[p]].elems)
      <4> DEFINE s == heap[children[p]].elems
      <4>1. s # <<>> /\ Rising(s) /\ Members(s) = Kids(d, p)
        BY <3>2, <3>4, <3>7 DEF Full, ClosedOK
      <4>2. children[p] \in 1..Len(heap)
        <5>1. children[p] \in 0..Len(heap) /\ Len(heap) \in Nat
          BY <3>2, LenProperties DEF TreeTypes
        <5> QED
          BY <5>1, <3>7
      <4>3. s \in Seq(1..Len(d)) /\ Len(d) \in Nat
        BY <4>2, <3>2, Sizes
      <4> HIDE DEF s
      <4>4. LastOf(s) \in Members(s)
        BY <4>1, <4>3, LastIsLargest
      <4>5. ASSUME NEW i \in 1..(Len(s) - 1) PROVE s[i] < s[i + 1]
        <5>1. Len(s) \in Nat
          BY <4>3, LenProperties
        <5>2. i \in 1..Len(s) /\ i + 1 \in 1..Len(s) /\ i < i + 1
          BY <5>1
        <5> QED
          BY <5>2, <4>1 DEF Rising
      <4> QED
        BY <4>1, <4>4, <4>5 DEF Ascending, s
    <3> QED
      BY <3>4, <3>6, <3>7 DEF ClosedOK
  <2> QED
    BY <2>1, <1>1, <1>3 DEF IInv, Complete
<1> QED
  BY <1>2, <1>3 DEF Finish

\* Every step keeps the invariant.
LEMMA NextOK == IInv /\ [Next]_vars => IInv'
<1> SUFFICES ASSUME IInv, [Next]_vars PROVE IInv'
  OBVIOUS
<1>1. ASSUME NEW k \in Kinds \cup Roots, LoadDies(k) PROVE IInv'
  <2>1. Record(k) /\ status' \in {"asserted", "overrun"}
    BY <1>1 DEF LoadDies
  <2>2. KindsOK'
    BY <2>1, RecordFacts
  <2> QED
    BY <2>1, <2>2 DEF IInv, Complete
<1>2. ASSUME Record("push") PROVE "push" \in Kinds \cup Roots
  BY <1>2 DEF Record
<1>3. ASSUME Record("anc") PROVE "anc" \in Kinds \cup Roots
  BY <1>3 DEF Record
<1>4. CASE LoadPush
  BY <1>2, <1>4, PushKeeps DEF LoadPush
<1>5. CASE LoadAncillary
  BY <1>3, <1>5, AncillaryKeeps DEF LoadAncillary
<1>6. CASE LoadFails
  BY <1>6 DEF LoadFails, IInv, KindsOK, Complete
<1>7. CASE EndOfFile
  BY <1>7, FinishKeeps DEF EndOfFile
<1>8. CASE TrailingGarbage
  BY <1>8, FinishKeeps DEF TrailingGarbage
<1>9. CASE UNCHANGED vars
  BY <1>9 DEF vars, IInv, KindsOK, Complete
<1> QED
  BY <1>1, <1>4, <1>5, <1>6, <1>7, <1>8, <1>9, PrimaryKeeps, PopKeeps DEF Next, LoadRecord

-----------------------------------------------------------------------------
(* What the invariant says of the loader *)

\* An open list and its owner.
LEMMA OpenLists ==
  ASSUME NEW d, NEW L, NEW par, NEW chi, NEW hp, NEW st, PreTree(d, L, par, chi, hp, st), NEW l \in 1..L
  PROVE  /\ l < Len(st) /\ Lst(hp, st, l - 1) # <<>> /\ hp[st[l + 1]].live
         /\ Own(hp, st, l - 1) \in 1..Len(d) /\ Members(Lst(hp, st, l)) = Kids(d, Own(hp, st, l - 1))
<1>1. TreeTypes(d, L, par, chi, hp, st) /\ ListsOK(d, L, hp, st)
  BY DEF PreTree
<1>2. L \in Nat /\ L + 1 <= Len(st) /\ Len(st) \in Nat
  BY <1>1, Sizes DEF TreeTypes
<1>3. l < Len(st) /\ l \in 0..L /\ l # 0
  BY <1>2
<1>4. PICK m \in 0..(L - 1) : m = l - 1
  BY <1>2
<1>5. m \in 0..L /\ m + 1 = l
  BY <1>2, <1>4
<1>6. Lst(hp, st, m) # <<>>
  BY <1>1 DEF ListsOK
<1>7. Own(hp, st, m) \in 1..Len(d)
  BY <1>1, <1>5, <1>6, OwnerFacts
<1>8. \A n : n \in Kids(d, Own(hp, st, m)) <=> (n \in 1..Len(d) /\ d[n] = l /\ n > Own(hp, st, m))
  BY <1>1, <1>5, <1>6, KidsOfOwner
<1>9. Before(hp, st, l) = Own(hp, st, m)
  BY <1>3, <1>4 DEF Before
<1>10. hp[st[l + 1]].live /\ \A n : n \in Members(Lst(hp, st, l)) <=> (n \in 1..Len(d) /\ d[n] = l /\ n > Before(hp, st, l))
  BY <1>1, <1>3 DEF ListsOK, ListOK
<1>11. Members(Lst(hp, st, l)) = Kids(d, Own(hp, st, m))
  BY <1>8, <1>9, <1>10
<1> QED
  BY <1>3, <1>4, <1>6, <1>7, <1>10, <1>11

\* The invariant gives the three parts of LoadKeepsLists.
LEMMA ListsFromInvariant == IInv => LoadKeepsLists
<1> SUFFICES ASSUME IInv, status = "loading" PROVE TypeOK /\ ChildrenLive /\ StackHoldsTree
  BY DEF LoadKeepsLists, ChildrenLive, StackHoldsTree
<1> DEFINE d == Depths(kind)
           N == Len(kind)
<1>1. Tree(d, level, parent, children, heap, stack) /\ kind \in Seq(Kinds \cup Roots) /\ N <= MaxNodes
  BY DEF IInv, KindsOK
<1>2. N \in Nat /\ \A p \in 1..N : LogicalChildren(p) = Kids(d, p) /\ Len(d) = N
  BY <1>1, LogicalKids, LenProperties
<1>3. Len(d) = N
  BY <1>2 DEF Depths
<1> HIDE DEF d, N
<1>4. PreTree(d, level, parent, children, heap, stack)
  BY <1>1 DEF Tree
<1>5. /\ TreeTypes(d, level, parent, children, heap, stack) /\ Full(d, children, heap)
      /\ AllClosed(d, level, parent, children, heap, stack)
  BY <1>4 DEF PreTree
<1>6. \A l : Elems(List(l)) = Lst(heap, stack, l) /\ Owner(l) = Own(heap, stack, l)
  BY DEF Elems, List, Lst, Owner, Own
<1>7. TypeOK
  <2>1. /\ heap \in Seq(ArrayOf(N)) /\ stack \in Seq(1..Len(heap)) /\ level \in Nat /\ level + 1 <= Len(stack)
        /\ parent \in [1..N -> 0..N] /\ children \in [1..N -> 0..Len(heap)] /\ Len(heap) \in Nat /\ Len(stack) \in Nat
    BY <1>3, <1>5, Sizes DEF TreeTypes
  <2>2. level \in 0..(Len(stack) - 1) /\ DOMAIN heap = 1..Len(heap)
    BY <2>1, LenProperties
  <2>3. 0..N = (1..N) \cup {0} /\ 0..Len(heap) = (1..Len(heap)) \cup {0}
    BY <2>1, <1>2
  <2>4. status \in {"loading", "loaded", "refused", "failed", "asserted", "overrun"}
    BY DEF IInv
  <2>5. parent \in [Nodes -> Nodes \cup {NULL}] /\ children \in [Nodes -> DOMAIN heap \cup {NULL}]
    BY <2>1, <2>2, <2>3 DEF Nodes, NULL, N
  <2> QED
    BY <2>1, <2>2, <2>4, <2>5, <1>1 DEF TypeOK, ArrayOf, Nodes, N
<1>8. ChildrenLive
  <2> SUFFICES ASSUME NEW n \in 1..N, children[n] # 0
               PROVE  Elems(children[n]) # <<>> /\ (heap[children[n]].live \/ OnOpenPath(n))
    BY DEF ChildrenLive, Nodes, NULL, N
  <2>1. Elems(children[n]) # <<>>
    BY <1>3, <1>5 DEF Full, Elems
  <2>2. CASE Open(heap, stack, level, n)
    BY <2>1, <2>2, <1>6 DEF Open, OnOpenPath
  <2>3. CASE ~Open(heap, stack, level, n)
    BY <2>1, <2>3, <1>3, <1>5 DEF AllClosed, ClosedOK
  <2> QED
    BY <2>2, <2>3
<1>9. StackHoldsTree
  <2> SUFFICES ASSUME NEW l \in 1..(level + 1), InUse(l)
               PROVE  /\ l < Len(stack) /\ Lst(heap, stack, l - 1) # <<>> /\ heap[List(l)].live
                      /\ Members(Lst(heap, stack, l)) = LogicalChildren(Own(heap, stack, l - 1))
    BY <1>6 DEF StackHoldsTree
  <2>1. level \in Nat
    BY <1>5 DEF TreeTypes
  <2>2. PICK L : l \in 1..L /\ PreTree(d, L, parent, children, heap, stack)
    <3>1. CASE l <= level
      <4>1. l \in 1..level
        BY <3>1, <2>1
      <4> QED
        BY <4>1, <1>4
    <3>2. CASE ~(l <= level)
      <4>1. Lst(heap, stack, level) # <<>> /\ children[Own(heap, stack, level)] # 0
        BY <3>2, <1>6 DEF InUse, NoOwner, NeedsList, NULL
      <4>2. PreTree(d, level + 1, parent, children, heap, stack)
        BY <4>1, <1>1, ReopenStep
      <4> QED
        BY <4>2
    <3> QED
      BY <3>1, <3>2
  <2>3. /\ l < Len(stack) /\ Lst(heap, stack, l - 1) # <<>> /\ heap[stack[l + 1]].live
        /\ Own(heap, stack, l - 1) \in 1..Len(d) /\ Members(Lst(heap, stack, l)) = Kids(d, Own(heap, stack, l - 1))
    BY <2>2, OpenLists
  <2> QED
    BY <2>3, <1>2, <1>3 DEF List
<1> QED
  BY <1>7, <1>8, <1>9

\* The invariant gives TreeAsRecorded.
LEMMA TreeFromInvariant == IInv => TreeAsRecorded
<1> SUFFICES ASSUME IInv, Complete, NEW p \in Nodes
             PROVE  /\ \A n \in LogicalChildren(p) : parent[n] = p
                    /\ IF LogicalChildren(p) = {} THEN children[p] = NULL
                       ELSE /\ Members(Elems(children[p])) = LogicalChildren(p)
                            /\ Ascending(Elems(children[p]))
  BY DEF TreeAsRecorded
<1> DEFINE d == Depths(kind)
<1>1. kind \in Seq(Kinds \cup Roots) /\ Finished(d, parent, children, heap)
  BY DEF IInv, KindsOK
<1>2. LogicalChildren(p) = Kids(d, p) /\ Len(d) = Len(kind)
  BY <1>1, LogicalKids DEF Nodes
<1> HIDE DEF d
<1>3. /\ ClosedOK(d, p, parent, children, heap)
      /\ children[p] # 0 => (Kids(d, p) # {} /\ Ascending(heap[children[p]].elems))
  BY <1>1, <1>2 DEF Finished, Nodes
<1> QED
  BY <1>2, <1>3 DEF ClosedOK, Elems, NULL

\* While a file is read, whatever its records and however realloc moves the
\* lists: the variables have their types, a children pointer leads to an
\* allocated array unless its list is open, and the open lists hold exactly the
\* logical children of their owners.
THEOREM ListsAreKept == Spec => []LoadKeepsLists
<1>1. Init => IInv
  BY InitOK
<1>2. IInv /\ [Next]_vars => IInv'
  BY NextOK
<1>3. IInv => LoadKeepsLists
  BY ListsFromInvariant
<1> QED
  BY <1>1, <1>2, <1>3, PTL DEF Spec

\* A file whose pushes are all popped becomes the tree that its records
\* describe: every node has its logical children, in file order, and they have
\* it as their parent.
THEOREM TreeIsAsRecorded == Spec => []TreeAsRecorded
<1>1. Init => IInv
  BY InitOK
<1>2. IInv /\ [Next]_vars => IInv'
  BY NextOK
<1>3. IInv => TreeAsRecorded
  BY TreeFromInvariant
<1> QED
  BY <1>1, <1>2, <1>3, PTL DEF Spec

-----------------------------------------------------------------------------
(* What the traversals rely on: a second invariant, about the kinds of the
   nodes at the ends of the lists, the parents, and the arrays that are
   allocated.  k: the kinds. *)

Pops == {"pop", "xpop"}
Enders == {"pop", "xpop", "anc"}
\* Every push of a list has a pop behind it, in the same list.
Paired(k, s) == \A i \in 1..Len(s) : k[s[i]] = "push" => \E j \in (i + 1)..Len(s) : k[s[j]] \in Pops
WellEnded(k, s) == Paired(k, s) /\ k[LastOf(s)] \in Enders

\* An allocated array is an open list or somebody's children.
Claimed(d, L, chi, hp, st) ==
  \A a \in 1..Len(hp) :
    hp[a].live => ((\E l \in 0..L : st[l + 1] = a) \/ (\E p \in 1..Len(d) : chi[p] = a))
\* The children of the owner of an open list: none, that list, or freed.
Outdated(L, chi, hp, st) ==
  \A l \in 0..(L - 1) :
    chi[Own(hp, st, l)] \in {0, st[l + 2]} \/ ~hp[chi[Own(hp, st, l)]].live
Parented(d, par) ==
  /\ \A n \in 1..Len(d) : par[n] # 0 => n \in Kids(d, par[n])
  /\ \A n \in 1..Len(d) : d[n] > 0 => \E p \in 1..Len(d) : n \in Kids(d, p)
\* A pop or an ancillary node has no children, and owns no open list.
Childless(k, d, chi) ==
  \A n \in 1..Len(d) : (k[n] \in Enders => chi[n] = 0) /\ (k[n] = "push" => d[n] > 0)
Openers(k, L, hp, st) == \A l \in 0..(L - 1) : k[Own(hp, st, l)] \notin Enders
ClosedEnds(k, d, L, chi, hp, st) ==
  \A p \in 1..Len(d) : (chi[p] # 0 /\ ~Open(hp, st, L, p)) => WellEnded(k, hp[chi[p]].elems)
Extra(k, d, L, par, chi, hp, st) ==
  /\ Claimed(d, L, chi, hp, st) /\ Outdated(L, chi, hp, st) /\ Parented(d, par)
  /\ Childless(k, d, chi) /\ Openers(k, L, hp, st) /\ ClosedEnds(k, d, L, chi, hp, st)
Deepest(k, L, hp, st) == Lst(hp, st, L) # <<>> => k[Own(hp, st, L)] \notin Enders

\* The loaded tree, N nodes with their children in the first H arrays.
ChildList(N, k, par, chi, p, s) ==
  /\ s \in Seq(1..N) /\ s # <<>> /\ Rising(s) /\ Paired(k, s)
  /\ chi[LastOf(s)] = 0 /\ \A n \in Members(s) : par[n] = p
Shape(N, H, k, par, chi, hp) ==
  /\ N \in Nat \ {0} /\ H \in Nat /\ hp \in Seq(ArrayOf(N)) /\ H <= Len(hp)
  /\ k[1] # "push" /\ par[1] = 0
  /\ chi \in [1..N -> 0..H] /\ par \in [1..N -> 0..N]
  /\ \A n \in 2..N : par[n] \in 1..(n - 1) /\ chi[par[n]] # 0 /\ n \in Members(hp[chi[par[n]]].elems)
  /\ \A p \in 1..N : chi[p] # 0 => ChildList(N, k, par, chi, p, hp[chi[p]].elems)
  /\ \A p, q \in 1..N : (chi[p] = chi[q] /\ chi[p] # 0) => p = q
Allocated(N, H, chi, hp) == \A a \in 1..H : hp[a].live <=> \E p \in 1..N : chi[p] = a

MoreInv ==
  /\ status = "loading" =>
       (Extra(kind, Depths(kind), level, parent, children, heap, stack) /\ Deepest(kind, level, heap, stack))
  /\ Complete => (Shape(Len(kind), Len(heap), kind, parent, children, heap)
                   /\ Allocated(Len(kind), Len(heap), children, heap))

\* A list that gets a pop is well-ended, and one that gets an ancillary node
\* stays so.
LEMMA EndedList ==
  ASSUME NEW N \in Nat, NEW s \in Seq(1..N), Rising(s), NEW k, NEW x,
         \/ x \in Pops
         \/ x = "anc" /\ Paired(k, s),
         NEW k2, k2[N + 1] = x, \A n \in 1..N : k2[n] = k[n]
  PROVE  WellEnded(k2, Append(s, N + 1))
<1> DEFINE t == Append(s, N + 1)
           m == Len(s)
<1>1. s \in Seq(1..(N + 1)) /\ N + 1 \in 1..(N + 1)
  <2>1. \A i \in 1..Len(s) : s[i] \in 1..(N + 1)
    <3>1. \A i \in 1..Len(s) : s[i] \in 1..N
      BY ElementOfSeq
    <3> QED
      BY <3>1
  <2> QED
    BY <2>1, SeqOver
<1>2. m \in Nat /\ Len(t) = m + 1 /\ t[m + 1] = N + 1 /\ \A i \in 1..m : t[i] = s[i]
  BY <1>1, AppendProperties, LenProperties
<1>3. \A i \in 1..m : s[i] \in 1..N
  BY ElementOfSeq
<1>4. Paired(k, s) => \A i \in 1..m : k[s[i]] = "push" => \E j \in (i + 1)..m : k[s[j]] \in Pops
  BY DEF Paired
<1> HIDE DEF t, m
<1>5. k2[LastOf(t)] \in Enders
  BY <1>2 DEF LastOf, Enders, Pops
<1>6. ASSUME NEW i \in 1..(m + 1), k2[t[i]] = "push"
      PROVE  \E j \in (i + 1)..(m + 1) : k2[t[j]] \in Pops
  <2>1. i \in 1..m
    <3>1. x # "push"
      BY DEF Pops
    <3>2. i # m + 1
      BY <3>1, <1>2, <1>6
    <3> QED
      BY <3>2, <1>2
  <2>2. CASE x \in Pops
    <3>1. m + 1 \in (i + 1)..(m + 1)
      BY <2>1, <1>2
    <3> QED
      BY <2>2, <3>1, <1>2
  <2>3. CASE Paired(k, s)
    <3>1. k[s[i]] = "push"
      BY <2>1, <1>2, <1>3, <1>6
    <3>2. PICK j \in (i + 1)..m : k[s[j]] \in Pops
      BY <2>1, <2>3, <3>1, <1>4
    <3>3. j \in 1..m /\ j \in (i + 1)..(m + 1)
      BY <2>1, <1>2
    <3> QED
      BY <3>2, <3>3, <1>2, <1>3
  <2> QED
    BY <2>2, <2>3
<1>7. Paired(k2, t)
  BY <1>2, <1>6 DEF Paired
<1> QED
  BY <1>5, <1>7 DEF WellEnded, t

\* The logical children of a node stay when a record is added.
LEMMA KidsStay ==
  ASSUME NEW d \in Seq(Nat), NEW x \in Nat, NEW p \in 1..Len(d)
  PROVE  Kids(d, p) \subseteq Kids(Append(d, x), p)
<1> DEFINE N == Len(d)
           e == Append(d, x)
<1>1. N \in Nat /\ Len(e) = N + 1 /\ (\A n \in 1..N : e[n] = d[n])
  BY AppendProperties, LenProperties
<1> HIDE DEF e
<1> SUFFICES ASSUME NEW n \in Kids(d, p) PROVE n \in Kids(e, p)
  BY DEF e
<1>2. n \in 1..N /\ p < n /\ d[p] = d[n] - 1 /\ \A m \in (p + 1)..(n - 1) : d[m] # d[n] - 1
  BY DEF Kids
<1>3. \A m \in (p + 1)..(n - 1) : m \in 1..N
  BY <1>1, <1>2
<1>4. n \in 1..Len(e) /\ e[n] = d[n] /\ e[p] = d[p] /\ \A m \in (p + 1)..(n - 1) : e[m] # e[n] - 1
  BY <1>1, <1>2, <1>3
<1> QED
  BY <1>2, <1>4 DEF Kids

\* A node joins the deepest list.
LEMMA JoinExtra ==
  ASSUME NEW k, NEW d, NEW L, NEW par, NEW chi, NEW hp, NEW st, NEW hp2, NEW st2, NEW k2, NEW x,
         PreTree(d, L, par, chi, hp, st), Joined(L, Len(d) + 1, hp, st, hp2, st2),
         Extra(k, d, L, par, chi, hp, st),
         k2[Len(d) + 1] = x, \A n \in 1..Len(d) : k2[n] = k[n], x = "push" => L > 0
  PROVE  Extra(k2, Append(d, L), L, Append(par, NULL), Append(chi, NULL), hp2, st2)
<1> DEFINE N == Len(d)
           e == Append(d, L)
           par2 == Append(par, NULL)
           chi2 == Append(chi, NULL)
           a == st[L + 1]
           b == st2[L + 1]
           o == Own(hp, st, L - 1)
<1>1. /\ TreeTypes(d, L, par, chi, hp, st) /\ ListsOK(d, L, hp, st) /\ Apart(d, L, chi, hp, st)
      /\ Full(d, chi, hp) /\ AllClosed(d, L, par, chi, hp, st)
  BY DEF PreTree
<1>2. /\ d \in Seq(Nat) /\ L \in Nat /\ L \in 0..L /\ N \in Nat /\ Len(hp) \in Nat /\ Len(st) \in Nat
      /\ L + 1 <= Len(st) /\ a \in 1..Len(hp)
  BY <1>1, Sizes DEF TreeTypes
<1>3. /\ e \in Seq(Nat) /\ Len(e) = N + 1 /\ e[N + 1] = L /\ \A n \in 1..N : e[n] = d[n]
  BY <1>2, AppendProperties
<1>4. Len(hp2) \in Nat /\ Len(hp2) >= Len(hp)
  BY LenProperties DEF Joined
<1>5. par2[N + 1] = 0 /\ \A n \in 1..N : par2[n] = par[n]
  <2> DEFINE K == N + 1
  <2>1. par \in [1..N -> 0..N] /\ N \in Nat /\ K \in Nat /\ N <= K
    BY <1>1, <1>2 DEF TreeTypes
  <2> HIDE DEF N, K
  <2>2. NullEnded(N, K, par, Append(par, NULL))
    BY <2>1, NullAppended
  <2> QED
    BY <2>2 DEF NullEnded, K
<1>6. chi2[N + 1] = 0 /\ \A n \in 1..N : chi2[n] = chi[n] /\ chi[n] \in 0..Len(hp)
  <2> DEFINE H == Len(hp)
  <2>1. chi \in [1..N -> 0..H] /\ N \in Nat /\ H \in Nat /\ H <= H
    BY <1>1, <1>2 DEF TreeTypes
  <2> HIDE DEF N, H
  <2>2. chi2[N + 1] = 0 /\ \A n \in 1..N : chi2[n] = chi[n] /\ chi[n] \in 0..H
    <3>1. NullEnded(N, H, chi, Append(chi, NULL))
      BY <2>1, NullAppended
    <3> QED
      BY <3>1, <2>1 DEF NullEnded
  <2> QED
    BY <2>2 DEF H
<1>7. /\ \A l \in 0..L : l # L => st2[l + 1] = st[l + 1]
      /\ \A i \in 1..Len(hp) : i # a => hp2[i] = hp[i]
      /\ b # a => hp2[a].live = FALSE
      /\ \A i \in 1..Len(hp2) : i \in 1..Len(hp) \/ i = b
  <2>1. \A l \in 0..L : l # L => (l + 1 \in 1..Len(st) /\ l + 1 # L + 1)
    BY <1>2
  <2> QED
    BY <2>1 DEF Joined
<1>8. Claimed(d, L, chi, hp, st) /\ Outdated(L, chi, hp, st) /\ Parented(d, par)
      /\ Childless(k, d, chi) /\ Openers(k, L, hp, st) /\ ClosedEnds(k, d, L, chi, hp, st)
  BY DEF Extra
<1>9. \A l \in 0..L : st[l + 1] \in 1..Len(hp)
  BY <1>1, Sizes
<1>10. k2[N + 1] = x /\ \A n \in 1..N : k2[n] = k[n]
  OBVIOUS
<1> HIDE DEF N, e, par2, chi2, a, b, o
<1>11. \A l \in 0..(L - 1) : l \in 0..L /\ l # L /\ l + 2 = (l + 1) + 1 /\ l + 1 \in 0..L /\ (l + 1 = L \/ l + 1 # L)
  BY <1>2
<1>12. \A l \in 0..L : l # L => st[l + 1] # a
  BY <1>1, <1>2 DEF Apart, a
<1>13. \A l \in 0..(L - 1) : Own(hp2, st2, l) = Own(hp, st, l)
  <2>1. \A l \in 0..(L - 1) : hp2[st2[l + 1]] = hp[st[l + 1]]
    BY <1>7, <1>9, <1>11, <1>12
  <2> QED
    BY <2>1 DEF Own, Lst
<1>14. \A l \in 0..(L - 1) : Own(hp, st, l) \in 1..N /\ d[Own(hp, st, l)] = l
  <2>1. \A l \in 0..(L - 1) : Lst(hp, st, l) # <<>>
    BY <1>1 DEF ListsOK
  <2> QED
    BY <2>1, <1>1, <1>11, OwnerFacts DEF N
<1>15. \A n : n \in 1..(N + 1) <=> (n \in 1..N \/ n = N + 1)
  BY <1>2
<1>16. Claimed(e, L, chi2, hp2, st2)
  <2> SUFFICES ASSUME NEW i \in 1..Len(hp2), hp2[i].live,
                      ~(\E l \in 0..L : st2[l + 1] = i)
               PROVE  \E p \in 1..(N + 1) : chi2[p] = i
    BY <1>3 DEF Claimed
  <2>1. i # b /\ i \in 1..Len(hp)
    BY <1>2, <1>7 DEF b
  <2>2. i # a
    BY <2>1, <1>7
  <2>3. hp[i].live
    BY <2>1, <2>2, <1>7
  <2>4. ~(\E l \in 0..L : st[l + 1] = i)
    BY <2>2, <1>7 DEF a
  <2>5. PICK p \in 1..N : chi[p] = i
    BY <2>1, <2>3, <2>4, <1>8 DEF Claimed, N
  <2> QED
    BY <2>5, <1>6, <1>15
<1>17. Outdated(L, chi2, hp2, st2)
  <2> SUFFICES ASSUME NEW l \in 0..(L - 1), NEW q, q = Own(hp, st, l)
               PROVE  chi2[q] \in {0, st2[l + 2]} \/ ~hp2[chi2[q]].live
    BY <1>13 DEF Outdated
  <2>1. q \in 1..N /\ chi2[q] = chi[q] /\ chi[q] \in 0..Len(hp)
    BY <1>6, <1>14
  <2>2. chi[q] \in {0, st[l + 2]} \/ ~hp[chi[q]].live
    BY <1>8 DEF Outdated
  <2>3. hp[a].live
    BY <1>1, <1>2 DEF ListsOK, ListOK, a
  <2>4. CASE chi[q] = 0
    BY <2>1, <2>4
  <2>5. CASE chi[q] # 0 /\ chi[q] = a
    <3>1. l + 1 = L
      <4>1. L > 0 /\ q = Own(hp, st, L - 1)
        BY <2>1, <2>5, <1>1, <1>2 DEF Apart, N, a
      <4>2. PICK m \in 0..(L - 1) : m = L - 1
        BY <4>1, <1>2
      <4>3. l = m
        BY <4>1, <4>2, <1>14
      <4> QED
        BY <4>2, <4>3, <1>2
    <3>2. st2[l + 2] = b
      BY <3>1, <1>11 DEF b
    <3> QED
      BY <2>1, <2>5, <3>2, <1>7
  <2>6. CASE chi[q] # 0 /\ chi[q] # a
    <3>1. chi[q] \in 1..Len(hp)
      BY <2>1, <2>6, <1>2
    <3>2. hp2[chi[q]] = hp[chi[q]]
      BY <2>6, <3>1, <1>7
    <3>3. CASE chi[q] = st[l + 2]
      <4>1. l + 1 # L
        BY <2>6, <3>3, <1>11 DEF a
      <4>2. st2[l + 2] = st[l + 2]
        BY <4>1, <1>7, <1>11
      <4> QED
        BY <2>1, <3>3, <4>2
    <3>4. CASE ~hp[chi[q]].live
      BY <2>1, <3>2, <3>4
    <3> QED
      BY <2>2, <2>6, <3>3, <3>4
  <2> QED
    BY <2>4, <2>5, <2>6
<1>18. Parented(e, par2)
  <2>1. ASSUME NEW p \in 1..N PROVE Kids(d, p) \subseteq Kids(e, p)
    BY <1>2, KidsStay DEF N, e
  <2>2. ASSUME NEW n \in 1..(N + 1), par2[n] # 0 PROVE n \in Kids(e, par2[n])
    <3>1. n \in 1..N /\ par2[n] = par[n]
      BY <2>2, <1>5, <1>15
    <3>2. n \in Kids(d, par[n])
      BY <2>2, <3>1, <1>8 DEF Parented, N
    <3>3. par[n] \in 1..N
      <4>1. par[n] \in 0..N
        BY <3>1, <1>1 DEF TreeTypes, N
      <4> QED
        BY <4>1, <2>2, <3>1, <1>2
    <3> QED
      BY <2>1, <3>1, <3>2, <3>3
  <2>3. ASSUME NEW n \in 1..(N + 1), e[n] > 0 PROVE \E p \in 1..(N + 1) : n \in Kids(e, p)
    <3>1. CASE n \in 1..N
      <4>1. PICK p \in 1..N : n \in Kids(d, p)
        BY <2>3, <3>1, <1>3, <1>8 DEF Parented, N
      <4> QED
        BY <2>1, <4>1, <1>15
    <3>2. CASE n = N + 1
      <4>1. PICK l \in 0..(L - 1) : l = L - 1
        BY <2>3, <3>2, <1>2, <1>3
      <4> DEFINE q == Own(hp, st, l)
      <4>2. q \in 1..N /\ d[q] = l /\ \A m \in 1..N : d[m] = l => m <= q
        <5>1. Lst(hp, st, l) # <<>> /\ l \in 0..L
          BY <1>1, <1>11 DEF ListsOK
        <5> QED
          BY <5>1, <1>1, OwnerFacts DEF N
      <4> HIDE DEF q
      <4>3. q < N + 1 /\ e[q] = e[N + 1] - 1 /\ e[N + 1] - 1 = l
        BY <4>1, <4>2, <1>2, <1>3
      <4>4. \A m \in (q + 1)..((N + 1) - 1) : m \in 1..N /\ ~(m <= q)
        BY <4>2, <1>2
      <4>5. \A m \in (q + 1)..((N + 1) - 1) : e[m] # e[N + 1] - 1
        BY <4>2, <4>3, <4>4, <1>3
      <4>6. N + 1 \in 1..Len(e)
        BY <1>2, <1>3
      <4>7. N + 1 \in Kids(e, q)
        BY <4>3, <4>5, <4>6 DEF Kids
      <4> QED
        BY <3>2, <4>2, <4>7, <1>15
    <3> QED
      BY <3>1, <3>2, <1>15
  <2> QED
    BY <2>2, <2>3, <1>3 DEF Parented
<1>19. Childless(k2, e, chi2)
  <2> SUFFICES ASSUME NEW n \in 1..(N + 1)
               PROVE  (k2[n] \in Enders => chi2[n] = 0) /\ (k2[n] = "push" => e[n] > 0)
    BY <1>3 DEF Childless
  <2>1. CASE n \in 1..N
    BY <2>1, <1>3, <1>6, <1>8, <1>10 DEF Childless, N
  <2>2. CASE n = N + 1
    BY <2>2, <1>3, <1>6, <1>10
  <2> QED
    BY <2>1, <2>2, <1>15
<1>20. Openers(k2, L, hp2, st2)
  BY <1>8, <1>10, <1>13, <1>14 DEF Openers
<1>21. ClosedEnds(k2, e, L, chi2, hp2, st2)
  <2> SUFFICES ASSUME NEW p \in 1..(N + 1), chi2[p] # 0, ~Open(hp2, st2, L, p)
               PROVE  WellEnded(k2, hp2[chi2[p]].elems)
    BY <1>3 DEF ClosedEnds
  <2>1. p \in 1..N /\ chi2[p] = chi[p] /\ chi[p] \in 1..Len(hp)
    <3>1. p \in 1..N /\ chi2[p] = chi[p] /\ chi[p] \in 0..Len(hp)
      BY <1>6, <1>15
    <3> QED
      BY <3>1, <1>2
  <2>2. ~Open(hp, st, L, p)
    BY <1>13 DEF Open
  <2>3. chi[p] # a
    <3> SUFFICES ASSUME chi[p] = a PROVE FALSE
      OBVIOUS
    <3>1. L > 0 /\ p = Own(hp, st, L - 1)
      BY <2>1, <1>1, <1>2 DEF Apart, N, a
    <3>2. PICK m \in 0..(L - 1) : m = L - 1
      BY <3>1, <1>2
    <3> QED
      BY <2>2, <3>1, <3>2 DEF Open
  <2> DEFINE s == hp[chi[p]].elems
  <2>4. hp2[chi2[p]].elems = s /\ WellEnded(k, s)
    BY <2>1, <2>2, <2>3, <1>7, <1>8 DEF ClosedEnds, N
  <2>5. s \in Seq(1..N) /\ s # <<>>
    BY <2>1, <1>1, Sizes DEF N, Full
  <2> HIDE DEF s
  <2>6. Len(s) \in Nat /\ Len(s) # 0 /\ \A i \in 1..Len(s) : s[i] \in 1..N
    BY <2>5, ElementOfSeq, EmptySeq, LenProperties
  <2>7. \A i \in 1..Len(s) : k2[s[i]] = k[s[i]]
    BY <2>6, <1>10
  <2>8. Len(s) \in 1..Len(s)
    BY <2>6
  <2>9. k2[LastOf(s)] = k[LastOf(s)]
    BY <2>7, <2>8 DEF LastOf
  <2>10. \A i \in 1..Len(s) : \A j \in (i + 1)..Len(s) : j \in 1..Len(s)
    BY <2>6
  <2>11. Paired(k2, s)
    BY <2>4, <2>7, <2>10 DEF WellEnded, Paired
  <2> QED
    BY <2>4, <2>9, <2>11 DEF WellEnded
<1> QED
  BY <1>16, <1>17, <1>18, <1>19, <1>20, <1>21 DEF Extra, e, par2, chi2

\* A well-ended list is attached.
LEMMA AttachExtra ==
  ASSUME NEW k, NEW d, NEW L, NEW par, NEW chi, NEW hp, NEW st, NEW par2, NEW chi2,
         PreTree(d, L, par, chi, hp, st), L > 0, Lst(hp, st, L) # <<>>,
         Attached(L, par, chi, hp, st, par2, chi2),
         Extra(k, d, L, par, chi, hp, st), WellEnded(k, Lst(hp, st, L))
  PROVE  Extra(k, d, L - 1, par2, chi2, hp, st) /\ Deepest(k, L - 1, hp, st)
<1> DEFINE N == Len(d)
           K == L - 1
           o == Own(hp, st, K)
           a == st[L + 1]
<1>1. /\ TreeTypes(d, L, par, chi, hp, st) /\ ListsOK(d, L, hp, st) /\ Apart(d, L, chi, hp, st)
  BY DEF PreTree
<1>2. /\ N \in Nat /\ L \in Nat /\ K \in Nat /\ L = K + 1 /\ L + 1 = K + 2 /\ L \in 0..L /\ K \in 0..L /\ K \in 0..(L - 1)
      /\ Len(hp) \in Nat
  BY <1>1, Sizes DEF TreeTypes
<1>3. Lst(hp, st, K) # <<>>
  BY <1>1, <1>2 DEF ListsOK
<1>4. o \in 1..N /\ d[o] = K
  BY <1>1, <1>2, <1>3, OwnerFacts
<1>5. \A n : n \in Kids(d, o) <=> (n \in 1..N /\ d[n] = L /\ n > o)
  BY <1>1, <1>2, <1>3, KidsOfOwner
<1>6. Members(Lst(hp, st, L)) = Kids(d, o)
  <2>1. Before(hp, st, L) = o
    BY <1>2 DEF Before
  <2>2. \A n : n \in Members(Lst(hp, st, L)) <=> (n \in 1..N /\ d[n] = L /\ n > o)
    BY <2>1, <1>1, <1>2 DEF ListsOK, ListOK
  <2> QED
    BY <2>2, <1>5
<1>7. chi \in [1..N -> 0..Len(hp)] /\ par \in [1..N -> 0..N]
  BY <1>1 DEF TreeTypes
<1>8. chi2 = [chi EXCEPT ![o] = a] /\ par2 = [n \in 1..N |-> IF n \in Kids(d, o) THEN o ELSE par[n]]
  BY <1>6, <1>7 DEF Attached
<1>9. Claimed(d, L, chi, hp, st) /\ Outdated(L, chi, hp, st) /\ Parented(d, par)
      /\ Childless(k, d, chi) /\ Openers(k, L, hp, st) /\ ClosedEnds(k, d, L, chi, hp, st)
  BY DEF Extra
<1>10. hp[a].elems = Lst(hp, st, L)
  BY DEF Lst
<1> HIDE DEF o, a, K, N
<1>11. chi2[o] = a /\ (\A p \in 1..N : p # o => chi2[p] = chi[p])
  BY <1>4, <1>7, <1>8
<1>12. \A n \in 1..N : par2[n] = IF n \in Kids(d, o) THEN o ELSE par[n]
  BY <1>8
<1>13. \A l \in 0..K : l \in 0..L /\ l # L
  BY <1>2
<1>14. \A l \in 0..(K - 1) : l \in 0..(L - 1) /\ l \in 0..L /\ l # K
  BY <1>2
<1>15. Claimed(d, K, chi2, hp, st)
  <2> SUFFICES ASSUME NEW i \in 1..Len(hp), hp[i].live, ~(\E l \in 0..K : st[l + 1] = i)
               PROVE  \E p \in 1..N : chi2[p] = i
    BY DEF Claimed, N
  <2>1. CASE i = a
    BY <2>1, <1>4, <1>11
  <2>2. CASE i # a
    <3>1. \A l \in 0..L : l \in 0..K \/ l = L
      BY <1>2
    <3>2. ~(\E l \in 0..L : st[l + 1] = i)
      BY <2>2, <3>1 DEF a
    <3>3. PICK p \in 1..N : chi[p] = i
      BY <3>2, <1>9 DEF Claimed, N
    <3>4. p # o
      <4> SUFFICES ASSUME p = o PROVE FALSE
        OBVIOUS
      <4>1. chi[o] \in {0, st[K + 2]} \/ ~hp[chi[o]].live
        BY <1>2, <1>9 DEF Outdated, o
      <4>2. st[K + 2] = a
        BY <1>2 DEF a
      <4>3. i # 0
        BY <1>2
      <4> QED
        BY <4>1, <4>2, <4>3, <3>3, <2>2
    <3> QED
      BY <3>3, <3>4, <1>11
  <2> QED
    BY <2>1, <2>2
<1>16. Outdated(K, chi2, hp, st)
  <2> SUFFICES ASSUME NEW l \in 0..(K - 1), NEW q, q = Own(hp, st, l)
               PROVE  chi2[q] \in {0, st[l + 2]} \/ ~hp[chi2[q]].live
    BY DEF Outdated
  <2>1. q \in 1..N /\ d[q] = l
    <3>1. Lst(hp, st, l) # <<>>
      BY <1>1, <1>14 DEF ListsOK
    <3> QED
      BY <3>1, <1>1, <1>14, OwnerFacts DEF N
  <2>2. q # o
    BY <2>1, <1>4, <1>14
  <2> QED
    BY <2>1, <2>2, <1>9, <1>11, <1>14 DEF Outdated
<1>17. Parented(d, par2)
  <2>1. ASSUME NEW n \in 1..N, par2[n] # 0 PROVE n \in Kids(d, par2[n])
    BY <2>1, <1>9, <1>12 DEF Parented, N
  <2> QED
    BY <2>1, <1>9 DEF Parented, N
<1>18. k[o] \notin Enders
  BY <1>2, <1>9 DEF Openers, o
<1>19. Childless(k, d, chi2)
  BY <1>9, <1>11, <1>18 DEF Childless, N
<1>20. Openers(k, K, hp, st)
  BY <1>9, <1>14 DEF Openers
<1>21. ClosedEnds(k, d, K, chi2, hp, st)
  <2> SUFFICES ASSUME NEW p \in 1..N, chi2[p] # 0, ~Open(hp, st, K, p)
               PROVE  WellEnded(k, hp[chi2[p]].elems)
    BY DEF ClosedEnds, N
  <2>1. CASE p = o
    BY <2>1, <1>10, <1>11
  <2>2. CASE p # o
    <3>1. \A l \in 0..(L - 1) : l \in 0..(K - 1) \/ l = K
      BY <1>2
    <3>2. ~Open(hp, st, L, p)
      BY <2>2, <3>1 DEF Open, o
    <3> QED
      BY <2>2, <3>2, <1>9, <1>11 DEF ClosedEnds, N
  <2> QED
    BY <2>1, <2>2
<1>22. Deepest(k, K, hp, st)
  BY <1>18 DEF Deepest, o
<1> QED
  BY <1>15, <1>16, <1>17, <1>19, <1>20, <1>21, <1>22 DEF Extra, K

\* The list of the last node is opened again.
LEMMA ReopenExtra ==
  ASSUME NEW k, NEW d, NEW L, NEW par, NEW chi, NEW hp, NEW st,
         Tree(d, L, par, chi, hp, st), Lst(hp, st, L) # <<>>, chi[Own(hp, st, L)] # 0,
         Extra(k, d, L, par, chi, hp, st), Deepest(k, L, hp, st)
  PROVE  Extra(k, d, L + 1, par, chi, hp, st) /\ Paired(k, Lst(hp, st, L + 1))
<1> DEFINE K == L + 1
           o == Own(hp, st, L)
<1>1. TreeTypes(d, L, par, chi, hp, st) /\ ListsOK(d, L, hp, st)
  BY DEF Tree, PreTree
<1>2. L \in Nat /\ K \in Nat /\ L \in 0..L /\ K + 1 = L + 2
  BY <1>1 DEF TreeTypes
<1>3. st[L + 2] = chi[o]
  BY DEF Tree, Reopens
<1>4. Claimed(d, L, chi, hp, st) /\ Outdated(L, chi, hp, st) /\ Parented(d, par)
      /\ Childless(k, d, chi) /\ Openers(k, L, hp, st) /\ ClosedEnds(k, d, L, chi, hp, st)
  BY DEF Extra
<1>5. o \in 1..Len(d)
  BY <1>1, <1>2, OwnerFacts
<1>6. \A l \in 0..(L - 1) : l \in 0..L /\ l # L /\ Lst(hp, st, l) # <<>>
  BY <1>1, <1>2 DEF ListsOK
<1>7. ~Open(hp, st, L, o)
  BY <1>1, <1>2, <1>6, OwnersDiffer DEF Open
<1>8. Paired(k, Lst(hp, st, K))
  <2>1. WellEnded(k, hp[chi[o]].elems)
    BY <1>4, <1>5, <1>7 DEF ClosedEnds
  <2> QED
    BY <2>1, <1>2, <1>3 DEF WellEnded, Lst
<1>9. \A l \in 0..(K - 1) : l \in 0..(L - 1) \/ l = L
  BY <1>2
<1>10. \A l \in 0..L : l \in 0..K
  BY <1>2
<1>11. k[o] \notin Enders
  BY DEF Deepest
<1> HIDE DEF K, o
<1>12. Claimed(d, K, chi, hp, st)
  BY <1>4, <1>10 DEF Claimed
<1>13. Outdated(K, chi, hp, st)
  BY <1>3, <1>4, <1>9 DEF Outdated, o
<1>14. Openers(k, K, hp, st)
  BY <1>4, <1>9, <1>11 DEF Openers, o
<1>15. ClosedEnds(k, d, K, chi, hp, st)
  <2>1. \A l \in 0..(L - 1) : l \in 0..(K - 1)
    BY <1>2 DEF K
  <2>2. \A p : Open(hp, st, L, p) => Open(hp, st, K, p)
    BY <2>1 DEF Open
  <2> QED
    BY <2>2, <1>4 DEF ClosedEnds
<1> QED
  BY <1>4, <1>8, <1>12, <1>13, <1>14, <1>15 DEF Extra, K

\* The last node gets an empty list.
LEMMA NewListExtra ==
  ASSUME NEW k, NEW d, NEW L, NEW par, NEW chi, NEW hp, NEW st, NEW hp2, NEW st2,
         PreTree(d, L, par, chi, hp, st), Lst(hp, st, L) # <<>>, chi[Own(hp, st, L)] = 0,
         hp2 = Append(hp, EmptyArray), st2 = Append(SubSeq(st, 1, L + 1), Len(hp) + 1),
         Extra(k, d, L, par, chi, hp, st), Deepest(k, L, hp, st)
  PROVE  Extra(k, d, L + 1, par, chi, hp2, st2) /\ Paired(k, Lst(hp2, st2, L + 1))
<1> DEFINE N == Len(d)
           K == L + 1
           H == Len(hp)
           o == Own(hp, st, L)
<1>1. TreeTypes(d, L, par, chi, hp, st) /\ ListsOK(d, L, hp, st) /\ Full(d, chi, hp)
  BY DEF PreTree
<1>2. L \in Nat /\ K \in Nat /\ L \in 0..L /\ K + 1 = L + 2 /\ H \in Nat /\ K \in 0..K
  BY <1>1, Sizes DEF TreeTypes
<1>3. /\ Len(hp2) = H + 1 /\ hp2[H + 1] = EmptyArray /\ \A i \in 1..H : hp2[i] = hp[i]
      /\ st2[L + 2] = H + 1 /\ \A l \in 0..L : st2[l + 1] = st[l + 1]
  <2>1. NewList(N, L, H, hp, st, hp2, st2)
    <3>1. hp2 = Append(hp, EmptyArray) /\ st2 = Append(SubSeq(st, 1, L + 1), Len(hp) + 1)
      OBVIOUS
    <3> QED
      BY <1>1, <3>1, NewListFacts
  <2> QED
    BY <2>1 DEF NewList
<1>4. Claimed(d, L, chi, hp, st) /\ Outdated(L, chi, hp, st) /\ Parented(d, par)
      /\ Childless(k, d, chi) /\ Openers(k, L, hp, st) /\ ClosedEnds(k, d, L, chi, hp, st)
  BY DEF Extra
<1>5. \A l \in 0..L : st[l + 1] \in 1..H
  BY <1>1, Sizes
<1>6. \A p \in 1..N : chi[p] \in 0..H
  BY <1>1 DEF TreeTypes
<1>7. k[o] \notin Enders /\ chi[o] = 0
  BY DEF Deepest
<1>8. \A l \in 0..(L - 1) : Own(hp, st, l) \in 1..N
  <2>1. \A l \in 0..(L - 1) : l \in 0..L /\ Lst(hp, st, l) # <<>>
    BY <1>1, <1>2 DEF ListsOK
  <2> QED
    BY <2>1, <1>1, OwnerFacts
<1> HIDE DEF N, K, H, o
<1>9. \A l \in 0..L : Own(hp2, st2, l) = Own(hp, st, l)
  <2>1. \A l \in 0..L : hp2[st2[l + 1]] = hp[st[l + 1]]
    BY <1>3, <1>5
  <2> QED
    BY <2>1 DEF Own, Lst
<1>10. \A l \in 0..(K - 1) : (l \in 0..(L - 1) \/ l = L) /\ l \in 0..L
  BY <1>2 DEF K
<1>11. \A l \in 0..L : l \in 0..K
  BY <1>2 DEF K
<1>12. \A p \in 1..N : chi[p] # 0 => (chi[p] \in 1..H /\ hp2[chi[p]] = hp[chi[p]])
  <2>1. \A p \in 1..N : chi[p] # 0 => chi[p] \in 1..H
    BY <1>2, <1>6
  <2> QED
    BY <2>1, <1>3
<1>13. Claimed(d, K, chi, hp2, st2)
  <2> SUFFICES ASSUME NEW i \in 1..(H + 1), hp2[i].live
               PROVE  (\E l \in 0..K : st2[l + 1] = i) \/ (\E p \in 1..N : chi[p] = i)
    BY <1>3 DEF Claimed, N
  <2>1. CASE i = H + 1
    BY <2>1, <1>2, <1>3
  <2>2. CASE i # H + 1
    <3>1. i \in 1..H
      BY <2>2, <1>2
    <3>2. hp[i].live
      BY <3>1, <1>3
    <3>3. (\E l \in 0..L : st[l + 1] = i) \/ (\E p \in 1..N : chi[p] = i)
      BY <3>1, <3>2, <1>4 DEF Claimed, N, H
    <3> QED
      BY ZenonT(30), <3>3, <1>3, <1>11
  <2> QED
    BY <2>1, <2>2
<1>14. Outdated(K, chi, hp2, st2)
  <2> SUFFICES ASSUME NEW l \in 0..(K - 1), NEW q, q = Own(hp, st, l)
               PROVE  chi[q] \in {0, st2[l + 2]} \/ ~hp2[chi[q]].live
    BY <1>9, <1>10 DEF Outdated
  <2>1. CASE l = L
    BY <2>1, <1>7 DEF o
  <2>2. CASE l \in 0..(L - 1)
    <3>1. chi[q] \in {0, st[l + 2]} \/ ~hp[chi[q]].live
      BY <2>2, <1>4 DEF Outdated
    <3>2. l + 2 = (l + 1) + 1 /\ l + 1 \in 0..L
      BY <2>2, <1>2
    <3>3. st2[l + 2] = st[l + 2]
      BY <3>2, <1>3
    <3>4. q \in 1..N
      BY <2>2, <1>8
    <3> QED
      BY <3>1, <3>3, <3>4, <1>12
  <2> QED
    BY <2>1, <2>2, <1>10
<1>15. Openers(k, K, hp2, st2)
  BY <1>4, <1>7, <1>9, <1>10 DEF Openers, o
<1>16. ClosedEnds(k, d, K, chi, hp2, st2)
  <2> SUFFICES ASSUME NEW p \in 1..N, chi[p] # 0, ~Open(hp2, st2, K, p)
               PROVE  WellEnded(k, hp2[chi[p]].elems)
    BY DEF ClosedEnds, N
  <2>1. \A l \in 0..(L - 1) : l \in 0..(K - 1) /\ l \in 0..L
    BY <1>2 DEF K
  <2>2. ~Open(hp, st, L, p)
    BY <2>1, <1>9 DEF Open
  <2> QED
    BY <2>2, <1>4, <1>12 DEF ClosedEnds, N
<1>17. Paired(k, Lst(hp2, st2, K))
  <2>1. Lst(hp2, st2, K) = <<>>
    BY <1>2, <1>3 DEF Lst, EmptyArray
  <2> QED
    BY <2>1 DEF Paired
<1> QED
  BY <1>4, <1>13, <1>14, <1>15, <1>16, <1>17 DEF Extra, K
-----------------------------------------------------------------------------
(* The records keep it *)

\* The second invariant holds when loading begins.
LEMMA MoreInit == Init => MoreInv
<1> SUFFICES ASSUME Init PROVE MoreInv
  OBVIOUS
<1>1. kind = <<>> /\ children = <<>> /\ heap = <<EmptyArray>> /\ stack = <<1>> /\ level = 0 /\ status = "loading"
  BY DEF Init
<1> DEFINE d == Depths(kind)
<1>2. Len(kind) = 0
  BY <1>1, EmptySeq
<1>3. Len(d) = 0
  <2>1. d = <<>>
    BY <1>2 DEF Depths
  <2> QED
    BY <2>1, EmptySeq
<1> HIDE DEF d
<1>4. Len(heap) = 1 /\ heap[1] = EmptyArray /\ stack[1] = 1
  BY <1>1
<1>5. Claimed(d, 0, children, heap, stack)
  <2>1. 0 \in 0..0 /\ stack[0 + 1] = 1 /\ \A a \in 1..1 : a = 1
    BY <1>4
  <2> QED
    BY <2>1, <1>4 DEF Claimed
<1>6. 0..(0 - 1) = {} /\ 1..0 = {}
  OBVIOUS
<1>7. Outdated(0, children, heap, stack) /\ Openers(kind, 0, heap, stack)
  BY <1>6 DEF Outdated, Openers
<1>8. Parented(d, parent) /\ Childless(kind, d, children) /\ ClosedEnds(kind, d, 0, children, heap, stack)
  BY <1>3, <1>6 DEF Parented, Childless, ClosedEnds
<1>9. Deepest(kind, 0, heap, stack)
  <2>1. Lst(heap, stack, 0) = <<>>
    BY <1>4 DEF Lst, EmptyArray
  <2> QED
    BY <2>1 DEF Deepest
<1> QED
  BY <1>1, <1>5, <1>7, <1>8, <1>9 DEF MoreInv, Extra, Complete, d

\* The kinds after a record.
LEMMA RecordKinds ==
  ASSUME IInv, NEW k, Record(k)
  PROVE  kind'[Len(Depths(kind)) + 1] = k /\ \A n \in 1..Len(Depths(kind)) : kind'[n] = kind[n]
<1>1. kind \in Seq(Kinds \cup Roots) /\ kind' = Append(kind, k) /\ k \in Kinds \cup Roots
  BY DEF IInv, KindsOK, Record
<1>2. Len(Depths(kind)) = Len(kind)
  BY <1>1, DepthNext
<1> QED
  BY <1>1, <1>2, AppendProperties

\* The list a node has joined.
LEMMA JoinedList ==
  ASSUME NEW d, NEW L, NEW par, NEW chi, NEW hp, NEW st, NEW hp2, NEW st2,
         PreTree(d, L, par, chi, hp, st), Joined(L, Len(d) + 1, hp, st, hp2, st2)
  PROVE  /\ Len(d) \in Nat /\ Lst(hp, st, L) \in Seq(1..Len(d)) /\ Rising(Lst(hp, st, L))
         /\ Lst(hp2, st2, L) = Append(Lst(hp, st, L), Len(d) + 1) /\ Own(hp2, st2, L) = Len(d) + 1
<1> DEFINE N == Len(d)
           s == Lst(hp, st, L)
<1>1. TreeTypes(d, L, par, chi, hp, st) /\ ListsOK(d, L, hp, st)
  BY DEF PreTree
<1>2. L \in Nat /\ L \in 0..L
  BY <1>1 DEF TreeTypes
<1>3. N \in Nat /\ s \in Seq(1..N)
  BY <1>1, <1>2, Sizes
<1>4. Rising(s)
  BY <1>1, <1>2 DEF ListsOK, ListOK
<1>5. Lst(hp2, st2, L) = Append(s, N + 1)
  BY DEF Joined, Lst
<1> HIDE DEF N, s
<1>6. LastOf(Append(s, N + 1)) = N + 1
  <2>1. N + 1 \in Nat /\ N + 1 > N
    BY <1>3
  <2> QED
    BY <2>1, <1>3, <1>4, AppendFacts
<1> QED
  BY <1>3, <1>4, <1>5, <1>6 DEF Own, N, s

\* The list that a push or an ancillary node joins.
LEMMA OpenExtra ==
  ASSUME NEW k, NEW d, Tree(d, level, parent, children, heap, stack), ~NoOwner,
         Extra(k, d, level, parent, children, heap, stack), Deepest(k, level, heap, stack)
  PROVE  /\ Extra(k, d, level + 1, parent, children, OpenedHeap, OpenedStack)
         /\ Paired(k, Lst(OpenedHeap, OpenedStack, level + 1))
<1>1. Lst(heap, stack, level) # <<>> /\ Owner(level) = Own(heap, stack, level) /\ PreTree(d, level, parent, children, heap, stack)
  BY DEF NoOwner, Elems, List, Lst, Owner, Own, Tree
<1>2. CASE NeedsList
  <2>1. children[Own(heap, stack, level)] = 0
    BY <1>1, <1>2 DEF NeedsList, NULL
  <2>2. OpenedHeap = Append(heap, EmptyArray) /\ OpenedStack = Append(SubSeq(stack, 1, level + 1), Len(heap) + 1)
    BY <1>2 DEF OpenedHeap, OpenedStack
  <2> QED
    BY <2>1, <2>2, <1>1, NewListExtra
<1>3. CASE ~NeedsList
  <2>1. children[Own(heap, stack, level)] # 0
    BY <1>1, <1>3 DEF NeedsList, NULL
  <2>2. OpenedHeap = heap /\ OpenedStack = stack
    BY <1>3 DEF OpenedHeap, OpenedStack
  <2> QED
    BY <2>1, <2>2, <1>1, ReopenExtra
<1> QED
  BY <1>2, <1>3

\* A record that is loaded, from what it leaves.
LEMMA MoreRecord ==
  ASSUME IInv, NEW k, Record(k), UNCHANGED status,
         Extra(kind', Append(Depths(kind), level + (IF k \in {"push", "anc"} THEN 1 ELSE 0)),
               level', parent', children', heap', stack'),
         Deepest(kind', level', heap', stack')
  PROVE  MoreInv'
<1>1. status' = "loading" /\ k \in Kinds \cup Roots
  BY DEF Record
<1>2. Depths(kind') = Append(Depths(kind), level + (IF k \in {"push", "anc"} THEN 1 ELSE 0))
  BY <1>1, RecordFacts
<1>3. Extra(kind', Depths(kind'), level', parent', children', heap', stack')
  BY <1>2
<1> QED
  BY <1>1, <1>3 DEF MoreInv, Complete

\* A primary node.
LEMMA PrimaryMore ==
  ASSUME IInv, MoreInv, NEW k \in Kinds \cup Roots, LoadPrimary(k)
  PROVE  MoreInv'
<1> DEFINE d == Depths(kind)
<1>1. /\ Record(k) /\ prf_array_append_ptr(heap, stack, level, Node) /\ level' = level /\ UNCHANGED status
      /\ parent' = Append(parent, NULL) /\ children' = Append(children, NULL)
      /\ k # "push" /\ k \notin {"push", "anc"} /\ k \notin Enders
  BY DEF LoadPrimary, Enders
<1>2. PreTree(d, level, parent, children, heap, stack) /\ Node = Len(d) + 1 /\ level \in Nat
  BY <1>1, RecordFacts
<1>3. kind'[Len(d) + 1] = k /\ \A n \in 1..Len(d) : kind'[n] = kind[n]
  BY <1>1, RecordKinds
<1>4. Extra(kind, d, level, parent, children, heap, stack)
  BY <1>1 DEF MoreInv, Record
<1> HIDE DEF d
<1>5. Joined(level, Len(d) + 1, heap, stack, heap', stack')
  BY <1>1, <1>2, AppendJoins
<1>6. Extra(kind', Append(d, level), level, parent', children', heap', stack')
  BY <1>1, <1>2, <1>3, <1>4, <1>5, JoinExtra
<1>7. Deepest(kind', level, heap', stack')
  BY <1>1, <1>2, <1>3, <1>5, JoinedList DEF Deepest
<1>8. level + (IF k \in {"push", "anc"} THEN 1 ELSE 0) = level
  BY <1>1, <1>2
<1> QED
  BY <1>1, <1>6, <1>7, <1>8, MoreRecord DEF d

\* A push.
LEMMA PushMore ==
  ASSUME IInv, MoreInv, "push" \in Kinds \cup Roots, LoadPush
  PROVE  MoreInv'
<1> DEFINE d == Depths(kind)
           L == level + 1
<1>1. /\ Record("push") /\ ~NoOwner /\ prf_array_append_ptr(OpenedHeap, OpenedStack, L, Node)
      /\ level' = L /\ UNCHANGED status
      /\ parent' = Append(parent, NULL) /\ children' = Append(children, NULL)
  BY DEF LoadPush
<1>2. Tree(d, level, parent, children, heap, stack) /\ Node = Len(d) + 1 /\ level \in Nat
  BY <1>1, RecordFacts
<1>3. kind'[Len(d) + 1] = "push" /\ \A n \in 1..Len(d) : kind'[n] = kind[n]
  BY <1>1, RecordKinds
<1>4. Extra(kind, d, level, parent, children, heap, stack) /\ Deepest(kind, level, heap, stack)
  BY <1>1 DEF MoreInv, Record
<1>5. PreTree(d, L, parent, children, OpenedHeap, OpenedStack)
  BY <1>1, <1>2, OpenStep
<1>6. Extra(kind, d, L, parent, children, OpenedHeap, OpenedStack)
  BY <1>1, <1>2, <1>4, OpenExtra
<1>7. L > 0 /\ level + (IF "push" \in {"push", "anc"} THEN 1 ELSE 0) = L
  BY <1>2
<1> HIDE DEF d, L
<1>8. Joined(L, Len(d) + 1, OpenedHeap, OpenedStack, heap', stack')
  BY <1>1, <1>2, <1>5, AppendJoins
<1>9. Extra(kind', Append(d, L), L, parent', children', heap', stack')
  BY <1>1, <1>3, <1>5, <1>6, <1>7, <1>8, JoinExtra
<1>10. Own(heap', stack', L) = Len(d) + 1
  BY <1>5, <1>8, JoinedList
<1>11. Deepest(kind', L, heap', stack')
  BY <1>3, <1>10 DEF Deepest, Enders
<1> QED
  BY <1>1, <1>7, <1>9, <1>11, MoreRecord DEF d

\* An ancillary node.
LEMMA AncillaryMore ==
  ASSUME IInv, MoreInv, "anc" \in Kinds \cup Roots, LoadAncillary
  PROVE  MoreInv'
<1> DEFINE d == Depths(kind)
           L == level + 1
           par == Append(parent, NULL)
           chi == Append(children, NULL)
<1>1. /\ Record("anc") /\ ~NoOwner /\ prf_array_append_ptr(OpenedHeap, OpenedStack, L, Node)
      /\ Attach(L, par, chi) /\ level' = level /\ UNCHANGED status
  BY DEF LoadAncillary
<1>2. Tree(d, level, parent, children, heap, stack) /\ Node = Len(d) + 1 /\ level \in Nat
  BY <1>1, RecordFacts
<1>3. kind'[Len(d) + 1] = "anc" /\ \A n \in 1..Len(d) : kind'[n] = kind[n]
  BY <1>1, RecordKinds
<1>4. Extra(kind, d, level, parent, children, heap, stack) /\ Deepest(kind, level, heap, stack)
  BY <1>1 DEF MoreInv, Record
<1>5. PreTree(d, L, parent, children, OpenedHeap, OpenedStack)
  BY <1>1, <1>2, OpenStep
<1>6. Extra(kind, d, L, parent, children, OpenedHeap, OpenedStack) /\ Paired(kind, Lst(OpenedHeap, OpenedStack, L))
  BY <1>1, <1>2, <1>4, OpenExtra
<1>7. L \in Nat \ {0} /\ L > 0 /\ L - 1 = level /\ level + (IF "anc" \in {"push", "anc"} THEN 1 ELSE 0) = L
  BY <1>2
<1> HIDE DEF d, L
<1>8. Joined(L, Len(d) + 1, OpenedHeap, OpenedStack, heap', stack')
  BY <1>1, <1>2, <1>5, AppendJoins
<1>9. Tree(Append(d, L), L, par, chi, heap', stack') /\ Lst(heap', stack', L) # <<>>
  BY <1>5, <1>8, JoinStep
<1>10. Extra(kind', Append(d, L), L, par, chi, heap', stack')
  BY <1>3, <1>5, <1>6, <1>7, <1>8, JoinExtra
<1>11. WellEnded(kind', Lst(heap', stack', L))
  <2> DEFINE N == Len(d)
             s == Lst(OpenedHeap, OpenedStack, L)
  <2>1. N \in Nat /\ s \in Seq(1..N) /\ Rising(s) /\ Lst(heap', stack', L) = Append(s, N + 1)
    BY <1>5, <1>8, JoinedList
  <2>2. Paired(kind, s) /\ kind'[N + 1] = "anc" /\ \A n \in 1..N : kind'[n] = kind[n]
    BY <1>3, <1>6
  <2> HIDE DEF N, s
  <2> QED
    BY <2>1, <2>2, EndedList
<1> HIDE DEF par, chi
<1>12. PreTree(Append(d, L), L, par, chi, heap', stack')
  BY <1>9 DEF Tree
<1>13. Attached(L, par, chi, heap', stack', parent', children')
  BY <1>1, <1>7, AttachIsAttached
<1>14. Extra(kind', Append(d, L), L - 1, parent', children', heap', stack') /\ Deepest(kind', L - 1, heap', stack')
  BY <1>7, <1>9, <1>10, <1>11, <1>12, <1>13, AttachExtra
<1> QED
  BY <1>1, <1>7, <1>14, MoreRecord DEF d

\* A pop.
LEMMA PopMore ==
  ASSUME IInv, MoreInv, NEW k \in Kinds \cup Roots, LoadPop(k)
  PROVE  MoreInv'
<1> DEFINE d == Depths(kind)
           par == Append(parent, NULL)
           chi == Append(children, NULL)
<1>1. /\ Record(k) /\ k \in Pops /\ level > 0 /\ prf_array_append_ptr(heap, stack, level, Node)
      /\ Attach(level, par, chi) /\ level' = level - 1 /\ UNCHANGED status
      /\ k # "push" /\ k \notin {"push", "anc"}
  BY DEF LoadPop, Pops
<1>2. PreTree(d, level, parent, children, heap, stack) /\ Node = Len(d) + 1 /\ level \in Nat
  BY <1>1, RecordFacts
<1>3. kind'[Len(d) + 1] = k /\ \A n \in 1..Len(d) : kind'[n] = kind[n]
  BY <1>1, RecordKinds
<1>4. Extra(kind, d, level, parent, children, heap, stack)
  BY <1>1 DEF MoreInv, Record
<1> HIDE DEF d
<1>5. Joined(level, Len(d) + 1, heap, stack, heap', stack')
  BY <1>1, <1>2, AppendJoins
<1>6. Tree(Append(d, level), level, par, chi, heap', stack') /\ Lst(heap', stack', level) # <<>>
  BY <1>2, <1>5, JoinStep
<1>7. Extra(kind', Append(d, level), level, par, chi, heap', stack')
  BY <1>1, <1>2, <1>3, <1>4, <1>5, JoinExtra
<1>8. WellEnded(kind', Lst(heap', stack', level))
  <2> DEFINE N == Len(d)
             s == Lst(heap, stack, level)
  <2>1. N \in Nat /\ s \in Seq(1..N) /\ Rising(s) /\ Lst(heap', stack', level) = Append(s, N + 1)
    BY <1>2, <1>5, JoinedList
  <2>2. kind'[N + 1] = k /\ \A n \in 1..N : kind'[n] = kind[n]
    BY <1>3
  <2> HIDE DEF N, s
  <2> QED
    BY <2>1, <2>2, <1>1, EndedList
<1> HIDE DEF par, chi
<1>9. PreTree(Append(d, level), level, par, chi, heap', stack')
  BY <1>6 DEF Tree
<1>10. level \in Nat \ {0} /\ level + (IF k \in {"push", "anc"} THEN 1 ELSE 0) = level
  BY <1>1, <1>2
<1>11. Attached(level, par, chi, heap', stack', parent', children')
  BY <1>1, <1>10, AttachIsAttached
<1>12. Extra(kind', Append(d, level), level - 1, parent', children', heap', stack') /\ Deepest(kind', level - 1, heap', stack')
  BY <1>1, <1>6, <1>7, <1>8, <1>9, <1>11, AttachExtra
<1> QED
  BY <1>1, <1>10, <1>12, MoreRecord DEF d

\* The end of a file that closed all its levels: one root, and every other node
\* in the list of its parent.
LEMMA FinishMore ==
  ASSUME NEW k, NEW d, NEW par, NEW chi, NEW hp, NEW st, NEW hp2,
         Tree(d, 0, par, chi, hp, st), Extra(k, d, 0, par, chi, hp, st),
         Len(Lst(hp, st, 0)) = 1, hp2 = [hp EXCEPT ![st[1]].live = FALSE]
  PROVE  Shape(Len(d), Len(hp2), k, par, chi, hp2) /\ Allocated(Len(d), Len(hp2), chi, hp2)
<1> DEFINE N == Len(d)
           H == Len(hp)
           s == Lst(hp, st, 0)
<1>1. /\ TreeTypes(d, 0, par, chi, hp, st) /\ ListsOK(d, 0, hp, st) /\ Apart(d, 0, chi, hp, st)
      /\ Full(d, chi, hp) /\ AllClosed(d, 0, par, chi, hp, st)
  BY DEF Tree, PreTree
<1>2. /\ Claimed(d, 0, chi, hp, st) /\ Parented(d, par)
      /\ Childless(k, d, chi) /\ ClosedEnds(k, d, 0, chi, hp, st)
  BY DEF Extra
<1>3. /\ d \in Seq(Nat) /\ N \in Nat /\ H \in Nat /\ 0 \in 0..0 /\ s \in Seq(1..N) /\ st[1] \in 1..H
      /\ (\A n \in 1..N : d[n] \in Nat)
      /\ chi \in [1..N -> 0..H] /\ par \in [1..N -> 0..N] /\ hp \in Seq(ArrayOf(N))
      /\ (\A a \in 1..H : hp[a].elems \in Seq(1..N))
  <2>1. 0 \in 0..0 /\ 0 + 1 = 1
    OBVIOUS
  <2> QED
    BY <2>1, <1>1, Sizes DEF TreeTypes
<1>4. \A n : n \in Members(s) <=> (n \in 1..N /\ d[n] = 0 /\ n > 0)
  BY <1>1, <1>3 DEF ListsOK, ListOK, Before
<1>5. /\ hp2 \in Seq(ArrayOf(N)) /\ Len(hp2) = H /\ hp2[st[1]].live = FALSE /\ hp2[st[1]].elems = hp[st[1]].elems
      /\ \A a \in 1..H : a # st[1] => hp2[a] = hp[a]
  <2>1. DOMAIN hp = 1..H
    BY <1>3, LenProperties
  <2>2. hp[st[1]] \in ArrayOf(N)
    BY <1>3, ElementOfSeq
  <2>3. hp2 = [hp EXCEPT ![st[1]] = [hp[st[1]] EXCEPT !.live = FALSE]]
    OBVIOUS
  <2>4. DOMAIN hp2 = 1..H
    BY <2>1, <2>3
  <2>6. [hp[st[1]] EXCEPT !.live = FALSE] \in ArrayOf(N)
    BY <2>2 DEF ArrayOf
  <2>5. hp2 \in Seq(ArrayOf(N)) /\ Len(hp2) = H
    BY <2>3, <2>6, <1>3, ExceptSeq
  <2> QED
    BY <2>1, <2>2, <2>3, <2>5, <1>3 DEF ArrayOf
<1>6. Len(s) = 1 /\ DOMAIN s = 1..1
  BY <1>3, LenProperties
<1>7. \A p \in 1..N : ~Open(hp, st, 0, p) /\ ClosedOK(d, p, par, chi, hp)
  <2>1. 0..(0 - 1) = {}
    OBVIOUS
  <2>2. \A p : ~Open(hp, st, 0, p)
    BY <2>1 DEF Open
  <2> QED
    BY <2>2, <1>1 DEF AllClosed
<1>8. \A p \in 1..N : chi[p] # st[1]
  <2>1. \A p \in 1..N : chi[p] # st[0 + 1]
    BY <1>1, <1>3 DEF Apart
  <2> QED
    BY <2>1
<1> HIDE DEF N, H, s
<1>9. Members(s) = {s[1]}
  BY <1>6 DEF Members
<1>10. \A p \in 1..N : \A n \in Kids(d, p) : p < n /\ n \in 1..N
  BY DEF Kids, N
<1>11. N # 0 /\ 1 \in 1..N /\ d[1] = 0
  <2>1. s[1] \in 1..N
    BY <1>4, <1>9
  <2>2. N # 0 /\ 1 \in 1..N
    BY <2>1, <1>3
  <2>3. ~(d[1] > 0)
    <3> SUFFICES ASSUME d[1] > 0 PROVE FALSE
      OBVIOUS
    <3>1. PICK p \in 1..N : 1 \in Kids(d, p)
      BY <2>2, <1>2 DEF Parented, N
    <3>2. p < 1
      BY <3>1, <1>10
    <3> QED
      BY <3>2, <1>3
  <2>4. d[1] \in Nat
    BY <2>2, <1>3
  <2> QED
    BY <2>2, <2>3, <2>4
<1>12. \A n \in 2..N : n \in 1..N /\ d[n] > 0
  <2> TAKE n \in 2..N
  <2>1. n \in 1..N /\ n > 0 /\ n # 1
    BY <1>3
  <2>2. d[n] # 0
    <3>1. 1 \in Members(s) /\ (d[n] = 0 => n \in Members(s))
      BY <2>1, <1>4, <1>11
    <3> QED
      BY <2>1, <3>1, <1>9
  <2> QED
    BY <2>1, <2>2, <1>3
<1>13. \A p \in 1..N : chi[p] # 0 => (chi[p] \in 1..H /\ hp2[chi[p]] = hp[chi[p]])
  <2>1. \A p \in 1..N : chi[p] # 0 => chi[p] \in 1..H
    BY <1>3
  <2> QED
    BY <2>1, <1>5, <1>8
<1>14. k[1] # "push"
  BY <1>2, <1>11 DEF Childless, N
<1>15. par[1] = 0
  <2> SUFFICES ASSUME par[1] # 0 PROVE FALSE
    OBVIOUS
  <2>1. par[1] \in 1..N
    BY <1>3, <1>11
  <2>2. 1 \in Kids(d, par[1])
    BY <1>2, <1>11 DEF Parented, N
  <2>3. par[1] < 1
    BY <2>1, <2>2, <1>10
  <2> QED
    BY <2>1, <2>3, <1>3
<1>16. ASSUME NEW n \in 2..N
       PROVE  par[n] \in 1..(n - 1) /\ chi[par[n]] # 0 /\ n \in Members(hp2[chi[par[n]]].elems)
  <2>1. PICK p \in 1..N : n \in Kids(d, p)
    BY <1>2, <1>12 DEF Parented, N
  <2>2. chi[p] # 0 /\ Members(hp[chi[p]].elems) = Kids(d, p) /\ par[n] = p
    BY <2>1, <1>7 DEF ClosedOK
  <2>3. p \in 1..(n - 1)
    <3>1. p < n
      BY <2>1, <1>10
    <3> QED
      BY <3>1, <1>3
  <2> QED
    BY <2>1, <2>2, <2>3, <1>13
<1>17. ASSUME NEW p \in 1..N, chi[p] # 0 PROVE ChildList(N, k, par, chi, p, hp2[chi[p]].elems)
  <2> DEFINE t == hp[chi[p]].elems
  <2>1. hp2[chi[p]].elems = t /\ t \in Seq(1..N)
    BY <1>3, <1>13, <1>17
  <2>2. t # <<>>
    BY <1>1, <1>17 DEF Full, N
  <2>3. Rising(t) /\ Members(t) = Kids(d, p) /\ \A n \in Kids(d, p) : par[n] = p
    BY <1>7, <1>17 DEF ClosedOK
  <2>4. WellEnded(k, t)
    BY <1>2, <1>7, <1>17 DEF ClosedEnds, N
  <2> HIDE DEF t
  <2>5. LastOf(t) \in 1..N
    BY <2>1, <2>2, <2>3, <1>3, LastIsLargest
  <2>6. chi[LastOf(t)] = 0
    BY <2>4, <2>5, <1>2 DEF WellEnded, Childless, N
  <2> QED
    BY <2>1, <2>2, <2>3, <2>4, <2>6 DEF ChildList, WellEnded
<1>18. \A p, q \in 1..N : (chi[p] = chi[q] /\ chi[p] # 0) => p = q
  BY <1>1 DEF Apart, N
<1>19. Shape(N, H, k, par, chi, hp2)
  <2>1. N \in Nat \ {0} /\ H <= Len(hp2)
    BY <1>3, <1>5, <1>11
  <2> QED
    BY <2>1, <1>3, <1>5, <1>14, <1>15, <1>16, <1>17, <1>18 DEF Shape
<1>20. ASSUME NEW a \in 1..H PROVE hp2[a].live <=> \E p \in 1..N : chi[p] = a
  <2>1. ASSUME NEW p \in 1..N, chi[p] = a PROVE hp2[a].live
    <3>1. a # 0
      BY <1>3
    <3>2. hp[chi[p]].live
      BY <2>1, <3>1, <1>7 DEF ClosedOK
    <3> QED
      BY <2>1, <3>1, <3>2, <1>13
  <2>2. ASSUME hp2[a].live PROVE \E p \in 1..N : chi[p] = a
    <3>1. a # st[1]
      BY <2>2, <1>5
    <3>2. hp[a].live
      BY <2>2, <3>1, <1>5
    <3>3. \A l \in 0..0 : l + 1 = 1
      OBVIOUS
    <3>4. (\E l \in 0..0 : st[l + 1] = a) \/ (\E p \in 1..N : chi[p] = a)
      BY <3>2, <1>2 DEF Claimed, N, H
    <3> QED
      BY <3>1, <3>3, <3>4
  <2> QED
    BY <2>1, <2>2
<1>21. Allocated(N, H, chi, hp2)
  BY <1>20 DEF Allocated
<1> QED
  BY <1>5, <1>19, <1>21 DEF N

\* Every step keeps the second invariant.
LEMMA NextMore == IInv /\ MoreInv /\ [Next]_vars => MoreInv'
<1> SUFFICES ASSUME IInv, MoreInv, [Next]_vars PROVE MoreInv'
  OBVIOUS
<1>1. ASSUME NEW k \in Kinds \cup Roots, LoadDies(k) PROVE MoreInv'
  BY <1>1 DEF LoadDies, MoreInv, Complete
<1>2. ASSUME Record("push") PROVE "push" \in Kinds \cup Roots
  BY <1>2 DEF Record
<1>3. ASSUME Record("anc") PROVE "anc" \in Kinds \cup Roots
  BY <1>3 DEF Record
<1>4. CASE LoadPush
  BY <1>2, <1>4, PushMore DEF LoadPush
<1>5. CASE LoadAncillary
  BY <1>3, <1>5, AncillaryMore DEF LoadAncillary
<1>6. CASE LoadFails
  BY <1>6 DEF LoadFails, MoreInv, Complete
<1>7. ASSUME status = "loading", Finish, UNCHANGED <<kind, parent, children, stack, level>> PROVE MoreInv'
  <2>1. CASE status' = "refused"
    BY <2>1 DEF MoreInv, Complete
  <2>2. CASE status' = "loaded" /\ Len(Elems(List(0))) = 1 /\ heap' = [heap EXCEPT ![List(0)].live = FALSE]
    <3>1. ASSUME level = 0
          PROVE  Shape(Len(kind), Len(heap'), kind, parent, children, heap') /\ Allocated(Len(kind), Len(heap'), children, heap')
      <4>1. Tree(Depths(kind), 0, parent, children, heap, stack) /\ Extra(kind, Depths(kind), 0, parent, children, heap, stack)
        BY <1>7, <3>1 DEF IInv, MoreInv
      <4>2. Len(Lst(heap, stack, 0)) = 1 /\ heap' = [heap EXCEPT ![stack[1]].live = FALSE]
        BY <2>2 DEF Elems, List, Lst
      <4>3. Len(Depths(kind)) = Len(kind)
        <5>1. kind \in Seq(Kinds \cup Roots)
          BY DEF IInv, KindsOK
        <5>2. Len(kind) \in Nat
          BY <5>1, LenProperties
        <5> QED
          BY <5>2 DEF Depths
      <4> QED
        BY <4>1, <4>2, <4>3, FinishMore
    <3> QED
      BY <1>7, <2>2, <3>1 DEF MoreInv, Complete
  <2> QED
    BY <1>7, <2>1, <2>2 DEF Finish
<1>8. CASE EndOfFile
  BY <1>7, <1>8 DEF EndOfFile
<1>9. CASE TrailingGarbage
  BY <1>7, <1>9 DEF TrailingGarbage
<1>10. CASE UNCHANGED vars
  BY <1>10 DEF vars, MoreInv, Complete
<1> QED
  BY <1>1, <1>4, <1>5, <1>6, <1>8, <1>9, <1>10, PrimaryMore, PopMore DEF Next, LoadRecord

\* What a file whose pushes are all popped leaves behind: a tree, in which
\* every node but the first is in the list of a parent that was read before it,
\* no list belongs to two nodes, every push has its pop, the last node of a
\* list has no list of its own, and the arrays that are allocated are
\* exactly the nodes' lists: none is lost when a list moves.
THEOREM LoadLeavesTree ==
  Spec => [](Complete => /\ Shape(Len(kind), Len(heap), kind, parent, children, heap)
                         /\ Allocated(Len(kind), Len(heap), children, heap))
<1>1. Init => IInv /\ MoreInv
  BY InitOK, MoreInit
<1>2. (IInv /\ MoreInv) /\ [Next]_vars => (IInv /\ MoreInv)'
  BY NextOK, NextMore
<1>3. MoreInv => (Complete => /\ Shape(Len(kind), Len(heap), kind, parent, children, heap)
                              /\ Allocated(Len(kind), Len(heap), children, heap))
  BY DEF MoreInv
<1> QED
  BY <1>1, <1>2, <1>3, PTL DEF Spec

-----------------------------------------------------------------------------
(* Walks over the loaded tree, for the traversals.  H: the child arrays of the
   model, after which stands the array that a traversal makes for the root; ls,
   ch, lm: the traversal's stacks of lists, places and limits. *)

Row(hp, ls, j) == hp[ls[j]].elems
\* The node the walk stands at on level j, and its parent.
Stop(hp, ls, ch, j) == hp[ls[j]].elems[ch[j]]
Above(hp, ls, ch, j) == IF j = 1 THEN 0 ELSE Stop(hp, ls, ch, j - 1)

Walked(H, chi, hp, ls, ch, lm) ==
  /\ ls \in Seq(1..(H + 1)) /\ ch \in Seq(Nat \ {0}) /\ lm \in Seq(Nat)
  /\ Len(ls) > 0 /\ Len(ch) = Len(ls) /\ Len(lm) = Len(ls)
  /\ ls[1] = H + 1 /\ Len(hp) = H + 1 /\ hp[H + 1].elems = <<1>>
  /\ \A j \in 1..Len(ls) : lm[j] = Len(Row(hp, ls, j))
  /\ \A j \in 1..(Len(ls) - 1) :
       ch[j] <= lm[j] /\ chi[Stop(hp, ls, ch, j)] # 0 /\ ls[j + 1] = chi[Stop(hp, ls, ch, j)]
  /\ \A i, j \in 1..Len(ls) : i < j => Above(hp, ls, ch, i) < Above(hp, ls, ch, j)

SameElems(hp, hp2) == Len(hp2) = Len(hp) /\ \A a \in 1..Len(hp) : hp2[a].elems = hp[a].elems
\* The shape of the tree is in the elements of the arrays alone.
LEMMA ShapeKeeps ==
  ASSUME NEW N, NEW H, NEW k, NEW par, NEW chi, NEW hp, NEW hp2,
         Shape(N, H, k, par, chi, hp), hp2 \in Seq(ArrayOf(N)), H <= Len(hp2),
         \A a \in 1..H : hp2[a].elems = hp[a].elems
  PROVE  Shape(N, H, k, par, chi, hp2)
<1>1. /\ N \in Nat \ {0} /\ H \in Nat /\ k[1] # "push" /\ par[1] = 0
      /\ chi \in [1..N -> 0..H] /\ par \in [1..N -> 0..N]
      /\ \A p, q \in 1..N : (chi[p] = chi[q] /\ chi[p] # 0) => p = q
  BY DEF Shape
<1>2. \A p \in 1..N : chi[p] # 0 => hp2[chi[p]].elems = hp[chi[p]].elems
  <2>1. \A p \in 1..N : chi[p] # 0 => chi[p] \in 1..H
    BY <1>1
  <2> QED
    BY <2>1
<1>3. \A n \in 2..N : par[n] \in 1..(n - 1) /\ chi[par[n]] # 0 /\ n \in Members(hp2[chi[par[n]]].elems)
  <2>1. \A n \in 2..N : par[n] \in 1..(n - 1) /\ chi[par[n]] # 0 /\ n \in Members(hp[chi[par[n]]].elems)
    BY DEF Shape
  <2>2. \A n \in 2..N : par[n] \in 1..N
    <3>1. \A n \in 2..N : \A m \in 1..(n - 1) : m \in 1..N
      BY <1>1
    <3> QED
      BY <2>1, <3>1
  <2> QED
    BY <2>1, <2>2, <1>2
<1>4. \A p \in 1..N : chi[p] # 0 => ChildList(N, k, par, chi, p, hp2[chi[p]].elems)
  <2>1. \A p \in 1..N : chi[p] # 0 => ChildList(N, k, par, chi, p, hp[chi[p]].elems)
    BY DEF Shape
  <2> QED
    BY <2>1, <1>2
<1> QED
  BY <1>1, <1>3, <1>4 DEF Shape

\* The list on level j of the walk, and the node it stands at.
RowOK(N, k, par, chi, hp, ls, ch, lm, j) ==
  /\ Row(hp, ls, j) \in Seq(1..N) /\ Row(hp, ls, j) # <<>> /\ Rising(Row(hp, ls, j))
  /\ Paired(k, Row(hp, ls, j))
  /\ lm[j] = Len(Row(hp, ls, j)) /\ lm[j] \in Nat /\ ch[j] \in Nat \ {0}
  /\ \A n \in Members(Row(hp, ls, j)) : n \in 1..N /\ par[n] = Above(hp, ls, ch, j)
  /\ j # 1 => chi[Row(hp, ls, j)[lm[j]]] = 0
  /\ ch[j] <= lm[j] =>
       /\ Stop(hp, ls, ch, j) \in Members(Row(hp, ls, j)) /\ Stop(hp, ls, ch, j) \in 1..N
       /\ par[Stop(hp, ls, ch, j)] = Above(hp, ls, ch, j)
       /\ Above(hp, ls, ch, j) < Stop(hp, ls, ch, j)
\* A parent was read before its children; only the root has none.
LEMMA ParentsBefore ==
  ASSUME NEW N, NEW H, NEW k, NEW par, NEW chi, NEW hp, Shape(N, H, k, par, chi, hp), NEW n \in 1..N
  PROVE  par[n] \in Nat /\ par[n] < n /\ (par[n] = 0 <=> n = 1)
<1>1. N \in Nat /\ par[1] = 0 /\ \A m \in 2..N : par[m] \in 1..(m - 1)
  BY DEF Shape
<1>2. CASE n = 1
  BY <1>1, <1>2
<1>3. CASE n # 1
  <2>1. n \in 2..N
    BY <1>1, <1>3
  <2>2. par[n] \in 1..(n - 1)
    BY <2>1, <1>1
  <2> QED
    BY <2>1, <2>2, <1>1, <1>3
<1> QED
  BY <1>2, <1>3

\* The lists of the walk are child lists, below one another.
LEMMA RowFacts ==
  ASSUME NEW N, NEW H, NEW k, NEW par, NEW chi, NEW hp, NEW ls, NEW ch, NEW lm,
         Shape(N, H, k, par, chi, hp), Walked(H, chi, hp, ls, ch, lm), NEW j \in 1..Len(ls)
  PROVE  RowOK(N, k, par, chi, hp, ls, ch, lm, j)
<1> DEFINE s == Row(hp, ls, j)
           x == Stop(hp, ls, ch, j)
           up == Above(hp, ls, ch, j)
<1>1. /\ N \in Nat \ {0} /\ H \in Nat /\ k[1] # "push" /\ par[1] = 0
      /\ \A p \in 1..N : chi[p] # 0 => ChildList(N, k, par, chi, p, hp[chi[p]].elems)
  BY DEF Shape
<1>2. /\ ls \in Seq(1..(H + 1)) /\ ch \in Seq(Nat \ {0}) /\ lm \in Seq(Nat)
      /\ Len(ch) = Len(ls) /\ Len(lm) = Len(ls)
      /\ ls[1] = H + 1 /\ hp[H + 1].elems = <<1>> /\ lm[j] = Len(s)
  BY DEF Walked
<1>3. lm[j] \in Nat /\ ch[j] \in Nat \ {0} /\ Len(ls) \in Nat
  BY <1>2, ElementOfSeq, LenProperties
<1>4. /\ s \in Seq(1..N) /\ s # <<>> /\ Rising(s) /\ Paired(k, s) /\ (\A n \in Members(s) : par[n] = up)
      /\ j # 1 => chi[LastOf(s)] = 0
  <2>1. CASE j = 1
    <3>1. s = <<1>> /\ up = 0
      BY <2>1, <1>2 DEF Row, Above
    <3>2. 1 \in 1..N
      BY <1>1
    <3>3. Len(<<1>>) = 1 /\ <<1>> \in Seq(1..N) /\ <<1>> # <<>> /\ <<1>>[1] = 1 /\ DOMAIN <<1>> = 1..1
      BY <3>2
    <3>4. \A i \in 1..1 : i = 1
      OBVIOUS
    <3>5. Rising(<<1>>) /\ Members(<<1>>) = {1} /\ Paired(k, <<1>>)
      BY <3>3, <3>4, <1>1 DEF Rising, Members, Paired
    <3> HIDE DEF s, up
    <3> QED
      BY <2>1, <3>1, <3>3, <3>5, <1>1
  <2>2. CASE j # 1
    <3>1. PICK i \in 1..(Len(ls) - 1) : j = i + 1 /\ i = j - 1
      BY <2>2, <1>3
    <3> DEFINE p == Stop(hp, ls, ch, i)
    <3>2. chi[p] # 0 /\ ls[j] = chi[p] /\ ch[i] <= lm[i]
      BY <3>1 DEF Walked
    <3>3. up = p
      BY <2>2, <3>1 DEF Above
    <3>4. p \in 1..N
      <4>1. DEFINE r == Row(hp, ls, i)
      <4>2. i \in 1..Len(ls) /\ i \in 1..Len(ch)
        BY <3>1, <1>2, <1>3
      <4>3. ch[i] \in Nat \ {0} /\ lm[i] = Len(r) /\ lm[i] \in Nat
        BY <4>2, <1>2, ElementOfSeq DEF Walked
      <4>4. ch[i] \in 1..Len(r)
        BY <4>3, <3>2
      <4>5. hp \in Seq(ArrayOf(N)) /\ ls[i] \in 1..Len(hp)
        <5>1. hp \in Seq(ArrayOf(N)) /\ Len(hp) = H + 1
          BY DEF Shape, Walked
        <5>2. ls[i] \in 1..(H + 1)
          BY <4>2, <1>2, ElementOfSeq
        <5> QED
          BY <5>1, <5>2
      <4>6. r \in Seq(1..N)
        <5>1. hp[ls[i]] \in ArrayOf(N)
          BY <4>5, ElementOfSeq
        <5> QED
          BY <5>1 DEF ArrayOf, Row
      <4>7. r[ch[i]] \in 1..N
        BY <4>4, <4>6, ElementOfSeq
      <4> QED
        BY <4>7 DEF Stop, Row
    <3>5. ChildList(N, k, par, chi, p, s)
      BY <3>2, <3>4, <1>1 DEF Row
    <3> QED
      BY <3>3, <3>5 DEF ChildList
  <2> QED
    BY <2>1, <2>2
<1>5. \A n \in Members(s) : n \in 1..N
  <2>1. DOMAIN s = 1..Len(s) /\ \A i \in 1..Len(s) : s[i] \in 1..N
    BY <1>4, ElementOfSeq, LenProperties
  <2> QED
    BY <2>1 DEF Members
<1>6. ASSUME ch[j] <= lm[j] PROVE x \in Members(s) /\ x \in 1..N /\ par[x] = up /\ up < x
  <2>1. ch[j] \in 1..Len(s) /\ DOMAIN s = 1..Len(s) /\ x = s[ch[j]]
    BY <1>2, <1>3, <1>4, <1>6, LenProperties DEF Row, Stop
  <2>2. x \in Members(s)
    BY <2>1 DEF Members
  <2> HIDE DEF x, s, up
  <2>3. x \in 1..N /\ par[x] = up
    BY <2>2, <1>4, <1>5
  <2> QED
    BY <2>2, <2>3, ParentsBefore
<1>7. j # 1 => chi[s[lm[j]]] = 0
  BY <1>2, <1>4 DEF LastOf
<1> QED
  BY <1>2, <1>3, <1>4, <1>5, <1>6, <1>7 DEF RowOK

\* No node is in two lists of the walk.
LEMMA RowsApart ==
  ASSUME NEW N, NEW H, NEW k, NEW par, NEW chi, NEW hp, NEW ls, NEW ch, NEW lm,
         Shape(N, H, k, par, chi, hp), Walked(H, chi, hp, ls, ch, lm), NEW i \in 1..Len(ls), NEW j \in 1..Len(ls),
         NEW n, n \in Members(Row(hp, ls, i)), n \in Members(Row(hp, ls, j))
  PROVE  i = j
<1>1. par[n] = Above(hp, ls, ch, i) /\ par[n] \in Nat
  BY RowFacts, ParentsBefore DEF RowOK
<1>2. par[n] = Above(hp, ls, ch, j)
  BY RowFacts DEF RowOK
<1>3. Len(ls) \in Nat
  BY LenProperties DEF Walked
<1>4. ~(i < j) /\ ~(j < i)
  <2>1. i < j => Above(hp, ls, ch, i) < Above(hp, ls, ch, j)
    BY DEF Walked
  <2>2. j < i => Above(hp, ls, ch, j) < Above(hp, ls, ch, i)
    BY DEF Walked
  <2> QED
    BY <2>1, <2>2, <1>1, <1>2
<1> QED
  BY <1>3, <1>4

\* The walk does not notice that arrays are freed.
SameRows(hp, hp2, ls, ch) ==
  \A j \in 1..Len(ls) : Row(hp2, ls, j) = Row(hp, ls, j) /\ Stop(hp2, ls, ch, j) = Stop(hp, ls, ch, j)
\* Freeing arrays leaves a walk a walk.
LEMMA WalkedKeeps ==
  ASSUME NEW H, NEW chi, NEW hp, NEW hp2, NEW ls, NEW ch, NEW lm,
         Walked(H, chi, hp, ls, ch, lm), H \in Nat, SameElems(hp, hp2)
  PROVE  Walked(H, chi, hp2, ls, ch, lm) /\ SameRows(hp, hp2, ls, ch)
<1>1. ls \in Seq(1..(H + 1)) /\ Len(hp) = H + 1 /\ Len(hp2) = H + 1 /\ Len(ls) \in Nat
  BY LenProperties DEF Walked, SameElems
<1>2. \A j \in 1..Len(ls) : hp2[ls[j]].elems = hp[ls[j]].elems
  <2>1. \A j \in 1..Len(ls) : ls[j] \in 1..(H + 1)
    BY <1>1, ElementOfSeq
  <2> QED
    BY <2>1, <1>1 DEF SameElems
<1>3. hp2[H + 1].elems = <<1>>
  <2>1. H + 1 \in 1..(H + 1)
    OBVIOUS
  <2> QED
    BY <2>1, <1>1 DEF SameElems, Walked
<1>4. \A j \in 1..Len(ls) : Row(hp2, ls, j) = Row(hp, ls, j) /\ Stop(hp2, ls, ch, j) = Stop(hp, ls, ch, j)
  BY <1>2 DEF Row, Stop
<1>5. \A j \in 1..Len(ls) : Above(hp2, ls, ch, j) = Above(hp, ls, ch, j)
  <2>1. \A j \in 1..Len(ls) : j # 1 => j - 1 \in 1..Len(ls)
    BY <1>1
  <2> QED
    BY <2>1, <1>4 DEF Above
<1>6. \A j \in 1..(Len(ls) - 1) : j \in 1..Len(ls)
  BY <1>1
<1> QED
  BY <1>1, <1>3, <1>4, <1>5, <1>6 DEF Walked, SameRows

\* Another place in the innermost list.
Moved(ls, c, ch, ch2) == ch2[Len(ls)] = c /\ \A j \in 1..(Len(ls) - 1) : ch2[j] = ch[j]
\* A walk may stand at any place of its innermost list.
LEMMA WalkedMoves ==
  ASSUME NEW H, NEW chi, NEW hp, NEW ls, NEW ch, NEW lm, NEW ch2, NEW c \in Nat \ {0},
         Walked(H, chi, hp, ls, ch, lm), ch2 = [ch EXCEPT ![Len(ls)] = c]
  PROVE  Walked(H, chi, hp, ls, ch2, lm) /\ Moved(ls, c, ch, ch2)
<1> DEFINE D == Len(ls)
<1>1. ch \in Seq(Nat \ {0}) /\ D \in Nat /\ D > 0 /\ Len(ch) = D
  BY LenProperties DEF Walked
<1>2. /\ ch2 \in Seq(Nat \ {0}) /\ Len(ch2) = D /\ ch2[D] = c
      /\ \A j \in 1..D : j # D => ch2[j] = ch[j]
  <2>1. D \in 1..Len(ch)
    BY <1>1
  <2> QED
    BY <2>1, <1>1, ExceptSeq
<1> HIDE DEF D
<1>3. \A j \in 1..(D - 1) : j \in 1..D /\ j # D
  BY <1>1
<1>4. \A j \in 1..(D - 1) : ch2[j] = ch[j] /\ Stop(hp, ls, ch2, j) = Stop(hp, ls, ch, j)
  BY <1>2, <1>3 DEF Stop
<1>5. \A j \in 1..D : Above(hp, ls, ch2, j) = Above(hp, ls, ch, j)
  <2>1. \A j \in 1..D : j # 1 => j - 1 \in 1..(D - 1)
    BY <1>1
  <2> QED
    BY <2>1, <1>4 DEF Above
<1> QED
  BY <1>2, <1>3, <1>4, <1>5 DEF Walked, D, Moved

\* One list further down.
Lower(D, s, x, hp, ls, ch, ls2, ch2, lm2) ==
  /\ Len(ls2) = D + 1
  /\ ch2[D + 1] = 1 /\ 1 <= lm2[D + 1] /\ Stop(hp, ls2, ch2, D + 1) = s[1]
  /\ Row(hp, ls2, D + 1) = s /\ Above(hp, ls2, ch2, D + 1) = x
  /\ \A j \in 1..D : ls2[j] = ls[j] /\ ch2[j] = ch[j]
Descent(chi, hp, ls, ch, lm, x, ls2, ch2, lm2) ==
  /\ ch[Len(ls)] <= lm[Len(ls)] /\ x = Stop(hp, ls, ch, Len(ls)) /\ chi[x] # 0
  /\ ls2 = Append(ls, chi[x]) /\ ch2 = Append(ch, 1) /\ lm2 = Append(lm, Len(hp[chi[x]].elems))
\* A walk goes down to the first child of the node it stands at.
LEMMA WalkedDown ==
  ASSUME NEW N, NEW H, NEW k, NEW par, NEW chi, NEW hp, NEW ls, NEW ch, NEW lm, NEW x, NEW ls2, NEW ch2, NEW lm2,
         Shape(N, H, k, par, chi, hp), Walked(H, chi, hp, ls, ch, lm), Descent(chi, hp, ls, ch, lm, x, ls2, ch2, lm2)
  PROVE  Walked(H, chi, hp, ls2, ch2, lm2) /\ Lower(Len(ls), hp[chi[x]].elems, x, hp, ls, ch, ls2, ch2, lm2)
<1> DEFINE D == Len(ls)
           s == hp[chi[x]].elems
<1> USE DEF Descent
<1>1. /\ ls \in Seq(1..(H + 1)) /\ ch \in Seq(Nat \ {0}) /\ lm \in Seq(Nat) /\ D \in Nat /\ D > 0 /\ Len(ch) = D /\ Len(lm) = D
      /\ D \in 1..D
  <2>1. /\ ls \in Seq(1..(H + 1)) /\ ch \in Seq(Nat \ {0}) /\ lm \in Seq(Nat) /\ D > 0 /\ Len(ch) = D /\ Len(lm) = D
    BY DEF Walked
  <2>2. D \in Nat
    BY <2>1, LenProperties
  <2> QED
    BY <2>1, <2>2
<1>2. x \in 1..N /\ Above(hp, ls, ch, D) < x
  BY <1>1, RowFacts DEF RowOK
<1>3. N \in Nat /\ H \in Nat /\ chi[x] \in 1..H /\ s \in Seq(1..N) /\ s # <<>>
  <2>1. N \in Nat /\ H \in Nat /\ chi[x] \in 0..H /\ ChildList(N, k, par, chi, x, s)
    BY <1>2 DEF Shape
  <2> QED
    BY <2>1 DEF ChildList
<1>4. Len(s) \in Nat /\ Len(s) >= 1
  <2>1. Len(s) \in Nat /\ Len(s) # 0
    BY <1>3, EmptySeq, LenProperties
  <2> QED
    BY <2>1
<1>5. /\ ls2 \in Seq(1..(H + 1)) /\ Len(ls2) = D + 1 /\ ls2[D + 1] = chi[x] /\ \A j \in 1..D : ls2[j] = ls[j]
  <2>1. chi[x] \in 1..(H + 1)
    BY <1>3
  <2> QED
    BY <2>1, <1>1, AppendProperties
<1>6. /\ ch2 \in Seq(Nat \ {0}) /\ Len(ch2) = D + 1 /\ ch2[D + 1] = 1 /\ \A j \in 1..D : ch2[j] = ch[j]
  <2>1. 1 \in Nat \ {0}
    OBVIOUS
  <2> HIDE DEF D
  <2> QED
    BY <2>1, <1>1, AppendProperties
<1>7. /\ lm2 \in Seq(Nat) /\ Len(lm2) = D + 1 /\ lm2[D + 1] = Len(s) /\ \A j \in 1..D : lm2[j] = lm[j]
  <2> HIDE DEF D
  <2> QED
    BY <1>1, <1>4, AppendProperties
<1> HIDE DEF s
<1>8. \A j \in 1..D : Row(hp, ls2, j) = Row(hp, ls, j) /\ Stop(hp, ls2, ch2, j) = Stop(hp, ls, ch, j)
  BY <1>5, <1>6 DEF Row, Stop
<1>9. /\ ls[1] = H + 1 /\ Len(hp) = H + 1 /\ hp[H + 1].elems = <<1>>
      /\ (\A j \in 1..D : lm[j] = Len(Row(hp, ls, j)))
      /\ (\A j \in 1..(D - 1) :
            ch[j] <= lm[j] /\ chi[Stop(hp, ls, ch, j)] # 0 /\ ls[j + 1] = chi[Stop(hp, ls, ch, j)])
      /\ (\A i, j \in 1..D : i < j => Above(hp, ls, ch, i) < Above(hp, ls, ch, j))
  BY DEF Walked
<1>10. x = Stop(hp, ls, ch, D) /\ chi[x] # 0 /\ ch[D] <= lm[D]
  OBVIOUS
<1> HIDE DEF D
<1>11. \A j \in 1..D : Above(hp, ls2, ch2, j) = Above(hp, ls, ch, j)
  <2>1. \A j \in 1..D : j # 1 => j - 1 \in 1..D
    BY <1>1
  <2> QED
    BY <2>1, <1>8 DEF Above
<1>12. Above(hp, ls2, ch2, D + 1) = x
  <2>1. D + 1 # 1 /\ (D + 1) - 1 = D
    BY <1>1
  <2> QED
    BY <2>1, <1>1, <1>8, <1>10 DEF Above
<1>13. \A j : j \in 1..(D + 1) <=> (j \in 1..D \/ j = D + 1)
  BY <1>1
<1>14. Row(hp, ls2, D + 1) = s /\ Stop(hp, ls2, ch2, D + 1) = s[1]
  BY <1>5, <1>6 DEF Row, Stop, s
<1>15. \A j \in 1..(D + 1) : lm2[j] = Len(Row(hp, ls2, j))
  BY <1>7, <1>8, <1>9, <1>13, <1>14
<1>16. ASSUME NEW j \in 1..D
       PROVE  ch2[j] <= lm2[j] /\ chi[Stop(hp, ls2, ch2, j)] # 0 /\ ls2[j + 1] = chi[Stop(hp, ls2, ch2, j)]
  <2>1. CASE j = D
    BY <2>1, <1>5, <1>6, <1>7, <1>8, <1>10
  <2>2. CASE j # D
    <3>1. j \in 1..(D - 1) /\ j + 1 \in 1..D
      BY <2>2, <1>1
    <3> QED
      BY <3>1, <1>5, <1>6, <1>7, <1>8, <1>9
  <2> QED
    BY <2>1, <2>2
<1>17. ASSUME NEW i \in 1..(D + 1), NEW j \in 1..(D + 1), i < j
       PROVE  Above(hp, ls2, ch2, i) < Above(hp, ls2, ch2, j)
  <2>1. i \in 1..D
    BY <1>1, <1>17
  <2>2. CASE j \in 1..D
    BY <2>1, <2>2, <1>9, <1>11, <1>17
  <2>3. CASE j = D + 1
    <3> DEFINE u == Above(hp, ls, ch, i)
               v == Above(hp, ls, ch, D)
    <3>1. i = D \/ i < D
      BY <2>1, <1>1
    <3>2. u = v \/ u < v
      BY <2>1, <3>1, <1>1, <1>9
    <3>3. v < x
      BY <1>2 DEF D
    <3>4. u \in Nat /\ v \in Nat
      <4>1. Row(hp, ls, i) # <<>> /\ Row(hp, ls, i) \in Seq(1..N)
            /\ \A n \in Members(Row(hp, ls, i)) : n \in 1..N /\ par[n] = u
        BY <2>1, RowFacts DEF RowOK, D
      <4>2. Row(hp, ls, D) # <<>> /\ Row(hp, ls, D) \in Seq(1..N)
            /\ \A n \in Members(Row(hp, ls, D)) : n \in 1..N /\ par[n] = v
        BY <1>1, RowFacts DEF RowOK, D
      <4>3. \A r \in Seq(1..N) : r # <<>> => \E n \in Members(r) : TRUE
        <5> TAKE r \in Seq(1..N)
        <5>1. r # <<>> => (Len(r) \in Nat /\ Len(r) # 0 /\ DOMAIN r = 1..Len(r))
          BY EmptySeq, LenProperties
        <5>2. r # <<>> => 1 \in DOMAIN r
          BY <5>1
        <5> QED
          BY <5>2 DEF Members
      <4>4. PICK n \in Members(Row(hp, ls, i)) : TRUE
        BY <4>1, <4>3
      <4>5. PICK m \in Members(Row(hp, ls, D)) : TRUE
        BY <4>2, <4>3
      <4>6. n \in 1..N /\ m \in 1..N /\ par[n] = u /\ par[m] = v
        BY <4>1, <4>2
      <4> HIDE DEF u, v
      <4>7. par[n] \in Nat
        BY <4>6, ParentsBefore
      <4>8. par[m] \in Nat
        BY <4>6, ParentsBefore
      <4> QED
        BY <4>6, <4>7, <4>8
    <3> HIDE DEF u, v
    <3>5. u < x
      BY <3>2, <3>3, <3>4, <1>2, <1>3
    <3> QED
      BY <2>1, <2>3, <3>5, <1>11, <1>12 DEF u
  <2> QED
    BY <1>13, <2>2, <2>3
<1>18. (D + 1) - 1 = D /\ ls2[1] = ls[1] /\ D + 1 > 0
  BY <1>1, <1>5
<1>19. Walked(H, chi, hp, ls2, ch2, lm2)
  <2>1. Len(ls2) = D + 1 /\ Len(ch2) = Len(ls2) /\ Len(lm2) = Len(ls2) /\ Len(ls2) - 1 = D /\ Len(ls2) > 0
    BY <1>5, <1>6, <1>7, <1>18
  <2>2. \A j \in 1..Len(ls2) : lm2[j] = Len(Row(hp, ls2, j))
    BY <2>1, <1>15
  <2>3. \A j \in 1..(Len(ls2) - 1) :
          ch2[j] <= lm2[j] /\ chi[Stop(hp, ls2, ch2, j)] # 0 /\ ls2[j + 1] = chi[Stop(hp, ls2, ch2, j)]
    BY <2>1, <1>16
  <2>4. \A i, j \in 1..Len(ls2) : i < j => Above(hp, ls2, ch2, i) < Above(hp, ls2, ch2, j)
    BY <2>1, <1>17
  <2>5. /\ ls2 \in Seq(1..(H + 1)) /\ ch2 \in Seq(Nat \ {0}) /\ lm2 \in Seq(Nat)
        /\ ls2[1] = H + 1 /\ Len(hp) = H + 1 /\ hp[H + 1].elems = <<1>>
    BY <1>5, <1>6, <1>7, <1>9, <1>18
  <2> QED
    BY ONLY <2>1, <2>2, <2>3, <2>4, <2>5 DEF Walked
<1> QED
  BY <1>4, <1>5, <1>6, <1>7, <1>12, <1>14, <1>19 DEF D, s, Lower

\* One list up.
Shorter(s) == SubSeq(s, 1, Len(s) - 1)
Upper(D, ls, ch, lm, ls2, ch2, lm2) ==
  Len(ls2) = D - 1 /\ \A j \in 1..(D - 1) : ls2[j] = ls[j] /\ ch2[j] = ch[j] /\ lm2[j] = lm[j]
\* A walk goes up to the list of the parent, at the parent's place.
LEMMA WalkedUp ==
  ASSUME NEW H, NEW chi, NEW hp, NEW ls, NEW ch, NEW lm, NEW ls2, NEW ch2, NEW lm2, NEW D,
         Walked(H, chi, hp, ls, ch, lm), Len(ls) = D, D > 1, ls2 = Shorter(ls), ch2 = Shorter(ch), lm2 = Shorter(lm)
  PROVE  Walked(H, chi, hp, ls2, ch2, lm2) /\ Upper(D, ls, ch, lm, ls2, ch2, lm2)
<1>1. /\ ls \in Seq(1..(H + 1)) /\ ch \in Seq(Nat \ {0}) /\ lm \in Seq(Nat) /\ D \in Nat /\ D > 1 /\ Len(ch) = D /\ Len(lm) = D
  <2>1. /\ ls \in Seq(1..(H + 1)) /\ ch \in Seq(Nat \ {0}) /\ lm \in Seq(Nat) /\ Len(ch) = D /\ Len(lm) = D
    BY DEF Walked
  <2>2. D \in Nat
    BY <2>1, LenProperties
  <2> QED
    BY <2>1, <2>2
<1>2. ASSUME NEW S, NEW q \in Seq(S), Len(q) = D
      PROVE  Shorter(q) \in Seq(S) /\ Len(Shorter(q)) = D - 1 /\ \A j \in 1..(D - 1) : Shorter(q)[j] = q[j]
  <2>1. Shorter(q) = SubSeq(q, 1, D - 1)
    BY <1>2 DEF Shorter
  <2>2. \A j \in 1..(D - 1) : q[j] \in S
    <3>1. \A j \in 1..(D - 1) : j \in 1..D
      BY <1>1
    <3> QED
      BY <3>1, <1>2, ElementOfSeq
  <2>3. D - 1 \in Nat /\ D - 1 <= Len(q)
    BY <1>1, <1>2
  <2>4. SubSeq(q, 1, D - 1) = [j \in 1..(D - 1) |-> q[j]]
    BY <2>3, <1>2, SubSeqProperties
  <2>5. SubSeq(q, 1, D - 1) \in Seq(S) /\ Len(SubSeq(q, 1, D - 1)) = D - 1
    BY <2>2, <2>3, <2>4, <1>1, <1>2, SubSeqProperties
  <2> QED
    BY <2>1, <2>4, <2>5
<1>3. ls2 \in Seq(1..(H + 1)) /\ Len(ls2) = D - 1 /\ \A j \in 1..(D - 1) : ls2[j] = ls[j]
  BY <1>1, <1>2
<1>4. ch2 \in Seq(Nat \ {0}) /\ Len(ch2) = D - 1 /\ \A j \in 1..(D - 1) : ch2[j] = ch[j]
  BY <1>1, <1>2
<1>5. lm2 \in Seq(Nat) /\ Len(lm2) = D - 1 /\ \A j \in 1..(D - 1) : lm2[j] = lm[j]
  BY <1>1, <1>2
<1>6. /\ ls[1] = H + 1 /\ Len(hp) = H + 1 /\ hp[H + 1].elems = <<1>>
      /\ (\A j \in 1..D : lm[j] = Len(Row(hp, ls, j)))
      /\ (\A j \in 1..(D - 1) :
            ch[j] <= lm[j] /\ chi[Stop(hp, ls, ch, j)] # 0 /\ ls[j + 1] = chi[Stop(hp, ls, ch, j)])
      /\ (\A i, j \in 1..D : i < j => Above(hp, ls, ch, i) < Above(hp, ls, ch, j))
  BY DEF Walked
<1>7. \A j \in 1..(D - 1) : Row(hp, ls2, j) = Row(hp, ls, j) /\ Stop(hp, ls2, ch2, j) = Stop(hp, ls, ch, j)
  BY <1>3, <1>4 DEF Row, Stop
<1>8. \A j \in 1..(D - 1) : j \in 1..D /\ (j # 1 => j - 1 \in 1..(D - 1))
  BY <1>1
<1>9. \A j \in 1..(D - 1) : Above(hp, ls2, ch2, j) = Above(hp, ls, ch, j)
  BY <1>7, <1>8 DEF Above
<1>10. \A j \in 1..((D - 1) - 1) : j \in 1..(D - 1) /\ j + 1 \in 1..(D - 1)
  BY <1>1
<1>11. D - 1 > 0 /\ 1 \in 1..(D - 1)
  BY <1>1
<1>12. Walked(H, chi, hp, ls2, ch2, lm2)
  <2>1. ls2[1] = H + 1
    BY <1>3, <1>6, <1>11
  <2>2. \A j \in 1..(D - 1) : lm2[j] = Len(Row(hp, ls2, j))
    BY <1>5, <1>6, <1>7, <1>8
  <2>3. \A j \in 1..((D - 1) - 1) :
          ch2[j] <= lm2[j] /\ chi[Stop(hp, ls2, ch2, j)] # 0 /\ ls2[j + 1] = chi[Stop(hp, ls2, ch2, j)]
    BY <1>3, <1>4, <1>5, <1>6, <1>7, <1>10
  <2>4. \A i, j \in 1..(D - 1) : i < j => Above(hp, ls2, ch2, i) < Above(hp, ls2, ch2, j)
    BY <1>6, <1>8, <1>9
  <2> QED
    BY <2>1, <2>2, <2>3, <2>4, <1>3, <1>4, <1>5, <1>6, <1>11 DEF Walked
<1> QED
  BY <1>3, <1>4, <1>5, <1>12 DEF Upper

-----------------------------------------------------------------------------
(* The calls *)

\* A walk has a place in every list, and a limit.
LEMMA WalkedSizes ==
  ASSUME NEW H, NEW chi, NEW hp, NEW ls, NEW ch, NEW lm, Walked(H, chi, hp, ls, ch, lm)
  PROVE  Len(ls) \in Nat /\ Len(ls) > 0 /\ Len(ls) \in 1..Len(ls) /\ Len(ch) = Len(ls) /\ Len(lm) = Len(ls)
<1>1. Len(ls) \in Nat /\ Len(ls) > 0 /\ Len(ch) = Len(ls) /\ Len(lm) = Len(ls)
  BY LenProperties DEF Walked
<1>2. Len(ls) \in 1..Len(ls)
  BY <1>1
<1> QED
  BY <1>1, <1>2

\* PRF_TRAV_POP between a push and its pop finds the pop.
LEMMA PopIsThere ==
  ASSUME NEW N, NEW s \in Seq(1..N), NEW k, Paired(k, s), NEW c \in Nat \ {0}, c <= Len(s),
         \E i \in 1..c : k[s[i]] = "push" /\ \A j \in i..c : k[s[j]] \notin {"pop", "xpop"}
  PROVE  LET pops == {j \in DOMAIN s : j > c /\ k[s[j]] \in {"pop", "xpop"}}
             x == CHOOSE j \in pops : \A i \in pops : j <= i
         IN pops # {} /\ x \in Nat \ {0} /\ x <= Len(s)
<1> DEFINE M == Len(s)
           pops == {j \in DOMAIN s : j > c /\ k[s[j]] \in {"pop", "xpop"}}
           x == CHOOSE j \in pops : \A i \in pops : j <= i
<1>1. M \in Nat /\ DOMAIN s = 1..M
  BY LenProperties
<1>2. PICK i \in 1..c : k[s[i]] = "push" /\ \A j \in i..c : k[s[j]] \notin {"pop", "xpop"}
  OBVIOUS
<1>3. i \in 1..M
  BY <1>1
<1>4. PICK j \in (i + 1)..M : k[s[j]] \in {"pop", "xpop"}
  BY <1>2, <1>3 DEF Paired, Pops
<1>5. j \notin i..c
  BY <1>2, <1>4
<1>6. j > c /\ j \in 1..M
  BY <1>1, <1>3, <1>5
<1>7. j \in pops
  BY <1>1, <1>4, <1>6
<1>8. pops \subseteq 1..M
  BY <1>1
<1> HIDE DEF pops
<1>9. pops \subseteq Nat
  BY <1>1, <1>8
<1>10. \E y \in pops : \A z \in pops : y <= z
  BY <1>7, <1>9, LeastExists
<1>11. x \in pops
  BY <1>10
<1>12. x \in 1..M
  BY <1>8, <1>11
<1> HIDE DEF x
<1>13. pops # {} /\ x \in Nat \ {0} /\ x <= M
  BY <1>1, <1>7, <1>12
<1> QED
  BY <1>13 DEF pops, x
-----------------------------------------------------------------------------
(* Paths from the root, for what the traversals show on the way. *)

\* The nodes an in-order traversal has come down by, the last of them x.
PathTo(N, par, hp, ls, ch, D, x) ==
  /\ D \in Nat /\ D > 0 /\ x \in 1..N /\ x = Stop(hp, ls, ch, D)
  /\ \A l \in 1..D :
       /\ Stop(hp, ls, ch, l) \in 1..N /\ Stop(hp, ls, ch, l) <= x
       /\ par[Stop(hp, ls, ch, l)] = Above(hp, ls, ch, l)
       /\ Above(hp, ls, ch, l) \in Nat /\ Above(hp, ls, ch, l) < Stop(hp, ls, ch, l)
  /\ \A l \in 2..D : l - 1 \in 1..D /\ Above(hp, ls, ch, l) = Stop(hp, ls, ch, l - 1)
  /\ \A l, m \in 1..D : l < m => Above(hp, ls, ch, l) < Above(hp, ls, ch, m)
  /\ Above(hp, ls, ch, 1) = 0
\* A walk that stands at a node has come by such a path.
LEMMA WalkIsPath ==
  ASSUME NEW N, NEW H, NEW k, NEW par, NEW chi, NEW hp, NEW ls, NEW ch, NEW lm, NEW D,
         Shape(N, H, k, par, chi, hp), Walked(H, chi, hp, ls, ch, lm), D = Len(ls), ch[D] <= lm[D]
  PROVE  PathTo(N, par, hp, ls, ch, D, Stop(hp, ls, ch, D))
<1> DEFINE a(l) == Above(hp, ls, ch, l)
           s(l) == Stop(hp, ls, ch, l)
<1>1. D \in Nat /\ D > 0 /\ N \in Nat
  BY WalkedSizes DEF Shape
<1>2. \A l \in 1..D : ch[l] <= lm[l]
  <2>1. \A l \in 1..D : l = D \/ l \in 1..(D - 1)
    BY <1>1
  <2>2. \A l \in 1..(D - 1) : ch[l] <= lm[l]
    BY DEF Walked
  <2> QED
    BY <2>1, <2>2
<1>3. \A l \in 1..D : s(l) \in 1..N /\ par[s(l)] = a(l) /\ a(l) < s(l)
  BY <1>2, RowFacts DEF RowOK
<1>4. \A l \in 1..D : par[s(l)] \in Nat
  BY <1>3, ParentsBefore
<1>5. \A l, m \in 1..D : l < m => a(l) < a(m)
  BY DEF Walked
<1>6. a(1) = 0 /\ \A l \in 2..D : l - 1 \in 1..D /\ l \in 1..D /\ a(l) = s(l - 1)
  <2>1. \A l \in 2..D : l - 1 \in 1..D /\ l \in 1..D /\ l # 1
    BY <1>1
  <2> QED
    BY <2>1 DEF Above
<1> HIDE DEF a, s
<1>7. ASSUME NEW l \in 1..D PROVE s(l) <= s(D)
  <2>1. CASE l = D
    BY <2>1, <1>3
  <2>2. CASE l # D
    <3>1. l + 1 \in 2..D /\ l + 1 \in 1..D /\ (l + 1) - 1 = l /\ D \in 1..D
      BY <2>2, <1>1
    <3>2. a(l + 1) = s(l)
      BY <3>1, <1>6
    <3>3. a(l + 1) <= a(D)
      <4>1. l + 1 = D \/ l + 1 < D
        BY <3>1
      <4>2. a(l + 1) \in Nat /\ a(D) \in Nat
        BY <3>1, <1>3, <1>4
      <4> QED
        BY <3>1, <4>1, <4>2, <1>5
    <3>4. a(D) < s(D) /\ a(D) \in Nat /\ s(D) \in 1..N /\ s(l) \in 1..N
      BY <3>1, <1>3, <1>4
    <3> QED
      BY <3>2, <3>3, <3>4
  <2> QED
    BY <2>1, <2>2
<1>8. \A l \in 1..D : a(l) \in Nat
  BY <1>3, <1>4
<1>9. D \in 1..D
  BY <1>1
<1> QED
  BY <1>1, <1>3, <1>5, <1>6, <1>7, <1>8, <1>9 DEF PathTo, a, s

\* A list of the path has all children of the node above it.
LEMMA RowIsFull ==
  ASSUME NEW N, NEW H, NEW k, NEW par, NEW chi, NEW hp, NEW ls, NEW ch, NEW lm,
         Shape(N, H, k, par, chi, hp), Walked(H, chi, hp, ls, ch, lm), NEW l \in 1..Len(ls),
         NEW n \in 1..N, n # 1, par[n] = Above(hp, ls, ch, l)
  PROVE  \E p \in 1..Len(Row(hp, ls, l)) : n = Row(hp, ls, l)[p]
<1>1. par[n] \in 1..(n - 1) /\ chi[par[n]] # 0 /\ n \in Members(hp[chi[par[n]]].elems) /\ N \in Nat
  <2>1. N \in Nat
    BY DEF Shape
  <2>2. n \in 2..N
    BY <2>1
  <2> QED
    BY <2>1, <2>2 DEF Shape
<1>2. l # 1 /\ Len(ls) \in Nat
  BY <1>1, WalkedSizes DEF Above
<1>3. l - 1 \in 1..(Len(ls) - 1) /\ (l - 1) + 1 = l
  BY <1>2
<1>4. ls[l] = chi[Stop(hp, ls, ch, l - 1)]
  BY <1>3 DEF Walked
<1>5. par[n] = Stop(hp, ls, ch, l - 1)
  BY <1>2 DEF Above
<1>6. n \in Members(Row(hp, ls, l))
  BY <1>1, <1>4, <1>5 DEF Row
<1>7. DOMAIN Row(hp, ls, l) = 1..Len(Row(hp, ls, l))
  <2>1. Row(hp, ls, l) \in Seq(1..N)
    BY RowFacts DEF RowOK
  <2> QED
    BY <2>1, LenProperties
<1> QED
  BY <1>6, <1>7 DEF Members

\* The parents alone: a node stands behind its parent, and the root has none.
TreeOf(N, par) == N \in Nat /\ \A n \in 2..N : par[n] \in 1..(n - 1)
Rooted(N, par) == TreeOf(N, par) /\ par[1] = 0
\* A node with those above it, as a function.
Lineage(N, par, up) == DOMAIN up = 0..N /\ up[0] = {} /\ \A n \in 1..N : up[n] = {n} \cup up[par[n]]
ClosedUp(N, par, S) == \A m \in S : m \in 1..N /\ (par[m] # 0 => par[m] \in S)
\* The recursion of Ancestors has a result: the least sets that are closed upwards.
LEMMA LineageExists ==
  ASSUME NEW N, NEW par, Rooted(N, par)
  PROVE  \E up : Lineage(N, par, up)
<1> DEFINE Least(n) == {m \in 1..N : \A S \in SUBSET (1..N) : (n \in S /\ ClosedUp(N, par, S)) => m \in S}
           up == [n \in 0..N |-> IF n = 0 THEN {} ELSE Least(n)]
<1>1. N \in Nat /\ par[1] = 0 /\ \A n \in 2..N : par[n] \in 1..(n - 1)
  BY DEF Rooted, TreeOf
<1>2. \A n \in 1..N : par[n] \in 0..N /\ (n # 1 => par[n] \in 1..N /\ par[n] # 0)
  <2>1. \A n \in 1..N : n = 1 \/ n \in 2..N
    BY <1>1
  <2>2. \A n \in 2..N : \A p \in 1..(n - 1) : p \in 1..N /\ p # 0 /\ p \in 0..N
    BY <1>1
  <2>3. 0 \in 0..N
    BY <1>1
  <2> QED
    BY <1>1, <2>1, <2>2, <2>3
<1>3. ASSUME NEW n \in 1..N PROVE n \in Least(n) /\ Least(n) \in SUBSET (1..N)
  OBVIOUS
<1>4. ASSUME NEW n \in 1..N PROVE ClosedUp(N, par, Least(n))
  <2> SUFFICES ASSUME NEW m \in Least(n), par[m] # 0 PROVE par[m] \in Least(n)
    BY DEF ClosedUp
  <2>1. m \in 1..N /\ par[m] \in 1..N
    BY <1>1, <1>2
  <2>2. ASSUME NEW S \in SUBSET (1..N), n \in S, ClosedUp(N, par, S) PROVE par[m] \in S
    <3>1. m \in S
      BY <2>2
    <3> QED
      BY <3>1, <2>2 DEF ClosedUp
  <2> QED
    BY <2>1, <2>2
<1>5. ASSUME NEW n \in 1..N, NEW S \in SUBSET (1..N), n \in S, ClosedUp(N, par, S) PROVE Least(n) \subseteq S
  BY <1>5
<1>6. ASSUME NEW n \in 1..N PROVE up[n] = {n} \cup up[par[n]]
  <2>1. up[n] = Least(n) /\ par[n] \in 0..N
    BY <1>1, <1>2
  <2>2. CASE par[n] = 0
    <3>1. up[par[n]] = {}
      BY <2>2, <1>1
    <3>2. {n} \in SUBSET (1..N) /\ ClosedUp(N, par, {n})
      BY <2>2 DEF ClosedUp
    <3>3. Least(n) \subseteq {n}
      BY <3>2, <1>5
    <3> QED
      BY <2>1, <3>1, <3>3, <1>3
  <2>3. CASE par[n] # 0
    <3>1. par[n] \in 1..N
      BY <2>3, <1>1, <1>2
    <3>2. up[par[n]] = Least(par[n])
      BY <3>1, <2>1, <2>3
    <3> DEFINE T == {n} \cup Least(par[n])
    <3>3. T \in SUBSET (1..N) /\ n \in T
      OBVIOUS
    <3>4. ClosedUp(N, par, T)
      <4>1. ClosedUp(N, par, Least(par[n])) /\ par[n] \in Least(par[n])
        BY <3>1, <1>3, <1>4
      <4> HIDE DEF Least
      <4> QED
        BY <4>1 DEF ClosedUp
    <3>5. Least(n) \subseteq T
      <4> HIDE DEF T, Least
      <4> QED
        BY <3>3, <3>4, <1>5
    <3>6. Least(par[n]) \subseteq Least(n)
      <4>1. n \in Least(n) /\ ClosedUp(N, par, Least(n)) /\ Least(n) \in SUBSET (1..N)
        BY <1>3, <1>4
      <4> HIDE DEF Least
      <4>2. par[n] \in Least(n)
        BY <4>1, <2>3 DEF ClosedUp
      <4> QED
        BY <3>1, <4>1, <4>2, <1>5
    <3>7. n \in Least(n)
      BY <1>3
    <3> HIDE DEF Least, up
    <3> QED
      BY <2>1, <3>2, <3>5, <3>6, <3>7
  <2> QED
    BY <2>2, <2>3
<1>7. DOMAIN up = 0..N /\ up[0] = {}
  BY <1>1
<1> HIDE DEF up
<1> QED
  BY <1>6, <1>7 DEF Lineage

\* So Ancestors is what it says.
UpFunction(f) == f = [m \in 0..Len(kind) |-> IF m = 0 THEN {} ELSE {m} \cup f[parent[m]]]
Lines == [n \in 0..Len(kind) |-> Ancestors(n)]
LEMMA AncestorsAre ==
  ASSUME Rooted(Len(kind), parent)
  PROVE  Lineage(Len(kind), parent, Lines)
<1> DEFINE N == Len(kind)
           V == CHOOSE f : UpFunction(f)
<1>1. \A n : Ancestors(n) = V[n]
  BY DEF Ancestors, UpFunction
<1>2. N \in Nat
  BY DEF Rooted, TreeOf
<1>3. Lines = [n \in 0..N |-> V[n]]
  BY <1>1 DEF Lines
<1> HIDE DEF N, V
<1>4. \A n \in 0..N : n = 0 \/ n \in 1..N
  BY <1>2
<1>5. \E f : UpFunction(f)
  <2>1. PICK f : Lineage(N, parent, f)
    BY LineageExists DEF N
  <2> DEFINE g == [n \in 0..N |-> f[n]]
  <2>2. \A n \in 1..N : parent[n] \in 0..N
    <3>1. parent[1] = 0 /\ \A n \in 2..N : parent[n] \in 1..(n - 1)
      BY DEF Rooted, TreeOf, N
    <3>2. \A n \in 1..N : n = 1 \/ n \in 2..N
      BY <1>2
    <3>3. \A n \in 2..N : \A p \in 1..(n - 1) : p \in 0..N
      BY <1>2
    <3>4. 0 \in 0..N
      BY <1>2
    <3> QED
      BY <3>1, <3>2, <3>3, <3>4
  <2>3. \A n \in 0..N : g[n] = f[n]
    OBVIOUS
  <2>4. \A n \in 0..N : f[n] = IF n = 0 THEN {} ELSE {n} \cup g[parent[n]]
    BY <2>1, <2>2, <2>3, <1>4 DEF Lineage
  <2>5. g = [n \in 0..N |-> IF n = 0 THEN {} ELSE {n} \cup g[parent[n]]]
    BY <2>4
  <2> HIDE DEF g
  <2>6. UpFunction(g)
    BY <2>5 DEF UpFunction, N
  <2> QED
    BY <2>6
<1>6. UpFunction(V)
  BY <1>5 DEF V
<1>7. V = [n \in 0..N |-> IF n = 0 THEN {} ELSE {n} \cup V[parent[n]]]
  BY <1>6 DEF UpFunction, N
<1>8. Lines = V
  BY <1>3, <1>7
<1>9. V[0] = {} /\ \A n \in 1..N : V[n] = {n} \cup V[parent[n]]
  <2>1. 0 \in 0..N /\ \A n \in 1..N : n \in 0..N /\ n # 0
    BY <1>2
  <2> QED
    BY <2>1, <1>7
<1>10. DOMAIN V = 0..N
  BY <1>7
<1> QED
  BY <1>8, <1>9, <1>10 DEF Lineage, N

\* The nodes of a path are the line of its last node.
StopsTo(hp, ls, ch, d) == {Stop(hp, ls, ch, l) : l \in 1..d}
LEMMA PathIsLine ==
  ASSUME NEW N, NEW par, NEW up, NEW hp, NEW ls, NEW ch, NEW D, NEW x,
         Rooted(N, par), Lineage(N, par, up), PathTo(N, par, hp, ls, ch, D, x), NEW d \in 1..D
  PROVE  up[Stop(hp, ls, ch, d)] = StopsTo(hp, ls, ch, d)
<1> DEFINE s(l) == Stop(hp, ls, ch, l)
           Wrong == {l \in 1..D : up[s(l)] # StopsTo(hp, ls, ch, l)}
<1>1. D \in Nat /\ \A l \in 1..D : s(l) \in 1..N /\ par[s(l)] = Above(hp, ls, ch, l)
  BY DEF PathTo
<1>2. Above(hp, ls, ch, 1) = 0 /\ \A l \in 2..D : l - 1 \in 1..D /\ Above(hp, ls, ch, l) = s(l - 1)
  BY DEF PathTo
<1>3. \A l \in 1..D : up[s(l)] = {s(l)} \cup up[Above(hp, ls, ch, l)]
  BY <1>1 DEF Lineage
<1>4. up[0] = {}
  BY DEF Lineage
<1>5. StopsTo(hp, ls, ch, 1) = {s(1)}
  <2>1. \A l \in 1..1 : l = 1
    OBVIOUS
  <2>2. 1 \in 1..1
    OBVIOUS
  <2> QED
    BY <2>1, <2>2 DEF StopsTo
<1>6. ASSUME NEW l \in 2..D PROVE StopsTo(hp, ls, ch, l) = {s(l)} \cup StopsTo(hp, ls, ch, l - 1)
  <2>1. \A m : m \in 1..l <=> (m = l \/ m \in 1..(l - 1))
    BY <1>1
  <2> QED
    BY <2>1 DEF StopsTo
<1> HIDE DEF s
<1>7. Wrong = {}
  <2> SUFFICES ASSUME Wrong # {} PROVE FALSE
    OBVIOUS
  <2>1. PICK l \in Wrong : \A m \in Wrong : l <= m
    <3>1. Wrong \subseteq Nat
      OBVIOUS
    <3> HIDE DEF Wrong
    <3> QED
      BY <3>1, LeastExists
  <2>2. l \in 1..D /\ up[s(l)] # StopsTo(hp, ls, ch, l)
    BY <2>1
  <2>3. l # 1
    BY <2>2, <1>2, <1>3, <1>4, <1>5
  <2>4. l \in 2..D /\ l - 1 \in 1..D /\ ~(l <= l - 1)
    BY <2>2, <2>3, <1>1
  <2>5. up[s(l - 1)] = StopsTo(hp, ls, ch, l - 1)
    BY <2>1, <2>4
  <2> QED
    BY ZenonT(30), <2>2, <2>4, <2>5, <1>2, <1>3, <1>6
<1> QED
  BY <1>7 DEF s

\* As many nodes as lists.
LEMMA StopsCount ==
  ASSUME NEW N, NEW par, NEW hp, NEW ls, NEW ch, NEW D, NEW x, PathTo(N, par, hp, ls, ch, D, x)
  PROVE  Cardinality(StopsTo(hp, ls, ch, D)) = D
<1> DEFINE s(l) == Stop(hp, ls, ch, l)
           T(d) == StopsTo(hp, ls, ch, d)
           Right(d) == IsFiniteSet(T(d)) /\ Cardinality(T(d)) = d
           Wrong == {d \in 0..D : ~Right(d)}
<1>1. D \in Nat /\ \A l \in 1..D : s(l) \in Nat /\ Above(hp, ls, ch, l) \in Nat /\ Above(hp, ls, ch, l) < s(l)
  BY DEF PathTo
<1>2. \A l \in 2..D : l - 1 \in 1..D /\ Above(hp, ls, ch, l) = s(l - 1)
  BY DEF PathTo
<1>3. \A l, m \in 1..D : l < m => Above(hp, ls, ch, l) < Above(hp, ls, ch, m)
  BY DEF PathTo
<1>4. Right(0)
  <2>1. T(0) = {}
    BY DEF StopsTo
  <2> QED
    BY <2>1, FS_EmptySet
<1>5. ASSUME NEW d \in 1..D PROVE T(d) = T(d - 1) \cup {s(d)} /\ s(d) \notin T(d - 1)
  <2>1. \A m : m \in 1..d <=> (m = d \/ m \in 1..(d - 1))
    BY <1>1
  <2>2. T(d) = T(d - 1) \cup {s(d)}
    BY <2>1 DEF StopsTo
  <2>3. ASSUME NEW m \in 1..(d - 1) PROVE s(m) # s(d)
    <3>1. m + 1 \in 2..D /\ (m + 1) - 1 = m /\ m \in 1..D /\ m + 1 \in 1..D
      BY <1>1
    <3>2. Above(hp, ls, ch, m + 1) = s(m)
      BY <1>2, <3>1
    <3>3. m + 1 = d \/ m + 1 < d
      BY <1>1
    <3> HIDE DEF s
    <3>4. m + 1 < d => Above(hp, ls, ch, m + 1) < Above(hp, ls, ch, d)
      BY <1>3, <3>1
    <3>5. /\ s(m) \in Nat /\ s(d) \in Nat /\ Above(hp, ls, ch, d) \in Nat /\ Above(hp, ls, ch, d) < s(d)
      BY <1>1, <3>1
    <3>6. m + 1 = d => s(m) = Above(hp, ls, ch, d)
      BY <3>2
    <3> QED
      BY <3>2, <3>3, <3>4, <3>5, <3>6
  <2> QED
    BY <2>2, <2>3 DEF StopsTo
<1> HIDE DEF s, T
<1>6. ASSUME NEW d \in 1..D, Right(d - 1) PROVE Right(d)
  <2>1. IsFiniteSet(T(d - 1)) /\ Cardinality(T(d - 1)) = d - 1
    BY <1>6
  <2>2. IsFiniteSet(T(d - 1) \cup {s(d)}) /\ Cardinality(T(d - 1) \cup {s(d)}) = (d - 1) + 1
    BY <2>1, <1>5, FS_AddElement
  <2>3. (d - 1) + 1 = d
    BY <1>1
  <2> QED
    BY <2>2, <2>3, <1>5
<1> HIDE DEF Right
<1>7. Wrong = {}
  <2> SUFFICES ASSUME Wrong # {} PROVE FALSE
    OBVIOUS
  <2>1. PICK d \in Wrong : \A e \in Wrong : d <= e
    <3>1. Wrong \subseteq Nat
      OBVIOUS
    <3> HIDE DEF Wrong
    <3> QED
      BY <3>1, LeastExists
  <2>2. d \in 0..D /\ ~Right(d) /\ d # 0
    BY <2>1, <1>4
  <2>3. d \in 1..D /\ d - 1 \in 0..D /\ ~(d <= d - 1)
    BY <2>2, <1>1
  <2>4. Right(d - 1)
    BY <2>1, <2>3
  <2> QED
    BY <2>2, <2>3, <2>4, <1>6
<1>8. D \in 0..D
  BY <1>1
<1> QED
  BY <1>7, <1>8 DEF Right, T

\* No node above another comes after it.
LEMMA LineIsBefore ==
  ASSUME NEW N, NEW par, NEW up, Rooted(N, par), Lineage(N, par, up), NEW n \in 1..N
  PROVE  \A m \in up[n] : m \in 1..N /\ m <= n
<1> DEFINE Wrong == {r \in 1..N : ~ \A m \in up[r] : m \in 1..N /\ m <= r}
<1>1. N \in Nat /\ par[1] = 0 /\ \A r \in 2..N : par[r] \in 1..(r - 1)
  BY DEF Rooted, TreeOf
<1>2. Wrong = {}
  <2> SUFFICES ASSUME Wrong # {} PROVE FALSE
    OBVIOUS
  <2>1. PICK r \in Wrong : \A q \in Wrong : r <= q
    <3>1. Wrong \subseteq Nat
      OBVIOUS
    <3> HIDE DEF Wrong
    <3> QED
      BY <3>1, LeastExists
  <2>2. r \in 1..N /\ up[r] = {r} \cup up[par[r]]
    BY <2>1 DEF Lineage
  <2>3. \A m \in up[par[r]] : m \in 1..N /\ m <= r
    <3>1. CASE r = 1
      BY <3>1, <1>1 DEF Lineage
    <3>2. CASE r # 1
      <4>1. par[r] \in 1..N /\ par[r] < r
        <5>1. r \in 2..N
          BY <2>2, <3>2, <1>1
        <5>2. par[r] \in 1..(r - 1)
          BY <5>1, <1>1
        <5> QED
          BY <5>1, <5>2, <1>1
      <4>2. par[r] \notin Wrong
        BY <4>1, <2>1, <2>2
      <4>3. \A m \in up[par[r]] : m \in 1..N /\ m <= par[r]
        BY <4>1, <4>2
      <4> QED
        BY <4>1, <4>3, <2>2
    <3> QED
      BY <3>1, <3>2
  <2> QED
    BY <2>1, <2>2, <2>3
<1> QED
  BY <1>2

-----------------------------------------------------------------------------
(* The traversal state, as the entry and exit functions change it. *)

\* A larger element at the end of a rising sequence.
LEMMA AppendRises ==
  ASSUME NEW N \in Nat, NEW s \in Seq(1..N), Rising(s), NEW x \in 1..N, \A n \in Members(s) : n < x
  PROVE  Append(s, x) \in Seq(1..N) /\ Rising(Append(s, x)) /\ Members(Append(s, x)) = Members(s) \cup {x}
<1> DEFINE M == Len(s)
           t == Append(s, x)
<1>1. t \in Seq(1..N) /\ M \in Nat /\ Len(t) = M + 1 /\ (\A a \in 1..M : t[a] = s[a]) /\ t[M + 1] = x /\ DOMAIN s = 1..M
  BY LenProperties, AppendProperties
<1>2. DOMAIN t = 1..(M + 1)
  BY <1>1, LenProperties
<1> HIDE DEF t, M
<1>3. \A a : a \in 1..(M + 1) <=> (a \in 1..M \/ a = M + 1)
  BY <1>1
<1>4. Members(t) = Members(s) \cup {x}
  BY <1>1, <1>2, <1>3 DEF Members
<1>5. Rising(t)
  <2> SUFFICES ASSUME NEW a \in 1..(M + 1), NEW b \in 1..(M + 1), a < b PROVE t[a] < t[b]
    BY <1>1 DEF Rising
  <2>1. a \in 1..M
    BY <1>1
  <2>2. CASE b \in 1..M
    BY <2>1, <2>2, <1>1 DEF Rising, M
  <2>3. CASE b = M + 1
    <3>1. s[a] \in Members(s)
      BY <2>1, <1>1 DEF Members
    <3>2. s[a] < x
      BY <3>1
    <3> QED
      BY <3>2, <2>1, <2>3, <1>1
  <2> QED
    BY <1>3, <2>2, <2>3
<1> QED
  BY <1>1, <1>4, <1>5 DEF t

\* entry_f of an ancillary node multiplies its matrix into the current one.
Multiplied(k, mx, D, x, mx2) == mx2 = IF k[x] = "anc" THEN [mx EXCEPT ![D] = Append(@, x)] ELSE mx
\* What the call of node n does with a traversal state.
StateFields ==
  {"matrix", "push_level", "header", "materials", "found", "palette", "object", "physical_level"}
During(k, s, n) == entry_f(k[n], n, s)
\* The node is the header that is registered in the state, and cleared the materials.
Registers(k, s, n) == k[n] = "header" /\ s.header = n
LevelOpened(kn, v) == IF kn = "push" THEN (v + 1) % 65536 ELSE v
LevelClosed(kn, v) == IF kn = "pop" THEN (v - 1) % 65536 ELSE v
LEMMA EntryMultiplies ==
  ASSUME NEW k, NEW n, NEW s, DOMAIN s = StateFields
  PROVE  /\ DOMAIN During(k, s, n) = StateFields
         /\ Multiplied(k, s.matrix, Len(s.matrix), n, During(k, s, n).matrix)
         /\ During(k, s, n).found \in {s.found, Append(s.found, n)}
         /\ IF Registers(k, During(k, s, n), n) THEN During(k, s, n).materials = <<>>
            ELSE During(k, s, n).materials \in {s.materials, Append(s.materials, n)}
         /\ During(k, s, n).object = IF k[n] = "plain" THEN n ELSE s.object
         /\ During(k, s, n).push_level = LevelOpened(k[n], s.push_level)
         /\ During(k, s, n).physical_level = s.physical_level
<1> DEFINE t == During(k, s, n)
<1>1. CASE k[n] = "anc"
  <2>1. t = [[[[s EXCEPT !.matrix[Len(s.matrix)] = Append(@, n)]
               EXCEPT !.materials = Append(@, n)]
               EXCEPT !.found = Append(@, n)]
               EXCEPT !.palette = IF @ = 0 THEN n ELSE @]
    BY <1>1 DEF During, entry_f, prf_material_palette_entry_f, prf_texture_entry_f,
                prf_material_entry_f, prf_matrix_entry_f
  <2> HIDE DEF t
  <2> QED
    BY <2>1, <1>1 DEF StateFields, Multiplied, LevelOpened, Registers, t
<1>2. CASE k[n] = "plain"
  <2>1. \/ t = [s EXCEPT !.object = n]
        \/ t = [[s EXCEPT !.object = n] EXCEPT !.found = Append(@, n)]
    BY <1>2 DEF During, entry_f, prf_instance_definition_entry_f, prf_object_entry_f
  <2> HIDE DEF t
  <2>2. /\ DOMAIN t = DOMAIN s /\ t.matrix = s.matrix /\ t.push_level = s.push_level
        /\ t.physical_level = s.physical_level /\ t.materials = s.materials
    BY <2>1 DEF StateFields
  <2>3. t.object = n /\ t.found \in {s.found, Append(s.found, n)}
    <3>1. "object" \in DOMAIN s /\ "found" \in DOMAIN s
      BY DEF StateFields
    <3>2. CASE t = [s EXCEPT !.object = n]
      BY <3>1, <3>2
    <3>3. CASE t = [[s EXCEPT !.object = n] EXCEPT !.found = Append(@, n)]
      BY <3>1, <3>3
    <3> QED
      BY <2>1, <3>2, <3>3
  <2> QED
    BY <2>2, <2>3, <1>2 DEF Multiplied, LevelOpened, Registers, t
<1>3. CASE k[n] = "push"
  <2>1. t = [s EXCEPT !.push_level = (@ + 1) % 65536]
    BY <1>3 DEF During, entry_f, prf_push_level_entry_f
  <2> HIDE DEF t
  <2> QED
    BY <2>1, <1>3 DEF StateFields, Multiplied, LevelOpened, Registers, t
<1>4. CASE k[n] \notin {"anc", "plain", "push", "header"}
  <2>1. t = s
    BY <1>4 DEF During, entry_f
  <2> HIDE DEF t
  <2> QED
    BY <2>1, <1>4 DEF Multiplied, LevelOpened, Registers, t
<1>5. CASE k[n] = "header"
  <2>1. IF s.header \in {0, n} THEN t = [[s EXCEPT !.header = n] EXCEPT !.materials = <<>>] ELSE t = s
    BY <1>5 DEF During, entry_f, prf_header_entry_f
  <2> HIDE DEF t
  <2>2. CASE s.header \in {0, n}
    <3>1. t = [[s EXCEPT !.header = n] EXCEPT !.materials = <<>>]
      BY <2>1, <2>2
    <3>2. /\ DOMAIN t = DOMAIN s /\ t.matrix = s.matrix /\ t.push_level = s.push_level
          /\ t.physical_level = s.physical_level /\ t.found = s.found /\ t.object = s.object
      BY <3>1 DEF StateFields
    <3>3. "header" \in DOMAIN s /\ "materials" \in DOMAIN s
      BY DEF StateFields
    <3>4. t.header = n /\ t.materials = <<>>
      BY <3>1, <3>3
    <3> QED
      BY <3>2, <3>4, <1>5 DEF Multiplied, LevelOpened, Registers, t
  <2>3. CASE s.header \notin {0, n}
    BY <2>1, <2>3, <1>5 DEF Multiplied, LevelOpened, Registers, t
  <2> QED
    BY <2>2, <2>3
<1> QED
  BY <1>1, <1>2, <1>3, <1>4, <1>5

\* What the exit function takes back: the object, and the level that a pop closes.
LEMMA ExitResets ==
  ASSUME NEW kn, NEW n, NEW s, DOMAIN s = StateFields, NEW e, e = exit_f(kn, n, s)
  PROVE  /\ DOMAIN e = StateFields /\ e.matrix = s.matrix /\ e.found = s.found /\ e.materials = s.materials
         /\ e.object = IF kn = "plain" THEN 0 ELSE s.object
         /\ e.push_level = LevelClosed(kn, s.push_level)
         /\ e.physical_level = s.physical_level
<1>1. CASE kn = "plain"
  <2>1. e = [s EXCEPT !.object = 0]
    BY <1>1 DEF exit_f, prf_object_exit_f
  <2> QED
    BY <2>1, <1>1 DEF StateFields, LevelClosed
<1>2. CASE kn = "pop"
  <2>1. e = [s EXCEPT !.push_level = (@ - 1) % 65536]
    BY <1>2 DEF exit_f, prf_pop_level_exit_f
  <2> QED
    BY <2>1, <1>2 DEF StateFields, LevelClosed
<1>3. CASE kn \notin {"plain", "pop"}
  <2>1. e = s
    BY <1>3 DEF exit_f
  <2> QED
    BY <2>1, <1>3 DEF LevelClosed
<1> QED
  BY <1>1, <1>2, <1>3

\* A sequence, whatever its elements.
IsSequence(s) == s \in Seq({s[x] : x \in 1..Len(s)})
\* A sequence over some set is a sequence.
LEMMA SequenceOfAny ==
  ASSUME NEW S, NEW s \in Seq(S)
  PROVE  IsSequence(s) /\ Len(s) \in Nat
<1>1. \A x \in 1..Len(s) : s[x] \in {s[y] : y \in 1..Len(s)}
  OBVIOUS
<1>2. s \in Seq({s[y] : y \in 1..Len(s)})
  BY <1>1, SeqOver
<1> QED
  BY <1>2, LenProperties DEF IsSequence

\* One element more.
LEMMA AppendAny ==
  ASSUME NEW s, NEW e, IsSequence(s)
  PROVE  /\ IsSequence(Append(s, e)) /\ Len(s) \in Nat /\ Len(Append(s, e)) = Len(s) + 1
         /\ Append(s, e)[Len(s) + 1] = e /\ \A x \in 1..Len(s) : Append(s, e)[x] = s[x]
<1> DEFINE S == {s[x] : x \in 1..Len(s)}
           T == S \cup {e}
<1>1. s \in Seq(S)
  BY DEF IsSequence
<1>2. \A x \in 1..Len(s) : s[x] \in T
  OBVIOUS
<1>3. e \in T
  OBVIOUS
<1> HIDE DEF S, T
<1>4. s \in Seq(T)
  BY <1>1, <1>2, SeqOver
<1>5. /\ Append(s, e) \in Seq(T) /\ Len(Append(s, e)) = Len(s) + 1
      /\ Append(s, e)[Len(s) + 1] = e /\ \A x \in 1..Len(s) : Append(s, e)[x] = s[x]
  BY <1>3, <1>4, AppendProperties
<1> QED
  BY <1>1, <1>5, SequenceOfAny, LenProperties
=============================================================================
