--------------------------- MODULE ConverterProofs ---------------------------
(***************************************************************************)
(* Proofs about the tree of points and the conversion, for every number of *)
(* points and of faces, every shape of file, and every way the leaves of   *)
(* the tree may be split.                                                  *)
(*                                                                         *)
(* The tree.  A search goes from a node to the one of its two children     *)
(* that lies on the side of the point, so a point has one route from the   *)
(* root to a leaf.  The invariant says that every index stands in the leaf *)
(* that the route of its point reaches, and that the point of the call in  *)
(* progress reaches the node at which the call stands.  A split replaces a *)
(* leaf by a node with two leaves, and moves its indices along the routes  *)
(* of their points.                                                        *)
(*                                                                         *)
(* The conversion.  Only the innermost face of the walk can be in its list,*)
(* and the vertices collected are then its own; otherwise they are loose:  *)
(* of no list, or of lists that were cut.  A step leaves the faces whose   *)
(* list is over as they are (Later), so every shape drawn stays right, and *)
(* the set that takes one more shape is of the point of the look of the    *)
(* face that the code has under way.                                       *)
(***************************************************************************)
EXTENDS Converter, SequenceTheorems, FiniteSetTheorems, WellFoundedInduction, TLAPS

-----------------------------------------------------------------------------
\* Every non-empty set of naturals has a least element: the first free slot of
\* a table, and the least counterexample in a proof by induction.
LEMMA LeastExists ==
  ASSUME NEW S, S \subseteq Nat, S # {}
  PROVE  \E x \in S : \A y \in S : x <= y
<1>1. PICK n \in S : TRUE
  OBVIOUS
<1> DEFINE U == 0..n
           T == {0..k : k \in {s \in S : s <= n}}
<1>2. IsFiniteSet(U)
  BY FS_Interval
<1>3. IsWellFoundedOn(StrictSubsetOrdering(U), FiniteSubsetsOf(U))
  BY FS_StrictSubsetOrderingWellFounded
<1>4. T \subseteq FiniteSubsetsOf(U) /\ T # {}
  <2>1. ASSUME NEW k \in S, k <= n PROVE 0..k \in FiniteSubsetsOf(U)
    BY <2>1, FS_Interval DEF FiniteSubsetsOf
  <2> QED
    BY <2>1
<1> HIDE DEF T, U
<1>5. PICK x \in T : \A y \in T : ~(<<y, x>> \in StrictSubsetOrdering(U))
  BY <1>3, <1>4, WFMin
<1>6. PICK k \in S : k <= n /\ x = 0..k
  BY <1>5 DEF T
<1>7. ASSUME NEW y \in S PROVE k <= y
  <2>1. SUFFICES ASSUME y < k PROVE FALSE
    BY <1>6
  <2>2. 0..y \in T
    BY <1>6, <2>1 DEF T
  <2>3. 0..y \subseteq 0..k /\ 0..y # 0..k /\ 0..y \in SUBSET U /\ 0..k \in SUBSET U
    BY <1>6, <2>1 DEF U
  <2>4. <<0..y, x>> \in StrictSubsetOrdering(U)
    BY <1>6, <2>3 DEF StrictSubsetOrdering
  <2> QED
    BY <1>5, <2>2, <2>4
<1> QED
  BY <1>7

-----------------------------------------------------------------------------
(* Routes: where a search for a point goes on from each node. *)

SideOf(nd, n, p) == IF p[nd[n].splitdim] >= nd[n].splitpos THEN nd[n].ge ELSE nd[n].lt
IsRoute(f, nd, k, p) ==
  f = [n \in k..Len(nd) |-> IF nd[n].splitdim = 0 THEN n ELSE f[SideOf(nd, n, p)]]
Route(nd, p) ==
  CHOOSE at : at = [n \in DOMAIN nd |-> IF nd[n].splitdim = 0 THEN n ELSE at[SideOf(nd, n, p)]]
Goes(f, nd, p) ==
  \A n \in 1..Len(nd) : f[n] = IF nd[n].splitdim = 0 THEN n ELSE f[SideOf(nd, n, p)]

\* Nodes stand before the nodes below them.
Links(nd) ==
  /\ Len(nd) \in Nat \ {0} /\ DOMAIN nd = 1..Len(nd)
  /\ \A n \in 1..Len(nd) : nd[n].splitdim # 0 =>
       nd[n].ge \in (n + 1)..Len(nd) /\ nd[n].lt \in (n + 1)..Len(nd)

\* A search goes from a node to one further down.
LEMMA SideBelow ==
  ASSUME NEW nd, Links(nd), NEW p, NEW n \in 1..Len(nd), nd[n].splitdim # 0
  PROVE  SideOf(nd, n, p) \in (n + 1)..Len(nd)
BY DEF Links, SideOf

\* A route from the last nodes can be continued upwards.
LEMMA RouteFrom ==
  ASSUME NEW nd, Links(nd), NEW p, NEW k \in 1..Len(nd), NEW g, IsRoute(g, nd, k + 1, p)
  PROVE  \E f : IsRoute(f, nd, k, p)
<1> DEFINE f == [n \in k..Len(nd) |-> IF n = k THEN IF nd[k].splitdim = 0 THEN k ELSE g[SideOf(nd, k, p)]
                                              ELSE g[n]]
<1>1. Len(nd) \in Nat /\ k \in Nat
  BY DEF Links
<1>2. \A n \in k..Len(nd) : nd[n].splitdim # 0 => SideOf(nd, n, p) \in (n + 1)..Len(nd)
  BY <1>1, SideBelow
<1>3. \A n \in (k + 1)..Len(nd) : g[n] = IF nd[n].splitdim = 0 THEN n ELSE g[SideOf(nd, n, p)]
  BY DEF IsRoute
<1>4. \A n \in (k + 1)..Len(nd) : n \in k..Len(nd) /\ f[n] = g[n]
  BY <1>1
<1>5. ASSUME NEW n \in k..Len(nd)
      PROVE  f[n] = IF nd[n].splitdim = 0 THEN n ELSE f[SideOf(nd, n, p)]
  <2>1. nd[n].splitdim # 0 => SideOf(nd, n, p) \in (k + 1)..Len(nd)
    BY <1>1, <1>2
  <2>2. nd[n].splitdim # 0 => f[SideOf(nd, n, p)] = g[SideOf(nd, n, p)]
    BY <1>4, <2>1
  <2>3. CASE n = k
    <3>1. f[n] = IF nd[k].splitdim = 0 THEN k ELSE g[SideOf(nd, k, p)]
      BY <2>3
    <3> HIDE DEF f
    <3> QED
      BY <2>2, <2>3, <3>1
  <2>4. CASE n # k
    <3>1. n \in (k + 1)..Len(nd)
      BY <1>1, <2>4
    <3>2. f[n] = g[n]
      BY <3>1, <1>4
    <3> HIDE DEF f
    <3> QED
      BY <1>3, <2>2, <3>1, <3>2
  <2> QED
    BY <2>3, <2>4
<1>6. f = [n \in k..Len(nd) |-> f[n]]
  OBVIOUS
<1> HIDE DEF f
<1>7. IsRoute(f, nd, k, p)
  BY <1>5, <1>6 DEF IsRoute
<1> QED
  BY <1>7

\* There is one route.
LEMMA RouteIs ==
  ASSUME NEW nd, Links(nd), NEW p
  PROVE  Goes(Route(nd, p), nd, p)
<1> DEFINE L == Len(nd)
           Wrong == {m \in 0..L : ~\E f : IsRoute(f, nd, L + 1 - m, p)}
<1>1. L \in Nat \ {0} /\ DOMAIN nd = 1..L
  BY DEF Links
<1>2. Wrong = {}
  <2> SUFFICES ASSUME Wrong # {} PROVE FALSE
    OBVIOUS
  <2>1. PICK m \in Wrong : \A q \in Wrong : m <= q
    <3>1. Wrong \subseteq Nat
      BY <1>1
    <3> HIDE DEF Wrong
    <3> QED
      BY <3>1, LeastExists
  <2>2. m \in 0..L /\ ~\E f : IsRoute(f, nd, L + 1 - m, p)
    BY <2>1
  <2>3. CASE m = 0
    <3>1. (L + 1)..L = {} /\ L + 1 - m = L + 1
      BY <1>1, <2>3
    <3>2. IsRoute([n \in {} |-> 0], nd, L + 1, p)
      BY <3>1 DEF IsRoute
    <3> QED
      BY <2>2, <3>1, <3>2
  <2>4. CASE m # 0
    <3>1. m - 1 \in 0..L /\ m - 1 < m /\ L + 1 - m \in 1..L /\ L + 1 - (m - 1) = (L + 1 - m) + 1
      BY <1>1, <2>2, <2>4
    <3>2. m - 1 \notin Wrong
      BY <1>1, <2>1, <2>2, <3>1
    <3>3. PICK g : IsRoute(g, nd, L + 1 - (m - 1), p)
      BY <3>1, <3>2
    <3>4. IsRoute(g, nd, (L + 1 - m) + 1, p)
      BY <3>1, <3>3
    <3> PICK k : k = L + 1 - m
      OBVIOUS
    <3>5. k \in 1..Len(nd) /\ IsRoute(g, nd, k + 1, p)
      BY <3>1, <3>4
    <3>6. \E f : IsRoute(f, nd, k, p)
      BY <3>5, RouteFrom
    <3> QED
      BY <2>2, <3>6
  <2> QED
    BY <2>3, <2>4
<1>3. \E f : IsRoute(f, nd, 1, p)
  <2>1. L \in 0..L /\ L \notin Wrong /\ L + 1 - L = 1
    BY <1>1, <1>2
  <2> QED
    BY <2>1
<1>4. \E f : f = [n \in DOMAIN nd |-> IF nd[n].splitdim = 0 THEN n ELSE f[SideOf(nd, n, p)]]
  BY <1>1, <1>3 DEF IsRoute
<1>5. Route(nd, p) = [n \in DOMAIN nd |-> IF nd[n].splitdim = 0 THEN n ELSE Route(nd, p)[SideOf(nd, n, p)]]
  BY <1>4 DEF Route
<1> QED
  BY <1>1, <1>5 DEF Goes

\* Two functions that both go this way agree.
LEMMA RouteUnique ==
  ASSUME NEW nd, Links(nd), NEW p, NEW f, Goes(f, nd, p), NEW g, Goes(g, nd, p)
  PROVE  \A n \in 1..Len(nd) : f[n] = g[n]
<1> DEFINE L == Len(nd)
           Wrong == {m \in 0..L : L - m \in 1..L /\ f[L - m] # g[L - m]}
<1>1. L \in Nat
  BY DEF Links
<1>2. Wrong = {}
  <2> SUFFICES ASSUME Wrong # {} PROVE FALSE
    OBVIOUS
  <2>1. PICK m \in Wrong : \A q \in Wrong : m <= q
    <3>1. Wrong \subseteq Nat
      BY <1>1
    <3> HIDE DEF Wrong
    <3> QED
      BY <3>1, LeastExists
  <2> PICK n : n = L - m
    OBVIOUS
  <2>2. m \in 0..L /\ n \in 1..L /\ f[n] # g[n]
    BY <2>1
  <2>3. nd[n].splitdim # 0
    BY <2>2 DEF Goes
  <2> PICK b : b = SideOf(nd, n, p)
    OBVIOUS
  <2>4. b \in (n + 1)..L /\ f[b] # g[b]
    BY <2>2, <2>3, SideBelow DEF Goes
  <2>5. L - b \in 0..L /\ L - (L - b) = b /\ b \in 1..L /\ ~(m <= L - b)
    BY <1>1, <2>2, <2>4
  <2>6. L - b \in Wrong
    BY <2>4, <2>5
  <2> QED
    BY <2>1, <2>5, <2>6
<1>3. ASSUME NEW n \in 1..L PROVE f[n] = g[n]
  <2>1. L - n \in 0..L /\ L - (L - n) = n
    BY <1>1
  <2> QED
    BY <1>2, <2>1
<1> QED
  BY <1>3

\* A route ends in a leaf.
LEMMA RouteEnds ==
  ASSUME NEW nd, Links(nd), NEW p, NEW f, Goes(f, nd, p)
  PROVE  \A n \in 1..Len(nd) : f[n] \in 1..Len(nd) /\ nd[f[n]].splitdim = 0
<1> DEFINE L == Len(nd)
           Fine(n) == f[n] \in 1..L /\ nd[f[n]].splitdim = 0
           Wrong == {m \in 0..L : L - m \in 1..L /\ ~Fine(L - m)}
<1>1. L \in Nat
  BY DEF Links
<1>2. Wrong = {}
  <2> SUFFICES ASSUME Wrong # {} PROVE FALSE
    OBVIOUS
  <2>1. PICK m \in Wrong : \A q \in Wrong : m <= q
    <3>1. Wrong \subseteq Nat
      BY <1>1
    <3> HIDE DEF Wrong
    <3> QED
      BY <3>1, LeastExists
  <2> PICK n : n = L - m
    OBVIOUS
  <2>2. m \in 0..L /\ n \in 1..L /\ ~Fine(n)
    BY <2>1
  <2>3. nd[n].splitdim # 0
    BY <2>2 DEF Goes
  <2> PICK b : b = SideOf(nd, n, p)
    OBVIOUS
  <2>4. b \in (n + 1)..L /\ f[n] = f[b]
    BY <2>2, <2>3, SideBelow DEF Goes
  <2>5. L - b \in 0..L /\ L - (L - b) = b /\ b \in 1..L /\ ~(m <= L - b)
    BY <1>1, <2>2, <2>4
  <2>6. ~Fine(b)
    BY <2>2, <2>4
  <2>7. L - b \in Wrong
    BY <2>5, <2>6
  <2> QED
    BY <2>1, <2>5, <2>7
<1>3. ASSUME NEW n \in 1..L PROVE Fine(n)
  <2>1. L - n \in 0..L /\ L - (L - n) = n
    BY <1>1
  <2> QED
    BY <1>2, <2>1
<1> QED
  BY <1>3

\* Only the parts of the nodes that say where to go matter.
SameLinks(nd, nd2) ==
  /\ Len(nd2) = Len(nd) /\ DOMAIN nd2 = DOMAIN nd
  /\ \A n \in 1..Len(nd) : /\ nd2[n].splitdim = nd[n].splitdim /\ nd2[n].splitpos = nd[n].splitpos
                           /\ nd2[n].ge = nd[n].ge /\ nd2[n].lt = nd[n].lt
LEMMA SameRoute ==
  ASSUME NEW nd, NEW nd2, Links(nd), SameLinks(nd, nd2), NEW p
  PROVE  Links(nd2) /\ \A n \in 1..Len(nd) : Route(nd2, p)[n] = Route(nd, p)[n]
<1>1. Links(nd2)
  BY DEF Links, SameLinks
<1>2. Goes(Route(nd2, p), nd2, p) /\ Goes(Route(nd, p), nd, p)
  BY <1>1, RouteIs
<1>3. \A n \in 1..Len(nd) : SideOf(nd2, n, p) = SideOf(nd, n, p)
  BY DEF SideOf, SameLinks
<1>4. Goes(Route(nd2, p), nd, p)
  BY <1>2, <1>3 DEF Goes, SameLinks
<1> QED
  BY <1>1, <1>2, <1>4, RouteUnique

\* Leaf a has become a node with two leaves behind the others.
SplitAt(nd, nd2, a) ==
  /\ a \in 1..Len(nd) /\ nd[a].splitdim = 0
  /\ Len(nd2) = Len(nd) + 2 /\ DOMAIN nd2 = 1..Len(nd2)
  /\ \A n \in 1..Len(nd) : n # a => nd2[n] = nd[n]
  /\ nd2[a].splitdim # 0 /\ nd2[a].ge = Len(nd) + 1 /\ nd2[a].lt = Len(nd) + 2
  /\ nd2[Len(nd) + 1].splitdim = 0 /\ nd2[Len(nd) + 2].splitdim = 0
\* Only the searches that ended in that leaf change: they go one node further.
LEMMA SplitRoute ==
  ASSUME NEW nd, NEW nd2, NEW a, Links(nd), SplitAt(nd, nd2, a), NEW p
  PROVE  /\ Links(nd2)
         /\ \A n \in 1..Len(nd) : Route(nd2, p)[n] = IF Route(nd, p)[n] = a THEN SideOf(nd2, a, p)
                                                     ELSE Route(nd, p)[n]
<1> DEFINE L == Len(nd)
           f == Route(nd, p)
           g == Route(nd2, p)
           s == SideOf(nd2, a, p)
           h == [n \in 1..L |-> IF g[n] = s THEN a ELSE g[n]]
<1>1. L \in Nat \ {0} /\ a \in 1..L /\ Len(nd2) = L + 2
  BY DEF Links, SplitAt
<1>2. Links(nd2)
  <2>1. ASSUME NEW n \in 1..Len(nd2), nd2[n].splitdim # 0
        PROVE  nd2[n].ge \in (n + 1)..Len(nd2) /\ nd2[n].lt \in (n + 1)..Len(nd2)
    <3>1. CASE n = a
      BY <1>1, <3>1 DEF SplitAt
    <3>2. CASE n # a
      <4>1. n \in 1..L
        BY <1>1, <2>1 DEF SplitAt
      <4> QED
        BY <1>1, <2>1, <3>2, <4>1 DEF SplitAt, Links
    <3> QED
      BY <3>1, <3>2
  <2> QED
    BY <1>1, <2>1 DEF Links, SplitAt
<1>3. Goes(f, nd, p) /\ Goes(g, nd2, p)
  BY <1>2, RouteIs
<1>4. s \in {L + 1, L + 2}
  BY DEF SideOf, SplitAt
<1>5. g[s] = s /\ g[a] = s
  BY <1>1, <1>3, <1>4 DEF Goes, SplitAt
<1>6. \A n \in 1..L : n # a => SideOf(nd2, n, p) = SideOf(nd, n, p) /\ nd2[n].splitdim = nd[n].splitdim
  BY DEF SideOf, SplitAt
<1> HIDE DEF f, g, s
<1>7. Goes(h, nd, p)
  <2> SUFFICES ASSUME NEW n \in 1..L PROVE h[n] = IF nd[n].splitdim = 0 THEN n ELSE h[SideOf(nd, n, p)]
    BY DEF Goes
  <2>1. CASE n = a
    <3>1. nd[n].splitdim = 0
      BY <2>1 DEF SplitAt
    <3> QED
      BY <1>1, <1>5, <2>1, <3>1
  <2>2. CASE n # a /\ nd[n].splitdim = 0
    <3>1. g[n] = n /\ n # s
      BY <1>1, <1>3, <1>4, <1>6, <2>2 DEF Goes
    <3> QED
      BY <2>2, <3>1
  <2>3. CASE n # a /\ nd[n].splitdim # 0
    <3>1. SideOf(nd, n, p) \in 1..L
      BY <1>1, <2>3, SideBelow
    <3>2. g[n] = g[SideOf(nd, n, p)]
      BY <1>1, <1>3, <1>6, <2>3 DEF Goes
    <3> QED
      BY <2>3, <3>1, <3>2
  <2> QED
    BY <2>1, <2>2, <2>3
<1>8. \A n \in 1..L : h[n] = f[n] /\ f[n] \in 1..L
  BY <1>3, <1>7, RouteUnique, RouteEnds
<1>9. ASSUME NEW n \in 1..L PROVE g[n] = IF f[n] = a THEN s ELSE f[n]
  <2>1. CASE g[n] = s
    <3>1. h[n] = a
      BY <2>1
    <3> QED
      BY <1>8, <2>1, <3>1
  <2>2. CASE g[n] # s
    <3>1. h[n] = g[n]
      BY <2>2
    <3>2. f[n] = g[n]
      BY <1>8, <3>1
    <3>3. f[n] # a
      <4> SUFFICES ASSUME g[n] = a PROVE FALSE
        BY <3>2
      <4>1. nd2[g[n]].splitdim = 0
        <5>1. n \in 1..Len(nd2)
          BY <1>1
        <5> QED
          BY <1>2, <1>3, <5>1, RouteEnds
      <4> QED
        BY <4>1 DEF SplitAt
    <3> QED
      BY <3>2, <3>3
  <2> QED
    BY <2>1, <2>2
<1> QED
  BY <1>2, <1>9 DEF f, g, s

-----------------------------------------------------------------------------
(* The arrays of indices in the leaves. *)

\* c holds those of the first n elements of s that are in S, in their order.
Picked(c, s, S, n) ==
  /\ c \in Seq(Nat)
  /\ \A k \in 1..Len(c) : \E x \in 1..n : c[k] = s[x] /\ s[x] \in S
  /\ \A x \in 1..n : s[x] \in S => \E k \in 1..Len(c) : c[k] = s[x]
  /\ \A k, m \in 1..Len(c) : k < m => \E x, y \in 1..n : x < y /\ c[k] = s[x] /\ c[m] = s[y]

\* Of no elements none are held.
LEMMA PickedNone ==
  ASSUME NEW s, NEW S PROVE Picked(<<>>, s, S, 0)
<1>1. <<>> \in Seq(Nat) /\ Len(<<>>) = 0
  OBVIOUS
<1>2. 1..0 = {}
  OBVIOUS
<1> QED
  BY <1>1, <1>2 DEF Picked

\* The next element is left out.
LEMMA PickedNot ==
  ASSUME NEW s, NEW S, NEW c, NEW n \in Nat, Picked(c, s, S, n), s[n + 1] \notin S
  PROVE  Picked(c, s, S, n + 1)
<1>1. \A x : x \in 1..(n + 1) <=> (x \in 1..n \/ x = n + 1)
  OBVIOUS
<1>2. c \in Seq(Nat)
  BY DEF Picked
<1>3. \A k \in 1..Len(c) : \E x \in 1..(n + 1) : c[k] = s[x] /\ s[x] \in S
  BY <1>1 DEF Picked
<1>4. \A x \in 1..(n + 1) : s[x] \in S => \E k \in 1..Len(c) : c[k] = s[x]
  BY <1>1 DEF Picked
<1>5. \A k, m \in 1..Len(c) : k < m => \E x, y \in 1..(n + 1) : x < y /\ c[k] = s[x] /\ c[m] = s[y]
  BY <1>1 DEF Picked
<1> QED
  BY <1>2, <1>3, <1>4, <1>5 DEF Picked

\* The next element is taken.
LEMMA PickedNext ==
  ASSUME NEW s, NEW S, NEW c, NEW n \in Nat, Picked(c, s, S, n), s[n + 1] \in S, s[n + 1] \in Nat
  PROVE  Picked(Append(c, s[n + 1]), s, S, n + 1)
<1> PICK e : e = s[n + 1]
  OBVIOUS
<1> PICK d : d = Append(c, e)
  OBVIOUS
<1>1. \A x : x \in 1..(n + 1) <=> (x \in 1..n \/ x = n + 1)
  OBVIOUS
<1>2. c \in Seq(Nat) /\ e \in Nat
  BY DEF Picked
<1>3. /\ d \in Seq(Nat) /\ Len(d) = Len(c) + 1 /\ d[Len(c) + 1] = e
      /\ \A k \in 1..Len(c) : d[k] = c[k]
  BY <1>2, AppendProperties
<1>4. Len(c) \in Nat /\ \A k : k \in 1..Len(d) <=> (k \in 1..Len(c) \/ k = Len(c) + 1)
  BY <1>2, <1>3
<1>5. ASSUME NEW k \in 1..Len(d) PROVE \E x \in 1..(n + 1) : d[k] = s[x] /\ s[x] \in S
  <2>1. CASE k \in 1..Len(c)
    BY <1>1, <1>3, <2>1 DEF Picked
  <2>2. CASE k = Len(c) + 1
    <3>1. n + 1 \in 1..(n + 1) /\ d[k] = s[n + 1]
      BY <1>3, <2>2
    <3> QED
      BY <3>1
  <2> QED
    BY <1>4, <2>1, <2>2
<1>6. ASSUME NEW x \in 1..(n + 1), s[x] \in S PROVE \E k \in 1..Len(d) : d[k] = s[x]
  <2>1. CASE x \in 1..n
    <3>1. PICK k \in 1..Len(c) : c[k] = s[x]
      BY <1>6, <2>1 DEF Picked
    <3> QED
      BY <1>3, <1>4, <3>1
  <2>2. CASE x = n + 1
    BY <1>3, <1>4, <2>2
  <2> QED
    BY <1>1, <2>1, <2>2
<1>7. ASSUME NEW k \in 1..Len(d), NEW m \in 1..Len(d), k < m
      PROVE  \E x, y \in 1..(n + 1) : x < y /\ d[k] = s[x] /\ d[m] = s[y]
  <2>1. k \in 1..Len(c)
    BY <1>3, <1>4, <1>7
  <2>2. CASE m \in 1..Len(c)
    <3>1. PICK x \in 1..n, y \in 1..n : x < y /\ c[k] = s[x] /\ c[m] = s[y]
      BY <1>7, <2>1, <2>2 DEF Picked
    <3> QED
      BY <1>1, <1>3, <2>1, <2>2, <3>1
  <2>3. CASE m = Len(c) + 1
    <3>1. PICK x \in 1..n : c[k] = s[x]
      BY <2>1 DEF Picked
    <3>2. x \in 1..(n + 1) /\ n + 1 \in 1..(n + 1) /\ x < n + 1
      OBVIOUS
    <3> QED
      BY <1>3, <2>1, <2>3, <3>1, <3>2
  <2> QED
    BY <1>4, <2>2, <2>3
<1>8. Picked(d, s, S, n + 1)
  BY <1>3, <1>5, <1>6, <1>7 DEF Picked
<1> QED
  BY <1>8

ChosenUpTo(f, s, S, n) ==
  f = [k \in 0..n |-> IF k = 0 THEN <<>>
                      ELSE IF s[k] \in S THEN Append(f[k - 1], s[k]) ELSE f[k - 1]]
LEMMA ChosenNext ==
  ASSUME NEW s, NEW S, NEW n \in Nat, NEW g, ChosenUpTo(g, s, S, n)
  PROVE  \E f : ChosenUpTo(f, s, S, n + 1)
<1> DEFINE f == [k \in 0..(n + 1) |->
                   IF k = n + 1 THEN IF s[k] \in S THEN Append(g[n], s[k]) ELSE g[n] ELSE g[k]]
<1>1. \A k \in 0..n : f[k] = g[k]
  OBVIOUS
<1>2. \A k \in 0..n : g[k] = IF k = 0 THEN <<>>
                             ELSE IF s[k] \in S THEN Append(g[k - 1], s[k]) ELSE g[k - 1]
  BY DEF ChosenUpTo
<1>3. ASSUME NEW k \in 0..(n + 1)
      PROVE  f[k] = IF k = 0 THEN <<>> ELSE IF s[k] \in S THEN Append(f[k - 1], s[k]) ELSE f[k - 1]
  <2>1. CASE k = n + 1
    <3>1. n \in 0..n /\ k - 1 = n /\ k # 0
      BY <2>1
    <3>2. f[k - 1] = g[n]
      BY <1>1, <3>1
    <3>3. f[k] = IF s[k] \in S THEN Append(g[n], s[k]) ELSE g[n]
      BY <2>1
    <3> HIDE DEF f
    <3> QED
      BY <3>1, <3>2, <3>3
  <2>2. CASE k # n + 1
    <3>1. k \in 0..n /\ (k # 0 => k - 1 \in 0..n)
      BY <2>2
    <3> HIDE DEF f
    <3> QED
      BY <1>1, <1>2, <3>1
  <2> QED
    BY <2>1, <2>2
<1>4. f = [k \in 0..(n + 1) |-> f[k]]
  OBVIOUS
<1> HIDE DEF f
<1>5. ChosenUpTo(f, s, S, n + 1)
  BY <1>3, <1>4 DEF ChosenUpTo
<1> QED
  BY <1>5

\* The loop ends for every array, by the least number at which it would not.
LEMMA ChosenExists ==
  ASSUME NEW s, NEW S, NEW n \in Nat
  PROVE  \E f : ChosenUpTo(f, s, S, n)
<1> DEFINE Wrong == {m \in Nat : ~\E f : ChosenUpTo(f, s, S, m)}
<1> SUFFICES ASSUME Wrong # {} PROVE FALSE
  OBVIOUS
<1>1. PICK m \in Wrong : \A q \in Wrong : m <= q
  <2>1. Wrong \subseteq Nat
    OBVIOUS
  <2> HIDE DEF Wrong
  <2> QED
    BY <2>1, LeastExists
<1>2. CASE m = 0
  <2>1. ChosenUpTo([k \in 0..0 |-> <<>>], s, S, 0)
    BY DEF ChosenUpTo
  <2> QED
    BY <1>1, <1>2, <2>1
<1>3. CASE m # 0
  <2>1. m - 1 \in Nat /\ ~(m <= m - 1) /\ (m - 1) + 1 = m
    BY <1>1, <1>3
  <2>2. m - 1 \notin Wrong
    BY <1>1, <2>1
  <2>3. PICK g : ChosenUpTo(g, s, S, m - 1)
    BY <2>1, <2>2
  <2>4. \E f : ChosenUpTo(f, s, S, (m - 1) + 1)
    BY <2>1, <2>3, ChosenNext
  <2> QED
    BY <1>1, <2>1, <2>4
<1> QED
  BY <1>2, <1>3

\* The loop leaves what it was meant to.
LEMMA ChosenIs ==
  ASSUME NEW s \in Seq(Nat), NEW S
  PROVE  Picked(Chosen(s, S), s, S, Len(s))
<1> DEFINE F == CHOOSE f : f = [k \in 0..Len(s) |-> IF k = 0 THEN <<>>
                              ELSE IF s[k] \in S THEN Append(f[k - 1], s[k]) ELSE f[k - 1]]
<1>1. Chosen(s, S) = F[Len(s)]
  BY DEF Chosen
<1>2. Len(s) \in Nat /\ \A k \in 1..Len(s) : s[k] \in Nat
  OBVIOUS
<1>3. ChosenUpTo(F, s, S, Len(s))
  <2>1. \E f : f = [k \in 0..Len(s) |-> IF k = 0 THEN <<>>
                              ELSE IF s[k] \in S THEN Append(f[k - 1], s[k]) ELSE f[k - 1]]
    <3>1. PICK f : ChosenUpTo(f, s, S, Len(s))
      BY <1>2, ChosenExists
    <3>2. f = [k \in 0..Len(s) |-> IF k = 0 THEN <<>>
                ELSE IF s[k] \in S THEN Append(f[k - 1], s[k]) ELSE f[k - 1]]
      BY <3>1 DEF ChosenUpTo
    <3> QED
      BY <3>2
  <2>2. F = [k \in 0..Len(s) |-> IF k = 0 THEN <<>>
                              ELSE IF s[k] \in S THEN Append(F[k - 1], s[k]) ELSE F[k - 1]]
    BY <2>1
  <2> HIDE DEF F
  <2> QED
    BY <2>2 DEF ChosenUpTo
<1> HIDE DEF F
<1>4. \A k \in 0..Len(s) : F[k] = IF k = 0 THEN <<>>
                                  ELSE IF s[k] \in S THEN Append(F[k - 1], s[k]) ELSE F[k - 1]
  BY <1>3 DEF ChosenUpTo
<1> DEFINE Wrong == {m \in 0..Len(s) : ~Picked(F[m], s, S, m)}
<1>5. Wrong = {}
  <2> SUFFICES ASSUME Wrong # {} PROVE FALSE
    OBVIOUS
  <2>1. PICK m \in Wrong : \A q \in Wrong : m <= q
    <3>1. Wrong \subseteq Nat
      BY <1>2
    <3> HIDE DEF Wrong
    <3> QED
      BY <3>1, LeastExists
  <2>2. m \in 0..Len(s) /\ ~Picked(F[m], s, S, m)
    BY <2>1
  <2>3. m # 0
    BY <1>4, <2>2, PickedNone
  <2> PICK n : n = m - 1
    OBVIOUS
  <2>4. n \in 0..Len(s) /\ n \in Nat /\ n + 1 = m /\ ~(m <= n) /\ m \in 1..Len(s)
    BY <1>2, <2>2, <2>3
  <2>5. Picked(F[n], s, S, n)
    <3>1. n \notin Wrong
      BY <2>1, <2>4
    <3> QED
      BY <2>4, <3>1
  <2>6. F[m] = IF s[n + 1] \in S THEN Append(F[n], s[n + 1]) ELSE F[n]
    BY <1>4, <2>2, <2>3, <2>4
  <2>7. s[n + 1] \in Nat
    BY <1>2, <2>4
  <2>8. Picked(F[m], s, S, n + 1)
    BY <2>4, <2>5, <2>6, <2>7, PickedNot, PickedNext
  <2> QED
    BY <2>2, <2>4, <2>8
<1>6. Len(s) \in 0..Len(s)
  BY <1>2
<1> QED
  BY <1>1, <1>5, <1>6

\* array_remove_int_fast
LEMMA RemovedIs ==
  ASSUME NEW s \in Seq(Nat), NEW x \in 1..Len(s)
  PROVE  /\ RemovedFast(s, x) \in Seq(Nat) /\ Len(RemovedFast(s, x)) = Len(s) - 1
         /\ \A k \in 1..(Len(s) - 1) : RemovedFast(s, x)[k] = IF k = x THEN s[Len(s)] ELSE s[k]
<1> PICK t : t = [s EXCEPT ![x] = s[Len(s)]]
  OBVIOUS
<1>1. Len(s) \in Nat /\ Len(s) \in 1..Len(s) /\ DOMAIN s = 1..Len(s) /\ s[Len(s)] \in Nat
  OBVIOUS
<1>2. t \in Seq(Nat) /\ Len(t) = Len(s)
  BY <1>1, ExceptSeq
<1>3. \A k \in 1..Len(s) : t[k] = IF k = x THEN s[Len(s)] ELSE s[k]
  BY <1>1
<1>4. 1 \in 1..(Len(t) + 1) /\ Len(s) - 1 \in 0..Len(t)
  BY <1>1, <1>2
<1> PICK r : r = SubSeq(t, 1, Len(s) - 1)
  OBVIOUS
<1>5. r \in Seq(Nat) /\ Len(r) = Len(s) - 1 /\ \A k \in 1..(Len(s) - 1) : r[k] = t[k]
  BY <1>1, <1>2, <1>4, SubSeqProperties
<1>6. RemovedFast(s, x) = r
  BY DEF RemovedFast
<1> QED
  BY <1>1, <1>3, <1>5, <1>6
-----------------------------------------------------------------------------
(* The tree: which leaf holds which indices. *)

Fields == {"idxarray", "splitdim", "splitpos", "ge", "lt"}
Shape(nd) ==
  /\ \E X : nd \in Seq(X)
  /\ \A n \in 1..Len(nd) : DOMAIN nd[n] = Fields /\ nd[n].idxarray \in Seq(Nat)
Holds(nd, n, k, j) ==
  n \in 1..Len(nd) /\ k \in 1..Len(nd[n].idxarray) /\ nd[n].idxarray[k] = j
\* An index is where a search for its point ends, and no other index of that
\* point is there.
Placed(nd, pts) ==
  \A n, k, j : Holds(nd, n, k, j) =>
    /\ nd[n].splitdim = 0 /\ j \in 1..Len(pts) /\ Route(nd, pts[j])[1] = n
    /\ \A l, i : Holds(nd, n, l, i) /\ pts[i] = pts[j] => l = k
Agrees(pr, nd, pts) ==
  \A e : e \in pr <=> \E n, k, j : Holds(nd, n, k, j) /\ e = <<pts[j], j>>
TreeOK(nd, pts, pr) ==
  Links(nd) /\ Shape(nd) /\ pts \in Seq(Point) /\ Placed(nd, pts) /\ Agrees(pr, nd, pts)

\* The point of an index stands nowhere else.
LEMMA HeldOnce ==
  ASSUME NEW nd, NEW pts, Placed(nd, pts), NEW n, NEW k, NEW j, Holds(nd, n, k, j),
         NEW m, NEW l, NEW i, Holds(nd, m, l, i), pts[i] = pts[j]
  PROVE  m = n /\ l = k /\ i = j
<1>1. Route(nd, pts[j])[1] = n /\ Route(nd, pts[i])[1] = m
  BY DEF Placed
<1>2. m = n
  BY <1>1
<1>3. l = k
  BY <1>2 DEF Placed
<1> QED
  BY <1>2, <1>3 DEF Holds

\* One array of indices is another one, everything else is as it was.
Replaced(nd, nd2, a, s) ==
  /\ SameLinks(nd, nd2) /\ Shape(nd2) /\ nd2[a].idxarray = s
  /\ \A n \in 1..Len(nd) : n # a => nd2[n].idxarray = nd[n].idxarray
\* A sequence with an element of any kind at one place.
LEMMA SeqWith ==
  ASSUME NEW X, NEW nd \in Seq(X), NEW a \in 1..Len(nd), NEW e
  PROVE  /\ [nd EXCEPT ![a] = e] \in Seq(X \cup {e})
         /\ Len([nd EXCEPT ![a] = e]) = Len(nd)
         /\ DOMAIN nd = 1..Len(nd) /\ DOMAIN [nd EXCEPT ![a] = e] = 1..Len(nd)
         /\ \A n \in 1..Len(nd) : [nd EXCEPT ![a] = e][n] = IF n = a THEN e ELSE nd[n]
<1>1. nd \in Seq(X \cup {e})
  <2>1. \A n \in 1..Len(nd) : nd[n] \in X \cup {e}
    OBVIOUS
  <2>2. nd = [n \in 1..Len(nd) |-> nd[n]] /\ Len(nd) \in Nat
    OBVIOUS
  <2> QED
    BY <2>1, <2>2, SeqDef
<1>2. [nd EXCEPT ![a] = e] \in Seq(X \cup {e}) /\ Len([nd EXCEPT ![a] = e]) = Len(nd)
  BY <1>1, ExceptSeq
<1>3. DOMAIN nd = 1..Len(nd)
  OBVIOUS
<1> QED
  BY <1>2, <1>3

\* Changing one array of indices does that.
LEMMA ReplacedIs ==
  ASSUME NEW nd, Links(nd), Shape(nd), NEW a \in 1..Len(nd), NEW s \in Seq(Nat)
  PROVE  Replaced(nd, [nd EXCEPT ![a].idxarray = s], a, s)
<1> PICK X : nd \in Seq(X)
  BY DEF Shape
<1> PICK e : e = [nd[a] EXCEPT !.idxarray = s]
  OBVIOUS
<1> PICK nd2 : nd2 = [nd EXCEPT ![a] = e]
  OBVIOUS
<1>1. /\ DOMAIN e = Fields /\ e.idxarray = s
      /\ e.splitdim = nd[a].splitdim /\ e.splitpos = nd[a].splitpos
      /\ e.ge = nd[a].ge /\ e.lt = nd[a].lt
  <2>1. DOMAIN nd[a] = Fields
    BY DEF Shape
  <2> QED
    BY <2>1 DEF Fields
<1>2. /\ nd2 \in Seq(X \cup {e}) /\ Len(nd2) = Len(nd) /\ DOMAIN nd2 = DOMAIN nd
      /\ \A n \in 1..Len(nd) : nd2[n] = IF n = a THEN e ELSE nd[n]
  BY SeqWith
<1>3. SameLinks(nd, nd2)
  BY <1>1, <1>2 DEF SameLinks
<1>4. Shape(nd2)
  <2>1. \A n \in 1..Len(nd2) : DOMAIN nd2[n] = Fields /\ nd2[n].idxarray \in Seq(Nat)
    BY <1>1, <1>2 DEF Shape
  <2>2. \E Y : nd2 \in Seq(Y)
    BY <1>2
  <2> QED
    BY <2>1, <2>2 DEF Shape
<1>5. Replaced(nd, nd2, a, s)
  BY <1>1, <1>2, <1>3, <1>4 DEF Replaced
<1>6. nd2 = [nd EXCEPT ![a].idxarray = s]
  OBVIOUS
<1> QED
  BY <1>5, <1>6

\* AddNew: a leaf takes a new index.
LEMMA NewHeld ==
  ASSUME NEW nd, NEW pts, NEW pr, TreeOK(nd, pts, pr), NEW p \in Point,
         NEW a \in 1..Len(nd), nd[a].splitdim = 0, Route(nd, p)[1] = a,
         \A k \in 1..Len(nd[a].idxarray) : pts[nd[a].idxarray[k]] # p,
         NEW nd2, Replaced(nd, nd2, a, Append(nd[a].idxarray, Len(pts) + 1))
  PROVE  TreeOK(nd2, Append(pts, p), pr \cup {<<p, Len(pts) + 1>>})
<1> PICK s : s = nd[a].idxarray
  OBVIOUS
<1> PICK q : q = Append(pts, p)
  OBVIOUS
<1> PICK t : t = Append(s, Len(pts) + 1)
  OBVIOUS
<1> DEFINE J == Len(pts) + 1
           K == Len(s) + 1
<1>1. /\ Links(nd) /\ Shape(nd) /\ pts \in Seq(Point) /\ Placed(nd, pts) /\ Agrees(pr, nd, pts)
      /\ s \in Seq(Nat) /\ Len(s) \in Nat /\ Len(pts) \in Nat
  <2>1. Links(nd) /\ Shape(nd) /\ pts \in Seq(Point) /\ Placed(nd, pts) /\ Agrees(pr, nd, pts)
    BY DEF TreeOK
  <2>2. s \in Seq(Nat)
    BY <2>1 DEF Shape
  <2> QED
    BY <2>1, <2>2
<1>2. q \in Seq(Point) /\ Len(q) = J /\ q[J] = p /\ \A j \in 1..Len(pts) : q[j] = pts[j]
  BY <1>1, AppendProperties
<1>3. t \in Seq(Nat) /\ Len(t) = K /\ t[K] = J /\ \A k \in 1..Len(s) : t[k] = s[k]
  <2>1. Len(pts) + 1 \in Nat
    BY <1>1
  <2> QED
    BY <1>1, <2>1, AppendProperties
<1>4. Replaced(nd, nd2, a, t) /\ SameLinks(nd, nd2) /\ Len(nd2) = Len(nd) /\ nd2[a].idxarray = t /\ Shape(nd2)
  BY DEF Replaced, SameLinks
<1>5. Links(nd2) /\ \A r : Route(nd2, r)[1] = Route(nd, r)[1]
  <2>1. 1 \in 1..Len(nd)
    BY <1>1 DEF Links
  <2> QED
    BY <1>1, <1>4, <2>1, SameRoute
<1>6. ASSUME NEW n, NEW k, NEW j
      PROVE  Holds(nd2, n, k, j) <=> Holds(nd, n, k, j) \/ (n = a /\ k = K /\ j = J)
  <2>1. CASE n # a
    BY <1>4, <2>1 DEF Holds, Replaced
  <2>2. CASE n = a
    <3>1. k \in 1..Len(t) <=> k \in 1..Len(s) \/ k = K
      BY <1>1, <1>3
    <3>2. K \notin 1..Len(s)
      BY <1>1
    <3>3. Holds(nd2, n, k, j) <=> k \in 1..Len(t) /\ t[k] = j
      BY <1>4, <2>2 DEF Holds
    <3>4. Holds(nd, n, k, j) <=> k \in 1..Len(s) /\ s[k] = j
      BY <2>2 DEF Holds
    <3> HIDE DEF K, J
    <3> QED
      BY <1>3, <2>2, <3>1, <3>2, <3>3, <3>4
  <2> QED
    BY <2>1, <2>2
<1>7. \A n, k, j : Holds(nd, n, k, j) => j \in 1..Len(pts) /\ q[j] = pts[j] /\ j \in 1..J
                                         /\ nd2[n].splitdim = 0 /\ Route(nd2, q[j])[1] = n
  <2> SUFFICES ASSUME NEW n, NEW k, NEW j, Holds(nd, n, k, j)
               PROVE  j \in 1..Len(pts) /\ q[j] = pts[j] /\ j \in 1..J
                      /\ nd2[n].splitdim = 0 /\ Route(nd2, q[j])[1] = n
    OBVIOUS
  <2>1. j \in 1..Len(pts) /\ nd[n].splitdim = 0 /\ Route(nd, pts[j])[1] = n /\ n \in 1..Len(nd)
    <3>1. n \in 1..Len(nd)
      BY DEF Holds
    <3> QED
      BY <1>1, <3>1 DEF Placed
  <2>2. j \in 1..J
    BY <1>1, <2>1
  <2>3. nd2[n].splitdim = 0
    BY <1>4, <2>1 DEF SameLinks
  <2> QED
    BY <1>2, <1>5, <2>1, <2>2, <2>3
<1>8. J \in 1..J /\ nd2[a].splitdim = 0 /\ Route(nd2, q[J])[1] = a
  BY <1>1, <1>2, <1>4, <1>5 DEF SameLinks
<1>9. \A k, j : Holds(nd, a, k, j) => pts[j] # p
  BY DEF Holds
<1> HIDE DEF J, K
<1>10. Placed(nd2, q)
  <2> SUFFICES ASSUME NEW n, NEW k, NEW j, Holds(nd2, n, k, j)
               PROVE  /\ nd2[n].splitdim = 0 /\ j \in 1..Len(q) /\ Route(nd2, q[j])[1] = n
                      /\ \A l, i : Holds(nd2, n, l, i) /\ q[i] = q[j] => l = k
    BY DEF Placed
  <2>1. nd2[n].splitdim = 0 /\ j \in 1..Len(q) /\ Route(nd2, q[j])[1] = n
    BY <1>2, <1>6, <1>7, <1>8
  <2>2. ASSUME NEW l, NEW i, Holds(nd2, n, l, i), q[i] = q[j] PROVE l = k
    <3>1. CASE Holds(nd, n, k, j) /\ Holds(nd, n, l, i)
      <4>1. pts[i] = pts[j]
        BY <1>7, <2>2, <3>1
      <4> QED
        BY <1>1, <3>1, <4>1 DEF Placed
    <3>2. CASE n = a /\ k = K /\ j = J /\ Holds(nd, n, l, i)
      BY <1>2, <1>7, <1>9, <2>2, <3>2
    <3>3. CASE n = a /\ l = K /\ i = J /\ Holds(nd, n, k, j)
      BY <1>2, <1>7, <1>9, <2>2, <3>3
    <3> QED
      BY <1>6, <2>2, <3>1, <3>2, <3>3
  <2> QED
    BY <2>1, <2>2
<1>11. Agrees(pr \cup {<<p, J>>}, nd2, q)
  <2> SUFFICES ASSUME NEW e
               PROVE  e \in pr \cup {<<p, J>>} <=> \E n, k, j : Holds(nd2, n, k, j) /\ e = <<q[j], j>>
    BY DEF Agrees
  <2>1. e \in pr <=> \E n, k, j : Holds(nd, n, k, j) /\ e = <<pts[j], j>>
    BY <1>1 DEF Agrees
  <2>2. e \in pr <=> \E n, k, j : Holds(nd, n, k, j) /\ e = <<q[j], j>>
    BY <1>7, <2>1
  <2>3. e = <<p, J>> <=> \E n, k, j : n = a /\ k = K /\ j = J /\ e = <<q[j], j>>
    BY <1>2
  <2>4. (\E n, k, j : Holds(nd2, n, k, j) /\ e = <<q[j], j>>)
        <=> \/ \E n, k, j : Holds(nd, n, k, j) /\ e = <<q[j], j>>
            \/ \E n, k, j : n = a /\ k = K /\ j = J /\ e = <<q[j], j>>
    <3>1. ASSUME NEW n, NEW k, NEW j, Holds(nd2, n, k, j), e = <<q[j], j>>
          PROVE  \/ \E n1, k1, j1 : Holds(nd, n1, k1, j1) /\ e = <<q[j1], j1>>
                 \/ \E n1, k1, j1 : n1 = a /\ k1 = K /\ j1 = J /\ e = <<q[j1], j1>>
      <4>1. Holds(nd, n, k, j) \/ (n = a /\ k = K /\ j = J)
        BY <1>6, <3>1
      <4> QED
        BY <3>1, <4>1
    <3>2. ASSUME NEW n, NEW k, NEW j, Holds(nd, n, k, j) \/ (n = a /\ k = K /\ j = J), e = <<q[j], j>>
          PROVE  \E n1, k1, j1 : Holds(nd2, n1, k1, j1) /\ e = <<q[j1], j1>>
      <4>1. Holds(nd2, n, k, j)
        BY <1>6, <3>2
      <4> QED
        BY <3>2, <4>1
    <3> QED
      BY <3>1, <3>2
  <2>5. e \in pr \cup {<<p, J>>} <=> e \in pr \/ e = <<p, J>>
    OBVIOUS
  <2> QED
    BY <2>2, <2>3, <2>4, <2>5
<1> QED
  BY <1>1, <1>2, <1>4, <1>5, <1>10, <1>11 DEF TreeOK, J

\* bsp_remove_point: a leaf forgets an index, the last one takes its place.
Forgets(nd, nd2, pts, pr, pr2, p, a, x) ==
  /\ a \in 1..Len(nd) /\ x \in 1..Len(nd[a].idxarray) /\ pts[nd[a].idxarray[x]] = p
  /\ Replaced(nd, nd2, a, RemovedFast(nd[a].idxarray, x))
  /\ \A e : e \in pr2 <=> e \in pr /\ e[1] # p
\* What bsp_remove_point leaves is a tree of the points that are left.
LEMMA HeldRemoved ==
  ASSUME NEW nd, NEW nd2, NEW pts, NEW pr, NEW pr2, NEW p, NEW a, NEW x,
         TreeOK(nd, pts, pr), Forgets(nd, nd2, pts, pr, pr2, p, a, x)
  PROVE  TreeOK(nd2, pts, pr2)
<1>0. /\ a \in 1..Len(nd) /\ x \in 1..Len(nd[a].idxarray) /\ pts[nd[a].idxarray[x]] = p
      /\ Replaced(nd, nd2, a, RemovedFast(nd[a].idxarray, x))
      /\ \A e : e \in pr2 <=> e \in pr /\ e[1] # p
  BY DEF Forgets
<1> PICK s : s = nd[a].idxarray
  OBVIOUS
<1> PICK t : t = RemovedFast(s, x)
  OBVIOUS
<1> PICK K : K = Len(s)
  OBVIOUS
<1>1. /\ Links(nd) /\ Shape(nd) /\ pts \in Seq(Point) /\ Placed(nd, pts) /\ Agrees(pr, nd, pts)
      /\ s \in Seq(Nat) /\ K \in Nat /\ x \in 1..K
  <2>1. Links(nd) /\ Shape(nd) /\ pts \in Seq(Point) /\ Placed(nd, pts) /\ Agrees(pr, nd, pts)
    BY DEF TreeOK
  <2>2. s \in Seq(Nat)
    BY <1>0, <2>1 DEF Shape
  <2>3. K \in Nat
    BY <2>2
  <2> QED
    BY <1>0, <2>1, <2>2, <2>3
<1>2. t \in Seq(Nat) /\ Len(t) = K - 1 /\ \A k \in 1..(K - 1) : t[k] = IF k = x THEN s[K] ELSE s[k]
  <2>1. s \in Seq(Nat) /\ x \in 1..Len(s)
    BY <1>1
  <2>2. /\ RemovedFast(s, x) \in Seq(Nat) /\ Len(RemovedFast(s, x)) = Len(s) - 1
        /\ \A k \in 1..(Len(s) - 1) : RemovedFast(s, x)[k] = IF k = x THEN s[Len(s)] ELSE s[k]
    BY <2>1, RemovedIs
  <2> QED
    BY <2>2
<1>3. Replaced(nd, nd2, a, t) /\ SameLinks(nd, nd2) /\ Len(nd2) = Len(nd) /\ nd2[a].idxarray = t /\ Shape(nd2)
  BY <1>0 DEF Replaced, SameLinks
<1>4. Links(nd2) /\ \A r : Route(nd2, r)[1] = Route(nd, r)[1]
  <2>1. 1 \in 1..Len(nd)
    BY <1>1 DEF Links
  <2> QED
    BY <1>1, <1>3, <2>1, SameRoute
\* Where an index is now, and where it was.
<1> DEFINE Was(n, k) == IF n = a /\ k = x THEN K ELSE k
<1>5. ASSUME NEW n, NEW k, NEW j, Holds(nd2, n, k, j)
      PROVE  Holds(nd, n, Was(n, k), j) /\ ~(n = a /\ Was(n, k) = x) /\ (n = a => k \in 1..(K - 1))
  <2>1. CASE n # a
    BY <1>3, <1>5, <2>1 DEF Holds, Replaced
  <2>2. CASE n = a
    <3>1. k \in 1..(K - 1) /\ t[k] = j
      BY <1>2, <1>3, <1>5, <2>2 DEF Holds
    <3>2. K \in 1..K /\ k \in 1..K /\ k # K
      BY <1>1, <3>1
    <3>3. Holds(nd, n, Was(n, k), j)
      BY <1>0, <1>2, <2>2, <3>1, <3>2 DEF Holds
    <3> QED
      BY <2>2, <3>1, <3>2, <3>3
  <2> QED
    BY <2>1, <2>2
<1>6. ASSUME NEW n, NEW k, NEW j, Holds(nd, n, k, j), ~(n = a /\ k = x)
      PROVE  \E l : Holds(nd2, n, l, j)
  <2>1. CASE n # a
    BY <1>3, <1>6, <2>1 DEF Holds, Replaced
  <2>2. CASE n = a
    <3>1. k \in 1..K /\ s[k] = j /\ k # x
      BY <1>6, <2>2 DEF Holds
    <3>2. CASE k = K
      <4>1. x \in 1..(K - 1) /\ t[x] = j
        <5>1. x \in 1..(K - 1)
          BY <1>1, <3>1, <3>2
        <5> QED
          BY <1>2, <3>1, <3>2, <5>1
      <4> QED
        BY <1>0, <1>2, <1>3, <2>2, <4>1 DEF Holds
    <3>3. CASE k # K
      <4>1. k \in 1..(K - 1)
        BY <1>1, <3>1, <3>3
      <4>2. t[k] = j
        BY <1>2, <3>1, <4>1
      <4> QED
        BY <1>0, <1>2, <1>3, <2>2, <4>1, <4>2 DEF Holds
    <3> QED
      BY <3>2, <3>3
  <2> QED
    BY <2>1, <2>2
<1>7. Holds(nd, a, x, s[x])
  BY <1>0 DEF Holds
<1>8. \A n, k, j : Holds(nd, n, k, j) => (pts[j] = p <=> n = a /\ k = x)
  <2> SUFFICES ASSUME NEW n, NEW k, NEW j, Holds(nd, n, k, j)
               PROVE  pts[j] = p <=> n = a /\ k = x
    OBVIOUS
  <2>1. n = a /\ k = x => j = s[x]
    BY DEF Holds
  <2>2. pts[j] = p => n = a /\ k = x
    BY <1>0, <1>1, <1>7, HeldOnce
  <2> QED
    BY <1>0, <2>1, <2>2
<1>9. Placed(nd2, pts)
  <2> SUFFICES ASSUME NEW n, NEW k, NEW j, Holds(nd2, n, k, j)
               PROVE  /\ nd2[n].splitdim = 0 /\ j \in 1..Len(pts) /\ Route(nd2, pts[j])[1] = n
                      /\ \A l, i : Holds(nd2, n, l, i) /\ pts[i] = pts[j] => l = k
    BY DEF Placed
  <2>1. Holds(nd, n, Was(n, k), j) /\ (n = a => k \in 1..(K - 1))
    BY <1>5
  <2>2. n \in 1..Len(nd) /\ nd[n].splitdim = 0 /\ j \in 1..Len(pts) /\ Route(nd, pts[j])[1] = n
    <3>1. n \in 1..Len(nd)
      BY <2>1 DEF Holds
    <3> QED
      BY <1>1, <2>1, <3>1 DEF Placed
  <2>3. nd2[n].splitdim = 0 /\ Route(nd2, pts[j])[1] = n
    BY <1>3, <1>4, <2>2 DEF SameLinks
  <2>4. ASSUME NEW l, NEW i, Holds(nd2, n, l, i), pts[i] = pts[j] PROVE l = k
    <3>1. Holds(nd, n, Was(n, l), i) /\ (n = a => l \in 1..(K - 1))
      BY <1>5, <2>4
    <3>2. Was(n, l) = Was(n, k)
      BY <1>1, <2>1, <2>4, <3>1, HeldOnce
    <3>3. n = a => k # K /\ l # K
      BY <1>1, <2>1, <3>1
    <3> QED
      BY <3>2, <3>3
  <2> QED
    BY <2>2, <2>3, <2>4
<1>10. Agrees(pr2, nd2, pts)
  <2> SUFFICES ASSUME NEW e
               PROVE  e \in pr /\ e[1] # p <=> \E n, k, j : Holds(nd2, n, k, j) /\ e = <<pts[j], j>>
    BY <1>0 DEF Agrees
  <2>1. e \in pr <=> \E n, k, j : Holds(nd, n, k, j) /\ e = <<pts[j], j>>
    BY <1>1 DEF Agrees
  <2>2. e \in pr /\ e[1] # p <=> \E n, k, j : Holds(nd, n, k, j) /\ e = <<pts[j], j>> /\ pts[j] # p
    BY <2>1
  <2>3. ASSUME NEW n, NEW k, NEW j, Holds(nd, n, k, j), pts[j] # p PROVE \E l : Holds(nd2, n, l, j)
    BY <1>6, <1>8, <2>3
  <2>4. ASSUME NEW n, NEW k, NEW j, Holds(nd2, n, k, j) PROVE \E l : Holds(nd, n, l, j) /\ pts[j] # p
    <3>1. Holds(nd, n, Was(n, k), j) /\ ~(n = a /\ Was(n, k) = x)
      BY <1>5, <2>4
    <3> HIDE DEF Was
    <3> QED
      BY <1>8, <3>1
  <2> QED
    BY <2>2, <2>3, <2>4
<1> QED
  BY <1>1, <1>3, <1>4, <1>9, <1>10 DEF TreeOK
\* AddSplit: the indices of a full leaf go to two new ones.
Halved(nd, nd2, pts, a) ==
  LET s == nd[a].idxarray
      beyond == {i \in Range(s) : pts[i][nd2[a].splitdim] >= nd2[a].splitpos}
  IN /\ SplitAt(nd, nd2, a) /\ Shape(nd2) /\ nd2[a].idxarray = <<>>
     /\ nd2[Len(nd) + 1].idxarray = Chosen(s, beyond)
     /\ nd2[Len(nd) + 2].idxarray = Chosen(s, Range(s) \ beyond)
LEMMA HeldSplit ==
  ASSUME NEW nd, NEW pts, NEW pr, TreeOK(nd, pts, pr), NEW a, NEW nd2, Halved(nd, nd2, pts, a)
  PROVE  TreeOK(nd2, pts, pr)
<1> PICK s : s = nd[a].idxarray
  OBVIOUS
<1> PICK B : B = {i \in Range(s) : pts[i][nd2[a].splitdim] >= nd2[a].splitpos}
  OBVIOUS
<1> PICK C : C = Range(s) \ B
  OBVIOUS
<1> PICK c : c = Chosen(s, B)
  OBVIOUS
<1> PICK d : d = Chosen(s, C)
  OBVIOUS
<1> PICK L : L = Len(nd)
  OBVIOUS
<1>1. Links(nd) /\ Shape(nd) /\ pts \in Seq(Point) /\ Placed(nd, pts) /\ Agrees(pr, nd, pts)
  BY DEF TreeOK
<1>2. SplitAt(nd, nd2, a) /\ Shape(nd2) /\ nd2[a].idxarray = <<>>
  BY DEF Halved
<1>3. nd2[L + 1].idxarray = c /\ nd2[L + 2].idxarray = d
  BY DEF Halved
<1>4. L \in Nat \ {0} /\ a \in 1..L /\ Len(nd2) = L + 2 /\ nd[a].splitdim = 0
  BY <1>1, <1>2 DEF Links, SplitAt
<1>5. s \in Seq(Nat) /\ Len(s) \in Nat
  <2>1. s \in Seq(Nat)
    BY <1>1, <1>4 DEF Shape
  <2> QED
    BY <2>1
<1>6. Picked(c, s, B, Len(s)) /\ Picked(d, s, C, Len(s))
  BY <1>5, ChosenIs
<1>7. Links(nd2) /\ \A r : Route(nd2, r)[1] = IF Route(nd, r)[1] = a THEN SideOf(nd2, a, r)
                                              ELSE Route(nd, r)[1]
  <2>1. 1 \in 1..Len(nd)
    BY <1>1 DEF Links
  <2> QED
    BY <1>1, <1>2, <2>1, SplitRoute
<1>8. \A x \in 1..Len(s) : s[x] \in Range(s) /\ s[x] \in Nat
  BY <1>5 DEF Range
<1>9. \A x \in 1..Len(s) : (s[x] \in B \/ s[x] \in C) /\ ~(s[x] \in B /\ s[x] \in C)
  BY <1>8
<1>10. \A x \in 1..Len(s) : SideOf(nd2, a, pts[s[x]]) = IF s[x] \in B THEN L + 1 ELSE L + 2
  BY <1>2, <1>8 DEF SideOf, SplitAt
\* What the new leaves hold.
<1>11. \A n \in 1..L : n # a => \A k, j : Holds(nd2, n, k, j) <=> Holds(nd, n, k, j)
  <2> SUFFICES ASSUME NEW n \in 1..L, n # a, NEW k, NEW j
               PROVE  Holds(nd2, n, k, j) <=> Holds(nd, n, k, j)
    OBVIOUS
  <2>1. nd2[n] = nd[n] /\ n \in 1..Len(nd) /\ n \in 1..Len(nd2)
    BY <1>2, <1>4 DEF SplitAt
  <2> QED
    BY <2>1 DEF Holds
<1>12. \A k, j : ~Holds(nd2, a, k, j)
  <2>1. Len(<<>>) = 0 /\ 1..0 = {}
    OBVIOUS
  <2> QED
    BY <1>2, <2>1 DEF Holds
<1>13. \A k, j : Holds(nd2, L + 1, k, j) <=> k \in 1..Len(c) /\ c[k] = j
  BY <1>3, <1>4 DEF Holds
<1>14. \A k, j : Holds(nd2, L + 2, k, j) <=> k \in 1..Len(d) /\ d[k] = j
  BY <1>3, <1>4 DEF Holds
<1>15. \A n, k, j : Holds(nd2, n, k, j) => (n \in 1..L /\ n # a) \/ n = L + 1 \/ n = L + 2
  <2> SUFFICES ASSUME NEW n, NEW k, NEW j, Holds(nd2, n, k, j)
               PROVE  (n \in 1..L /\ n # a) \/ n = L + 1 \/ n = L + 2
    OBVIOUS
  <2>1. n \in 1..(L + 2) /\ n # a
    BY <1>4, <1>12 DEF Holds
  <2> QED
    BY <1>4, <2>1
<1>16. \A x, j : Holds(nd, a, x, j) <=> x \in 1..Len(s) /\ s[x] = j
  BY <1>4 DEF Holds
<1>17. \A x, y \in 1..Len(s) : pts[s[x]] = pts[s[y]] => x = y
  <2> SUFFICES ASSUME NEW x \in 1..Len(s), NEW y \in 1..Len(s), pts[s[x]] = pts[s[y]] PROVE x = y
    OBVIOUS
  <2>1. Holds(nd, a, x, s[x]) /\ Holds(nd, a, y, s[y])
    BY <1>16
  <2> QED
    BY <1>1, <2>1, HeldOnce
<1>18. \A x \in 1..Len(s) : s[x] \in 1..Len(pts) /\ Route(nd, pts[s[x]])[1] = a
  BY ZenonT(30), <1>1, <1>16 DEF Placed
\* A new leaf: f are its indices, S those it takes.
<1>19. ASSUME NEW f, NEW S, Picked(f, s, S, Len(s))
       PROVE  \A k, l \in 1..Len(f) : pts[f[k]] = pts[f[l]] => k = l
  <2> SUFFICES ASSUME NEW k \in 1..Len(f), NEW l \in 1..Len(f), pts[f[k]] = pts[f[l]], k < l
               PROVE  FALSE
    <3>1. Len(f) \in Nat
      BY <1>19 DEF Picked
    <3> QED
      BY <3>1
  <2>1. PICK x \in 1..Len(s), y \in 1..Len(s) : x < y /\ f[k] = s[x] /\ f[l] = s[y]
    BY <1>19 DEF Picked
  <2>2. x = y
    BY <1>17, <2>1
  <2> QED
    BY <1>5, <2>1, <2>2
<1>29. \A k, l \in 1..Len(c) : pts[c[k]] = pts[c[l]] => k = l
  BY ONLY <1>6, <1>19, Zenon
<1>30. \A k, l \in 1..Len(d) : pts[d[k]] = pts[d[l]] => k = l
  BY ONLY <1>6, <1>19, Zenon
<1>20. \A k \in 1..Len(c) : \E x \in 1..Len(s) : c[k] = s[x] /\ s[x] \in B
  BY <1>6 DEF Picked
<1>21. \A k \in 1..Len(d) : \E x \in 1..Len(s) : d[k] = s[x] /\ s[x] \in C
  BY <1>6 DEF Picked
<1>22. nd2[L + 1].splitdim = 0 /\ nd2[L + 2].splitdim = 0
  BY <1>2 DEF SplitAt
<1>27. \A x \in 1..Len(s) : s[x] \in B => \E k \in 1..Len(c) : c[k] = s[x]
  BY <1>6 DEF Picked
<1>28. \A x \in 1..Len(s) : s[x] \in C => \E k \in 1..Len(d) : d[k] = s[x]
  BY <1>6 DEF Picked
<1>23. Placed(nd2, pts)
  <2> SUFFICES ASSUME NEW n, NEW k, NEW j, Holds(nd2, n, k, j)
               PROVE  /\ nd2[n].splitdim = 0 /\ j \in 1..Len(pts) /\ Route(nd2, pts[j])[1] = n
                      /\ \A l, i : Holds(nd2, n, l, i) /\ pts[i] = pts[j] => l = k
    BY DEF Placed
  <2>1. CASE n \in 1..L /\ n # a
    <3>1. \A l, i : Holds(nd2, n, l, i) <=> Holds(nd, n, l, i)
      BY <1>11, <2>1
    <3>2. Holds(nd, n, k, j)
      BY <3>1
    <3>3. /\ nd[n].splitdim = 0 /\ j \in 1..Len(pts) /\ Route(nd, pts[j])[1] = n
          /\ \A l, i : Holds(nd, n, l, i) /\ pts[i] = pts[j] => l = k
      BY <1>1, <3>2 DEF Placed
    <3>4. nd2[n] = nd[n]
      BY <1>2, <2>1 DEF SplitAt
    <3> QED
      BY <1>7, <2>1, <3>1, <3>3, <3>4
  <2>2. CASE n = L + 1
    <3>1. k \in 1..Len(c) /\ c[k] = j
      BY <1>13, <2>2
    <3>2. PICK x \in 1..Len(s) : j = s[x] /\ s[x] \in B
      BY <1>20, <3>1
    <3>3. j \in 1..Len(pts) /\ Route(nd2, pts[j])[1] = L + 1
      BY <1>7, <1>10, <1>18, <3>2
    <3>4. ASSUME NEW l, NEW i, Holds(nd2, n, l, i), pts[i] = pts[j] PROVE l = k
      <4>1. l \in 1..Len(c) /\ c[l] = i
        BY <1>13, <2>2, <3>4
      <4> QED
        BY <1>29, <3>1, <3>4, <4>1
    <3> QED
      BY <1>22, <2>2, <3>3, <3>4
  <2>3. CASE n = L + 2
    <3>1. k \in 1..Len(d) /\ d[k] = j
      BY <1>14, <2>3
    <3>2. PICK x \in 1..Len(s) : j = s[x] /\ s[x] \in C
      BY <1>21, <3>1
    <3>3. j \in 1..Len(pts) /\ Route(nd2, pts[j])[1] = L + 2
      BY <1>7, <1>9, <1>10, <1>18, <3>2
    <3>4. ASSUME NEW l, NEW i, Holds(nd2, n, l, i), pts[i] = pts[j] PROVE l = k
      <4>1. l \in 1..Len(d) /\ d[l] = i
        BY <1>14, <2>3, <3>4
      <4> QED
        BY <1>30, <3>1, <3>4, <4>1
    <3> QED
      BY <1>22, <2>3, <3>3, <3>4
  <2> QED
    BY <1>15, <2>1, <2>2, <2>3
<1>24. ASSUME NEW n, NEW k, NEW j, Holds(nd, n, k, j)
       PROVE  \E m, l : Holds(nd2, m, l, j)
  <2>1. CASE n # a
    <3>1. n \in 1..L
      BY <1>24 DEF Holds
    <3> QED
      BY <1>11, <1>24, <2>1, <3>1
  <2>2. CASE n = a
    <3>1. k \in 1..Len(s) /\ s[k] = j
      BY <1>16, <1>24, <2>2
    <3>2. CASE s[k] \in B
      <4>1. PICK l \in 1..Len(c) : c[l] = s[k]
        BY <1>27, <3>1, <3>2
      <4> QED
        BY <1>13, <3>1, <4>1
    <3>3. CASE s[k] \in C
      <4>1. PICK l \in 1..Len(d) : d[l] = s[k]
        BY <1>28, <3>1, <3>3
      <4> QED
        BY <1>14, <3>1, <4>1
    <3> QED
      BY <1>9, <3>1, <3>2, <3>3
  <2> QED
    BY <2>1, <2>2
<1>25. ASSUME NEW n, NEW k, NEW j, Holds(nd2, n, k, j)
       PROVE  \E m, l : Holds(nd, m, l, j)
  <2>1. CASE n \in 1..L /\ n # a
    BY <1>11, <1>25, <2>1
  <2>2. CASE n = L + 1
    <3>1. k \in 1..Len(c) /\ c[k] = j
      BY <1>13, <1>25, <2>2
    <3>2. PICK x \in 1..Len(s) : j = s[x] /\ s[x] \in B
      BY <1>20, <3>1
    <3> QED
      BY <1>16, <3>2
  <2>3. CASE n = L + 2
    <3>1. k \in 1..Len(d) /\ d[k] = j
      BY <1>14, <1>25, <2>3
    <3>2. PICK x \in 1..Len(s) : j = s[x] /\ s[x] \in C
      BY <1>21, <3>1
    <3> QED
      BY <1>16, <3>2
  <2> QED
    BY <1>15, <1>25, <2>1, <2>2, <2>3
<1>26. Agrees(pr, nd2, pts)
  <2> SUFFICES ASSUME NEW e
               PROVE  e \in pr <=> \E n, k, j : Holds(nd2, n, k, j) /\ e = <<pts[j], j>>
    BY DEF Agrees
  <2>1. e \in pr <=> \E n, k, j : Holds(nd, n, k, j) /\ e = <<pts[j], j>>
    BY <1>1 DEF Agrees
  <2> QED
    BY <1>24, <1>25, <2>1
<1> QED
  BY <1>1, <1>2, <1>7, <1>23, <1>26 DEF TreeOK
-----------------------------------------------------------------------------
(* The tree, step by step. *)

\* A call is at a node the search for its point passes.
CallOK(nd, pts, cl) ==
  \/ cl = NoCall
  \/ /\ cl.op = "add" /\ DOMAIN cl = {"op", "point", "at", "invdepth"}
     /\ cl.point \in Point /\ cl.at \in 1..Len(nd)
     /\ Route(nd, cl.point)[cl.at] = Route(nd, cl.point)[1]
  \/ cl.op = "returned" /\ cl.idx \in 1..Len(pts)
TreeInv == TreeOK(node, points, present) /\ CallOK(node, points, call)

\* No call is in progress between calls.
LEMMA CallOps == NoCall.op = "none"
BY DEF NoCall

\* The search of the model ends where the route does.
LEMMA LeafIsEnd == ASSUME NEW p PROVE LeafOf(p) = Route(node, p)[1]
BY DEF LeafOf, Route, IsLeaf, Side, SideOf

\* The first of some places is one of them.
LEMMA MinIn == ASSUME NEW S, S \subseteq Nat, S # {} PROVE Min(S) \in S
<1>1. \E x \in S : \A y \in S : x <= y
  BY LeastExists
<1> QED
  BY <1>1 DEF Min

\* The places of a leaf at which an index of the point stands, and the first of them.
LEMMA HitsIs ==
  ASSUME TreeInv, NEW n \in 1..Len(node), NEW p
  PROVE  /\ \A k : k \in Hits(n, p) <=> k \in 1..Len(node[n].idxarray) /\ points[node[n].idxarray[k]] = p
         /\ Hits(n, p) # {} => Min(Hits(n, p)) \in Hits(n, p)
<1>1. node[n].idxarray \in Seq(Nat)
  BY DEF TreeInv, TreeOK, Shape
<1>2. DOMAIN node[n].idxarray = 1..Len(node[n].idxarray) /\ Len(node[n].idxarray) \in Nat
  BY <1>1
<1>3. \A k : k \in Hits(n, p) <=> k \in 1..Len(node[n].idxarray) /\ points[node[n].idxarray[k]] = p
  BY <1>2 DEF Hits
<1>4. Hits(n, p) \subseteq Nat
  BY <1>2, <1>3
<1> QED
  BY <1>3, <1>4, MinIn

\* The empty tree.
LEMMA TreeInitInv == TreeInit => TreeInv
<1> SUFFICES ASSUME TreeInit PROVE TreeInv
  OBVIOUS
<1>1. points = <<>> /\ node = <<Leaf>> /\ call = NoCall /\ present = {}
  BY DEF TreeInit
<1>2. /\ Len(node) = 1 /\ DOMAIN node = 1..1 /\ node \in Seq({Leaf}) /\ node[1] = Leaf
      /\ points \in Seq(Point)
  BY <1>1
<1>3. DOMAIN Leaf = Fields /\ Leaf.idxarray = <<>> /\ Leaf.splitdim = 0
  BY DEF Leaf, Fields
<1>4. \A n \in 1..Len(node) : node[n] = Leaf
  BY <1>2
<1>5. Links(node)
  BY <1>2, <1>3, <1>4 DEF Links
<1>6. Shape(node)
  <2>1. <<>> \in Seq(Nat)
    OBVIOUS
  <2>2. \A n \in 1..Len(node) : DOMAIN node[n] = Fields /\ node[n].idxarray \in Seq(Nat)
    BY <1>3, <1>4, <2>1
  <2>3. \E X : node \in Seq(X)
    BY <1>2
  <2> QED
    BY <2>2, <2>3 DEF Shape
<1>7. \A n, k, j : ~Holds(node, n, k, j)
  <2>1. Len(<<>>) = 0 /\ 1..0 = {}
    OBVIOUS
  <2> QED
    BY <1>3, <1>4, <2>1 DEF Holds
<1>8. Placed(node, points) /\ Agrees(present, node, points)
  BY <1>1, <1>7 DEF Placed, Agrees
<1> QED
  BY <1>1, <1>2, <1>5, <1>6, <1>8 DEF TreeInv, TreeOK, CallOK

\* What a step of bsp_add_point does to the call and to the points.
AddStep ==
  /\ call.op = "add"
  /\ \/ call'.op = "add" /\ call'.point = call.point /\ points' = points
     \/ /\ call'.op = "returned" /\ call'.idx \in 1..Len(points') /\ points'[call'.idx] = call.point
        /\ points' = points \/ (points' = Append(points, call.point) /\ call'.idx = Len(points) + 1)

\* The arguments of an addition in progress.
LEMMA AddingCall ==
  ASSUME TreeInv, Adding
  PROVE  /\ call.op = "add" /\ DOMAIN call = {"op", "point", "at", "invdepth"}
         /\ call.point \in Point /\ call.at \in 1..Len(node)
         /\ Route(node, call.point)[call.at] = Route(node, call.point)[1]
BY CallOps DEF TreeInv, CallOK, Adding

\* The assertion on the depth: nothing changes.
LEMMA TreeTooDeep == ASSUME TreeInv, TooDeep PROVE TreeInv' /\ AddStep
<1>1. UNCHANGED <<points, node, call, present>> /\ Adding
  BY DEF TooDeep
<1>2. TreeInv'
  BY <1>1 DEF TreeInv
<1> QED
  BY <1>1, <1>2 DEF AddStep, Adding

\* The addition goes on at the node below, which the route of the point passes.
LEMMA TreeAddBelow == ASSUME TreeInv, AddBelow PROVE TreeInv' /\ AddStep
<1>1. /\ Adding /\ node[call.at].splitdim # 0
      /\ call' = [call EXCEPT !.at = SideOf(node, call.at, call.point), !.invdepth = call.invdepth - 1]
      /\ UNCHANGED <<points, node, present>>
  BY DEF AddBelow, IsLeaf, Side, SideOf
<1>2. /\ call.op = "add" /\ DOMAIN call = {"op", "point", "at", "invdepth"}
      /\ call.point \in Point /\ call.at \in 1..Len(node)
      /\ Route(node, call.point)[call.at] = Route(node, call.point)[1]
  BY <1>1, AddingCall
<1> PICK b : b = SideOf(node, call.at, call.point)
  OBVIOUS
<1>3. /\ call'.op = "add" /\ DOMAIN call' = {"op", "point", "at", "invdepth"}
      /\ call'.point = call.point /\ call'.at = b
  BY <1>1, <1>2
<1>4. Links(node)
  BY DEF TreeInv, TreeOK
<1>5. b \in 1..Len(node)
  <2>1. b \in (call.at + 1)..Len(node) /\ Len(node) \in Nat
    BY <1>1, <1>2, <1>4, SideBelow DEF Links
  <2> QED
    BY <1>2, <2>1
<1>6. Route(node, call.point)[b] = Route(node, call.point)[1]
  BY <1>1, <1>2, <1>4, RouteIs DEF Goes
<1>7. CallOK(node, points, call')
  BY <1>2, <1>3, <1>5, <1>6 DEF CallOK
<1>8. TreeInv'
  BY <1>1, <1>7 DEF TreeInv
<1> QED
  BY <1>1, <1>2, <1>3, <1>8 DEF AddStep

\* The point has an index already.
LEMMA TreeAddFound == ASSUME TreeInv, AddFound PROVE TreeInv' /\ AddStep
<1> PICK a : a = call.at
  OBVIOUS
<1> PICK p : p = call.point
  OBVIOUS
<1> PICK x : x = Min(Hits(a, p))
  OBVIOUS
<1> PICK j : j = node[a].idxarray[x]
  OBVIOUS
<1>1. /\ Adding /\ node[a].splitdim = 0 /\ Hits(a, p) # {}
      /\ call' = [op |-> "returned", idx |-> j] /\ present' = present \cup {<<p, j>>}
      /\ UNCHANGED <<points, node>>
  BY DEF AddFound, IsLeaf, AddReturns, Here
<1>2. call.op = "add" /\ a \in 1..Len(node)
  BY <1>1, AddingCall
<1>3. x \in 1..Len(node[a].idxarray) /\ points[j] = p
  BY <1>1, <1>2, HitsIs
<1>4. Holds(node, a, x, j)
  BY <1>2, <1>3 DEF Holds
<1>5. TreeOK(node, points, present)
  BY DEF TreeInv
<1>6. j \in 1..Len(points)
  BY <1>4, <1>5 DEF TreeOK, Placed
<1>7. present' = present
  <2>1. <<p, j>> \in present
    BY <1>3, <1>4, <1>5 DEF TreeOK, Agrees
  <2> QED
    BY <1>1, <2>1
<1>8. call'.op = "returned" /\ call'.idx = j
  BY <1>1
<1>9. TreeInv'
  BY <1>1, <1>5, <1>6, <1>7, <1>8 DEF TreeInv, CallOK
<1> QED
  BY <1>1, <1>2, <1>3, <1>6, <1>8, <1>9 DEF AddStep

\* The leaf at which the addition stands takes the next index.
LEMMA TreeAddNew == ASSUME TreeInv, AddNew PROVE TreeInv' /\ AddStep
<1> PICK a : a = call.at
  OBVIOUS
<1> PICK p : p = call.point
  OBVIOUS
<1> PICK J : J = Len(points) + 1
  OBVIOUS
<1> PICK s : s = Append(node[a].idxarray, J)
  OBVIOUS
<1>1. /\ Adding /\ node[a].splitdim = 0 /\ Hits(a, p) = {}
      /\ call' = [op |-> "returned", idx |-> J] /\ present' = present \cup {<<p, J>>}
      /\ points' = Append(points, p)
      /\ node' = [node EXCEPT ![a].idxarray = s]
  BY DEF AddNew, IsLeaf, AddReturns
<1>2. call.op = "add" /\ a \in 1..Len(node) /\ p \in Point /\ Route(node, p)[a] = Route(node, p)[1]
  BY <1>1, AddingCall
<1>3. TreeOK(node, points, present) /\ Links(node) /\ Shape(node) /\ points \in Seq(Point)
  BY DEF TreeInv, TreeOK
<1>4. s \in Seq(Nat)
  <2>1. node[a].idxarray \in Seq(Nat) /\ J \in Nat
    BY <1>2, <1>3 DEF Shape
  <2> QED
    BY <2>1, AppendProperties
<1>5. Replaced(node, node', a, s)
  BY <1>1, <1>2, <1>3, <1>4, ReplacedIs
<1>6. Route(node, p)[1] = a
  BY <1>1, <1>2, <1>3, RouteIs DEF Goes
<1>7. \A k \in 1..Len(node[a].idxarray) : points[node[a].idxarray[k]] # p
  BY ZenonT(30), <1>1, <1>2, HitsIs
<1>8. TreeOK(node', Append(points, p), present \cup {<<p, Len(points) + 1>>})
  BY <1>1, <1>2, <1>3, <1>5, <1>6, <1>7, NewHeld
<1>9. J \in 1..Len(points') /\ points'[J] = p
  BY <1>1, <1>2, <1>3, AppendProperties
<1>10. call'.op = "returned" /\ call'.idx = J
  BY <1>1
<1>11. TreeInv'
  BY <1>1, <1>8, <1>9, <1>10 DEF TreeInv, CallOK
<1> QED
  BY <1>1, <1>2, <1>9, <1>10, <1>11 DEF AddStep
\* The dimension of a split is one of the coordinates.
LEMMA SplitsDim == ASSUME NEW split \in Splits PROVE split[1] \in 1..Dims
<1>1. ASSUME NEW m PROVE SplitDims(m) \subseteq 1..Dims
  <2> DEFINE factor == [d \in 1..Dims |-> Factor(Coords(d), m[d])]
             flat == {d \in 1..Dims : factor[d].square = 0}
             infinite == {d \in flat : factor[d].variance # 0}
             noless(f, g) == f.variance * g.square >= g.variance * f.square
             rest == {d \in (1..Dims) \ flat : \A e \in (1..Dims) \ flat : noless(factor[d], factor[e])}
  <2>1. SplitDims(m) = IF infinite # {} THEN {Min(infinite)} ELSE IF flat = 1..Dims THEN {1} ELSE rest
    BY DEF SplitDims
  <2>2. infinite \subseteq 1..Dims /\ rest \subseteq 1..Dims
    OBVIOUS
  <2> HIDE DEF infinite, flat, rest
  <2>3. infinite \subseteq Nat
    BY <2>2
  <2>4. infinite # {} => Min(infinite) \in 1..Dims
    BY <2>2, <2>3, MinIn
  <2>5. 1 \in 1..Dims
    BY TreeAssumption
  <2> QED
    BY <2>1, <2>2, <2>4, <2>5
<1>2. \E m : split \in {<<d, m[d]>> : d \in SplitDims(m)}
  BY DEF Splits
<1>3. PICK m : split \in {<<d, m[d]>> : d \in SplitDims(m)}
  BY <1>2
<1>4. PICK d \in SplitDims(m) : split = <<d, m[d]>>
  BY <1>3
<1> QED
  BY <1>1, <1>4

\* A sequence with one element changed and two more.
TwoAdded(nd, nd2, a, r, y, z) ==
  /\ \E Y : nd2 \in Seq(Y)
  /\ Len(nd2) = Len(nd) + 2 /\ DOMAIN nd2 = 1..Len(nd2)
  /\ \A n \in 1..Len(nd) : nd2[n] = IF n = a THEN r ELSE nd[n]
  /\ nd2[Len(nd) + 1] = y /\ nd2[Len(nd) + 2] = z
\* Changing one element and appending two does that.
LEMMA TwoMore ==
  ASSUME NEW X, NEW nd \in Seq(X), NEW a \in 1..Len(nd), NEW r, NEW y, NEW z
  PROVE  TwoAdded(nd, [nd EXCEPT ![a] = r] \o <<y, z>>, a, r, y, z)
<1> DEFINE Y == (X \cup {r}) \cup {y, z}
           L == Len(nd)
<1> PICK v : v = [nd EXCEPT ![a] = r]
  OBVIOUS
<1> PICK w : w = <<y, z>>
  OBVIOUS
<1>1. v \in Seq(X \cup {r}) /\ Len(v) = L /\ \A n \in 1..L : v[n] = IF n = a THEN r ELSE nd[n]
  BY SeqWith
<1>2. y \in Y /\ z \in Y /\ X \cup {r} \subseteq Y
  OBVIOUS
<1>3. w \in Seq(Y) /\ Len(w) = 2 /\ w[1] = y /\ w[2] = z
  <2> HIDE DEF Y
  <2> QED
    BY <1>2
<1> HIDE DEF Y
<1>4. v \in Seq(Y)
  BY <1>1, <1>2, SeqMonotonic
<1> PICK nd2 : nd2 = [nd EXCEPT ![a] = r] \o <<y, z>>
  OBVIOUS
<1>5. nd2 = v \o w
  OBVIOUS
<1>6. L \in Nat
  OBVIOUS
<1> HIDE DEF L
<1>7. nd2 \in Seq(Y) /\ Len(nd2) = L + 2
      /\ \A n \in 1..(L + 2) : nd2[n] = IF n <= L THEN v[n] ELSE w[n - L]
  <2>1. /\ v \o w \in Seq(Y) /\ Len(v \o w) = Len(v) + Len(w)
        /\ \A n \in 1..(Len(v) + Len(w)) : (v \o w)[n] = IF n <= Len(v) THEN v[n] ELSE w[n - Len(v)]
    BY <1>3, <1>4, ConcatProperties
  <2> QED
    BY <1>1, <1>3, <1>5, <2>1
<1>8. L + 1 \in 1..(L + 2) /\ L + 2 \in 1..(L + 2) /\ ~(L + 1 <= L) /\ ~(L + 2 <= L)
      /\ (L + 1) - L = 1 /\ (L + 2) - L = 2
  BY <1>6
<1>9. \A n \in 1..L : n \in 1..(L + 2) /\ n <= L
  BY <1>6
<1>10. nd2[L + 1] = y /\ nd2[L + 2] = z
  BY <1>3, <1>7, <1>8
<1>11. \A n \in 1..L : nd2[n] = IF n = a THEN r ELSE nd[n]
  BY <1>1, <1>7, <1>9
<1>12. DOMAIN nd2 = 1..Len(nd2)
  BY <1>7
<1> QED
  BY <1>7, <1>10, <1>11, <1>12 DEF L, TwoAdded

\* What a split makes of the nodes.
LEMMA HalvedIs ==
  ASSUME NEW nd, NEW pts, Links(nd), Shape(nd), NEW a \in 1..Len(nd), nd[a].splitdim = 0,
         NEW r, NEW y, NEW z, NEW nd2, TwoAdded(nd, nd2, a, r, y, z),
         NEW B, B = {i \in Range(nd[a].idxarray) : pts[i][r.splitdim] >= r.splitpos},
         DOMAIN y = Fields, y.idxarray = Chosen(nd[a].idxarray, B), y.splitdim = 0,
         DOMAIN z = Fields, z.idxarray = Chosen(nd[a].idxarray, Range(nd[a].idxarray) \ B), z.splitdim = 0,
         DOMAIN r = Fields, r.idxarray = <<>>, r.splitdim # 0, r.ge = Len(nd) + 1, r.lt = Len(nd) + 2
  PROVE  Halved(nd, nd2, pts, a)
<1>1. Len(nd) \in Nat
  BY DEF Links
<1>2. /\ \E Y : nd2 \in Seq(Y)
      /\ Len(nd2) = Len(nd) + 2 /\ DOMAIN nd2 = 1..Len(nd2)
      /\ \A n \in 1..Len(nd) : nd2[n] = IF n = a THEN r ELSE nd[n]
      /\ nd2[Len(nd) + 1] = y /\ nd2[Len(nd) + 2] = z
  BY DEF TwoAdded
<1>3. nd2[a] = r
  BY <1>2
<1>4. \A n \in 1..Len(nd) : n # a => nd2[n] = nd[n]
  BY <1>2
<1>5. SplitAt(nd, nd2, a)
  BY <1>2, <1>3, <1>4 DEF SplitAt
<1>6. nd[a].idxarray \in Seq(Nat)
  BY DEF Shape
<1>7. y.idxarray \in Seq(Nat) /\ z.idxarray \in Seq(Nat)
  <2>1. Chosen(nd[a].idxarray, B) \in Seq(Nat)
    BY <1>6, ChosenIs DEF Picked
  <2>2. Chosen(nd[a].idxarray, Range(nd[a].idxarray) \ B) \in Seq(Nat)
    BY <1>6, ChosenIs DEF Picked
  <2> QED
    BY <2>1, <2>2
<1>8. ASSUME NEW n \in 1..Len(nd2) PROVE DOMAIN nd2[n] = Fields /\ nd2[n].idxarray \in Seq(Nat)
  <2>1. n \in 1..Len(nd) \/ n = Len(nd) + 1 \/ n = Len(nd) + 2
    <3>1. n \in 1..(Len(nd) + 2)
      BY <1>2, <1>8
    <3> QED
      BY <1>1, <3>1
  <2>2. CASE n \in 1..Len(nd) /\ n # a
    BY <1>4, <2>2 DEF Shape
  <2>3. CASE n = a
    <3>1. <<>> \in Seq(Nat)
      OBVIOUS
    <3> QED
      BY <1>3, <2>3, <3>1
  <2>4. CASE n = Len(nd) + 1
    <3>1. nd2[n] = y
      BY <1>2, <2>4
    <3> QED
      BY <1>7, <3>1
  <2>5. CASE n = Len(nd) + 2
    <3>1. nd2[n] = z
      BY <1>2, <2>5
    <3> QED
      BY <1>7, <3>1
  <2> QED
    BY <2>1, <2>2, <2>3, <2>4, <2>5
<1>9. Shape(nd2)
  BY <1>2, <1>8 DEF Shape
<1>10. B = {i \in Range(nd[a].idxarray) : pts[i][nd2[a].splitdim] >= nd2[a].splitpos}
  BY <1>3
<1>11. nd2[a].idxarray = <<>> /\ nd2[Len(nd) + 1].idxarray = Chosen(nd[a].idxarray, B)
       /\ nd2[Len(nd) + 2].idxarray = Chosen(nd[a].idxarray, Range(nd[a].idxarray) \ B)
  BY <1>2, <1>3
<1> QED
  BY <1>5, <1>9, <1>10, <1>11 DEF Halved

\* A full leaf is split, wherever the plane is put.
LEMMA TreeAddSplit == ASSUME TreeInv, AddSplit PROVE TreeInv' /\ AddStep
<1>1. Adding /\ node[call.at].splitdim = 0 /\ UNCHANGED <<points, call, present>>
  BY DEF AddSplit, IsLeaf
<1>2. /\ call.op = "add" /\ call.at \in 1..Len(node) /\ call.point \in Point
      /\ Route(node, call.point)[call.at] = Route(node, call.point)[1]
      /\ DOMAIN call = {"op", "point", "at", "invdepth"}
  BY <1>1, AddingCall
<1>3. TreeOK(node, points, present) /\ Links(node) /\ Shape(node) /\ Len(node) \in Nat \ {0}
  BY DEF TreeInv, TreeOK, Links
<1>4. Halved(node, node', points, call.at)
  <2> DEFINE s == node[call.at].idxarray
  <2>1. PICK split \in Splits :
          node' = [node EXCEPT ![call.at] = [idxarray |-> <<>>, splitdim |-> split[1], splitpos |-> split[2],
                                             ge |-> Len(node) + 1, lt |-> Len(node) + 2]]
                  \o << [Leaf EXCEPT !.idxarray = Chosen(s, {i \in Range(s) : points[i][split[1]] >= split[2]})],
                        [Leaf EXCEPT !.idxarray = Chosen(s, Range(s) \ {i \in Range(s) : points[i][split[1]] >= split[2]})] >>
    BY DEF AddSplit, Here
  <2> DEFINE B == {i \in Range(s) : points[i][split[1]] >= split[2]}
             r == [idxarray |-> <<>>, splitdim |-> split[1], splitpos |-> split[2],
                   ge |-> Len(node) + 1, lt |-> Len(node) + 2]
             y == [Leaf EXCEPT !.idxarray = Chosen(s, B)]
             z == [Leaf EXCEPT !.idxarray = Chosen(s, Range(s) \ B)]
  <2>2. node' = [node EXCEPT ![call.at] = r] \o <<y, z>>
    BY <2>1
  <2>3. /\ DOMAIN y = Fields /\ y.idxarray = Chosen(s, B) /\ y.splitdim = 0
        /\ DOMAIN z = Fields /\ z.idxarray = Chosen(s, Range(s) \ B) /\ z.splitdim = 0
    BY DEF Fields, Leaf
  <2>4. /\ DOMAIN r = Fields /\ r.idxarray = <<>> /\ r.splitdim = split[1] /\ r.splitpos = split[2]
        /\ r.ge = Len(node) + 1 /\ r.lt = Len(node) + 2
    BY DEF Fields
  <2>5. split[1] # 0
    BY SplitsDim, TreeAssumption
  <2>6. B = {i \in Range(s) : points[i][r.splitdim] >= r.splitpos}
    BY <2>4
  <2> HIDE DEF B, r, y, z
  <2>7. TwoAdded(node, node', call.at, r, y, z)
    <3>1. PICK X : node \in Seq(X)
      BY <1>3 DEF Shape
    <3> QED
      BY <1>2, <2>2, <3>1, TwoMore
  <2> QED
    BY ZenonT(30), <1>1, <1>2, <1>3, <2>3, <2>4, <2>5, <2>6, <2>7, HalvedIs
<1>5. TreeOK(node', points, present)
  BY <1>3, <1>4, HeldSplit
<1>6. CallOK(node', points, call)
  <2>1. SplitAt(node, node', call.at) /\ Len(node') = Len(node) + 2
    BY <1>4 DEF Halved, SplitAt
  <2>2. 1 \in 1..Len(node) /\ call.at \in 1..Len(node')
    BY <1>2, <1>3, <2>1
  <2>3. \A n \in 1..Len(node) : Route(node', call.point)[n] =
          IF Route(node, call.point)[n] = call.at THEN SideOf(node', call.at, call.point)
          ELSE Route(node, call.point)[n]
    BY <1>3, <2>1, SplitRoute
  <2>4. Route(node', call.point)[call.at] = Route(node', call.point)[1]
    BY <1>2, <2>2, <2>3
  <2> QED
    BY <1>2, <2>2, <2>4 DEF CallOK
<1>7. TreeInv'
  BY <1>1, <1>5, <1>6 DEF TreeInv
<1> QED
  BY <1>1, <1>2, <1>7 DEF AddStep

\* Every step of an addition.
LEMMA TreeAdds == ASSUME TreeInv, AddSteps PROVE TreeInv' /\ AddStep
BY TreeTooDeep, TreeAddBelow, TreeAddFound, TreeAddNew, TreeAddSplit DEF AddSteps

\* An addition starts at the root, which every route passes.
LEMMA TreeCalled == ASSUME TreeInv, NEW p \in Point, bsp_add_point(p) PROVE TreeInv'
<1>1. /\ call' = [op |-> "add", point |-> p, at |-> 1, invdepth |-> MaxDepth]
      /\ UNCHANGED <<points, node, present>>
  BY DEF bsp_add_point
<1>2. 1 \in 1..Len(node)
  BY DEF TreeInv, TreeOK, Links
<1>3. call'.op = "add" /\ DOMAIN call' = {"op", "point", "at", "invdepth"} /\ call'.point = p /\ call'.at = 1
  BY <1>1
<1>4. CallOK(node, points, call')
  BY <1>2, <1>3 DEF CallOK
<1> QED
  BY <1>1, <1>4 DEF TreeInv

\* An addition returns.
LEMMA TreeReturned ==
  ASSUME TreeInv, call' = NoCall, UNCHANGED <<points, node, present>> PROVE TreeInv'
BY DEF TreeInv, CallOK

\* The leaf a search ends in, and what it holds.
LEMMA LeafHolds ==
  ASSUME TreeInv, NEW p
  PROVE  /\ LeafOf(p) \in 1..Len(node) /\ Route(node, p)[1] = LeafOf(p)
         /\ \A n, k, j : Holds(node, n, k, j) /\ points[j] = p => n = LeafOf(p) /\ k \in Hits(n, p)
<1>1. TreeOK(node, points, present) /\ Links(node) /\ Placed(node, points)
  BY DEF TreeInv, TreeOK
<1>2. Route(node, p)[1] = LeafOf(p)
  BY LeafIsEnd
<1>3. LeafOf(p) \in 1..Len(node)
  <2>1. Goes(Route(node, p), node, p) /\ 1 \in 1..Len(node)
    BY <1>1, RouteIs DEF Links
  <2> QED
    BY <1>1, <1>2, <2>1, RouteEnds
<1>4. ASSUME NEW n, NEW k, NEW j, Holds(node, n, k, j), points[j] = p
      PROVE  n = LeafOf(p) /\ k \in Hits(n, p)
  <2>1. n = LeafOf(p)
    BY <1>1, <1>2, <1>4 DEF Placed
  <2>2. n \in 1..Len(node) /\ k \in 1..Len(node[n].idxarray) /\ node[n].idxarray[k] = j
    BY <1>4 DEF Holds
  <2> QED
    BY <1>4, <2>1, <2>2, HitsIs
<1> QED
  BY <1>2, <1>3, <1>4

\* A removal forgets the index of its point and no other.
LEMMA TreeRemoved == ASSUME TreeInv, NEW p, bsp_remove_point(p) PROVE TreeInv'
<1> PICK n : n = LeafOf(p)
  OBVIOUS
<1> PICK x : x = Min(Hits(n, p))
  OBVIOUS
<1> PICK r : r = RemovedFast(node[n].idxarray, x)
  OBVIOUS
<1> PICK q : q = {e \in present : e[1] # p}
  OBVIOUS
<1>1. /\ present' = q /\ UNCHANGED <<points, call>>
      /\ node' = IF Hits(n, p) = {} THEN node ELSE [node EXCEPT ![n].idxarray = r]
  BY DEF bsp_remove_point
<1>2. n \in 1..Len(node)
  BY LeafHolds
<1>3. TreeOK(node, points, present) /\ Links(node) /\ Shape(node) /\ Agrees(present, node, points)
      /\ CallOK(node, points, call)
  BY DEF TreeInv, TreeOK
<1>4. CASE Hits(n, p) = {}
  <2>1. \A m, k, j : Holds(node, m, k, j) => points[j] # p
    BY <1>4, LeafHolds
  <2>2. \A e \in present : e[1] # p
    <3> SUFFICES ASSUME NEW e \in present PROVE e[1] # p
      OBVIOUS
    <3>1. PICK m, k, j : Holds(node, m, k, j) /\ e = <<points[j], j>>
      BY <1>3 DEF Agrees
    <3> QED
      BY <2>1, <3>1
  <2>3. q = present
    BY <2>2
  <2> QED
    BY <1>1, <1>4, <2>3 DEF TreeInv
<1>5. CASE Hits(n, p) # {}
  <2>1. x \in 1..Len(node[n].idxarray) /\ points[node[n].idxarray[x]] = p
    BY <1>2, <1>5, HitsIs
  <2>2. r \in Seq(Nat)
    <3>1. node[n].idxarray \in Seq(Nat)
      BY <1>2, <1>3 DEF Shape
    <3> QED
      BY <2>1, <3>1, RemovedIs
  <2>3. Replaced(node, node', n, r)
    BY <1>1, <1>2, <1>3, <1>5, <2>2, ReplacedIs
  <2>4. TreeOK(node', points, q)
    <3>1. Replaced(node, node', n, RemovedFast(node[n].idxarray, x))
      BY <2>3
    <3>2. \A e : e \in q <=> e \in present /\ e[1] # p
      OBVIOUS
    <3> QED
      BY <1>2, <1>3, <2>1, <3>1, <3>2, HeldRemoved DEF Forgets
  <2>5. CallOK(node', points, call)
    <3>1. SameLinks(node, node') /\ Len(node') = Len(node)
      BY <2>3 DEF Replaced, SameLinks
    <3>2. \A o : \A m \in 1..Len(node) : Route(node', o)[m] = Route(node, o)[m]
      BY <1>3, <3>1, SameRoute
    <3>3. 1 \in 1..Len(node)
      BY <1>3 DEF Links
    <3> QED
      BY <1>3, <3>1, <3>2, <3>3 DEF CallOK
  <2> QED
    BY <1>1, <2>4, <2>5 DEF TreeInv
<1> QED
  BY <1>4, <1>5

\* Every step of the tree.
LEMMA TreeNextInv == ASSUME TreeInv, TreeNext PROVE TreeInv'
<1>1. ASSUME AddDone PROVE TreeInv'
  BY <1>1, TreeReturned DEF AddDone
<1> QED
  BY <1>1, TreeAdds, TreeCalled, TreeRemoved DEF TreeNext, TreeCalls

\* A point that is in the tree is found, under its index, and no other point is.
LEMMA PresentFound == TreeInv => PresentIsFound
<1> SUFFICES ASSUME TreeInv, NEW p \in Point
             PROVE  IF \E e \in present : e[1] = p
                    THEN \E e \in present : /\ e[1] = p /\ {f \in present : f[1] = p} = {e}
                                            /\ points[e[2]] = p /\ bsp_find_point(p) = e[2]
                    ELSE bsp_find_point(p) = 0
  BY DEF PresentIsFound
<1> PICK n : n = LeafOf(p)
  OBVIOUS
<1>1. n \in 1..Len(node) /\ \A m, k, j : Holds(node, m, k, j) /\ points[j] = p => m = n /\ k \in Hits(n, p)
  BY LeafHolds
<1>2. Placed(node, points) /\ Agrees(present, node, points)
  BY DEF TreeInv, TreeOK
<1>3. bsp_find_point(p) = IF Hits(n, p) = {} THEN 0 ELSE node[n].idxarray[Min(Hits(n, p))]
  BY DEF bsp_find_point
<1>4. CASE \E e \in present : e[1] = p
  <2>1. PICK e \in present : e[1] = p
    BY <1>4
  <2>2. PICK m, k, j : Holds(node, m, k, j) /\ e = <<points[j], j>>
    BY <1>2 DEF Agrees
  <2>3. points[j] = p /\ e[2] = j /\ Hits(n, p) # {}
    BY <1>1, <2>1, <2>2
  <2> PICK x : x = Min(Hits(n, p))
    OBVIOUS
  <2>4. x \in 1..Len(node[n].idxarray) /\ points[node[n].idxarray[x]] = p
    BY <1>1, <2>3, HitsIs
  <2>5. Holds(node, n, x, node[n].idxarray[x])
    BY <1>1, <2>4 DEF Holds
  <2>6. node[n].idxarray[x] = j
    BY <1>2, <2>2, <2>3, <2>4, <2>5, HeldOnce
  <2>7. \A f \in present : f[1] = p => f = e
    <3> SUFFICES ASSUME NEW f \in present, f[1] = p PROVE f = e
      OBVIOUS
    <3>1. PICK m1, k1, j1 : Holds(node, m1, k1, j1) /\ f = <<points[j1], j1>>
      BY <1>2 DEF Agrees
    <3>2. j1 = j
      BY <1>2, <2>2, <2>3, <3>1, HeldOnce
    <3> QED
      BY <2>2, <3>1, <3>2
  <2>8. {f \in present : f[1] = p} = {e}
    BY <2>1, <2>7
  <2>9. bsp_find_point(p) = e[2]
    BY <1>3, <2>3, <2>6
  <2> QED
    BY <1>4, <2>1, <2>3, <2>8, <2>9
<1>5. CASE ~\E e \in present : e[1] = p
  <2>1. Hits(n, p) = {}
    <3> SUFFICES ASSUME NEW k \in Hits(n, p) PROVE FALSE
      OBVIOUS
    <3> PICK j : j = node[n].idxarray[k]
      OBVIOUS
    <3>1. Holds(node, n, k, j) /\ points[j] = p
      BY <1>1, HitsIs DEF Holds
    <3>2. <<p, j>> \in present
      BY <1>2, <3>1 DEF Agrees
    <3> QED
      BY <1>5, <3>2
  <2> QED
    BY <1>3, <1>5, <2>1
<1> QED
  BY <1>4, <1>5
-----------------------------------------------------------------------------
(* Sequences of records: one more, one changed. *)

IsSeq(s) == \E X : s \in Seq(X)
Added(s, s2, e) ==
  /\ IsSeq(s2) /\ Len(s) \in Nat /\ Len(s2) = Len(s) + 1 /\ s2[Len(s) + 1] = e
  /\ \A n \in 1..Len(s) : s2[n] = s[n]
Changed(s, s2, a, e) ==
  /\ IsSeq(s2) /\ Len(s) \in Nat /\ Len(s2) = Len(s) /\ a \in 1..Len(s) /\ s2[a] = e
  /\ \A n \in 1..Len(s) : n # a => s2[n] = s[n]

\* Appending adds one element.
LEMMA AppendAdds == ASSUME NEW s, IsSeq(s), NEW e PROVE Added(s, Append(s, e), e)
<1>1. PICK X : s \in Seq(X)
  BY DEF IsSeq
<1> PICK Y : Y = X \cup {e}
  OBVIOUS
<1>2. s \in Seq(Y) /\ e \in Y /\ Len(s) \in Nat
  BY <1>1, SeqMonotonic
<1>3. /\ Append(s, e) \in Seq(Y) /\ Len(Append(s, e)) = Len(s) + 1
      /\ \A i \in 1..Len(s) : Append(s, e)[i] = s[i]
      /\ Append(s, e)[Len(s) + 1] = e
  BY <1>2, AppendProperties
<1> QED
  BY <1>2, <1>3 DEF Added, IsSeq

\* Assigning to one element changes that one.
LEMMA ExceptChanges ==
  ASSUME NEW s, IsSeq(s), NEW a \in 1..Len(s), NEW e PROVE Changed(s, [s EXCEPT ![a] = e], a, e)
<1>1. PICK X : s \in Seq(X)
  BY DEF IsSeq
<1> PICK t : t = [s EXCEPT ![a] = e]
  OBVIOUS
<1>2. /\ t \in Seq(X \cup {e}) /\ Len(t) = Len(s)
      /\ \A n \in 1..Len(s) : t[n] = IF n = a THEN e ELSE s[n]
  BY <1>1, SeqWith
<1>3. Len(s) \in Nat
  BY <1>1
<1>4. Changed(s, t, a, e)
  BY <1>2, <1>3 DEF Changed, IsSeq
<1> QED
  BY <1>4

-----------------------------------------------------------------------------
(* Faces, sets of faces and the walk. *)

Vertex == Nat \X Nat
FaceFields == {"look", "vertices", "list"}
SetFields == {"look", "indices", "lineIndices", "colorIdx"}
FaceOK(face, f) ==
  /\ DOMAIN face = FaceFields /\ face.vertices \in Seq(Vertex)
  /\ \A k \in 1..Len(face.vertices) : face.vertices[k] = <<f, k>>
  /\ face.list # "hidden" => face.look \in Looks
FacesOK(fs) == IsSeq(fs) /\ \A f \in 1..Len(fs) : FaceOK(fs[f], f)
SetOK(set) ==
  /\ DOMAIN set = SetFields /\ set.look \in Looks /\ set.indices \in Seq(Seq(Vertex))
  /\ set.lineIndices \in Seq(Seq(Vertex)) /\ set.colorIdx \in Seq(Seq(Vertex))
SetsOK(sets) == IsSeq(sets) /\ \A i \in 1..Len(sets) : SetOK(sets[i])
\* Only the innermost face may still be in its list.
WalkOK(wk, fs) ==
  /\ IsSeq(wk)
  /\ \A k \in 1..Len(wk) : wk[k] \in 1..Len(fs) /\ (fs[wk[k]].list = "open" => k = Len(wk))

\* Faces are added, and those whose list is over stay as they are.
Later(fs, fs2) ==
  /\ Len(fs) \in Nat /\ Len(fs2) \in Nat /\ Len(fs) <= Len(fs2)
  /\ \A f \in 1..Len(fs) :
       /\ fs2[f].look = fs[f].look
       /\ fs[f].list # "open" => fs2[f] = fs[f]
       /\ fs[f].list = "open" => fs2[f].list # "hidden"

\* Vertices of no list and of lists that were cut.
Loose(s, fs) ==
  \A k \in 1..Len(s) : s[k][1] = 0 \/ (s[k][1] \in 1..Len(fs) /\ fs[s[k][1]].list = "cut")
HasCut(fs) == \E f \in 1..Len(fs) : fs[f].list = "cut"
ShapeOK(s, fs) ==
  /\ s \in Seq(Vertex)
  /\ \/ \E f \in 1..Len(fs) : fs[f].list = "ended" /\ s = fs[f].vertices
     \/ Loose(s, fs) /\ HasCut(fs)
ShapesOK(sets, fs) ==
  \A i \in 1..Len(sets) : \A k \in 1..Len(sets[i].indices) : ShapeOK(sets[i].indices[k], fs)
\* A face stands in one place of one set, and that is of its look.
StandsAt(sets, face, i, k) ==
  /\ i \in 1..Len(sets) /\ k \in 1..Len(sets[i].indices) /\ sets[i].indices[k] = face.vertices
  /\ MaterialPoint(sets[i].look) = MaterialPoint(face.look)
  /\ \A j \in 1..Len(sets) : \A m \in 1..Len(sets[j].indices) :
       sets[j].indices[m] = face.vertices => j = i /\ m = k
Stands(sets, face) == \E i, k : StandsAt(sets, face, i, k)
Polygon(face) == face.list = "ended" /\ Len(face.vertices) >= 3
EndedOK(sets, fs) == \A f \in 1..Len(fs) : Polygon(fs[f]) => Stands(sets, fs[f])
ColourOK(set) ==
  /\ set.lineIndices = <<>> => set.colorIdx = IF PerVertex(set.look) THEN set.indices ELSE <<>>
  /\ PerVertex(set.look) /\ set.lineIndices # <<>> => set.colorIdx # <<>>
ColoursOK(sets) == \A i \in 1..Len(sets) : ColourOK(sets[i])
DrawnOK(sets, fs) == ShapesOK(sets, fs) /\ EndedOK(sets, fs) /\ ColoursOK(sets)

\* What the constants give of a look.
LEMMA LookIs ==
  ASSUME NEW look \in Looks
  PROVE  look.lightmode \in 0..255 /\ look.subface_level \in Int /\ MaterialPoint(look) \in Point
<1>1. look.lightmode \in 0..255 /\ look.subface_level \in Int
  BY ConverterAssumption
<1>2. MaterialPoint(look) \in Point
  BY ConverterAssumption
<1> QED
  BY <1>1, <1>2

\* Looks of one point have the binding of their light mode in common: light modes
\* stand below the levels of subfaces in the sum of the two.
LEMMA SameBinding ==
  ASSUME NEW look \in Looks, NEW look2 \in Looks, MaterialPoint(look) = MaterialPoint(look2)
  PROVE  PerVertex(look) = PerVertex(look2)
<1> PICK a \in 0..255, b \in Int : a = look.lightmode /\ b = look.subface_level
  BY LookIs
<1> PICK c \in 0..255, d \in Int : c = look2.lightmode /\ d = look2.subface_level
  BY LookIs
<1>1. look.lightmode + 256 * look.subface_level = look2.lightmode + 256 * look2.subface_level
  BY DEF MaterialPoint
<1>2. a + 256 * b = c + 256 * d
  BY <1>1
<1>3. ~(b < d)
  BY <1>2
<1>4. ~(d < b)
  BY <1>2
<1>5. b = d
  BY <1>3, <1>4
<1>6. PICK e \in Int : e = 256 * b /\ e = 256 * d
  BY <1>5
<1>7. a + e = c + e
  BY <1>2, <1>6
<1>8. ~(a < c) /\ ~(c < a)
  BY <1>7
<1>9. a = c
  BY <1>8
<1> QED
  BY <1>9 DEF PerVertex

\* What is said of loose vertices and of shapes stays true.
LEMMA LaterLoose ==
  ASSUME NEW fs, NEW fs2, Later(fs, fs2)
  PROVE  /\ \A s : Loose(s, fs) => Loose(s, fs2)
         /\ HasCut(fs) => HasCut(fs2)
         /\ \A s : ShapeOK(s, fs) => ShapeOK(s, fs2)
<1>1. \A f \in 1..Len(fs) :
        /\ f \in 1..Len(fs2) /\ fs2[f].look = fs[f].look
        /\ fs[f].list # "open" => fs2[f] = fs[f]
        /\ fs[f].list # "hidden" => fs2[f].list # "hidden"
  BY DEF Later
<1>2. \A s : Loose(s, fs) => Loose(s, fs2)
  BY <1>1 DEF Loose
<1>3. HasCut(fs) => HasCut(fs2)
  BY <1>1 DEF HasCut
<1>5. \A s : ShapeOK(s, fs) => ShapeOK(s, fs2)
  <2>1. \A s : (\E f \in 1..Len(fs) : fs[f].list = "ended" /\ s = fs[f].vertices)
               => \E f \in 1..Len(fs2) : fs2[f].list = "ended" /\ s = fs2[f].vertices
    BY <1>1
  <2> QED
    BY <1>2, <1>3, <2>1 DEF ShapeOK
<1> QED
  BY <1>2, <1>3, <1>5

\* Shapes stay right, and faces that had ended in their places.
LEMMA LaterDrawn ==
  ASSUME NEW fs, NEW fs2, NEW sets, Later(fs, fs2), DrawnOK(sets, fs)
  PROVE  /\ ShapesOK(sets, fs2) /\ ColoursOK(sets)
         /\ \A f \in 1..Len(fs) : fs[f].list = "ended" /\ Polygon(fs2[f]) => Stands(sets, fs2[f])
<1>1. ShapesOK(sets, fs2)
  BY LaterLoose DEF DrawnOK, ShapesOK
<1>2. ColoursOK(sets)
  BY DEF DrawnOK
<1>3. ASSUME NEW f \in 1..Len(fs), fs[f].list = "ended", Polygon(fs2[f]) PROVE Stands(sets, fs2[f])
  <2>1. fs2[f] = fs[f]
    BY <1>3 DEF Later
  <2>2. EndedOK(sets, fs)
    BY DEF DrawnOK
  <2> QED
    BY <1>3, <2>1, <2>2 DEF EndedOK
<1> QED
  BY <1>1, <1>2, <1>3

\* When no list ends, what is drawn stays right, and so does the walk.
LEMMA LaterDrawnStill ==
  ASSUME NEW fs, NEW fs2, NEW sets, Later(fs, fs2), DrawnOK(sets, fs),
         \A f \in 1..Len(fs2) : fs2[f].list = "ended" => f \in 1..Len(fs) /\ fs[f].list = "ended"
  PROVE  DrawnOK(sets, fs2)
<1>1. EndedOK(sets, fs2)
  BY LaterDrawn DEF EndedOK, Polygon
<1> QED
  BY <1>1, LaterDrawn DEF DrawnOK
LEMMA LaterWalk ==
  ASSUME NEW fs, NEW fs2, NEW wk, Later(fs, fs2), WalkOK(wk, fs)
  PROVE  WalkOK(wk, fs2)
<1>1. \A f \in 1..Len(fs) : f \in 1..Len(fs2) /\ (fs2[f].list = "open" => fs[f].list = "open")
  BY DEF Later
<1> QED
  BY <1>1 DEF WalkOK

\* One more face, whose list is open or which is hidden.
LEMMA OneMoreFace ==
  ASSUME NEW fs, NEW fs2, NEW e, Added(fs, fs2, e), DOMAIN e = FaceFields, e.vertices = <<>>,
         e.list # "hidden" => e.look \in Looks, FacesOK(fs)
  PROVE  FacesOK(fs2) /\ Later(fs, fs2)
<1>1. /\ IsSeq(fs2) /\ Len(fs) \in Nat /\ Len(fs2) = Len(fs) + 1 /\ fs2[Len(fs) + 1] = e
      /\ \A n \in 1..Len(fs) : fs2[n] = fs[n]
  BY DEF Added
<1>2. \A n : n \in 1..Len(fs2) <=> n \in 1..Len(fs) \/ n = Len(fs) + 1
  BY <1>1
<1>3. FaceOK(e, Len(fs) + 1)
  <2>1. <<>> \in Seq(Vertex) /\ Len(<<>>) = 0 /\ 1..0 = {}
    OBVIOUS
  <2> QED
    BY <2>1 DEF FaceOK
<1>4. FacesOK(fs2)
  BY <1>1, <1>2, <1>3 DEF FacesOK
<1>5. Later(fs, fs2)
  BY <1>1 DEF Later
<1> QED
  BY <1>4, <1>5

\* A face that is in its list changes: more vertices, or the list is over.
LEMMA OpenFaceChanges ==
  ASSUME NEW fs, NEW fs2, NEW a, NEW e, Changed(fs, fs2, a, e), FacesOK(fs), FaceOK(e, a),
         fs[a].list = "open", e.look = fs[a].look, e.list # "hidden"
  PROVE  FacesOK(fs2) /\ Later(fs, fs2)
<1>1. /\ IsSeq(fs2) /\ Len(fs) \in Nat /\ Len(fs2) = Len(fs) /\ a \in 1..Len(fs) /\ fs2[a] = e
      /\ \A n \in 1..Len(fs) : n # a => fs2[n] = fs[n]
  BY DEF Changed
<1>2. FacesOK(fs2)
  BY <1>1 DEF FacesOK
<1>3. Later(fs, fs2)
  BY <1>1 DEF Later
<1> QED
  BY <1>2, <1>3

\* The list of a face is over.
ListOver(fs, a, over) == [fs EXCEPT ![a].list = over]
LEMMA ListIsOver ==
  ASSUME NEW fs, FacesOK(fs), NEW a \in 1..Len(fs), fs[a].list = "open", NEW over \in {"cut", "ended"}
  PROVE  /\ FacesOK(ListOver(fs, a, over)) /\ Later(fs, ListOver(fs, a, over))
         /\ Len(ListOver(fs, a, over)) = Len(fs) /\ ListOver(fs, a, over)[a].list = over
         /\ ListOver(fs, a, over)[a].vertices = fs[a].vertices
         /\ ListOver(fs, a, over)[a].look = fs[a].look
         /\ \A f \in 1..Len(fs) : f # a => ListOver(fs, a, over)[f] = fs[f]
<1> PICK e : e = [fs[a] EXCEPT !.list = over]
  OBVIOUS
<1> PICK fs2 : fs2 = [fs EXCEPT ![a] = e]
  OBVIOUS
<1>1. IsSeq(fs) /\ FaceOK(fs[a], a)
  BY DEF FacesOK
<1>2. DOMAIN e = FaceFields /\ e.list = over /\ e.vertices = fs[a].vertices /\ e.look = fs[a].look
  BY <1>1 DEF FaceOK, FaceFields
<1>3. FaceOK(e, a)
  BY <1>1, <1>2 DEF FaceOK
<1>4. Changed(fs, fs2, a, e)
  BY <1>1, ExceptChanges
<1>5. FacesOK(fs2) /\ Later(fs, fs2)
  BY <1>2, <1>3, <1>4, OpenFaceChanges
<1>6. Len(fs2) = Len(fs) /\ fs2[a] = e /\ \A f \in 1..Len(fs) : f # a => fs2[f] = fs[f]
  BY <1>4 DEF Changed
<1>7. ListOver(fs, a, over) = fs2
  BY DEF ListOver
<1> QED
  BY <1>2, <1>5, <1>6, <1>7
\* A set for a look that had none: empty.
LEMMA OneMoreSet ==
  ASSUME NEW fs, NEW sets, NEW sets2, NEW look \in Looks,
         Added(sets, sets2, faceset_create(look)), SetsOK(sets), DrawnOK(sets, fs)
  PROVE  SetsOK(sets2) /\ DrawnOK(sets2, fs)
<1> PICK e : e = faceset_create(look)
  OBVIOUS
<1>1. /\ IsSeq(sets2) /\ Len(sets) \in Nat /\ Len(sets2) = Len(sets) + 1 /\ sets2[Len(sets) + 1] = e
      /\ \A n \in 1..Len(sets) : sets2[n] = sets[n]
  BY DEF Added
<1>2. \A n : n \in 1..Len(sets2) <=> n \in 1..Len(sets) \/ n = Len(sets) + 1
  BY <1>1
<1>3. DOMAIN e = SetFields /\ e.look = look /\ e.indices = <<>> /\ e.lineIndices = <<>> /\ e.colorIdx = <<>>
  BY DEF faceset_create, SetFields
<1>4. 1..Len(e.indices) = {}
  <2>1. Len(<<>>) = 0 /\ 1..0 = {}
    OBVIOUS
  <2> QED
    BY <1>3, <2>1
<1>5. SetOK(e) /\ ColourOK(e)
  <2>1. <<>> \in Seq(Seq(Vertex))
    OBVIOUS
  <2> QED
    BY <1>3, <2>1 DEF SetOK, ColourOK
<1>6. SetsOK(sets2)
  BY <1>1, <1>2, <1>5 DEF SetsOK
<1>7. ShapesOK(sets, fs) /\ EndedOK(sets, fs) /\ ColoursOK(sets)
  BY DEF DrawnOK
<1>8. ShapesOK(sets2, fs)
  BY <1>1, <1>2, <1>4, <1>7 DEF ShapesOK
<1>9. EndedOK(sets2, fs)
  <2>1. ASSUME NEW face, NEW i, NEW k, StandsAt(sets, face, i, k) PROVE StandsAt(sets2, face, i, k)
    BY <1>1, <1>2, <1>4, <2>1 DEF StandsAt
  <2> QED
    BY <1>7, <2>1 DEF EndedOK, Stands
<1>10. ColoursOK(sets2)
  BY <1>1, <1>2, <1>5, <1>7 DEF ColoursOK
<1> QED
  BY <1>6, <1>8, <1>9, <1>10 DEF DrawnOK

\* A set takes a shape: a polygon if it has three vertices.
Takes(set, set2, v) ==
  /\ SetOK(set2) /\ set2.look = set.look
  /\ IF Len(v) >= 3
     THEN /\ Len(set2.indices) = Len(set.indices) + 1 /\ set2.indices[Len(set.indices) + 1] = v
          /\ \A k \in 1..Len(set.indices) : set2.indices[k] = set.indices[k]
     ELSE set2.indices = set.indices
\* The shape is the one a face was waiting for, or another.
Waits(sets, face, c, v) ==
  /\ v = face.vertices /\ MaterialPoint(sets[c].look) = MaterialPoint(face.look)
  /\ \A i \in 1..Len(sets) : \A k \in 1..Len(sets[i].indices) : sets[i].indices[k] # v
\* What is drawn is right after a set has taken a shape.
LEMMA SetTakes ==
  ASSUME NEW fs, NEW sets, NEW sets2, NEW c, NEW set2, NEW v,
         SetsOK(sets), ShapesOK(sets, fs), ColoursOK(sets),
         Changed(sets, sets2, c, set2), Takes(sets[c], set2, v), ColourOK(set2), ShapeOK(v, fs),
         \A f \in 1..Len(fs) : Polygon(fs[f]) =>
           Waits(sets, fs[f], c, v) \/ (v # fs[f].vertices /\ Stands(sets, fs[f]))
  PROVE  SetsOK(sets2) /\ DrawnOK(sets2, fs)
<1>1. /\ IsSeq(sets2) /\ Len(sets2) = Len(sets) /\ c \in 1..Len(sets) /\ sets2[c] = set2
      /\ \A n \in 1..Len(sets) : n # c => sets2[n] = sets[n]
  BY DEF Changed
<1>2. SetOK(set2) /\ set2.look = sets[c].look
  BY DEF Takes
<1>3. SetsOK(sets2)
  BY <1>1, <1>2 DEF SetsOK
<1>4. ColoursOK(sets2)
  BY <1>1 DEF ColoursOK
<1> PICK n : n = Len(sets[c].indices)
  OBVIOUS
<1>5. n \in Nat
  BY <1>1 DEF SetsOK, SetOK
\* What was drawn and what is.
<1>6. /\ \A i \in 1..Len(sets) : sets2[i].look = sets[i].look
      /\ \A i \in 1..Len(sets) : \A k \in 1..Len(sets[i].indices) :
           k \in 1..Len(sets2[i].indices) /\ sets2[i].indices[k] = sets[i].indices[k]
      /\ \A i \in 1..Len(sets) : \A k \in 1..Len(sets2[i].indices) :
           \/ k \in 1..Len(sets[i].indices)
           \/ i = c /\ k = n + 1 /\ sets2[i].indices[k] = v
      /\ Len(v) >= 3 => n + 1 \in 1..Len(sets2[c].indices) /\ sets2[c].indices[n + 1] = v
  <2>1. CASE Len(v) >= 3
    <3>1. /\ Len(set2.indices) = n + 1 /\ set2.indices[n + 1] = v
          /\ \A k \in 1..n : set2.indices[k] = sets[c].indices[k]
      BY <2>1 DEF Takes
    <3>2. \A k : k \in 1..(n + 1) <=> k \in 1..n \/ k = n + 1
      BY <1>5
    <3> QED
      BY <1>1, <1>2, <1>5, <3>1, <3>2
  <2>2. CASE ~(Len(v) >= 3)
    <3>1. set2.indices = sets[c].indices
      BY <2>2 DEF Takes
    <3>2. \A i \in 1..Len(sets) : sets2[i].indices = sets[i].indices /\ sets2[i].look = sets[i].look
      BY <1>1, <1>2, <3>1
    <3> QED
      BY <2>2, <3>2
  <2> QED
    BY <2>1, <2>2
<1>7. ShapesOK(sets2, fs)
  <2> SUFFICES ASSUME NEW i \in 1..Len(sets), NEW k \in 1..Len(sets2[i].indices)
               PROVE  ShapeOK(sets2[i].indices[k], fs)
    BY <1>1 DEF ShapesOK
  <2>1. CASE k \in 1..Len(sets[i].indices)
    BY <1>6, <2>1 DEF ShapesOK
  <2>2. CASE sets2[i].indices[k] = v
    BY <2>2
  <2> QED
    BY <1>6, <2>1, <2>2
<1>8. EndedOK(sets2, fs)
  <2> SUFFICES ASSUME NEW f \in 1..Len(fs), Polygon(fs[f]) PROVE Stands(sets2, fs[f])
    BY DEF EndedOK
  <2>1. CASE Waits(sets, fs[f], c, v)
    <3>1. /\ v = fs[f].vertices /\ MaterialPoint(sets[c].look) = MaterialPoint(fs[f].look)
          /\ \A i \in 1..Len(sets) : \A k \in 1..Len(sets[i].indices) : sets[i].indices[k] # v
      BY <2>1 DEF Waits
    <3>2. Len(v) >= 3
      BY <3>1 DEF Polygon
    <3>3. \A j \in 1..Len(sets2) : \A m \in 1..Len(sets2[j].indices) :
            sets2[j].indices[m] = v => j = c /\ m = n + 1
      BY <1>1, <1>6, <3>1
    <3>4. StandsAt(sets2, fs[f], c, n + 1)
      BY <1>1, <1>6, <3>1, <3>2, <3>3 DEF StandsAt
    <3> QED
      BY <3>4 DEF Stands
  <2>2. CASE v # fs[f].vertices /\ Stands(sets, fs[f])
    <3>1. PICK i, k : StandsAt(sets, fs[f], i, k)
      BY <2>2 DEF Stands
    <3>2. /\ i \in 1..Len(sets) /\ k \in 1..Len(sets[i].indices) /\ sets[i].indices[k] = fs[f].vertices
          /\ MaterialPoint(sets[i].look) = MaterialPoint(fs[f].look)
          /\ \A j \in 1..Len(sets) : \A m \in 1..Len(sets[j].indices) :
               sets[j].indices[m] = fs[f].vertices => j = i /\ m = k
      BY <3>1 DEF StandsAt
    <3>3. \A j \in 1..Len(sets2) : \A m \in 1..Len(sets2[j].indices) :
            sets2[j].indices[m] = fs[f].vertices => j = i /\ m = k
      BY <1>1, <1>6, <2>2, <3>2
    <3>4. StandsAt(sets2, fs[f], i, k)
      BY <1>1, <1>6, <3>2, <3>3 DEF StandsAt
    <3> QED
      BY <3>4 DEF Stands
  <2> QED
    BY <2>1, <2>2
<1> QED
  BY <1>3, <1>4, <1>7, <1>8 DEF DrawnOK

\* Polygons are told apart by their first vertex.
LEMMA FirstVertex ==
  ASSUME NEW fs, FacesOK(fs), NEW f \in 1..Len(fs), Len(fs[f].vertices) >= 3
  PROVE  fs[f].vertices[1] = <<f, 1>> /\ 1 \in 1..Len(fs[f].vertices)
<1>1. FaceOK(fs[f], f)
  BY DEF FacesOK
<1>2. Len(fs[f].vertices) \in Nat
  BY <1>1 DEF FaceOK
<1>3. 1 \in 1..Len(fs[f].vertices)
  BY <1>2
<1> QED
  BY <1>1, <1>3 DEF FaceOK
\* The vertices of a list that ended are not loose.
LEMMA EndedNotLoose ==
  ASSUME NEW fs, FacesOK(fs), NEW f \in 1..Len(fs), fs[f].list # "cut", Len(fs[f].vertices) >= 3
  PROVE  ~Loose(fs[f].vertices, fs)
<1>1. fs[f].vertices[1] = <<f, 1>> /\ 1 \in 1..Len(fs[f].vertices) /\ f # 0
  BY FirstVertex
<1>2. <<f, 1>>[1] = f
  OBVIOUS
<1> QED
  BY <1>1, <1>2 DEF Loose
\* A face that is in its list is drawn nowhere.
LEMMA NotDrawn ==
  ASSUME NEW fs, FacesOK(fs), NEW sets, ShapesOK(sets, fs),
         NEW f \in 1..Len(fs), fs[f].list = "open", Len(fs[f].vertices) >= 3,
         NEW i \in 1..Len(sets), NEW k \in 1..Len(sets[i].indices)
  PROVE  sets[i].indices[k] # fs[f].vertices
<1> SUFFICES ASSUME sets[i].indices[k] = fs[f].vertices PROVE FALSE
  OBVIOUS
<1>1. ~Loose(fs[f].vertices, fs)
  BY EndedNotLoose
<1>2. ShapeOK(fs[f].vertices, fs)
  BY DEF ShapesOK
<1>3. PICK g \in 1..Len(fs) : fs[g].list = "ended" /\ fs[f].vertices = fs[g].vertices
  BY <1>1, <1>2 DEF ShapeOK
<1>4. fs[f].vertices[1] = <<f, 1>> /\ fs[g].vertices[1] = <<g, 1>>
  BY <1>3, FirstVertex
<1>5. g = f
  BY <1>3, <1>4
<1> QED
  BY <1>3, <1>5

\* Appending to an array of shapes.
LEMMA OneMoreShape ==
  ASSUME NEW s \in Seq(Seq(Vertex)), NEW v \in Seq(Vertex)
  PROVE  /\ Append(s, v) \in Seq(Seq(Vertex)) /\ Append(s, v) # <<>>
         /\ Len(Append(s, v)) = Len(s) + 1 /\ Append(s, v)[Len(s) + 1] = v
         /\ \A k \in 1..Len(s) : Append(s, v)[k] = s[k]
<1> PICK S : S = Seq(Vertex)
  OBVIOUS
<1> PICK t : t = Append(s, v)
  OBVIOUS
<1>1. /\ t \in Seq(S) /\ Len(t) = Len(s) + 1 /\ t[Len(s) + 1] = v
      /\ \A i \in 1..Len(s) : t[i] = s[i]
  BY AppendProperties
<1>2. Len(s) \in Nat
  OBVIOUS
<1>4. Len(<<>>) = 0 /\ Len(s) + 1 # 0
  BY <1>2
<1>3. t # <<>>
  BY <1>1, <1>4
<1> QED
  BY <1>1, <1>3
\* What the vertices collected do to the set of the face.
LEMMA FlushedTakes ==
  ASSUME NEW set, SetOK(set), ColourOK(set), vertexarray \in Seq(Vertex),
         color_per_vertex = PerVertex(set.look),
         color_per_vertex => colorarray = vertexarray
  PROVE  Takes(set, Flushed(set), vertexarray) /\ ColourOK(Flushed(set)) /\ ~ColoursMissing
<1> DEFINE more == Append(set.colorIdx, colorarray)
           lines == Append(set.lineIndices, vertexarray)
           polygons == Append(set.indices, vertexarray)
<1>1. ~ColoursMissing
  BY DEF ColoursMissing
<1>2. DOMAIN set = SetFields /\ set.indices \in Seq(Seq(Vertex)) /\ set.lineIndices \in Seq(Seq(Vertex))
      /\ set.colorIdx \in Seq(Seq(Vertex))
  BY DEF SetOK
<1>3. color_per_vertex => more = Append(set.colorIdx, vertexarray)
  OBVIOUS
<1>4. color_per_vertex => more \in Seq(Seq(Vertex)) /\ more # <<>>
  BY <1>2, <1>3, OneMoreShape
<1>5. lines \in Seq(Seq(Vertex)) /\ lines # <<>>
  BY <1>2, OneMoreShape
<1>6. /\ polygons \in Seq(Seq(Vertex)) /\ Len(polygons) = Len(set.indices) + 1
      /\ polygons[Len(set.indices) + 1] = vertexarray
      /\ \A k \in 1..Len(set.indices) : polygons[k] = set.indices[k]
  BY <1>2, OneMoreShape
<1>10. Len(vertexarray) \in Nat
  OBVIOUS
<1>7. CASE Len(vertexarray) < 2
  <2>1. Flushed(set) = set
    BY <1>7 DEF Flushed
  <2>2. ~(Len(vertexarray) >= 3)
    BY <1>7, <1>10
  <2> QED
    BY <1>1, <2>1, <2>2 DEF Takes
<1>8. CASE Len(vertexarray) = 2
  <2>1. Flushed(set) = IF color_per_vertex THEN [[set EXCEPT !.lineIndices = lines] EXCEPT !.colorIdx = more]
                       ELSE [set EXCEPT !.lineIndices = lines]
    BY <1>2, <1>8 DEF Flushed, SetFields
  <2> HIDE DEF lines, polygons
  <2>2. /\ DOMAIN Flushed(set) = SetFields /\ Flushed(set).look = set.look /\ Flushed(set).indices = set.indices
        /\ Flushed(set).lineIndices = lines
        /\ Flushed(set).colorIdx = IF color_per_vertex THEN more ELSE set.colorIdx
    <3> HIDE DEF more
    <3> QED
      BY <1>2, <2>1 DEF SetFields
  <2> HIDE DEF more
  <2> PICK set2 : set2 = Flushed(set)
    OBVIOUS
  <2>3. SetOK(set2)
    BY <1>2, <1>4, <1>5, <2>2 DEF SetOK
  <2>4. ColourOK(set2)
    BY <1>4, <1>5, <2>2 DEF ColourOK
  <2>5. Takes(set, set2, vertexarray)
    BY <1>8, <2>2, <2>3 DEF Takes
  <2> QED
    BY <1>1, <2>4, <2>5
<1>9. CASE ~(Len(vertexarray) < 2) /\ Len(vertexarray) # 2
  <2>1. Flushed(set) = IF color_per_vertex THEN [[set EXCEPT !.indices = polygons] EXCEPT !.colorIdx = more]
                       ELSE [set EXCEPT !.indices = polygons]
    BY <1>2, <1>9 DEF Flushed, SetFields
  <2> HIDE DEF lines
  <2>6. color_per_vertex /\ set.colorIdx = set.indices => more = polygons
    BY <1>3 DEF polygons
  <2> HIDE DEF polygons
  <2>2. /\ DOMAIN Flushed(set) = SetFields /\ Flushed(set).look = set.look
        /\ Flushed(set).lineIndices = set.lineIndices /\ Flushed(set).indices = polygons
        /\ Flushed(set).colorIdx = IF color_per_vertex THEN more ELSE set.colorIdx
    <3> HIDE DEF more
    <3> QED
      BY <1>2, <2>1 DEF SetFields
  <2> HIDE DEF more
  <2> PICK set2 : set2 = Flushed(set)
    OBVIOUS
  <2>3. SetOK(set2)
    BY <1>2, <1>4, <1>6, <2>2 DEF SetOK
  <2>4. ColourOK(set2)
    BY <1>4, <2>2, <2>6 DEF ColourOK
  <2>7. Len(vertexarray) >= 3
    <3> PICK n \in Nat : n = Len(vertexarray)
      BY <1>10
    <3>1. ~(n < 2) /\ n # 2 => n >= 3
      OBVIOUS
    <3> QED
      BY <1>9, <3>1
  <2>5. Takes(set, set2, vertexarray)
    BY <1>6, <2>2, <2>3, <2>7 DEF Takes
  <2> QED
    BY <1>1, <2>4, <2>5
<1> QED
  BY <1>7, <1>8, <1>9
-----------------------------------------------------------------------------
(* The conversion. *)

Newest == faces[Len(faces)]
LooksOK ==
  /\ \A i \in 1..Len(facesets) : MaterialPoint(facesets[i].look) = points[i]
  /\ call.op \in {"none", "add"} => Len(points) = Len(facesets)
  /\ call.op = "add" => call.point = MaterialPoint(Newest.look)
  /\ call.op = "returned" =>
       /\ Len(points) = Len(facesets) \/ (Len(points) = Len(facesets) + 1 /\ call.idx = Len(points))
       /\ call.idx \in 1..Len(points) /\ points[call.idx] = MaterialPoint(Newest.look)
\* While the look of a face is added, nothing is collected.
MeetOK ==
  call.op # "none" =>
    /\ Len(faces) # 0 /\ is_in_face /\ vertexarray = <<>> /\ colorarray = <<>> /\ ~InList
    /\ Newest.list = "open" /\ Newest.vertices = <<>>
    /\ color_per_vertex = PerVertex(Newest.look) /\ outcome = "none"
    /\ \A k \in 1..Len(walk) : walk[k] # Len(faces)
\* The vertices of a face in its list are those collected, for a set of its look.
OwnOK ==
  call.op = "none" /\ InList =>
    /\ is_in_face /\ faces[Top].vertices = vertexarray
    /\ MaterialPoint(facesets[current_index].look) = MaterialPoint(faces[Top].look)
\* The colours collected are those of the vertices, and all are of one face or loose.
InFaceOK ==
  is_in_face /\ call.op = "none" =>
    /\ current_index \in 1..Len(facesets)
    /\ color_per_vertex = PerVertex(facesets[current_index].look)
    /\ color_per_vertex => colorarray = vertexarray
    /\ ~InList => Loose(vertexarray, faces) /\ HasCut(faces)
Core ==
  /\ FacesOK(faces) /\ SetsOK(facesets) /\ WalkOK(walk, faces) /\ vertexarray \in Seq(Vertex)
  /\ DrawnOK(facesets, faces) /\ outcome # "asserted"
Statics == LooksOK /\ MeetOK /\ OwnOK /\ InFaceOK
CInv ==
  /\ TreeInv /\ Core
  /\ using = "client" => Len(faces) = 0
  /\ using = "flt2vrml" => Statics

\* The length of a sequence.
LEMMA SeqLen == ASSUME NEW s, IsSeq(s) PROVE Len(s) \in Nat /\ (s = <<>> <=> Len(s) = 0)
<1>1. PICK X : s \in Seq(X)
  BY DEF IsSeq
<1> QED
  BY <1>1

\* The innermost face.
LEMMA TopIs ==
  ASSUME NEW wk, NEW fs, WalkOK(wk, fs), wk # <<>>
  PROVE  Len(wk) \in 1..Len(wk) /\ wk[Len(wk)] \in 1..Len(fs) /\ wk[Len(wk)] # 0
<1>1. Len(wk) \in Nat /\ Len(wk) # 0
  BY SeqLen DEF WalkOK
<1>2. Len(wk) \in 1..Len(wk)
  BY <1>1
<1> QED
  BY <1>2 DEF WalkOK

\* Nothing has been read.
LEMMA CInitInv == CInit => CInv
<1> SUFFICES ASSUME CInit PROVE CInv
  OBVIOUS
<1>1. /\ faces = <<>> /\ facesets = <<>> /\ walk = <<>> /\ vertexarray = <<>> /\ colorarray = <<>>
      /\ outcome = "none" /\ is_in_face = FALSE /\ TreeInit
  BY DEF CInit
<1>2. points = <<>> /\ call = NoCall
  BY <1>1 DEF TreeInit
<1>3. TreeInv
  BY <1>1, TreeInitInv
<1>4. IsSeq(<<>>) /\ Len(<<>>) = 0 /\ 1..0 = {} /\ <<>> \in Seq(Vertex)
  <2>1. <<>> \in Seq(Vertex) /\ Len(<<>>) = 0 /\ 1..0 = {}
    OBVIOUS
  <2> QED
    BY <2>1 DEF IsSeq
<1>5. FacesOK(faces) /\ SetsOK(facesets) /\ WalkOK(walk, faces)
  BY <1>1, <1>4 DEF FacesOK, SetsOK, WalkOK
<1>6. DrawnOK(facesets, faces)
  BY <1>1, <1>4 DEF DrawnOK, ShapesOK, EndedOK, ColoursOK
<1>7. Core
  BY <1>1, <1>4, <1>5, <1>6 DEF Core
<1>8. Statics
  BY <1>1, <1>2, <1>4, CallOps DEF Statics, LooksOK, MeetOK, OwnOK, InFaceOK, InList
<1> QED
  BY <1>1, <1>3, <1>4, <1>7, <1>8 DEF CInv

\* Two changes of the faces.
LEMMA LaterTwice ==
  ASSUME NEW fs, NEW fs1, NEW fs2, Later(fs, fs1), Later(fs1, fs2)
  PROVE  Later(fs, fs2)
<1>1. \A f \in 1..Len(fs) : f \in 1..Len(fs1)
  BY DEF Later
<1>2. ASSUME NEW f \in 1..Len(fs)
      PROVE  /\ fs2[f].look = fs[f].look
             /\ fs[f].list # "open" => fs2[f] = fs[f]
             /\ fs[f].list = "open" => fs2[f].list # "hidden"
  <2>1. /\ fs1[f].look = fs[f].look /\ fs2[f].look = fs1[f].look
        /\ fs[f].list # "open" => fs1[f] = fs[f]
        /\ fs[f].list = "open" => fs1[f].list # "hidden"
        /\ fs1[f].list # "open" => fs2[f] = fs1[f]
        /\ fs1[f].list = "open" => fs2[f].list # "hidden"
    BY <1>1 DEF Later
  <2> QED
    BY <2>1
<1> QED
  BY <1>2 DEF Later

\* A face is met, to be drawn or hidden.
LEMMA MetFace ==
  ASSUME CInv, using = "flt2vrml", NEW look, NEW list \in {"hidden", "open"}, list = "hidden" \/ look \in Looks,
         NEW subface \in BOOLEAN,
         FaceMet(look, list, subface), UNCHANGED <<facesets, walk, outcome>>
  PROVE  /\ Core' /\ Later(faces, faces') /\ Len(faces') = Len(faces) + 1 /\ Len(faces) \in Nat
         /\ Newest' = [look |-> look, vertices |-> <<>>, list |-> list]
         /\ ~InList' /\ (is_in_face => HasCut(faces')) /\ \A k \in 1..Len(walk) : walk[k] # Len(faces')
<1> DEFINE e == [look |-> look, vertices |-> <<>>, list |-> list]
           before == IF InList THEN [faces EXCEPT ![Top].list = "cut"] ELSE faces
<1>1. /\ faces' = Append(before, e) /\ vertexarray' = <<>> /\ call.op = "none" /\ outcome = "none"
  <2>1. subface => ~InList
    BY DEF FaceMet, MayMeetFace
  <2>2. before = IF InList /\ ~subface THEN [faces EXCEPT ![Top].list = "cut"] ELSE faces
    BY <2>1
  <2> QED
    BY <2>2 DEF FaceMet, Called
<1>2. DOMAIN e = FaceFields /\ e.vertices = <<>> /\ e.list = list /\ (e.list # "hidden" => e.look \in Looks)
  BY DEF FaceFields
<1>3. /\ FacesOK(faces) /\ SetsOK(facesets) /\ WalkOK(walk, faces) /\ DrawnOK(facesets, faces)
      /\ IsSeq(faces) /\ InFaceOK
  BY DEF CInv, Core, FacesOK, Statics
<1>4. walk # <<>> => Top \in 1..Len(faces)
  BY <1>3, TopIs DEF Top
<1> HIDE DEF e
<1>5. /\ FacesOK(before) /\ Later(faces, before) /\ Len(before) = Len(faces) /\ Len(faces) \in Nat
      /\ walk # <<>> => before[Top].list # "open"
      /\ is_in_face => HasCut(before)
      /\ \A f \in 1..Len(faces) : before[f].list = "ended" => faces[f].list = "ended"
  <2>1. Len(faces) \in Nat
    BY <1>3, SeqLen
  <2>2. CASE InList
    <3> PICK a : a = Top
      OBVIOUS
    <3>1. a \in 1..Len(faces) /\ faces[a].list = "open"
      BY <1>4, <2>2 DEF InList
    <3>2. before = ListOver(faces, a, "cut")
      BY <2>2 DEF ListOver
    <3> HIDE DEF before
    <3>3. /\ FacesOK(before) /\ Later(faces, before) /\ Len(before) = Len(faces)
          /\ before[a].list = "cut" /\ \A f \in 1..Len(faces) : f # a => before[f] = faces[f]
      BY <1>3, <3>1, <3>2, ListIsOver
    <3>4. HasCut(before)
      BY <3>1, <3>3 DEF HasCut
    <3> QED
      BY <2>1, <3>1, <3>3, <3>4
  <2>3. CASE ~InList
    <3>1. before = faces /\ (walk # <<>> => faces[Top].list # "open")
      BY <2>3 DEF InList
    <3>2. Later(faces, faces)
      BY <2>1 DEF Later
    <3>3. is_in_face => HasCut(faces)
      BY <1>1, <1>3, <2>3 DEF InFaceOK
    <3> QED
      BY <1>3, <2>1, <3>1, <3>2, <3>3
  <2> QED
    BY <2>2, <2>3
<1> HIDE DEF before
<1>6. Added(before, faces', e)
  BY <1>1, <1>5, AppendAdds DEF FacesOK
<1>7. FacesOK(faces') /\ Later(before, faces')
  BY <1>2, <1>5, <1>6, OneMoreFace
<1>8. /\ Len(faces') = Len(faces) + 1 /\ faces'[Len(faces) + 1] = e
      /\ \A f \in 1..Len(faces) : faces'[f] = before[f]
  BY <1>5, <1>6 DEF Added
<1>9. Later(faces, faces')
  BY <1>5, <1>7, LaterTwice
<1>10. WalkOK(walk, faces')
  BY <1>3, <1>9, LaterWalk
<1>11. DrawnOK(facesets, faces')
  <2>1. ASSUME NEW f \in 1..Len(faces'), faces'[f].list = "ended"
        PROVE  f \in 1..Len(faces) /\ faces[f].list = "ended"
    <3>1. f \in 1..Len(faces) \/ f = Len(faces) + 1
      BY <1>5, <1>8
    <3>2. list # "ended"
      OBVIOUS
    <3> QED
      BY <1>2, <1>5, <1>8, <2>1, <3>1, <3>2
  <2> QED
    BY <1>3, <1>9, <2>1, LaterDrawnStill
<1>12. Core'
  <2>1. <<>> \in Seq(Vertex)
    OBVIOUS
  <2> QED
    BY <1>1, <1>3, <1>7, <1>10, <1>11, <2>1 DEF Core
<1>13. ~InList'
  BY <1>4, <1>5, <1>8 DEF InList, Top
<1>14. is_in_face => HasCut(faces')
  BY <1>5, <1>7, LaterLoose
<1>15. Newest' = e
  BY <1>8 DEF Newest
<1>16. \A k \in 1..Len(walk) : walk[k] # Len(faces')
  BY <1>3, <1>5, <1>8 DEF WalkOK
<1> QED
  BY <1>5, <1>8, <1>9, <1>12, <1>13, <1>14, <1>15, <1>16 DEF e

\* A hidden face clears the arrays and is met without a look.
LEMMA HiddenFaceInv ==
  ASSUME CInv, using = "flt2vrml", NEW subface \in BOOLEAN, HiddenFace(subface) PROVE Core' /\ Statics'
<1>1. FaceMet(<<>>, "hidden", subface) /\ UNCHANGED <<treevars, statics, facesets, walk, outcome>>
  BY DEF HiddenFace
<1>2. call.op = "none" /\ vertexarray' = <<>> /\ colorarray' = <<>>
  BY <1>1 DEF FaceMet, Called
<1>3. UNCHANGED <<points, call, is_in_face, current_index, color_per_vertex, facesets, walk>>
  BY <1>1 DEF treevars, statics
<1>4. Core' /\ Later(faces, faces') /\ ~InList' /\ (is_in_face => HasCut(faces'))
  BY <1>1, MetFace
<1>5. LooksOK /\ InFaceOK
  BY DEF CInv, Statics
<1>6. LooksOK' /\ MeetOK' /\ OwnOK'
  BY <1>2, <1>3, <1>4, <1>5 DEF LooksOK, MeetOK, OwnOK
<1>7. InFaceOK'
  <2>1. Loose(<<>>, faces')
    <3>1. Len(<<>>) = 0 /\ 1..0 = {}
      OBVIOUS
    <3> QED
      BY <3>1 DEF Loose
  <2> QED
    BY <1>2, <1>3, <1>4, <1>5, <2>1 DEF InFaceOK
<1> QED
  BY <1>4, <1>6, <1>7 DEF Statics

\* A face starts the addition of its look to the tree.
LEMMA FaceInv ==
  ASSUME CInv, using = "flt2vrml", NEW look \in Looks, NEW subface \in BOOLEAN, Face(look, subface)
  PROVE  Core' /\ Statics'
<1>1. /\ FaceMet(look, "open", subface) /\ bsp_add_point(MaterialPoint(look)) /\ is_in_face' = TRUE
      /\ color_per_vertex' = PerVertex(look) /\ UNCHANGED <<current_index, facesets, walk, outcome>>
  BY DEF Face
<1>2. /\ call.op = "none" /\ outcome = "none" /\ vertexarray' = <<>> /\ colorarray' = <<>> /\ points' = points
      /\ call'.op = "add" /\ call'.point = MaterialPoint(look)
  BY <1>1 DEF FaceMet, Called, bsp_add_point
<1>3. /\ Core' /\ ~InList' /\ Len(faces') = Len(faces) + 1 /\ Len(faces) \in Nat
      /\ Newest' = [look |-> look, vertices |-> <<>>, list |-> "open"]
      /\ \A k \in 1..Len(walk) : walk[k] # Len(faces')
  BY <1>1, MetFace
<1>4. Newest'.look = look /\ Newest'.list = "open" /\ Newest'.vertices = <<>>
  BY <1>3
<1>5. LooksOK
  BY DEF CInv, Statics
<1>6. LooksOK'
  BY <1>1, <1>2, <1>4, <1>5 DEF LooksOK
<1>7. MeetOK'
  <2>1. Len(faces') # 0
    BY <1>3
  <2> QED
    BY <1>1, <1>2, <1>3, <1>4, <2>1 DEF MeetOK
<1>8. OwnOK' /\ InFaceOK'
  BY <1>2 DEF OwnOK, InFaceOK
<1> QED
  BY <1>3, <1>6, <1>7, <1>8 DEF Statics

\* The tree works on the look of the newest face: nothing else changes.
LEMMA AddStepsInv ==
  ASSUME CInv, using = "flt2vrml", AddSteps, UNCHANGED cvars PROVE Core' /\ Statics'
<1>1. AddStep /\ TreeInv'
  BY TreeAdds DEF CInv
<1>2. UNCHANGED <<is_in_face, current_index, color_per_vertex, vertexarray, colorarray, facesets, walk, faces, outcome>>
  BY DEF cvars, statics
<1>3. call.op = "add" /\ call'.op \in {"add", "returned"}
  BY <1>1 DEF AddStep
<1>5. Core'
  BY <1>2 DEF CInv, Core
<1>6. MeetOK' /\ OwnOK' /\ InFaceOK'
  <2>1. MeetOK
    BY DEF CInv, Statics
  <2>2. MeetOK'
    BY <1>2, <1>3, <2>1 DEF MeetOK, InList, Top, Newest
  <2> QED
    BY <1>3, <2>2 DEF OwnOK, InFaceOK
<1>7. LooksOK'
  <2>1. points \in Seq(Point) /\ LooksOK
    BY DEF CInv, TreeInv, TreeOK, Statics
  <2>2. /\ \A i \in 1..Len(facesets) : MaterialPoint(facesets[i].look) = points[i]
        /\ Len(points) = Len(facesets) /\ call.point = MaterialPoint(Newest.look)
    BY <1>3, <2>1 DEF LooksOK
  <2>3. Newest' = Newest /\ Len(facesets) \in Nat
    BY <1>2, <2>1, <2>2 DEF Newest
  <2>4. CASE call'.op = "add"
    BY <1>1, <1>2, <2>2, <2>3, <2>4 DEF AddStep, LooksOK
  <2>5. CASE call'.op = "returned" /\ points' = points
    BY <1>1, <1>2, <2>2, <2>3, <2>5 DEF AddStep, LooksOK
  <2>6. CASE call'.op = "returned" /\ points' = Append(points, call.point) /\ call'.idx = Len(points) + 1
    <3>1. call.point \in Point
      BY <1>3, CallOps DEF CInv, TreeInv, CallOK
    <3>2. Len(points') = Len(points) + 1 /\ \A i \in 1..Len(points) : points'[i] = points[i]
      BY <2>1, <2>6, <3>1, AppendProperties
    <3>3. call'.idx \in 1..Len(points') /\ points'[call'.idx] = call.point
      BY <1>1, <2>6 DEF AddStep
    <3> QED
      BY <1>2, <2>2, <2>3, <2>6, <3>2, <3>3 DEF LooksOK
  <2> QED
    BY <1>1, <2>4, <2>5, <2>6 DEF AddStep
<1> QED
  BY <1>5, <1>6, <1>7 DEF Statics

\* One more set if the look is a new point.
LEMMA SetOfLook ==
  ASSUME CInv, using = "flt2vrml", FaceAdded
  PROVE  /\ Len(facesets') = Len(points) /\ (\A i \in 1..Len(facesets') : MaterialPoint(facesets'[i].look) = points[i])
         /\ SetsOK(facesets') /\ DrawnOK(facesets', faces) /\ call.idx \in 1..Len(points)
         /\ points[call.idx] = MaterialPoint(Newest.look)
<1> DEFINE new == faceset_create(Newest.look)
<1>1. call.op = "returned" /\ facesets' = IF call.idx > Len(facesets) THEN Append(facesets, new) ELSE facesets
  BY DEF FaceAdded, Newest
<1>2. SetsOK(facesets) /\ DrawnOK(facesets, faces) /\ IsSeq(facesets) /\ LooksOK
  BY DEF CInv, Core, Statics, SetsOK
<1>3. /\ \A i \in 1..Len(facesets) : MaterialPoint(facesets[i].look) = points[i]
      /\ Len(points) = Len(facesets) \/ (Len(points) = Len(facesets) + 1 /\ call.idx = Len(points))
      /\ call.idx \in 1..Len(points) /\ points[call.idx] = MaterialPoint(Newest.look)
  BY <1>1, <1>2, CallOps DEF LooksOK
<1>4. Len(facesets) \in Nat
  BY <1>2, SeqLen
<1>8. Newest.look \in Looks
  <2>1. Len(faces) # 0 /\ Newest.list = "open" /\ IsSeq(faces) /\ FacesOK(faces)
    BY <1>1, CallOps DEF CInv, Core, Statics, MeetOK, FacesOK
  <2>2. Len(faces) \in 1..Len(faces)
    BY <2>1, SeqLen
  <2> QED
    BY <2>1, <2>2 DEF Newest, FacesOK, FaceOK
<1>5. new.look = Newest.look
  BY DEF faceset_create
<1> HIDE DEF new
<1>6. CASE call.idx > Len(facesets)
  <2>1. Added(facesets, facesets', new)
    BY <1>1, <1>2, <1>6, AppendAdds
  <2>2. SetsOK(facesets') /\ DrawnOK(facesets', faces)
    BY <1>2, <1>8, <2>1, OneMoreSet DEF new
  <2>3. Len(points) = Len(facesets) + 1 /\ call.idx = Len(points)
    BY <1>3, <1>4, <1>6
  <2>4. /\ Len(facesets') = Len(facesets) + 1 /\ facesets'[Len(facesets) + 1] = new
        /\ \A i \in 1..Len(facesets) : facesets'[i] = facesets[i]
    BY <2>1 DEF Added
  <2>5. \A i : i \in 1..Len(facesets') <=> i \in 1..Len(facesets) \/ i = Len(facesets) + 1
    BY <1>4, <2>4
  <2>6. \A i \in 1..Len(facesets') : MaterialPoint(facesets'[i].look) = points[i]
    BY <1>3, <1>5, <2>3, <2>4, <2>5
  <2> QED
    BY <1>3, <2>2, <2>3, <2>4, <2>6
<1>7. CASE ~(call.idx > Len(facesets))
  <2>1. facesets' = facesets
    BY <1>1, <1>7
  <2>2. Len(points) = Len(facesets)
    BY <1>3, <1>4, <1>7
  <2> QED
    BY <1>2, <1>3, <2>1, <2>2
<1> QED
  BY <1>6, <1>7

\* The face is the innermost now, or has no list to end it.
LEMMA FaceAddedInv ==
  ASSUME CInv, using = "flt2vrml", FaceAdded PROVE TreeInv' /\ Core' /\ Statics'
<1> PICK f : f = Len(faces)
  OBVIOUS
<1>1. /\ call.op = "returned" /\ call' = NoCall /\ call'.op = "none" /\ current_index' = call.idx
      /\ \/ walk' = Append(walk, f) /\ faces' = faces
         \/ walk' = walk /\ faces' = ListOver(faces, f, "cut")
      /\ UNCHANGED <<points, node, present, is_in_face, color_per_vertex, vertexarray, colorarray, outcome>>
  BY CallOps DEF FaceAdded, ListOver
<1>2. TreeInv'
  BY <1>1, TreeReturned DEF CInv
<1>3. Core /\ LooksOK /\ MeetOK
  BY DEF CInv, Statics
<1>4. /\ f # 0 /\ is_in_face /\ vertexarray = <<>> /\ colorarray = <<>> /\ ~InList
      /\ faces[f].list = "open" /\ faces[f].vertices = <<>>
      /\ color_per_vertex = PerVertex(faces[f].look) /\ outcome = "none"
      /\ \A k \in 1..Len(walk) : walk[k] # f
  BY <1>1, <1>3 DEF MeetOK, Newest
<1>5. FacesOK(faces) /\ WalkOK(walk, faces) /\ IsSeq(walk) /\ IsSeq(faces)
  BY <1>3 DEF Core, FacesOK, WalkOK
<1>6. Len(walk) \in Nat /\ f \in 1..Len(faces) /\ Len(faces) \in Nat
  BY <1>4, <1>5, SeqLen
<1>7. /\ Len(facesets') = Len(points) /\ (\A i \in 1..Len(facesets') : MaterialPoint(facesets'[i].look) = points[i])
      /\ SetsOK(facesets') /\ DrawnOK(facesets', faces) /\ current_index' \in 1..Len(facesets')
      /\ MaterialPoint(facesets'[current_index'].look) = MaterialPoint(faces[f].look)
  BY <1>1, SetOfLook DEF Newest
<1>12. color_per_vertex' = PerVertex(facesets'[current_index'].look)
  <2>1. faces[f].look \in Looks
    BY <1>4, <1>5, <1>6 DEF FacesOK, FaceOK
  <2>2. facesets'[current_index'].look \in Looks
    BY <1>7 DEF SetsOK, SetOK
  <2> QED
    BY <1>1, <1>4, <1>7, <2>1, <2>2, SameBinding
<1>8. LooksOK' /\ MeetOK'
  BY <1>1, <1>7 DEF LooksOK, MeetOK
<1>9. <<>> \in Seq(Vertex) /\ Len(<<>>) = 0 /\ 1..0 = {}
  OBVIOUS
<1>10. CASE walk' = Append(walk, f) /\ faces' = faces
  <2>1. /\ IsSeq(walk') /\ Len(walk') = Len(walk) + 1 /\ walk'[Len(walk) + 1] = f
        /\ \A k \in 1..Len(walk) : walk'[k] = walk[k]
    <3>1. Added(walk, walk', f)
      BY <1>5, <1>10, AppendAdds
    <3> QED
      BY <3>1 DEF Added
  <2>2. \A k : k \in 1..Len(walk') <=> k \in 1..Len(walk) \/ k = Len(walk) + 1
    BY <1>6, <2>1
  <2>3. \A k \in 1..Len(walk) : walk[k] \in 1..Len(faces) /\ faces[walk[k]].list # "open"
    <3> SUFFICES ASSUME NEW k \in 1..Len(walk) PROVE walk[k] \in 1..Len(faces) /\ faces[walk[k]].list # "open"
      OBVIOUS
    <3>1. walk[k] \in 1..Len(faces) /\ (faces[walk[k]].list = "open" => k = Len(walk))
      BY <1>5 DEF WalkOK
    <3>2. walk # <<>>
      BY <1>6, <1>5, SeqLen
    <3> QED
      BY <1>4, <3>1, <3>2 DEF InList, Top
  <2>4. WalkOK(walk', faces')
    BY <1>6, <1>10, <2>1, <2>2, <2>3 DEF WalkOK
  <2>5. InList' /\ Top' = f
    <3>1. walk' # <<>>
      BY <1>6, <2>1, SeqLen
    <3> QED
      BY <1>4, <1>10, <2>1, <3>1 DEF InList, Top
  <2>6. Core'
    BY <1>1, <1>3, <1>4, <1>5, <1>7, <1>10, <2>4 DEF Core
  <2>7. OwnOK'
    BY <1>1, <1>4, <1>7, <1>10, <2>5 DEF OwnOK
  <2>9. InFaceOK'
    BY <1>1, <1>4, <1>7, <1>12, <2>5 DEF InFaceOK
  <2> QED
    BY <1>2, <1>8, <2>6, <2>7, <2>9 DEF Statics
<1>11. CASE walk' = walk /\ faces' = ListOver(faces, f, "cut")
  <2>1. /\ FacesOK(faces') /\ Later(faces, faces') /\ Len(faces') = Len(faces) /\ faces'[f].list = "cut"
        /\ faces'[f].look = faces[f].look /\ \A g \in 1..Len(faces) : g # f => faces'[g] = faces[g]
    BY <1>4, <1>5, <1>6, <1>11, ListIsOver
  <2>2. WalkOK(walk', faces')
    BY <1>5, <1>11, <2>1, LaterWalk
  <2>3. \A g \in 1..Len(faces') : faces'[g].list = "ended" => g \in 1..Len(faces) /\ faces[g].list = "ended"
    BY <2>1
  <2>4. DrawnOK(facesets', faces')
    BY <1>7, <2>1, <2>3, LaterDrawnStill
  <2>5. Core'
    BY <1>1, <1>3, <1>4, <1>7, <2>1, <2>2, <2>4 DEF Core
  <2>6. ~InList'
    <3>1. walk # <<>> => Top \in 1..Len(faces) /\ Top # f
      BY <1>4, <1>5, TopIs DEF Top
    <3> QED
      BY <1>4, <1>11, <2>1, <3>1 DEF InList, Top
  <2>8. Loose(<<>>, faces') /\ HasCut(faces')
    BY <1>6, <1>9, <2>1 DEF Loose, HasCut
  <2>9. InFaceOK' /\ OwnOK'
    BY <1>1, <1>4, <1>7, <1>12, <2>6, <2>8 DEF InFaceOK, OwnOK
  <2> QED
    BY <1>2, <1>8, <2>5, <2>9 DEF Statics
<1> QED
  BY <1>1, <1>10, <1>11

\* The first pass over a face ends without the end of a list.
LEMMA NoListEndedInv == ASSUME CInv, using = "flt2vrml", NoListEnded PROVE Core' /\ Statics'
<1> PICK f : f = Top
  OBVIOUS
<1>1. /\ Called /\ InList /\ faces' = ListOver(faces, f, "cut")
      /\ UNCHANGED <<treevars, statics, vertexarray, colorarray, facesets, walk, outcome>>
  BY DEF NoListEnded, ListOver
<1>2. /\ UNCHANGED <<points, call, is_in_face, current_index, color_per_vertex>> /\ call.op = "none" /\ outcome = "none"
      /\ walk # <<>> /\ faces[f].list = "open"
  BY <1>1 DEF treevars, statics, Called, InList
<1>3. Core /\ LooksOK /\ OwnOK /\ InFaceOK
  BY DEF CInv, Statics
<1>4. FacesOK(faces) /\ WalkOK(walk, faces) /\ DrawnOK(facesets, faces) /\ IsSeq(faces) /\ vertexarray \in Seq(Vertex)
  BY <1>3 DEF Core, FacesOK
<1>5. f \in 1..Len(faces)
  BY <1>2, <1>4, TopIs DEF Top
<1>6. /\ FacesOK(faces') /\ Later(faces, faces') /\ Len(faces') = Len(faces) /\ faces'[f].list = "cut"
      /\ \A g \in 1..Len(faces) : g # f => faces'[g] = faces[g]
  BY <1>1, <1>2, <1>4, <1>5, ListIsOver
<1>7. WalkOK(walk, faces')
  BY <1>4, <1>6, LaterWalk
<1>8. DrawnOK(facesets, faces')
  <2>1. \A g \in 1..Len(faces') : faces'[g].list = "ended" => g \in 1..Len(faces) /\ faces[g].list = "ended"
    BY <1>6
  <2> QED
    BY <1>4, <1>6, <2>1, LaterDrawnStill
<1>9. Core'
  BY <1>1, <1>2, <1>3, <1>6, <1>7, <1>8 DEF Core
<1>10. ~InList'
  BY <1>1, <1>6 DEF InList, Top
<1>11. is_in_face /\ faces[f].vertices = vertexarray
  BY <1>1, <1>2, <1>3 DEF OwnOK
<1>12. Loose(vertexarray, faces') /\ HasCut(faces')
  <2>1. FaceOK(faces[f], f)
    BY <1>4, <1>5 DEF FacesOK
  <2>2. \A k \in 1..Len(vertexarray) : vertexarray[k] = <<f, k>>
    BY <1>11, <2>1 DEF FaceOK
  <2>3. \A k \in 1..Len(vertexarray) : vertexarray[k][1] = f
    BY <2>2
  <2> QED
    BY <1>5, <1>6, <2>3 DEF Loose, HasCut
<1>14. InFaceOK'
  BY <1>1, <1>2, <1>3, <1>11, <1>12 DEF InFaceOK
<1>15. LooksOK' /\ MeetOK' /\ OwnOK'
  BY <1>1, <1>2, <1>3, <1>10 DEF LooksOK, MeetOK, OwnOK
<1> QED
  BY <1>9, <1>14, <1>15 DEF Statics
\* Vertices n after b others, of face f.
Counted(f, b, n) == [i \in 1..n |-> <<f, b + i>>]
\* Their number and what each is.
LEMMA CountedIs ==
  ASSUME NEW f \in Nat, NEW b \in Nat, NEW n \in Nat
  PROVE  /\ Counted(f, b, n) \in Seq(Vertex) /\ Len(Counted(f, b, n)) = n
         /\ \A i \in 1..n : Counted(f, b, n)[i] = <<f, b + i>>
<1>1. \A i \in 1..n : <<f, b + i>> \in Vertex
  BY DEF Vertex
<1>2. Counted(f, b, n) \in [1..n -> Vertex]
  BY <1>1 DEF Counted
<1>3. Counted(f, b, n) \in Seq(Vertex)
  BY <1>2, SeqDef
<1>4. Len(Counted(f, b, n)) = n
  BY <1>2, <1>3
<1> QED
  BY <1>3, <1>4 DEF Counted

\* A place after the first b is one of the others.
LEMMA PlaceBeyond ==
  ASSUME NEW b \in Nat, NEW n \in Nat, NEW k \in 1..(b + n), ~(k <= b)
  PROVE  k - b \in 1..n /\ b + (k - b) = k
OBVIOUS

\* Vertices are collected, for the face whose list it is or for none.
LEMMA VertexListInv ==
  ASSUME CInv, using = "flt2vrml", NEW n \in Nat, VertexList(n) PROVE Core' /\ Statics'
<1>1. Called /\ UNCHANGED <<treevars, statics, facesets, walk, outcome>>
  BY DEF VertexList
<1>2. /\ UNCHANGED <<points, call, is_in_face, current_index, color_per_vertex, facesets, walk, outcome>>
      /\ call.op = "none" /\ outcome = "none"
  BY <1>1 DEF treevars, statics, Called
<1>3. Core /\ LooksOK /\ OwnOK /\ InFaceOK
  BY DEF CInv, Statics
<1>4. vertexarray \in Seq(Vertex) /\ FacesOK(faces) /\ WalkOK(walk, faces) /\ DrawnOK(facesets, faces)
  BY <1>3 DEF Core
<1>5. MeetOK'
  BY <1>2 DEF MeetOK
<1>6. CASE ~InList
  <2> PICK v : v = Counted(0, 0, n)
    OBVIOUS
  <2>1. /\ faces' = faces
        /\ vertexarray' = IF is_in_face THEN vertexarray \o v ELSE vertexarray
        /\ colorarray' = IF is_in_face /\ color_per_vertex THEN colorarray \o v ELSE colorarray
    <3>1. \A i \in 1..n : 0 + i = i
      OBVIOUS
    <3>2. v = [i \in 1..n |-> <<0, i>>]
      BY <3>1 DEF Counted
    <3>3. v = [i \in 1..n |-> IF InList THEN <<Top, Len(faces[Top].vertices) + i>> ELSE <<0, i>>]
      BY <1>6, <3>2
    <3> QED
      BY <1>6, <3>3 DEF VertexList
  <2>2. v \in Seq(Vertex) /\ Len(v) = n /\ \A i \in 1..n : v[i] = <<0, 0 + i>>
    BY CountedIs
  <2>3. vertexarray' \in Seq(Vertex)
    BY <1>4, <2>1, <2>2, ConcatProperties
  <2>4. Core'
    BY <1>2, <1>3, <2>1, <2>3 DEF Core
  <2>5. ~InList'
    BY <1>2, <1>6, <2>1 DEF InList, Top
  <2>6. LooksOK' /\ OwnOK'
    BY <1>2, <1>3, <2>1, <2>5 DEF LooksOK, OwnOK
  <2>8. is_in_face => Loose(vertexarray', faces')
    <3> SUFFICES ASSUME is_in_face, NEW k \in 1..Len(vertexarray')
                 PROVE  vertexarray'[k][1] = 0 \/ (vertexarray'[k][1] \in 1..Len(faces)
                                                   /\ faces[vertexarray'[k][1]].list = "cut")
      BY <2>1 DEF Loose
    <3>1. Loose(vertexarray, faces)
      BY <1>2, <1>3, <1>6 DEF InFaceOK
    <3>2. /\ Len(vertexarray') = Len(vertexarray) + Len(v)
          /\ \A j \in 1..(Len(vertexarray) + Len(v)) :
               vertexarray'[j] = IF j <= Len(vertexarray) THEN vertexarray[j] ELSE v[j - Len(vertexarray)]
      BY <1>4, <2>1, <2>2, ConcatProperties
    <3>3. Len(vertexarray) \in Nat
      BY <1>4
    <3>4. k \in 1..(Len(vertexarray) + n)
      BY <2>2, <3>2
    <3>5. k \in 1..Len(vertexarray) \/ (~(k <= Len(vertexarray)) /\ k - Len(vertexarray) \in 1..n)
      BY <3>3, <3>4
    <3>6. CASE k \in 1..Len(vertexarray)
      <4>1. k <= Len(vertexarray)
        BY <3>3, <3>6
      <4>2. vertexarray'[k] = vertexarray[k]
        BY <3>2, <4>1
      <4> QED
        BY <3>1, <3>6, <4>2 DEF Loose
    <3>7. CASE ~(k <= Len(vertexarray)) /\ k - Len(vertexarray) \in 1..n
      <4>1. vertexarray'[k] = v[k - Len(vertexarray)]
        BY <3>2, <3>7
      <4>2. v[k - Len(vertexarray)] = <<0, 0 + (k - Len(vertexarray))>>
        BY <2>2, <3>7
      <4> QED
        BY <4>1, <4>2
    <3> QED
      BY <3>5, <3>6, <3>7
  <2>9. InFaceOK'
    BY <1>2, <1>3, <1>6, <2>1, <2>8 DEF InFaceOK
  <2> QED
    BY <1>5, <2>4, <2>6, <2>9 DEF Statics
<1>7. CASE InList
  <2> PICK f : f = Top
    OBVIOUS
  <2> PICK b : b = Len(faces[f].vertices)
    OBVIOUS
  <2> PICK v : v = Counted(f, b, n)
    OBVIOUS
  <2> PICK e : e = [faces[f] EXCEPT !.vertices = @ \o v]
    OBVIOUS
  <2>1. walk # <<>> /\ faces[f].list = "open"
    BY <1>7 DEF InList
  <2>2. /\ is_in_face /\ faces[f].vertices = vertexarray
        /\ MaterialPoint(facesets[current_index].look) = MaterialPoint(faces[f].look)
    BY <1>2, <1>3, <1>7 DEF OwnOK
  <2>3. f \in 1..Len(faces) /\ f \in Nat /\ f # 0
    <3>1. Top \in 1..Len(faces)
      BY <1>4, <2>1, TopIs DEF Top
    <3> QED
      BY <3>1
  <2>4. /\ faces' = [faces EXCEPT ![f] = e]
        /\ vertexarray' = vertexarray \o v
        /\ colorarray' = IF color_per_vertex THEN colorarray \o v ELSE colorarray
    BY <1>7, <2>2, <2>3 DEF VertexList, Counted
  <2>5. FaceOK(faces[f], f) /\ IsSeq(faces)
    BY <1>4, <2>3 DEF FacesOK
  <2>6. faces[f].vertices \in Seq(Vertex) /\ b \in Nat /\ DOMAIN faces[f] = FaceFields
        /\ \A k \in 1..b : faces[f].vertices[k] = <<f, k>>
    <3>1. faces[f].vertices \in Seq(Vertex) /\ DOMAIN faces[f] = FaceFields
          /\ \A k \in 1..b : faces[f].vertices[k] = <<f, k>>
      BY <2>5 DEF FaceOK
    <3> QED
      BY <3>1
  <2>7. v \in Seq(Vertex) /\ Len(v) = n /\ \A i \in 1..n : v[i] = <<f, b + i>>
    BY <2>3, <2>6, CountedIs
  <2>8. DOMAIN e = FaceFields /\ e.vertices = vertexarray \o v /\ e.look = faces[f].look /\ e.list = "open"
    BY <2>1, <2>2, <2>6 DEF FaceFields
  <2>9. /\ vertexarray \o v \in Seq(Vertex) /\ Len(vertexarray \o v) = b + n
        /\ \A k \in 1..(b + n) : (vertexarray \o v)[k] = IF k <= b THEN vertexarray[k] ELSE v[k - b]
    <3>1. /\ vertexarray \o v \in Seq(Vertex) /\ Len(vertexarray \o v) = Len(vertexarray) + Len(v)
          /\ \A k \in 1..(Len(vertexarray) + Len(v)) :
               (vertexarray \o v)[k] = IF k <= Len(vertexarray) THEN vertexarray[k] ELSE v[k - Len(vertexarray)]
      BY <1>4, <2>7, ConcatProperties
    <3>2. Len(vertexarray) = b /\ Len(v) = n
      BY <2>2, <2>7
    <3> QED
      BY <3>1, <3>2
  <2>10. FaceOK(e, f)
    <3>1. ASSUME NEW k \in 1..(b + n) PROVE (vertexarray \o v)[k] = <<f, k>>
      <4>1. CASE k <= b
        <5>1. k \in 1..b
          BY <2>6, <3>1, <4>1
        <5> QED
          BY <2>2, <2>6, <2>9, <3>1, <4>1, <5>1
      <4>2. CASE ~(k <= b)
        <5>1. k - b \in 1..n /\ b + (k - b) = k
          BY <2>6, <3>1, <4>2, PlaceBeyond
        <5> QED
          BY <2>7, <2>9, <3>1, <4>2, <5>1
      <4> QED
        BY <4>1, <4>2
    <3>2. e.look \in Looks
      BY <2>1, <2>5, <2>8 DEF FaceOK
    <3>3. Len(e.vertices) = b + n /\ e.vertices \in Seq(Vertex) /\ e.vertices = vertexarray \o v
      BY <2>8, <2>9
    <3>4. \A k \in 1..Len(e.vertices) : e.vertices[k] = <<f, k>>
      BY <3>1, <3>3
    <3> QED
      BY <2>8, <3>2, <3>3, <3>4 DEF FaceOK
  <2>11. Changed(faces, faces', f, e)
    BY <2>3, <2>4, <2>5, ExceptChanges
  <2>12. FacesOK(faces') /\ Later(faces, faces')
    BY <1>4, <2>1, <2>8, <2>10, <2>11, OpenFaceChanges
  <2>13. /\ Len(faces') = Len(faces) /\ faces'[f] = e
         /\ \A g \in 1..Len(faces) : g # f => faces'[g] = faces[g]
    BY <2>11 DEF Changed
  <2>14. WalkOK(walk, faces')
    BY <1>4, <2>12, LaterWalk
  <2>15. DrawnOK(facesets, faces')
    <3>1. \A g \in 1..Len(faces') : faces'[g].list = "ended" => g \in 1..Len(faces) /\ faces[g].list = "ended"
      BY <2>8, <2>13
    <3> QED
      BY <1>4, <2>12, <3>1, LaterDrawnStill
  <2>16. Core'
    BY <1>2, <1>3, <2>4, <2>9, <2>12, <2>14, <2>15 DEF Core
  <2>17. InList' /\ Top' = Top
    BY <1>2, <2>1, <2>8, <2>13 DEF InList, Top
  <2>18. LooksOK' /\ OwnOK'
    <3>1. LooksOK'
      BY <1>2, <1>3 DEF LooksOK
    <3>2. faces'[f] = e /\ faces[f].vertices = vertexarray /\ vertexarray' = vertexarray \o v
          /\ Top' = f /\ e.vertices = vertexarray \o v /\ e.look = faces[f].look
      BY <2>2, <2>4, <2>8, <2>13, <2>17
    <3> QED
      BY <1>2, <2>2, <3>1, <3>2 DEF OwnOK
  <2>20. InFaceOK'
    BY <1>2, <1>3, <2>2, <2>4, <2>17 DEF InFaceOK
  <2> QED
    BY <1>5, <2>16, <2>18, <2>20 DEF Statics
<1> QED
  BY <1>6, <1>7

\* The second pass over a face ends: the walk is back at the face above.
LEMMA FaceDoneInv == ASSUME CInv, using = "flt2vrml", FaceDone PROVE Core' /\ Statics'
<1>1. /\ Called /\ walk # <<>> /\ ~InList /\ walk' = SubSeq(walk, 1, Len(walk) - 1)
      /\ UNCHANGED <<treevars, statics, vertexarray, colorarray, facesets, faces, outcome>>
  BY DEF FaceDone
<1>2. UNCHANGED <<points, call, is_in_face, current_index, color_per_vertex>> /\ call.op = "none"
  BY <1>1 DEF treevars, statics, Called
<1>3. Core /\ LooksOK /\ InFaceOK
  BY DEF CInv, Statics
<1>4. WalkOK(walk, faces)
  BY <1>3 DEF Core
<1>5. PICK X : walk \in Seq(X)
  BY <1>4 DEF WalkOK, IsSeq
<1>6. Len(walk) \in Nat /\ Len(walk) # 0
  BY <1>1, <1>5
<1>7. walk' \in Seq(X) /\ Len(walk') = Len(walk) - 1 /\ \A k \in 1..(Len(walk) - 1) : walk'[k] = walk[k]
  <2> PICK m : m = Len(walk) - 1
    OBVIOUS
  <2> PICK r : r = SubSeq(walk, 1, m)
    OBVIOUS
  <2>1. 1 \in 1..(Len(walk) + 1) /\ m \in 0..Len(walk)
    BY <1>6
  <2>2. /\ r \in Seq(X) /\ Len(r) = (IF 1 <= m THEN m - 1 + 1 ELSE 0)
        /\ \A k \in 1..(m - 1 + 1) : r[k] = walk[1 + k - 1]
    BY <1>5, <2>1, SubSeqProperties
  <2>3. m \in Nat /\ m - 1 + 1 = m /\ (~(1 <= m) => m = 0)
    BY <1>6
  <2>4. \A k \in 1..m : 1 + k - 1 = k
    BY <2>3
  <2>5. Len(r) = m /\ \A k \in 1..m : r[k] = walk[k]
    BY <2>2, <2>3, <2>4
  <2> QED
    BY <1>1, <2>2, <2>5
<1>8. \A k \in 1..Len(walk') : k \in 1..Len(walk) /\ k # Len(walk) /\ walk'[k] = walk[k]
  BY <1>6, <1>7
<1>9. \A k \in 1..Len(walk') : walk'[k] \in 1..Len(faces) /\ faces[walk'[k]].list # "open"
  BY <1>4, <1>8 DEF WalkOK
<1>10. WalkOK(walk', faces)
  <2>1. IsSeq(walk')
    BY <1>7 DEF IsSeq
  <2> QED
    BY <1>9, <2>1 DEF WalkOK
<1>11. ~InList'
  <2>1. walk' # <<>> => Len(walk') \in 1..Len(walk')
    BY <1>7
  <2> QED
    BY <1>1, <1>9, <2>1 DEF InList, Top
<1>12. Core'
  BY <1>1, <1>3, <1>10 DEF Core
<1>13. InFaceOK'
  BY <1>1, <1>2, <1>3, <1>11 DEF InFaceOK
<1>14. LooksOK' /\ MeetOK' /\ OwnOK'
  BY <1>1, <1>2, <1>3, <1>11 DEF LooksOK, MeetOK, OwnOK
<1> QED
  BY <1>12, <1>13, <1>14 DEF Statics

\* The sets are written: no assertion on the colours fails.
LEMMA DoConvertInv == ASSUME CInv, using = "flt2vrml", do_convert PROVE Core' /\ Statics'
<1>1. /\ UNCHANGED <<treevars, statics, vertexarray, colorarray, facesets, walk, faces>>
      /\ outcome' = IF \E i \in DOMAIN facesets : Uncoloured(facesets[i]) THEN "asserted" ELSE "written"
  BY DEF do_convert
<1>2. UNCHANGED <<points, call, is_in_face, current_index, color_per_vertex>>
  BY <1>1 DEF treevars, statics
<1>3. Core /\ Statics
  BY DEF CInv
<1>4. ~\E i \in DOMAIN facesets : Uncoloured(facesets[i])
  <2> SUFFICES ASSUME NEW i \in DOMAIN facesets PROVE ~Uncoloured(facesets[i])
    OBVIOUS
  <2>1. PICK X : facesets \in Seq(X)
    BY <1>3 DEF Core, SetsOK, IsSeq
  <2>2. i \in 1..Len(facesets)
    BY <2>1
  <2>3. ColourOK(facesets[i])
    BY <1>3, <2>2 DEF Core, DrawnOK, ColoursOK
  <2> QED
    BY <2>3 DEF ColourOK, Uncoloured
<1>5. Core'
  BY <1>1, <1>2, <1>3, <1>4 DEF Core
<1>6. Statics'
  <2>1. UNCHANGED <<InList, Top, Newest>>
    BY <1>1 DEF InList, Top, Newest
  <2>2. call.op = "none" /\ call' = call
    BY <1>2 DEF do_convert, Called
  <2>3. LooksOK /\ OwnOK /\ InFaceOK
    BY <1>3 DEF Statics
  <2>4. LooksOK'
    <3>1. facesets' = facesets /\ points' = points /\ Newest' = Newest
      BY <1>1, <1>2, <2>1
    <3> QED
      BY <2>2, <2>3, <3>1 DEF LooksOK
  <2>5. MeetOK'
    BY <2>2 DEF MeetOK
  <2>6. OwnOK'
    BY <1>1, <1>2, <2>1, <2>3 DEF OwnOK
  <2>7. InFaceOK'
    BY <1>1, <1>2, <2>1, <2>3 DEF InFaceOK
  <2> QED
    BY <2>4, <2>5, <2>6, <2>7 DEF Statics
<1> QED
  BY <1>5, <1>6

\* A list ends: that of the face is over, and so is what it collected.
LEMMA PopLevelFaces ==
  ASSUME CInv, using = "flt2vrml", NEW nested \in BOOLEAN, PopLevel(nested)
  PROVE  /\ FacesOK(faces') /\ Later(faces, faces') /\ ~InList' /\ Len(faces') = Len(faces) /\ WalkOK(walk, faces')
         /\ is_in_face => ShapeOK(vertexarray, faces')
         /\ ~is_in_face => faces' = faces
         /\ is_in_face => \A f \in 1..Len(faces') : Polygon(faces'[f]) =>
              \/ Waits(facesets, faces'[f], current_index, vertexarray)
              \/ vertexarray # faces'[f].vertices /\ Stands(facesets, faces'[f])
<1> PICK a : a = Top
  OBVIOUS
<1> PICK over \in {"cut", "ended"} : over = IF nested THEN "cut" ELSE "ended"
  OBVIOUS
<1>1. Called /\ faces' = (IF InList THEN ListOver(faces, a, over) ELSE faces) /\ walk' = walk /\ call.op = "none"
  BY DEF PopLevel, ListOver, Called
<1>2. Core /\ OwnOK /\ InFaceOK
  BY DEF CInv, Statics
<1>3. /\ FacesOK(faces) /\ WalkOK(walk, faces) /\ DrawnOK(facesets, faces) /\ IsSeq(faces) /\ vertexarray \in Seq(Vertex)
      /\ ShapesOK(facesets, faces) /\ EndedOK(facesets, faces)
  BY <1>2 DEF Core, FacesOK, DrawnOK
<1>4. CASE InList
  <2>1. walk # <<>> /\ faces[a].list = "open"
    BY <1>4 DEF InList
  <2>2. a \in 1..Len(faces)
    BY <1>3, <2>1, TopIs DEF Top
  <2>3. is_in_face /\ faces[a].vertices = vertexarray
        /\ MaterialPoint(facesets[current_index].look) = MaterialPoint(faces[a].look)
    BY <1>1, <1>2, <1>4 DEF OwnOK
  <2>4. /\ FacesOK(faces') /\ Later(faces, faces') /\ Len(faces') = Len(faces) /\ faces'[a].list = over
        /\ faces'[a].vertices = faces[a].vertices /\ faces'[a].look = faces[a].look
        /\ \A g \in 1..Len(faces) : g # a => faces'[g] = faces[g]
    BY <1>1, <1>3, <1>4, <2>1, <2>2, ListIsOver
  <2>5. ~InList'
    BY <1>1, <2>4 DEF InList, Top
  <2>6. WalkOK(walk, faces')
    BY <1>3, <2>4, LaterWalk
  <2>7. ShapeOK(vertexarray, faces') /\ (over = "cut" => Loose(vertexarray, faces'))
    <3>1. FaceOK(faces[a], a)
      BY <1>3, <2>2 DEF FacesOK
    <3>2. \A k \in 1..Len(vertexarray) : vertexarray[k] = <<a, k>>
      BY <2>3, <3>1 DEF FaceOK
    <3>3. \A k \in 1..Len(vertexarray) : vertexarray[k][1] = a
      BY <3>2
    <3>4. over = "cut" => Loose(vertexarray, faces') /\ HasCut(faces')
      BY <2>2, <2>4, <3>3 DEF Loose, HasCut
    <3>5. over = "ended" => \E f \in 1..Len(faces') : faces'[f].list = "ended" /\ vertexarray = faces'[f].vertices
      BY <2>2, <2>3, <2>4
    <3> QED
      BY <1>3, <3>4, <3>5 DEF ShapeOK
  <2>8. ASSUME NEW f \in 1..Len(faces'), Polygon(faces'[f])
        PROVE  \/ Waits(facesets, faces'[f], current_index, vertexarray)
               \/ vertexarray # faces'[f].vertices /\ Stands(facesets, faces'[f])
    <3>1. faces'[f].list = "ended" /\ Len(faces'[f].vertices) >= 3
      BY <2>8 DEF Polygon
    <3>2. CASE f = a
      <4>1. Len(faces[a].vertices) >= 3
        BY <2>4, <3>1, <3>2
      <4>2. \A i \in 1..Len(facesets) : \A k \in 1..Len(facesets[i].indices) :
              facesets[i].indices[k] # faces[a].vertices
        BY <1>3, <2>1, <2>2, <4>1, NotDrawn
      <4> QED
        BY <2>3, <2>4, <3>2, <4>2 DEF Waits
    <3>3. CASE f # a
      <4>1. faces'[f] = faces[f] /\ f \in 1..Len(faces)
        BY <2>4, <3>3
      <4>2. Stands(facesets, faces'[f])
        BY <1>3, <2>8, <4>1 DEF EndedOK
      <4>3. vertexarray # faces'[f].vertices
        <5> SUFFICES ASSUME vertexarray = faces'[f].vertices PROVE FALSE
          OBVIOUS
        <5>1. faces'[f].vertices[1] = <<f, 1>>
          BY <2>4, <3>1, FirstVertex
        <5>2. faces[a].vertices[1] = <<a, 1>>
          <6>1. Len(faces[a].vertices) >= 3
            BY <2>3, <3>1
          <6> QED
            BY <1>3, <2>2, <6>1, FirstVertex
        <5>3. <<f, 1>> = <<a, 1>>
          BY <2>3, <5>1, <5>2
        <5> QED
          BY <3>3, <5>3
      <4> QED
        BY <4>2, <4>3
    <3> QED
      BY <3>2, <3>3
  <2> QED
    BY <2>3, <2>4, <2>5, <2>6, <2>7, <2>8
<1>5. CASE ~InList
  <2>1. faces' = faces
    BY <1>1, <1>5
  <2>2. Later(faces, faces)
    <3>1. Len(faces) \in Nat
      BY <1>3, SeqLen
    <3> QED
      BY <3>1 DEF Later
  <2>3. ~InList'
    BY <1>1, <1>5, <2>1 DEF InList, Top
  <2>4. is_in_face => Loose(vertexarray, faces) /\ HasCut(faces)
    BY <1>1, <1>2, <1>5 DEF InFaceOK
  <2>5. is_in_face => ShapeOK(vertexarray, faces)
    BY <1>3, <2>4 DEF ShapeOK
  <2>6. ASSUME is_in_face, NEW f \in 1..Len(faces), Polygon(faces[f])
        PROVE  vertexarray # faces[f].vertices /\ Stands(facesets, faces[f])
    <3>1. ~Loose(faces[f].vertices, faces)
      BY <1>3, <2>6, EndedNotLoose DEF Polygon
    <3> QED
      BY <1>3, <2>4, <2>6, <3>1 DEF EndedOK
  <2> QED
    BY <1>3, <2>1, <2>2, <2>3, <2>5, <2>6
<1> QED
  BY <1>4, <1>5

LEMMA PopLevelInv ==
  ASSUME CInv, using = "flt2vrml", NEW nested \in BOOLEAN, PopLevel(nested) PROVE Core' /\ Statics'
<1>1. /\ Called /\ is_in_face' = FALSE
      /\ facesets' = IF is_in_face /\ ~ColoursMissing
                     THEN [facesets EXCEPT ![current_index] = Flushed(facesets[current_index])] ELSE facesets
      /\ outcome' = IF is_in_face /\ ColoursMissing THEN "asserted" ELSE outcome
      /\ UNCHANGED <<treevars, current_index, color_per_vertex, vertexarray, colorarray, walk>>
  BY DEF PopLevel
<1>2. UNCHANGED <<points, call>> /\ call.op = "none" /\ outcome = "none"
  BY <1>1 DEF treevars, Called
<1>3. Core /\ LooksOK /\ InFaceOK
  BY DEF CInv, Statics
<1>4. SetsOK(facesets) /\ IsSeq(facesets) /\ DrawnOK(facesets, faces) /\ vertexarray \in Seq(Vertex)
  BY <1>3 DEF Core, SetsOK
<1>5. FacesOK(faces') /\ Later(faces, faces') /\ ~InList' /\ WalkOK(walk, faces')
  BY PopLevelFaces
<1>6. /\ outcome' = "none" /\ SetsOK(facesets') /\ DrawnOK(facesets', faces')
      /\ Len(facesets') = Len(facesets) /\ \A i \in 1..Len(facesets) : facesets'[i].look = facesets[i].look
  <2>1. CASE ~is_in_face
    <3>1. facesets' = facesets /\ faces' = faces /\ outcome' = outcome
      BY <1>1, <2>1, PopLevelFaces
    <3> QED
      BY <1>2, <1>4, <3>1
  <2>2. CASE is_in_face
    <3> PICK c : c = current_index
      OBVIOUS
    <3> PICK set : set = facesets[c]
      OBVIOUS
    <3>1. c \in 1..Len(facesets) /\ color_per_vertex = PerVertex(facesets[c].look) /\ (color_per_vertex => colorarray = vertexarray)
      BY <1>2, <1>3, <2>2 DEF InFaceOK
    <3>2. SetOK(set)
      BY <1>4, <3>1 DEF SetsOK
    <3>3. ShapesOK(facesets, faces') /\ ColoursOK(facesets)
      BY <1>4, <1>5, LaterDrawn
    <3>4. ColourOK(set)
      BY <3>1, <3>3 DEF ColoursOK
    <3>6. Takes(set, Flushed(set), vertexarray) /\ ColourOK(Flushed(set)) /\ ~ColoursMissing
      BY <1>4, <3>1, <3>2, <3>4, FlushedTakes
    <3> PICK set2 : set2 = Flushed(set)
      OBVIOUS
    <3>7. facesets' = [facesets EXCEPT ![c] = set2] /\ outcome' = outcome
      BY <1>1, <2>2, <3>6
    <3>8. Changed(facesets, facesets', c, set2)
      BY <1>4, <3>1, <3>7, ExceptChanges
    <3>9. SetsOK(facesets') /\ DrawnOK(facesets', faces')
      <4>1. ShapeOK(vertexarray, faces')
        BY <2>2, PopLevelFaces
      <4>2. \A f \in 1..Len(faces') : Polygon(faces'[f]) =>
              \/ Waits(facesets, faces'[f], c, vertexarray)
              \/ vertexarray # faces'[f].vertices /\ Stands(facesets, faces'[f])
        BY <2>2, PopLevelFaces
      <4> QED
        BY <1>4, <3>3, <3>6, <3>8, <4>1, <4>2, SetTakes
    <3>10. Len(facesets') = Len(facesets) /\ \A i \in 1..Len(facesets) : facesets'[i].look = facesets[i].look
      <4>1. set2.look = set.look
        BY <3>6 DEF Takes
      <4> QED
        BY <3>8, <4>1 DEF Changed
    <3> QED
      BY <1>2, <3>7, <3>9, <3>10
  <2> QED
    BY <2>1, <2>2
<1>7. Core'
  BY <1>1, <1>4, <1>5, <1>6 DEF Core
<1>8. LooksOK'
  BY <1>2, <1>3, <1>6 DEF LooksOK
<1>9. MeetOK' /\ OwnOK' /\ InFaceOK'
  BY <1>1, <1>2, <1>5 DEF MeetOK, OwnOK, InFaceOK
<1> QED
  BY <1>7, <1>8, <1>9 DEF Statics

\* Every step of the program, or of a client of the tree.
LEMMA CNextInv == CInv /\ [CNext]_<<treevars, cvars, using>> => CInv'
<1> SUFFICES ASSUME CInv, [CNext]_<<treevars, cvars, using>> PROVE CInv'
  OBVIOUS
<1>0. "client" # "flt2vrml"
  OBVIOUS
<1>1. ASSUME using' = using, using = "flt2vrml", TreeInv', Core', Statics' PROVE CInv'
  BY <1>0, <1>1 DEF CInv
<1>2. CASE UNCHANGED <<treevars, cvars, using>>
  <2>1. UNCHANGED <<InList, Top, Newest>>
    BY <1>2 DEF cvars, InList, Top, Newest
  <2>2. TreeInv' /\ Core'
    BY <1>2 DEF CInv, TreeInv, Core, treevars, cvars
  <2>3. Statics => Statics'
    BY <1>2, <2>1 DEF Statics, LooksOK, MeetOK, OwnOK, InFaceOK, treevars, cvars, statics
  <2>4. using' = using /\ faces' = faces
    BY <1>2 DEF cvars
  <2> QED
    BY <2>2, <2>3, <2>4 DEF CInv
<1>3. CASE using = "client" /\ TreeNext /\ UNCHANGED cvars /\ UNCHANGED using
  <2>1. TreeInv'
    BY <1>3, TreeNextInv DEF CInv
  <2>2. UNCHANGED <<vertexarray, facesets, walk, faces, outcome>>
    BY <1>3 DEF cvars
  <2>3. Core'
    BY <2>2 DEF CInv, Core
  <2> QED
    BY <1>0, <1>3, <2>1, <2>2, <2>3 DEF CInv
<1>4. CASE using = "flt2vrml" /\ AddSteps /\ UNCHANGED cvars /\ UNCHANGED using
  <2>1. TreeInv'
    BY <1>4, TreeAdds DEF CInv
  <2> QED
    BY <1>1, <1>4, <2>1, AddStepsInv
<1>5. ASSUME UNCHANGED treevars PROVE TreeInv'
  BY <1>5 DEF CInv, TreeInv, treevars
<1>6. CASE profitCB /\ UNCHANGED using
  <2>1. CASE \E subface \in BOOLEAN : HiddenFace(subface)
    <3>1. PICK subface \in BOOLEAN : HiddenFace(subface)
      BY <2>1
    <3>2. using = "flt2vrml" /\ UNCHANGED treevars
      BY <3>1 DEF HiddenFace, FaceMet, Called
    <3> QED
      BY <1>1, <1>5, <1>6, <3>1, <3>2, HiddenFaceInv
  <2>2. CASE \E subface \in BOOLEAN : \E look \in Looks : Face(look, subface)
    <3>1. PICK subface \in BOOLEAN, look \in Looks : Face(look, subface)
      BY <2>2
    <3>2. MaterialPoint(look) \in Point /\ using = "flt2vrml" /\ bsp_add_point(MaterialPoint(look))
      BY <3>1, LookIs DEF Face, FaceMet, Called
    <3>3. TreeInv'
      BY <3>2, TreeCalled DEF CInv
    <3> QED
      BY <1>1, <1>6, <3>1, <3>2, <3>3, FaceInv
  <2>3. CASE FaceAdded
    BY <1>1, <1>6, <2>3, FaceAddedInv DEF FaceAdded
  <2>4. CASE \E nested \in BOOLEAN : PopLevel(nested)
    <3>1. PICK nested \in BOOLEAN : PopLevel(nested)
      BY <2>4
    <3>2. using = "flt2vrml" /\ UNCHANGED treevars
      BY <3>1 DEF PopLevel, Called
    <3> QED
      BY <1>1, <1>5, <1>6, <3>1, <3>2, PopLevelInv
  <2>5. CASE NoListEnded
    BY <1>1, <1>5, <1>6, <2>5, NoListEndedInv DEF NoListEnded, Called
  <2>6. CASE FaceDone
    BY <1>1, <1>5, <1>6, <2>6, FaceDoneInv DEF FaceDone, Called
  <2>7. CASE \E n \in {1, 3} : VertexList(n)
    <3>1. PICK n \in {1, 3} : VertexList(n)
      BY <2>7
    <3> QED
      BY <1>1, <1>5, <1>6, <3>1, VertexListInv DEF VertexList, Called
  <2> QED
    BY <1>6, <2>1, <2>2, <2>3, <2>4, <2>5, <2>6, <2>7 DEF profitCB
<1>7. CASE do_convert /\ UNCHANGED using
  BY <1>1, <1>5, <1>7, DoConvertInv DEF do_convert, Called
<1> QED
  BY <1>2, <1>3, <1>4, <1>6, <1>7 DEF CNext

\* What the invariant says of what is drawn.
LEMMA DrawnFaces == CInv => FacesAreDrawn
<1> SUFFICES ASSUME CInv PROVE FacesAreDrawn
  OBVIOUS
<1>1. /\ FacesOK(faces) /\ IsSeq(faces) /\ IsSeq(facesets) /\ SetsOK(facesets)
      /\ ShapesOK(facesets, faces) /\ EndedOK(facesets, faces)
  BY DEF CInv, Core, DrawnOK, FacesOK, SetsOK
<1>2. DOMAIN faces = 1..Len(faces) /\ DOMAIN facesets = 1..Len(facesets)
  BY <1>1 DEF IsSeq
<1>3. \A i \in 1..Len(facesets) : DOMAIN facesets[i].indices = 1..Len(facesets[i].indices)
  <2> SUFFICES ASSUME NEW i \in 1..Len(facesets)
               PROVE  DOMAIN facesets[i].indices = 1..Len(facesets[i].indices)
    OBVIOUS
  <2>1. facesets[i].indices \in Seq(Seq(Vertex))
    BY <1>1 DEF SetsOK, SetOK
  <2> QED
    BY <2>1
<1>4. \A place : place \in Places <=>
        \E i \in 1..Len(facesets) : \E k \in 1..Len(facesets[i].indices) : place = <<i, k>>
  BY <1>2, <1>3 DEF Places
<1>5. ASSUME NEW i \in 1..Len(facesets), NEW k \in 1..Len(facesets[i].indices)
      PROVE  ShapeAt(<<i, k>>) = facesets[i].indices[k]
  <2> PICK place : place = <<i, k>>
    OBVIOUS
  <2>1. place[1] = i /\ place[2] = k
    OBVIOUS
  <2> QED
    BY <2>1 DEF ShapeAt
<1>6. ASSUME NEW place \in Places PROVE DOMAIN ShapeAt(place) = 1..Len(ShapeAt(place)) /\ ShapeOK(ShapeAt(place), faces)
  <2>10. PICK i \in 1..Len(facesets) : \E k \in 1..Len(facesets[i].indices) : place = <<i, k>>
    BY <1>4
  <2>1. PICK k \in 1..Len(facesets[i].indices) : place = <<i, k>>
    BY <2>10
  <2>2. ShapeOK(ShapeAt(place), faces)
    BY <1>1, <1>5, <2>1 DEF ShapesOK
  <2>3. ShapeAt(place) \in Seq(Vertex)
    BY <2>2 DEF ShapeOK
  <2> QED
    BY <2>2, <2>3
<1>7. \A f \in 1..Len(faces) : \A k \in 1..Len(faces[f].vertices) : faces[f].vertices[k] = <<f, k>>
  BY <1>1 DEF FacesOK, FaceOK
<1>8. ASSUME NEW f \in 1..Len(faces), faces[f].list = "ended", Len(faces[f].vertices) >= 3
      PROVE  \E place \in Places :
               /\ ShapeAt(place) = faces[f].vertices
               /\ MaterialPoint(facesets[place[1]].look) = MaterialPoint(faces[f].look)
               /\ \A other \in Places : <<f, 1>> \in Range(ShapeAt(other)) => other = place
  <2>1. PICK i, k : StandsAt(facesets, faces[f], i, k)
    BY <1>1, <1>8 DEF EndedOK, Polygon, Stands
  <2>2. /\ i \in 1..Len(facesets) /\ k \in 1..Len(facesets[i].indices)
        /\ facesets[i].indices[k] = faces[f].vertices
        /\ MaterialPoint(facesets[i].look) = MaterialPoint(faces[f].look)
        /\ \A j \in 1..Len(facesets) : \A m \in 1..Len(facesets[j].indices) :
             facesets[j].indices[m] = faces[f].vertices => j = i /\ m = k
    BY <2>1 DEF StandsAt
  <2> PICK place : place = <<i, k>>
    OBVIOUS
  <2>3. place \in Places /\ ShapeAt(place) = faces[f].vertices /\ place[1] = i
    BY <1>4, <1>5, <2>2
  <2>4. ASSUME NEW other \in Places, <<f, 1>> \in Range(ShapeAt(other)) PROVE other = place
    <3> PICK s : s = ShapeAt(other)
      OBVIOUS
    <3>1. DOMAIN s = 1..Len(s) /\ ShapeOK(s, faces)
      BY <1>6
    <3>2. PICK n \in 1..Len(s) : s[n] = <<f, 1>>
      BY <2>4, <3>1 DEF Range
    <3>3. s[n][1] = f /\ f # 0
      BY <3>2
    <3>4. ~Loose(s, faces)
      BY <1>8, <3>3 DEF Loose
    <3>5. PICK g \in 1..Len(faces) : s = faces[g].vertices
      BY <3>1, <3>4 DEF ShapeOK
    <3>6. s[n] = <<g, n>>
      BY <1>7, <3>5
    <3>7. g = f
      BY <3>2, <3>6
    <3>10. PICK j \in 1..Len(facesets) : \E m \in 1..Len(facesets[j].indices) : other = <<j, m>>
      BY <1>4
    <3>8. PICK m \in 1..Len(facesets[j].indices) : other = <<j, m>>
      BY <3>10
    <3> QED
      <4>1. ShapeAt(<<j, m>>) = facesets[j].indices[m]
        BY <1>5
      <4>2. facesets[j].indices[m] = faces[f].vertices
        BY <3>5, <3>7, <3>8, <4>1
      <4> QED
        BY <2>2, <3>8, <4>2
  <2> QED
    BY <2>2, <2>3, <2>4
<1>9. ASSUME NEW place \in Places
      PROVE  \/ \E f \in 1..Len(faces) : faces[f].list = "ended" /\ ShapeAt(place) = faces[f].vertices
             \/ /\ \E f \in 1..Len(faces) : faces[f].list = "cut"
                /\ \A v \in Range(ShapeAt(place)) : v[1] = 0 \/ faces[v[1]].list = "cut"
  <2> PICK s : s = ShapeAt(place)
    OBVIOUS
  <2>1. DOMAIN s = 1..Len(s) /\ ShapeOK(s, faces)
    BY <1>6
  <2>2. CASE Loose(s, faces) /\ HasCut(faces)
    <3>1. \A v \in Range(s) : v[1] = 0 \/ faces[v[1]].list = "cut"
      BY <2>1, <2>2 DEF Loose, Range
    <3> QED
      BY <2>2, <3>1 DEF HasCut
  <2> QED
    BY <2>1, <2>2 DEF ShapeOK
<1>10. \A f \in DOMAIN faces : faces[f].list = "ended" /\ Len(faces[f].vertices) >= 3 =>
         \E place \in Places :
           /\ ShapeAt(place) = faces[f].vertices
           /\ MaterialPoint(facesets[place[1]].look) = MaterialPoint(faces[f].look)
           /\ \A other \in Places : <<f, 1>> \in Range(ShapeAt(other)) => other = place
  BY <1>2, <1>8, Zenon
<1>11. \A place \in Places :
         \/ \E f \in DOMAIN faces : faces[f].list = "ended" /\ ShapeAt(place) = faces[f].vertices
         \/ /\ \E f \in DOMAIN faces : faces[f].list = "cut"
            /\ \A v \in Range(ShapeAt(place)) : v[1] = 0 \/ faces[v[1]].list = "cut"
  BY <1>2, <1>9, Zenon
<1> QED
  BY <1>10, <1>11, Zenon DEF FacesAreDrawn

\* What the invariant says of the colours.
LEMMA ColoursGo == CInv => ColoursInStep
<1> SUFFICES ASSUME CInv PROVE ColoursInStep
  OBVIOUS
<1>1. ColoursOK(facesets) /\ IsSeq(facesets) /\ outcome # "asserted"
  BY DEF CInv, Core, DrawnOK, SetsOK
<1>2. DOMAIN facesets = 1..Len(facesets)
  BY <1>1 DEF IsSeq
<1> QED
  BY <1>1, <1>2 DEF ColoursInStep, MaterialsInStep, ColoursOK, ColourOK

-----------------------------------------------------------------------------
\* What reachable states of the converter and of its tree satisfy.
LEMMA ConverterInvariant == CSpec => []CInv
<1>1. CInit => CInv
  BY CInitInv
<1>2. CInv /\ [CNext]_<<treevars, cvars, using>> => CInv'
  BY CNextInv
<1> QED
  BY <1>1, <1>2, PTL DEF CSpec

\* A point that was added and not removed since is found under its index and no
\* other point is, for any number of points to a leaf, of dimensions and of calls
\* (bsp_add_point, bsp_remove_point, bsp_find_point).
THEOREM PresentIsFoundHolds == CSpec => []PresentIsFound
<1>1. CInv => PresentIsFound
  BY PresentFound DEF CInv
<1> QED
  BY <1>1, ConverterInvariant, PTL

\* Each face of three vertices and more whose list has ended is one polygon, with
\* its vertices in order, in a set of a look that the cast to float gives the same
\* point, wherever other faces and subfaces are met; every other polygon is made of
\* vertices of no face and of lists that were cut (profitCB).  Any function may do
\* the rounding.
THEOREM FacesAreDrawnHolds == CSpec => []FacesAreDrawn
<1>1. CInv => FacesAreDrawn
  BY DrawnFaces
<1> QED
  BY <1>1, ConverterInvariant, PTL

\* The material indices of a set go with its coordinate indices until a line is
\* put into it, and no assertion on the colours fails, whichever colours the cast
\* makes one point: looks with and without colours of vertices have two (profitCB,
\* convertFaceset).
THEOREM ColoursInStepHolds == CSpec => []ColoursInStep
<1>1. CInv => ColoursInStep
  BY ColoursGo
<1> QED
  BY <1>1, ConverterInvariant, PTL
=============================================================================
