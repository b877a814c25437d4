----------------------------- MODULE PointTree ------------------------------
(***************************************************************************)
(* The tree of points flt2vrml keeps vertices, colours and materials in    *)
(* (examples/flt2vrml/bsptree.c): a point is added once and known by its   *)
(* index from then on; a leaf that is full is split at the mean of the     *)
(* dimension with the largest deviation for its range.                     *)
(*                                                                         *)
(* Coordinates are integers that stand for neighbouring floats, so a mean  *)
(* lies on one of them, and may be one off after rounding.  Nodes are      *)
(* numbered as they are made, indices of points count from 1, and 0 stands *)
(* for the -1 of a search without result.                                  *)
(***************************************************************************)
EXTENDS Integers, Sequences, FiniteSetsExt, Functions

CONSTANTS
  Point,          \* the points in use, sequences of coordinates
  Dims,           \* how many coordinates
  Radius,         \* the radii of searches
  MaxNodePoints,  \* maxnodepoints (64)
  MaxDepth,       \* maxdepth (64)
  MaxPoints       \* bound: points added

ASSUME TreeAssumption ==
  /\ Dims \in Nat \ {0} /\ Point \subseteq [1..Dims -> Int] /\ Radius \subseteq Nat
  /\ MaxNodePoints \in Nat /\ MaxNodePoints >= 2
  /\ MaxDepth \in Nat \ {0} /\ MaxPoints \in Nat

VARIABLES
  points,   \* pointarrays
  node,     \* node -> idxarray, splitdim (0: a leaf), splitpos, ge, lt
  call,     \* the bsp_add_point under way: point, node, invdepth; what it returned
  present,  \* auxiliary: the points added and not removed since, with their index
  dead      \* assert( invdepth != 0 ) has failed

treevars == <<points, node, call, present, dead>>

Leaf == [idxarray |-> <<>>, splitdim |-> 0, splitpos |-> 0, ge |-> 0, lt |-> 0]
NoCall == [op |-> "none"]

\* bsp_create
TreeInit ==
  /\ points = <<>> /\ node = <<Leaf>>
  /\ call = NoCall /\ present = {} /\ dead = FALSE

\* Mutation of Side: points on the plane go the other way.
SideStrict(n, p) == IF p[node[n].splitdim] > node[n].splitpos THEN node[n].ge ELSE node[n].lt
\* Below a node that has been split.
Side(n, p) == IF p[node[n].splitdim] >= node[n].splitpos THEN node[n].ge ELSE node[n].lt
IsLeaf(n) == node[n].splitdim = 0
Hits(n, p) == {i \in DOMAIN node[n].idxarray : points[node[n].idxarray[i]] = p}
Abs(x) == IF x < 0 THEN 0 - x ELSE x
\* The leaf a search for p ends in.
LeafOf(p) ==
  LET at[n \in DOMAIN node] == IF IsLeaf(n) THEN n ELSE at[Side(n, p)] IN at[1]

-----------------------------------------------------------------------------
(* bsp_add_point, one step per call of _bsp_add_point *)
bsp_add_point(p) ==
  /\ call.op = "none" /\ ~dead /\ Len(points) < MaxPoints
  /\ call' = [op |-> "add", point |-> p, at |-> 1, invdepth |-> MaxDepth]
  /\ UNCHANGED <<points, node, present, dead>>

Adding == call.op = "add" /\ ~dead
TooDeep ==
  /\ Adding /\ call.invdepth = 0
  /\ dead' = TRUE
  /\ UNCHANGED <<points, node, call, present>>
AddBelow ==
  /\ Adding /\ call.invdepth # 0 /\ ~IsLeaf(call.at)
  /\ call' = [call EXCEPT !.at = Side(call.at, call.point), !.invdepth = @ - 1]
  /\ UNCHANGED <<points, node, present, dead>>

AddReturns(idx) ==
  /\ call' = [op |-> "returned", idx |-> idx]
  /\ present' = present \cup {<<call.point, idx>>}
Here == node[call.at].idxarray
AddFound ==
  /\ Adding /\ call.invdepth # 0 /\ IsLeaf(call.at) /\ Hits(call.at, call.point) # {}
  /\ AddReturns(Here[Min(Hits(call.at, call.point))])
  /\ UNCHANGED <<points, node, dead>>
AddNew ==
  /\ Adding /\ call.invdepth # 0 /\ IsLeaf(call.at) /\ Hits(call.at, call.point) = {}
  /\ Len(Here) # MaxNodePoints
  /\ points' = Append(points, call.point)
  /\ node' = [node EXCEPT ![call.at].idxarray = Append(@, Len(points) + 1)]
  /\ AddReturns(Len(points) + 1)
  /\ UNCHANGED dead

\* _bsp_find_split.  The squares of the factors, as fractions: without a range
\* they are 0/0, no number and no candidate, or infinite where the mean of
\* equal coordinates was rounded away from them.
Coords(d) == [i \in DOMAIN Here |-> points[Here[i]][d]]
Total(s) == FoldFunction(+, 0, s)
Means(s) == {k \in Min(Range(s)) - 1 .. Max(Range(s)) + 1 : Abs(k * Len(s) - Total(s)) <= Len(s)}
Factor(s, mean) ==
  [variance |-> Total([i \in DOMAIN s |-> (s[i] - mean) * (s[i] - mean)]),
   square |-> (Max(Range(s)) - Min(Range(s))) * (Max(Range(s)) - Min(Range(s)))]
\* Which dimension, for these means; equal factors may differ by rounding.
SplitDims(means) ==
  LET factor == [d \in 1..Dims |-> Factor(Coords(d), means[d])]
      flat == {d \in 1..Dims : factor[d].square = 0}
      infinite == {d \in flat : factor[d].variance # 0}
      noless(f, g) == f.variance * g.square >= g.variance * f.square
  IN IF infinite # {} THEN {Min(infinite)}
     ELSE IF flat = 1..Dims THEN {1}
     ELSE {d \in (1..Dims) \ flat : \A e \in (1..Dims) \ flat : noless(factor[d], factor[e])}
Splits ==
  LET all == UNION {Means(Coords(d)) : d \in 1..Dims}
      rounded == {m \in [1..Dims -> all] : \A d \in 1..Dims : m[d] \in Means(Coords(d))}
  IN UNION {{<<d, m[d]>> : d \in SplitDims(m)} : m \in rounded}
\* The loop over the indices s of a leaf: it appends those in S, in order.
Chosen(s, S) ==
  LET chosen[k \in 0..Len(s)] ==
        IF k = 0 THEN <<>>
        ELSE IF s[k] \in S THEN Append(chosen[k - 1], s[k]) ELSE chosen[k - 1]
  IN chosen[Len(s)]
\* The indices go to two new leaves, and the call starts again on this node.
AddSplit ==
  /\ Adding /\ call.invdepth # 0 /\ IsLeaf(call.at) /\ Hits(call.at, call.point) = {}
  /\ Len(Here) = MaxNodePoints
  /\ \E split \in Splits :
       LET beyond == {i \in Range(Here) : points[i][split[1]] >= split[2]}
       IN node' = [node EXCEPT ![call.at] = [idxarray |-> <<>>, splitdim |-> split[1], splitpos |-> split[2],
                                             ge |-> Len(node) + 1, lt |-> Len(node) + 2]]
                  \o << [Leaf EXCEPT !.idxarray = Chosen(Here, beyond)],
                        [Leaf EXCEPT !.idxarray = Chosen(Here, Range(Here) \ beyond)] >>
  /\ UNCHANGED <<points, call, present, dead>>
AddSteps == TooDeep \/ AddBelow \/ AddFound \/ AddNew \/ AddSplit

\* array_remove_int_fast: the last one takes its place.
RemovedFast(s, i) == SubSeq([s EXCEPT ![i] = s[Len(s)]], 1, Len(s) - 1)
\* bsp_remove_point, bsp_remove_point_by_idx: the leaf forgets the index; the
\* coordinates stay in their arrays.
bsp_remove_point(p) ==
  /\ call.op = "none" /\ ~dead
  /\ LET n == LeafOf(p)
     IN node' = IF Hits(n, p) = {} THEN node
                ELSE [node EXCEPT ![n].idxarray = RemovedFast(@, Min(Hits(n, p)))]
  /\ present' = {e \in present : e[1] # p}
  /\ UNCHANGED <<points, call, dead>>

-----------------------------------------------------------------------------
(* Searches change nothing. *)
bsp_find_point(p) ==
  LET n == LeafOf(p)
  IN IF Hits(n, p) = {} THEN 0 ELSE node[n].idxarray[Min(Hits(n, p))]

SqDist(p, q) == LET diffs == [d \in 1..Dims |-> (p[d] - q[d]) * (p[d] - q[d])] IN Total(diffs)
\* Mutation of Reaches: a search that touches the plane stays on its side.
ReachesBeyond(n, p, r) == Abs(p[node[n].splitdim] - node[n].splitpos) < r
\* _bsp_add_points: both sides when the radius reaches the plane.
Reaches(n, p, r) == Abs(p[node[n].splitdim] - node[n].splitpos) <= r
bsp_find_points(p, r) ==
  LET found[n \in DOMAIN node] ==
        IF IsLeaf(n) THEN SelectSeq(node[n].idxarray, LAMBDA i : SqDist(p, points[i]) <= r * r)
        ELSE IF Reaches(n, p, r) THEN found[node[n].ge] \o found[node[n].lt]
        ELSE found[Side(n, p)]
  IN found[1]

\* The first of the nearest.
Nearest(s, p) ==
  s[CHOOSE i \in DOMAIN s :
      \A j \in DOMAIN s : SqDist(p, points[s[i]]) < SqDist(p, points[s[j]])
                          \/ (SqDist(p, points[s[i]]) = SqDist(p, points[s[j]]) /\ i <= j)]
bsp_find_closest_points(p, r) ==
  LET within == bsp_find_points(p, r) IN IF within = <<>> THEN 0 ELSE Nearest(within, p)
\* The root of a float may be rounded either way.
Roots(x) == LET below == CHOOSE r \in 0..x : r * r <= x /\ (r + 1) * (r + 1) > x
            IN IF below * below = x THEN {below} ELSE {below, below + 1}
\* The nearest within the distance of some point: one in the leaf p is in
\* (_bsp_find_close).  As a set, one answer for each radius sqrt may give.  A
\* leaf without points has no such point, and idxarray[-1] is read: {}.
bsp_find_closest(p) ==
  LET s == node[LeafOf(p)].idxarray
  IN IF s = <<>> THEN {}
     ELSE {bsp_find_closest_points(p, r) : r \in Roots(SqDist(p, points[Nearest(s, p)]))}

TreeCalls == AddSteps \/ \E p \in Point : bsp_add_point(p) \/ bsp_remove_point(p)
AddDone ==
  /\ call.op = "returned"
  /\ call' = NoCall
  /\ UNCHANGED <<points, node, present, dead>>
TreeNext == TreeCalls \/ AddDone
TreeSpec == TreeInit /\ [][TreeNext]_treevars
-----------------------------------------------------------------------------
\* A point that was added and not removed since is found under the index it was
\* given, and no other point is: a point is never in two leaves or in the wrong
\* one, wherever the planes were put, however its leaf was split and whatever
\* was removed and added again.
PresentIsFound ==
  call.op = "none" =>
  \A p \in Point :
    IF \E e \in present : e[1] = p
    THEN \E e \in present : /\ e[1] = p /\ {f \in present : f[1] = p} = {e}
                            /\ points[e[2]] = p /\ bsp_find_point(p) = e[2]
    ELSE bsp_find_point(p) = 0

\* bsp_find_points finds each point within the radius once, and no other,
\* although it leaves out the side of a plane it does not reach.
WithinIsFound ==
  call.op = "none" =>
  \A p \in Point, r \in Radius :
    LET found == bsp_find_points(p, r)
    IN /\ \A i, j \in DOMAIN found : found[i] = found[j] => i = j
       /\ Range(found) = {e[2] : e \in {e \in present : SqDist(p, e[1]) <= r * r}}

\* bsp_find_closest answers with a point no other point is nearer than, or with
\* none when the square of the root was below the distance it came from.
ClosestIsNearest ==
  call.op = "none" =>
  \A p \in Point : \A i \in bsp_find_closest(p) :
    IF i = 0 THEN \A e \in present : SqDist(p, e[1]) > 1
    ELSE /\ \E e \in present : e[2] = i
         /\ \A e \in present : SqDist(p, points[i]) <= SqDist(p, e[1])

\* Both kinds of searches.
SearchesAreExact == WithinIsFound /\ ClosestIsNearest
=============================================================================
