---------------------------- MODULE ModelBreadth ----------------------------
(***************************************************************************)
(* Breadth-first traversal (prf_model_traverse_bf of src/cruft.c), beside  *)
(* the in-order traversals of ModelTraverse, on the same model.            *)
(*                                                                         *)
(* Two pairs of arrays rotate: the child arrays of this level and of the   *)
(* next one, each with a clone of the state its nodes start from.  Clones  *)
(* are allocated on the way and destroyed when their level is finished, or *)
(* at the end.  Indices count from 1.                                      *)
(***************************************************************************)
EXTENDS ModelTraverse

VARIABLES
  this_level, next_level,                \* child arrays
  this_level_states, next_level_states,  \* clones, by number
  clones,  \* clone -> its value, and whether it is allocated
  i, j     \* the loops' variables

bvars == <<this_level, next_level, this_level_states, next_level_states, clones, i, j>>
allvars == <<tvars, bvars>>

BInit ==
  /\ TInit
  /\ this_level = <<>> /\ next_level = <<>>
  /\ this_level_states = <<>> /\ next_level_states = <<>>
  /\ clones = <<>> /\ i = 0 /\ j = 0

model == <<kind, parent, children, stack, level, status, flag, broken>>
Clone(s) == [state |-> s, live |-> TRUE]

\* The working state, and a clone of it for the array that holds the root.
prf_model_traverse_bf ==
  /\ status = "loaded" /\ at = "idle"
  /\ job' = "breadth" /\ at' = "list"
  /\ heap' = Append(heap, [elems |-> <<1>>, size |-> 1, live |-> TRUE])
  /\ state' = NewState /\ calls' = <<>> /\ seen' = <<>>
  /\ this_level' = <<Len(heap) + 1>> /\ this_level_states' = <<1>>
  /\ clones' = <<Clone(NewState)>>
  /\ next_level' = <<>> /\ next_level_states' = <<>>
  /\ i' = 1 /\ j' = 0
  /\ UNCHANGED <<model, lists, child, limit, copy>>

\* The next array of this level: its clone becomes the working state.
\* Mutation of NextList: the working state is kept.
NextListKeepsState ==
  /\ at = "list" /\ i <= Len(this_level)
  /\ j' = 1 /\ at' = "node"
  /\ UNCHANGED <<model, heap, job, lists, child, limit, copy, calls, seen, i, clones, state,
                 this_level, next_level, this_level_states, next_level_states>>
NextList ==
  /\ at = "list" /\ i <= Len(this_level)
  /\ LET c == clones[this_level_states[i]]
     IN IF c.live THEN state' = c.state /\ j' = 1 /\ at' = "node"
        ELSE at' = "dead" /\ UNCHANGED <<state, j>>
  /\ UNCHANGED <<model, heap, job, lists, child, limit, copy, calls, seen, i, clones,
                 this_level, next_level, this_level_states, next_level_states>>

\* One node of the array.  prf_array_count is asked every time.
Array == this_level[i]
\* The children go to the next level with a clone, taken before exit_f.
Descend(n, during) ==
  /\ next_level' = Append(next_level, children[n])
  /\ next_level_states' = Append(next_level_states, Len(clones) + 1)
  /\ clones' = Append(clones, Clone(Pushed(during)))
VisitBreadth(code) ==
  /\ at = "node" /\ heap[Array].live /\ j <= Len(Elems(Array))
  /\ code # "CONTINUE" => Answers < MaxAnswers
  /\ LET n == Elems(Array)[j]
         during == entry_f(kind[n], n, state)
     IN /\ calls' = Append(calls, [node |-> n, code |-> code])
        /\ seen' = Append(seen, during)
        /\ IF code = "EXIT"
           THEN at' = "end" /\ state' = during
                /\ UNCHANGED <<next_level, next_level_states, clones, j>>
           ELSE /\ IF children[n] # NULL /\ code # "SIBLING" THEN Descend(n, during)
                   ELSE UNCHANGED <<next_level, next_level_states, clones>>
                /\ state' = exit_f(kind[n], n, during)
                /\ j' = j + 1
                /\ UNCHANGED at
  /\ UNCHANGED <<model, heap, job, lists, child, limit, copy, i, this_level, this_level_states>>
ListEnds ==
  /\ at = "node" /\ heap[Array].live /\ j > Len(Elems(Array))
  /\ i' = i + 1 /\ j' = 0 /\ at' = "list"
  /\ UNCHANGED <<model, heap, job, lists, child, limit, state, copy, calls, seen, clones,
                 this_level, next_level, this_level_states, next_level_states>>
ListGone ==
  /\ at = "node" /\ ~heap[Array].live
  /\ at' = "dead"
  /\ UNCHANGED <<model, heap, job, lists, child, limit, state, copy, calls, seen, bvars>>

\* prf_state_destroy for each of `states'; NULL entries are skipped.  A clone
\* that is destroyed twice, by this call or before it, is a fault.
Destroyed(states) ==
  [c \in DOMAIN clones |-> IF Contains(states, c) THEN [clones[c] EXCEPT !.live = FALSE] ELSE clones[c]]
DestroyedTwice(states) ==
  \/ \E c \in DOMAIN states : states[c] # NULL /\ ~clones[states[c]].live
  \/ \E c, d \in DOMAIN states : c # d /\ states[c] = states[d] /\ states[c] # NULL

\* The level is finished: destroy its clones, rotate the arrays.
Rotate ==
  /\ at = "list" /\ i > Len(this_level)
  /\ IF DestroyedTwice(this_level_states) THEN at' = "dead" /\ UNCHANGED bvars
     ELSE /\ clones' = Destroyed(this_level_states)
          /\ this_level' = next_level /\ this_level_states' = next_level_states
          /\ next_level' = <<>> /\ next_level_states' = <<>>
          /\ i' = 1
          /\ at' = IF next_level = <<>> THEN "end" ELSE "list"
          /\ UNCHANGED j
  /\ UNCHANGED <<model, heap, job, lists, child, limit, state, copy, calls, seen>>

\* Mutation of EndBreadth: only the clones of this level are destroyed.
EndForgetsNext ==
  /\ at = "end"
  /\ clones' = Destroyed(this_level_states) /\ at' = "returned"
  /\ UNCHANGED <<model, heap, job, lists, child, limit, state, copy, calls, seen, i, j,
                 this_level, next_level, this_level_states, next_level_states>>
\* After the loop: the working state, the arrays and the clones that are left.
\* The array made for the root is not among them.
EndBreadth ==
  /\ at = "end"
  /\ LET left == this_level_states \o next_level_states
     IN IF DestroyedTwice(left) THEN at' = "dead" /\ UNCHANGED clones
        ELSE clones' = Destroyed(left) /\ at' = "returned"
  /\ UNCHANGED <<model, heap, job, lists, child, limit, state, copy, calls, seen, i, j,
                 this_level, next_level, this_level_states, next_level_states>>

\* Back in the application; the root's array is lost, and forgotten here.
ReturnBreadth ==
  /\ at = "returned"
  /\ at' = "idle" /\ job' = "none"
  /\ heap' = SubSeq(heap, 1, Len(heap) - 1)
  /\ state' = NewState /\ calls' = <<>> /\ seen' = <<>>
  /\ this_level' = <<>> /\ next_level' = <<>>
  /\ this_level_states' = <<>> /\ next_level_states' = <<>>
  /\ clones' = <<>> /\ i' = 0 /\ j' = 0
  /\ UNCHANGED <<model, lists, child, limit, copy>>

Breadth ==
  \/ NextList \/ ListEnds \/ ListGone \/ Rotate \/ EndBreadth \/ ReturnBreadth
  \/ \E c \in Codes : VisitBreadth(c)
BNext ==
  \/ TNext /\ UNCHANGED bvars
  \/ prf_model_traverse_bf
  \/ Breadth

\* A traversal that has begun goes on: it is one call of one thread.
BSpec ==
  /\ BInit /\ [][BNext]_allvars
  /\ WF_allvars((Traverse /\ UNCHANGED bvars) \/ Breadth)
-----------------------------------------------------------------------------
\* On a completely loaded model the traversal reads no freed array and no
\* destroyed clone and destroys no clone twice, and when it returns, by itself
\* or with PRF_TRAV_EXIT in the middle of a level, no clone is left and every
\* child array is.  (The array made for the root is leaked.)
BreadthReleases ==
  (Whole /\ job = "breadth") =>
    /\ at # "dead"
    /\ at = "returned" =>
         /\ \A c \in DOMAIN clones : ~clones[c].live
         /\ \A n \in Nodes : children[n] # NULL => heap[children[n]].live

\* `Traverse graph, level by level': the nodes come in the order of their
\* depth, on each level in the order of the file, and all of them come but those
\* below a node with the answer SIBLING.  Deleted nodes come too.
DepthOf(n) == Cardinality(Ancestors(n))
Reached == {n \in Nodes : \A m \in Ancestors(n) \ {n} : Answer(m) \notin {"SIBLING", "none"}}
LevelByLevel ==
  (Whole /\ job = "breadth") =>
    /\ \A a \in 1..(Len(calls) - 1) :
         LET m == calls[a].node
             n == calls[a + 1].node
         IN DepthOf(m) < DepthOf(n) \/ (DepthOf(m) = DepthOf(n) /\ m < n)
    /\ (at = "returned" /\ ~Exited) => {calls[a].node : a \in DOMAIN calls} = Reached

\* However far apart they are visited, a node sees the state its own path made:
\* the matrices and the definitions before it and before its ancestors in their
\* lists, its depth, and its push/pop sections, as in file order.  Materials count
\* from the path's first header on.
OnPath(n) == {a \in Nodes : Answer(a) # "none" /\ \E m \in Ancestors(n) : m \in Siblings(a) /\ a <= m}
\* Of the nodes on a path, those after the first header, if there is one.
AfterHeader(path) ==
  LET headers == {h \in path : kind[h] = "header"}
  IN {a \in path : headers = {} \/ \E h \in headers : h < a}
StateOfPath ==
  (Whole /\ job = "breadth") =>
    \A c \in DOMAIN calls :
      LET n == calls[c].node
          path == OnPath(n)
      IN /\ Members(Matrix(seen[c])) = {a \in path : kind[a] = "anc"}
         /\ Members(seen[c].materials) = {a \in AfterHeader(path) : kind[a] = "anc"}
         /\ Members(seen[c].found) = {a \in path : kind[a] \in {"anc", "plain"}}
         /\ seen[c].physical_level = DepthOf(n) - 1
         /\ OwnPops => seen[c].push_level = Cardinality(Sections(n)) % 65536

\* The order of a traversal by levels, with the state of a traversal by paths.
BreadthInOrder == LevelByLevel /\ StateOfPath
=============================================================================
