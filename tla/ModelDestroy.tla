---------------------------- MODULE ModelDestroy ----------------------------
(***************************************************************************)
(* Depth-first traversal (prf_model_traverse_df of src/model.c) and        *)
(* prf_model_destroy, whose callback frees every node and its child array  *)
(* while the traversal is still walking over them.  The model is whatever  *)
(* ModelLoad built, with nodes from malloc or from a memory pool.  Child   *)
(* indices count from 1.                                                   *)
(***************************************************************************)
EXTENDS ModelLoad, TraversalState

CONSTANTS
  Codes,      \* what an application's callback answers
  MaxAnswers  \* bound: answers other than CONTINUE in one traversal

ASSUME DestroyAssumption ==
  /\ Codes \subseteq {"EXIT", "CONTINUE", "SIBLING", "POP", "UP", "TRAVERSE"}
  /\ MaxAnswers \in Nat

VARIABLES
  pooled,  \* mempool_id # 0: prf_model_poolmem was called before loading
  freed,   \* nodes given back
  job,     \* "none", "user", "destroy" or "gone"
  at,      \* "idle", "loop", "down", "close", "done", "dead"
  node,    \* the local variable `node'
  lists, child, limit,  \* stack, child and limit, [0..level]
  state,   \* the traversal state
  calls,   \* the callback's calls, and its answers
  seen     \* for each of these calls, the state during the call

walk == <<job, at, node, lists, child, limit, state, calls, seen>>
dvars == <<vars, pooled, freed, walk>>

Top(s) == s[Len(s)]
Drop(s) == SubSeq(s, 1, Len(s) - 1)
Depth0 == Len(lists) - 1

DInit ==
  /\ Init
  /\ pooled \in BOOLEAN
  /\ freed = {}
  /\ job = "none" /\ at = "idle" /\ node = NULL
  /\ lists = <<>> /\ child = <<>> /\ limit = <<>>
  /\ state = NewState /\ calls = <<>> /\ seen = <<>>

Load == LoadRecord /\ UNCHANGED <<pooled, freed, walk>>

\* prf_model_traverse_df, called by an application or by prf_model_destroy
prf_model_traverse_df(j) ==
  /\ status = "loaded" /\ at = "idle"
  /\ job' = j /\ at' = "loop" /\ node' = NULL
  /\ heap' = Append(heap, [elems |-> <<1>>, size |-> 1, live |-> TRUE])
  /\ lists' = <<Len(heap) + 1>> /\ child' = <<1>> /\ limit' = <<1>>
  /\ state' = NewState /\ calls' = <<>> /\ seen' = <<>>
  /\ UNCHANGED <<kind, parent, children, stack, level, status, pooled, freed>>

\* Undefined: a freed list, an index beyond it, a freed node.
Readable(a, i) == heap[a].live /\ i \in 1..Len(Elems(a)) /\ Elems(a)[i] \notin freed

Dies ==
  /\ at' = "dead"
  /\ UNCHANGED <<vars, pooled, freed, job, node, lists, child, limit, state, calls, seen>>

\* Mutation of MoreToVisit: off by one.
OneMoreToVisit == child[1] <= limit[1] + 1

\* The test of the outer loop, and the top of it.
MoreToVisit == child[1] <= limit[1]
LoopTop ==
  /\ at = "loop" /\ MoreToVisit
  /\ IF Readable(Top(lists), Top(child))
     THEN /\ node' = Elems(Top(lists))[Top(child)]
          /\ state' = entry_f(kind[node'], node', state)
          /\ at' = "down"
          /\ UNCHANGED <<vars, pooled, freed, job, lists, child, limit, calls, seen>>
     ELSE Dies

\* The inner loop: to the first node without children.
Down ==
  /\ at = "down" /\ children[node] # NULL
  /\ IF Readable(children[node], 1)
     THEN /\ lists' = Append(lists, children[node])
          /\ child' = Append(child, 1)
          /\ limit' = Append(limit, Len(Elems(children[node])))
          /\ node' = Elems(children[node])[1]
          /\ state' = entry_f(kind[node'], node', Pushed(state))
          /\ UNCHANGED <<vars, pooled, freed, job, at, calls, seen>>
     ELSE Dies
\* Mutations of destroy_cb: the list the node is in is freed; a pooled node's
\* list is left.
DestroyOwnList(n) ==
  /\ heap' = IF parent[n] # NULL THEN [heap EXCEPT ![children[parent[n]]].live = FALSE] ELSE heap
  /\ freed' = IF pooled THEN freed ELSE freed \cup {n}
DestroyUnpooled(n) ==
  /\ heap' = IF children[n] # NULL /\ ~pooled
             THEN [heap EXCEPT ![children[n]].live = FALSE] ELSE heap
  /\ freed' = IF pooled THEN freed ELSE freed \cup {n}

\* destroy_cb: the child array, and the node unless it is the pool's.
destroy_cb(n) ==
  /\ heap' = IF children[n] # NULL THEN [heap EXCEPT ![children[n]].live = FALSE] ELSE heap
  /\ freed' = IF pooled THEN freed ELSE freed \cup {n}
Answers == Cardinality({i \in DOMAIN calls : calls[i].code # "CONTINUE"})
Called(n, s, code) ==
  /\ calls' = Append(calls, [node |-> n, code |-> code])
  /\ seen' = Append(seen, s)
  /\ \/ /\ job = "destroy" /\ code = "CONTINUE"
        /\ destroy_cb(n)
     \/ /\ job = "user"
        /\ code # "CONTINUE" => Answers < MaxAnswers
        /\ UNCHANGED <<heap, freed>>

\* PRF_TRAV_POP is for nodes between a push and its pop; the loop does not
\* check it.
MayPop(n) ==
  /\ kind[n] \notin {"pop", "xpop"}
  /\ LET s == Elems(Top(lists))
     IN \E i \in 1..Top(child) :
          /\ kind[s[i]] = "push"
          /\ \A j \in i..Top(child) : kind[s[j]] \notin {"pop", "xpop"}

\* The scan of PRF_TRAV_POP, from child i to child j: leave a node, enter the next.
Scanned(s, i, j) ==
  LET scan[c \in i..j] ==
        IF c = i THEN state
        ELSE entry_f(kind[s[c]], s[c], exit_f(kind[s[c - 1]], s[c - 1], scan[c - 1]))
  IN scan[j]

\* The call for a node without children, and the answer to it.
CallLeaf(code) ==
  /\ at = "down" /\ children[node] = NULL
  /\ code = "POP" => MayPop(node)
  /\ Called(node, state, code)
  /\ \/ code = "EXIT" /\ at' = "done" /\ UNCHANGED <<child, state>>
     \/ /\ code = "POP"
        /\ LET s == Elems(Top(lists))
               pops == {j \in DOMAIN s : j > Top(child) /\ kind[s[j]] \in {"pop", "xpop"}}
           IN IF pops = {} THEN at' = "dead" /\ UNCHANGED <<child, state>>
              ELSE /\ child' = [child EXCEPT ![Len(child)] = CHOOSE j \in pops : \A i \in pops : j <= i]
                   /\ state' = Scanned(s, Top(child), Top(child'))
                   /\ at' = "loop"
     \/ /\ code \notin {"EXIT", "POP"}
        /\ child' = [child EXCEPT ![Len(child)] = @ + 1]
        /\ at' = IF Depth0 > 0 /\ Top(child') > Top(limit) THEN "close" ELSE "loop"
        /\ UNCHANGED state
  /\ UNCHANGED <<kind, parent, children, stack, level, status, pooled, job, node, lists, limit>>
\* Mutations of Close: the parent is not called; the state is not popped.
CloseWith(code, called, newstate) ==
  /\ at = "close"
  /\ LET list == lists[Len(lists) - 1]
         i == child[Len(child) - 1]
     IN IF Readable(list, i)
        THEN /\ IF called THEN Called(Elems(list)[i], newstate, code)
                ELSE code = "CONTINUE" /\ UNCHANGED <<calls, seen, heap, freed>>
             /\ state' = newstate
             /\ node' = Elems(list)[i]
             /\ lists' = Drop(lists) /\ limit' = Drop(limit)
             /\ IF code = "EXIT" THEN at' = "done" /\ child' = Drop(child)
                ELSE at' = "loop" /\ child' = [Drop(child) EXCEPT ![Len(child) - 1] = i + 1]
             /\ UNCHANGED <<kind, parent, children, stack, level, status, pooled, job>>
        ELSE Dies
CloseSilently(code) == CloseWith(code, FALSE, Popped(state))
CloseUnpopped(code) == CloseWith(code, TRUE, state)

\* The list is exhausted: one level up, and the call for the parent.  The
\* next list up is not looked at.
Close(code) ==
  /\ at = "close"
  /\ LET list == lists[Len(lists) - 1]
         i == child[Len(child) - 1]
     IN IF Readable(list, i)
        THEN /\ state' = Popped(state)
             /\ Called(Elems(list)[i], state', code)
             /\ node' = Elems(list)[i]
             /\ lists' = Drop(lists) /\ limit' = Drop(limit)
             /\ IF code = "EXIT" THEN at' = "done" /\ child' = Drop(child)
                ELSE at' = "loop" /\ child' = [Drop(child) EXCEPT ![Len(child) - 1] = i + 1]
             /\ UNCHANGED <<kind, parent, children, stack, level, status, pooled, job>>
        ELSE Dies
LoopEnds ==
  /\ at = "loop" /\ ~MoreToVisit
  /\ at' = "done"
  /\ UNCHANGED <<vars, pooled, freed, job, node, lists, child, limit, state, calls, seen>>

\* The traversal frees its own arrays, not the model's, and returns; after
\* it prf_model_destroy destroys the pool and frees the model.
Return ==
  /\ at = "done"
  /\ at' = "idle" /\ node' = NULL
  /\ heap' = SubSeq(heap, 1, Len(heap) - 1)
  /\ lists' = <<>> /\ child' = <<>> /\ limit' = <<>>
  /\ state' = NewState /\ calls' = <<>> /\ seen' = <<>>
  /\ IF job = "destroy"
     THEN /\ job' = "gone" /\ status' = "destroyed"
          /\ freed' = IF pooled THEN Nodes ELSE freed
     ELSE job' = "none" /\ UNCHANGED <<status, freed>>
  /\ UNCHANGED <<kind, parent, children, stack, level, pooled>>

Traverse ==
  \/ LoopTop \/ Down \/ LoopEnds \/ Return
  \/ \E c \in Codes \cup {"CONTINUE"} : CallLeaf(c) \/ Close(c)
DNext ==
  \/ Load
  \/ \E j \in {"user", "destroy"} : prf_model_traverse_df(j)
  \/ Traverse

\* A traversal that has begun goes on: it is one call of one thread.
DSpec == DInit /\ [][DNext]_dvars /\ WF_dvars(Traverse)
-----------------------------------------------------------------------------
\* Destroying a completely loaded model reads no list after it was freed, no
\* node after it was freed and nothing beyond a list, although every list but
\* the innermost is left without a look at its limit.
DestroyIsSafe == level = 0 => at # "dead"

\* prf_model_destroy gives back all nodes and all child arrays, the ones
\* that moved while the model was loaded included.
NothingLeaks ==
  (status = "destroyed" /\ level = 0) =>
    freed = Nodes /\ \A a \in DOMAIN heap : ~heap[a].live

\* `Visit parents after children': every node is called once, and after its
\* children, unless the callback stops or jumps.
Stays == \A i \in DOMAIN calls : calls[i].code \notin {"EXIT", "POP"}
ChildrenFirst ==
  (at = "done" /\ level = 0 /\ Stays) =>
    /\ {calls[i].node : i \in DOMAIN calls} = Nodes
    /\ Len(calls) = Len(kind)
    /\ \A i, j \in DOMAIN calls : parent[calls[i].node] = calls[j].node => i < j

\* A callback sees the matrix of its node, not of the children that came before
\* it: the product of the ancillary nodes before the node, or before an ancestor,
\* in their lists, once each, the ones jumped over with PRF_TRAV_POP included.
ScopeOfDescent ==
  level = 0 =>
    \A c \in DOMAIN calls :
      LET n == calls[c].node
      IN /\ Members(Matrix(seen[c])) =
              {a \in Nodes : kind[a] = "anc" /\ \E m \in Ancestors(n) : m \in Siblings(a) /\ a <= m}
         /\ Ascending(Matrix(seen[c]))
         /\ seen[c].physical_level = Cardinality(Ancestors(n)) - 1

\* prf_model_destroy of a completely loaded model returns: its loop, which tests
\* the outermost list alone, is neither left too late nor goes on for ever.
DestroyEnds == (job = "destroy" /\ level = 0) ~> (status = "destroyed")
=============================================================================
