--------------------------- MODULE ModelTraverse ---------------------------
(***************************************************************************)
(* In-order traversal of a loaded model (prf_model_traverse_io_ of         *)
(* src/model.c) and what runs on top of it: traversal with an              *)
(* application's callback, prf_model_save and prf_model_clone.             *)
(*                                                                         *)
(* The traversal keeps its own stack of child arrays, with the index of    *)
(* the current child and the number of children on every level, and pushes *)
(* and pops the traversal state (src/state.c) as it goes down and up.  The *)
(* model is whatever ModelLoad built, with nodes the application has       *)
(* flagged in between.  Child indices count from 1.                        *)
(***************************************************************************)
EXTENDS ModelLoad, TraversalState

CONSTANTS
  Jobs,        \* which of "user", "save" and "clone" are run
  Codes,       \* what the application's callback may answer
  MaxAnswers,  \* bound: answers other than CONTINUE in one traversal
  MaxFlagged   \* bound: nodes flagged deleted or virtual

ASSUME TraverseAssumption ==
  /\ Jobs \subseteq {"user", "save", "clone"}
  /\ Codes \subseteq {"EXIT", "CONTINUE", "SIBLING", "POP", "UP", "TRAVERSE"}
  /\ MaxAnswers \in Nat /\ MaxFlagged \in Nat

VARIABLES
  flag,    \* node -> "" or "deleted" (PRF_NODE_DELETED) or "virtual"
  job,     \* the traversal under way, or the last one
  at,      \* "idle", "visit" (top of the loop), "up" (the inner loop), "done", "dead"
  lists,   \* stack[0..level]: arrays
  child,   \* child[0..level]
  limit,   \* limit[0..level]
  state,   \* the traversal state
  calls,   \* the nodes the callback was called with, in order, and its answers
  seen,    \* for each of these calls, the state during the call
  copy,    \* prf_model_clone: the clone's nodes, named after the originals
  broken   \* auxiliary: a traversal was left with EXIT below the root

walk == <<job, at, lists, child, limit, state, calls, seen, copy>>
tvars == <<vars, flag, walk, broken>>

NoCopy == [header |-> NULL, stack |-> <<>>, parent |-> <<>>, kids |-> <<>>]
Top(s) == s[Len(s)]
Drop(s) == SubSeq(s, 1, Len(s) - 1)

TInit ==
  /\ Init
  /\ flag = <<>>
  /\ job = "none" /\ at = "idle"
  /\ lists = <<>> /\ child = <<>> /\ limit = <<>> /\ state = NewState
  /\ calls = <<>> /\ seen = <<>> /\ copy = NoCopy
  /\ broken = FALSE

Load ==
  /\ LoadRecord
  /\ flag' = [n \in 1..Len(kind') |-> ""]
  /\ UNCHANGED <<walk, broken>>

\* The application flags a node between two calls of the library.
FlagNode(n, f) ==
  /\ status = "loaded" /\ at = "idle"
  /\ flag[n] = "" /\ Cardinality({m \in Nodes : flag[m] # ""}) < MaxFlagged
  /\ flag' = [flag EXCEPT ![n] = f]
  /\ UNCHANGED <<vars, walk, broken>>

-----------------------------------------------------------------------------
\* Mutation of prf_model_traverse_io: the root's array is taken for longer.
TraverseTooFar(j) ==
  /\ status = "loaded" /\ at = "idle"
  /\ job' = j /\ at' = "visit"
  /\ heap' = Append(heap, [elems |-> <<1>>, size |-> 1, live |-> TRUE])
  /\ lists' = <<Len(heap) + 1>> /\ child' = <<1>> /\ limit' = <<2>>
  /\ state' = NewState
  /\ calls' = <<>> /\ seen' = <<>>
  /\ copy' = [NoCopy EXCEPT !.parent = [n \in Nodes |-> NULL], !.kids = [n \in Nodes |-> <<>>]]
  /\ UNCHANGED <<kind, parent, children, stack, level, status, flag, broken>>

\* prf_model_traverse_io, prf_model_save, prf_model_clone: a fresh state, and
\* an array of its own for the root.
prf_model_traverse_io(j) ==
  /\ status = "loaded" /\ at = "idle"
  /\ job' = j /\ at' = "visit"
  /\ heap' = Append(heap, [elems |-> <<1>>, size |-> 1, live |-> TRUE])
  /\ lists' = <<Len(heap) + 1>> /\ child' = <<1>> /\ limit' = <<1>>
  /\ state' = NewState
  /\ calls' = <<>> /\ seen' = <<>>
  /\ copy' = [NoCopy EXCEPT !.parent = [n \in Nodes |-> NULL], !.kids = [n \in Nodes |-> <<>>]]
  /\ UNCHANGED <<kind, parent, children, stack, level, status, flag, broken>>

\* A list that was freed, or an index beyond its elements: undefined.
Readable(a, i) == heap[a].live /\ i \in 1..Len(Elems(a))
Current == Elems(Top(lists))[Top(child)]
Depth0 == Len(lists) - 1      \* level, and state->physical_level

\* Free every array on the stack.
Freed(h) == [a \in DOMAIN h |->
               IF \E l \in DOMAIN lists : lists[l] = a THEN [h[a] EXCEPT !.live = FALSE] ELSE h[a]]

\* What the loop does with the callback's answer for node n.
Control(n, code) ==
  \/ /\ code = "EXIT"
     /\ heap' = Freed(heap)
     /\ at' = "done"
     /\ broken' = (broken \/ Depth0 > 0)
     /\ UNCHANGED <<lists, child, limit>>
  \/ /\ code = "CONTINUE" /\ children[n] # NULL
     /\ IF heap[children[n]].live
        THEN /\ lists' = Append(lists, children[n])
             /\ child' = Append(child, 1)
             /\ limit' = Append(limit, Len(Elems(children[n])))
             /\ at' = "visit"
        ELSE at' = "dead" /\ UNCHANGED <<lists, child, limit>>
     /\ UNCHANGED <<heap, broken>>
  \/ /\ code = "POP"
     /\ LET s == Elems(Top(lists))
            pops == {j \in DOMAIN s : j > Top(child) /\ kind[s[j]] \in {"pop", "xpop"}}
        IN IF pops = {} THEN at' = "dead" /\ UNCHANGED child
           ELSE /\ child' = [child EXCEPT ![Len(child)] = CHOOSE j \in pops : \A i \in pops : j <= i]
                /\ at' = "visit"
     /\ UNCHANGED <<heap, lists, limit, broken>>
  \/ /\ code \in {"SIBLING", "UP", "TRAVERSE"} \/ (code = "CONTINUE" /\ children[n] = NULL)
     /\ child' = [child EXCEPT ![Len(child)] = @ + 1]
     /\ at' = "up"
     /\ UNCHANGED <<heap, lists, limit, broken>>

\* The call of a node that is not deleted: entry_f, the callback, and exit_f
\* before the children are looked at; then the state is pushed for them.
Call(n, code) ==
  LET during == entry_f(kind[n], n, state)
      after == exit_f(kind[n], n, during)
  IN /\ calls' = Append(calls, [node |-> n, code |-> code])
     /\ seen' = Append(seen, during)
     /\ Control(n, code)
     /\ state' = IF Len(lists') > Len(lists) THEN Pushed(after) ELSE after
\* Mutation of Skip: a deleted node is not stepped over.
SkipStays ==
  /\ at = "visit" /\ Readable(Top(lists), Top(child))
  /\ flag[Current] = "deleted"
  /\ UNCHANGED tvars

Skip ==
  /\ at = "visit" /\ Readable(Top(lists), Top(child))
  /\ flag[Current] = "deleted"
  /\ Control(Current, "SIBLING")
  /\ UNCHANGED <<kind, parent, children, stack, level, status, flag, job, state, calls, seen, copy>>

Answers == Cardinality({i \in DOMAIN calls : calls[i].code # "CONTINUE"})
\* PRF_TRAV_POP is for nodes between a push and its pop; the loop does not
\* check it.
MayPop(n) ==
  /\ kind[n] \notin {"pop", "xpop"}
  /\ LET s == Elems(Top(lists))
     IN \E i \in 1..Top(child) :
          /\ kind[s[i]] = "push"
          /\ \A j \in i..Top(child) : kind[s[j]] \notin {"pop", "xpop"}

VisitUser(code) ==
  /\ at = "visit" /\ job = "user" /\ Readable(Top(lists), Top(child))
  /\ flag[Current] # "deleted"
  /\ code # "CONTINUE" => Answers < MaxAnswers
  /\ code = "POP" => MayPop(Current)
  /\ Call(Current, code)
  /\ UNCHANGED <<kind, parent, children, stack, level, status, flag, job, copy>>

\* save_cb writes the record, unless the node is a virtual one.  Its calls
\* with the answer CONTINUE are the records of the new file.
save_cb(n) == IF flag[n] = "virtual" THEN "SIBLING" ELSE "CONTINUE"
VisitSave ==
  /\ at = "visit" /\ job = "save" /\ Readable(Top(lists), Top(child))
  /\ flag[Current] # "deleted"
  /\ Call(Current, save_cb(Current))
  /\ UNCHANGED <<kind, parent, children, stack, level, status, flag, job, copy>>
\* Mutation of Cloned: the stack of clones is not cut back.
ClonedUncut(n) ==
  IF kind[n] = "header"
  THEN [copy EXCEPT !.header = n, !.stack = Append(@, n)]
  ELSE LET under == copy.stack[Depth0]
       IN [copy EXCEPT !.parent[n] = under,
                       !.kids[under] = Append(@, n),
                       !.stack = Append(@, n)]

\* clone_cb: the clone of a node goes below stack[physical_level - 1] of the
\* clones, which is then cut back to its level.
Cloned(n) ==
  IF kind[n] = "header"
  THEN [copy EXCEPT !.header = n, !.stack = Append(@, n)]
  ELSE LET under == copy.stack[Depth0]
       IN [copy EXCEPT !.parent[n] = under,
                       !.kids[under] = Append(@, n),
                       !.stack = Append(SubSeq(@, 1, Depth0), n)]
clone_cb(n) ==
  LET fine == IF kind[n] = "header" THEN copy.header = NULL /\ Depth0 = 0
                                    ELSE copy.header # NULL
  IN IF fine THEN copy' = Cloned(n) /\ Call(n, "CONTINUE")
     ELSE /\ at' = "dead"
          /\ UNCHANGED <<heap, lists, child, limit, state, calls, seen, copy, broken>>
VisitClone ==
  /\ at = "visit" /\ job = "clone" /\ Readable(Top(lists), Top(child))
  /\ flag[Current] # "deleted"
  /\ clone_cb(Current)
  /\ UNCHANGED <<kind, parent, children, stack, level, status, flag, job>>

\* Mutation of Up: the parent's sibling is skipped.
UpTwice ==
  /\ at = "up" /\ Depth0 > 0 /\ Top(child) > Top(limit)
  /\ lists' = Drop(lists) /\ limit' = Drop(limit) /\ state' = Popped(state)
  /\ child' = [Drop(child) EXCEPT ![Len(child) - 1] = @ + 2]
  /\ UNCHANGED <<vars, flag, job, at, calls, seen, copy, broken>>

\* The inner loop: leave every level that is exhausted, popping the state.
Up ==
  /\ at = "up" /\ Depth0 > 0 /\ Top(child) > Top(limit)
  /\ lists' = Drop(lists) /\ limit' = Drop(limit) /\ state' = Popped(state)
  /\ child' = [Drop(child) EXCEPT ![Len(child) - 1] = @ + 1]
  /\ UNCHANGED <<vars, flag, job, at, calls, seen, copy, broken>>
UpEnds ==
  /\ at = "up" /\ ~(Depth0 > 0 /\ Top(child) > Top(limit))
  /\ \/ child[1] <= limit[1] /\ at' = "visit" /\ UNCHANGED heap
     \/ child[1] > limit[1] /\ at' = "done" /\ heap' = Freed(heap)
  /\ UNCHANGED <<kind, parent, children, stack, level, status,
                 flag, job, lists, child, limit, state, calls, seen, copy, broken>>

\* The call returns; the next one may begin.
Done ==
  /\ at = "done"
  /\ at' = "idle" /\ job' = "none"
  /\ lists' = <<>> /\ child' = <<>> /\ limit' = <<>> /\ state' = NewState
  /\ calls' = <<>> /\ seen' = <<>> /\ copy' = NoCopy
  /\ heap' = SubSeq(heap, 1, Len(heap) - 1)
  /\ UNCHANGED <<kind, parent, children, stack, level, status, flag, broken>>

Traverse ==
  \/ (\E c \in Codes : VisitUser(c)) \/ VisitSave \/ VisitClone
  \/ Skip \/ Up \/ UpEnds \/ Done
TNext ==
  \/ Load
  \/ \E n \in Nodes, f \in {"deleted", "virtual"} : FlagNode(n, f)
  \/ \E j \in Jobs : prf_model_traverse_io(j)
  \/ Traverse

\* A traversal that has begun goes on: it is one call of one thread.
TSpec == TInit /\ [][TNext]_tvars /\ WF_tvars(Traverse)
-----------------------------------------------------------------------------
\* Traversing a completely loaded model touches only allocated lists and only
\* their elements, however traversals, flags and answers follow each other,
\* unless an earlier traversal was left with PRF_TRAV_EXIT below the root (or
\* a model without a header is cloned).
Whole == level = 0 /\ ~broken
Clonable == kind[1] = "header" /\ \A n \in Nodes \ {1} : kind[n] # "header"
NoBadAccess ==
  (Whole /\ job \in Jobs) =>
    /\ at = "visit" => Readable(Top(lists), Top(child))
    /\ at = "dead" => (job = "clone" /\ ~Clonable)

\* What the answers CONTINUE, SIBLING and POP leave of the model, as a set: nodes
\* that are neither deleted, nor below a node whose answer was not CONTINUE, nor
\* between a node that answered POP and the next pop.
Answer(n) == IF \E i \in DOMAIN calls : calls[i].node = n
             THEN calls[CHOOSE i \in DOMAIN calls : calls[i].node = n].code ELSE "none"
Jumped(n) ==
  \E m \in Siblings(n) :
    /\ m < n /\ Answer(m) = "POP"
    /\ \A k \in Siblings(n) : (m < k /\ k < n) => kind[k] \notin {"pop", "xpop"}
    /\ kind[n] \notin {"pop", "xpop"}
\* Parents come first in the file, so the visible nodes can be found in order.
Visible ==
  LET vis[n \in 0..Len(kind)] ==
        IF n = 0 THEN {}
        ELSE IF /\ flag[n] # "deleted"
                /\ ~Jumped(n)
                /\ n # 1 => (parent[n] \in vis[n - 1] /\ Answer(parent[n]) = "CONTINUE")
             THEN vis[n - 1] \cup {n} ELSE vis[n - 1]
  IN vis[Len(kind)]
Exited == \E i \in DOMAIN calls : calls[i].code = "EXIT"
\* What the documents take out of that set after a node that answered UP: its
\* later siblings and what is below them.
AfterUp ==
  {n \in Nodes : \E m \in Ancestors(n) : \E k \in Siblings(m) : k < m /\ Answer(k) = "UP"}

\* No node but the visible ones is visited, each of those once and in the order
\* of the file, except that nothing is said of whether those after an UP are (see
\* UpSkipsSiblings).  For prf_model_save of a file that closes every level this is
\* the manual's `bitwise copy': the records of a model without flags come out
\* exactly as they went in.
VisitsInFileOrder ==
  (Whole /\ at = "done" /\ ~Exited) =>
    /\ {calls[i].node : i \in DOMAIN calls} \subseteq Visible
    /\ Visible \ AfterUp \subseteq {calls[i].node : i \in DOMAIN calls}
    /\ \A i \in 1..(Len(calls) - 1) : calls[i].node < calls[i + 1].node

\* `State changes caused by ancillary nodes are popped off the state stack at
\* the correct moment': the matrix seen by a callback is the product of the
\* ancillary nodes before the node, or before an ancestor of it, in their lists,
\* each one once and in the order of the file.  The transparency of an object,
\* which its exit_f resets before the children's turn, is seen by no other node.
InScope(n) == {a \in Nodes : /\ kind[a] = "anc" /\ Answer(a) # "none"
                             /\ \E m \in Ancestors(n) : m \in Siblings(a) /\ a <= m}
ScopeOfState ==
  (Whole /\ job \in Jobs) =>
    \A i \in DOMAIN calls :
      /\ Members(Matrix(seen[i])) = InScope(calls[i].node)
      /\ Ascending(Matrix(seen[i]))
      /\ seen[i].object \in {0, calls[i].node}

\* push_level, and its three sisters, are counted by the nodes and not by the
\* traversal: at every call they say in how many push/pop sections the node is,
\* whatever subtrees and sections the answers have left out, counted in 16 bits;
\* unless a push or a pop itself is deleted, or a section ends with the pop of
\* another sort, which counts in a counter of its own.
InSection(x) ==
  \E m \in Siblings(x) :
    /\ m <= x /\ kind[m] = "push"
    /\ \A k \in Siblings(x) : (m < k /\ k < x) => kind[k] # "pop"
Sections(n) == {x \in Ancestors(n) : InSection(x)}
OwnPops == \A n \in Nodes : kind[n] # "xpop"
Balanced == OwnPops /\ \A n \in Nodes : flag[n] = "deleted" => kind[n] \notin {"push", "pop"}
LevelsInStep ==
  (Whole /\ Balanced /\ job \in Jobs) =>
    \A i \in DOMAIN calls :
      /\ seen[i].push_level = Cardinality(Sections(calls[i].node)) % 65536
      /\ seen[i].physical_level = Cardinality(Ancestors(calls[i].node)) - 1

\* What a number stands for does not change during such a traversal: a lookup of a
\* texture or an instance that has found a node finds the same node at every later
\* call, also when the level it was defined on has been popped and when the file
\* defines the number again.  So does a lookup of a material, but for the call of
\* the header the state has registered, the first one: there the materials found
\* before it are forgotten.
Number == [n \in Nodes |-> n % 2]
Registering(i) == kind[calls[i].node] = "header" /\ seen[i].header = calls[i].node
DefinitionsStay ==
  job \in Jobs => \A i \in 1..(Len(calls) - 1), number \in {0, 1} :
    LET found == Lookup(seen[i].found, Number, number)
        material == Lookup(seen[i].materials, Number, number)
    IN /\ found # 0 => Lookup(seen[i + 1].found, Number, number) = found
       /\ material # 0 => Lookup(seen[i + 1].materials, Number, number) =
                            IF Registering(i + 1) THEN 0 ELSE material

\* What a callback is shown in the state: matrices and definitions.
StateInScope == ScopeOfState /\ DefinitionsStay

\* prf_model_clone gives the clone the tree of the original, without the
\* deleted nodes and what is below them.
CloneIsEqual ==
  (Whole /\ job = "clone" /\ at = "done") =>
    /\ copy.header = IF 1 \in Visible THEN 1 ELSE NULL
    /\ \A n \in Visible : n # 1 => copy.parent[n] = parent[n]
    /\ \A n \in Nodes :
         /\ Members(copy.kids[n]) = {m \in Visible : parent[m] = n}
         /\ Ascending(copy.kids[n])

\* A traversal, once begun, returns to its caller whatever the callback answers.
TraversalEnds == (at # "idle") ~> (at \in {"idle", "dead"})

\* The manual on PRF_TRAV_UP, `skip the rest of the siblings and go back up to the
\* parent': after a call answered so no later call is for a sibling, unless that
\* is a pop, which could be wanted for its exit_f.
UpSkipsSiblings ==
  (Whole /\ job = "user") =>
    \A a, b \in DOMAIN calls :
      (a < b /\ calls[a].code = "UP") =>
        (calls[b].node \in Siblings(calls[a].node) => kind[calls[b].node] \in {"pop", "xpop"})

\* The manual on PRF_TRAV_EXIT, `stop traversal here': the model is not harmed.
ExitLeavesModel ==
  (Complete /\ at = "idle") =>
    \A n \in Nodes : children[n] # NULL => heap[children[n]].live
=============================================================================
