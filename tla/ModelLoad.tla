----------------------------- MODULE ModelLoad -----------------------------
(***************************************************************************)
(* prf_model_load_with_callback (src/model.c): the records of a file, one  *)
(* after the other, become a tree.  The tree under construction is a stack *)
(* of growing arrays; a node gets its `children' pointer when a later      *)
(* record (a pop, or an ancillary one) closes or extends the list, and an  *)
(* array that grows may be moved by realloc.  So pointers to arrays are    *)
(* modelled: `heap' is what they point to.                                 *)
(*                                                                         *)
(* One record is one step: nothing else runs between its parts.  Nodes are *)
(* numbered in the order of their records.                                 *)
(***************************************************************************)
EXTENDS Integers, Sequences, FiniteSets

CONSTANTS
  Kinds,     \* the sorts of records the file may hold, see AllKinds
  Roots,     \* the sorts its first record may be of
  MaxNodes,  \* bound: records in the file
  InitSize   \* the size prf_array_init is called with (8)

(* What the loader tells apart, from the flags of the node types.
     plain    a primary node
     header   a primary node with opcode 1
     push     PRF_PUSH_NODE: opcodes 10, 19, 21, 122
     pop      opcode 11, PRF_POP_NODE, also one of the tested opcodes
     xpop     the other PRF_POP_NODEs: 20, 22, 123, and a byteswapped 11
     anc      PRF_ANCILLARY
     bogus    opcode 0, 0xa000 or 0x3230
     unknown  an opcode nobody registered
     bad      a record whose load_f fails, or fewer than four bytes *)
AllKinds == {"plain", "header", "push", "pop", "xpop", "anc", "bogus", "unknown", "bad"}

ASSUME LoadAssumption ==
  /\ Kinds \subseteq AllKinds /\ Roots \subseteq AllKinds
  /\ MaxNodes \in Nat
  /\ InitSize \in Nat \ {0}

VARIABLES
  kind,      \* node -> sort of its record
  parent,    \* node -> node->parent, NULL when not set
  children,  \* node -> node->children, NULL or an array
  heap,      \* array -> its elements, its size, whether it is allocated
  stack,     \* stack[level] of the code is stack[level + 1]
  level,
  status     \* of the load: see TypeOK

vars == <<kind, parent, children, heap, stack, level, status>>

NULL == 0
Nodes == 1..Len(kind)
Elems(a) == heap[a].elems
LastOf(s) == s[Len(s)]
List(l) == stack[l + 1]
\* The node that gets the list on level l + 1.
Owner(l) == LastOf(Elems(List(l)))
EmptyArray == [elems |-> <<>>, size |-> InitSize, live |-> TRUE]

-----------------------------------------------------------------------------
(* Arrays (src/util/array.c) *)

\* prf_array_append_ptr(list, node), result in stack[l]: a full array doubles
\* its size, and prf_array_set_size's realloc may move it.
Appended(h, a, node) ==
  [h[a] EXCEPT !.elems = Append(@, node),
               !.size = IF Len(h[a].elems) >= @ THEN 2 * @ ELSE @]
AppendInPlace(h, s, l, node) ==
  /\ heap' = [h EXCEPT ![s[l + 1]] = Appended(h, s[l + 1], node)]
  /\ stack' = s
AppendMoved(h, s, l, node) ==
  /\ Len(h[s[l + 1]].elems) >= h[s[l + 1]].size
  /\ heap' = Append([h EXCEPT ![s[l + 1]].live = FALSE], Appended(h, s[l + 1], node))
  /\ stack' = [s EXCEPT ![l + 1] = Len(h) + 1]
prf_array_append_ptr(h, s, l, node) ==
  AppendInPlace(h, s, l, node) \/ AppendMoved(h, s, l, node)

-----------------------------------------------------------------------------
Init ==
  /\ kind = <<>> /\ parent = <<>> /\ children = <<>>
  /\ heap = <<EmptyArray>>
  /\ stack = <<1>>
  /\ level = 0
  /\ status = "loading"

Node == Len(kind) + 1
Record(k) ==
  /\ status = "loading" /\ Node <= MaxNodes
  /\ k \in IF kind = <<>> THEN Roots ELSE Kinds
  /\ kind' = Append(kind, k)
\* Mutations of Attach: a list that was attached once is not attached again;
\* the first node of the list does not learn its parent.
AttachOnce(l, par, chi) ==
  LET owner == LastOf(heap'[stack'[l]].elems)
      list == stack'[l + 1]
  IN /\ children' = IF chi[owner] = NULL THEN [chi EXCEPT ![owner] = list] ELSE chi
     /\ parent' = [n \in DOMAIN par |->
                     IF \E i \in DOMAIN heap'[list].elems : heap'[list].elems[i] = n
                     THEN owner ELSE par[n]]
AttachAllButFirst(l, par, chi) ==
  LET owner == LastOf(heap'[stack'[l]].elems)
      list == stack'[l + 1]
  IN /\ children' = [chi EXCEPT ![owner] = list]
     /\ parent' = [n \in DOMAIN par |->
                     IF \E i \in DOMAIN heap'[list].elems : i > 1 /\ heap'[list].elems[i] = n
                     THEN owner ELSE par[n]]

\* stack[l] becomes the children of the last node on stack[l - 1], and every
\* node in it learns its parent.  `par' and `chi' are the nodes' pointers
\* before, the new node's included.
Attach(l, par, chi) ==
  LET owner == LastOf(heap'[stack'[l]].elems)
      list == stack'[l + 1]
  IN /\ children' = [chi EXCEPT ![owner] = list]
     /\ parent' = [n \in DOMAIN par |->
                     IF \E i \in DOMAIN heap'[list].elems : heap'[list].elems[i] = n
                     THEN owner ELSE par[n]]

\* A primary node joins the list of its level.
LoadPrimary(k) ==
  /\ Record(k) /\ k \in {"plain", "header"}
  /\ prf_array_append_ptr(heap, stack, level, Node)
  /\ parent' = Append(parent, NULL) /\ children' = Append(children, NULL)
  /\ UNCHANGED <<level, status>>

\* The list below the last node of this level: a new one, unless it has one
\* already.  The entries of deeper levels are dropped, not freed.
NeedsList == children[Owner(level)] = NULL
OpenedHeap == IF NeedsList THEN Append(heap, EmptyArray) ELSE heap
OpenedStack ==
  IF NeedsList THEN Append(SubSeq(stack, 1, level + 1), Len(heap) + 1) ELSE stack

\* With nothing on this level yet, (stack[level])[cnt-1] is not a node.
NoOwner == Elems(List(level)) = <<>>

LoadPush ==
  /\ Record("push") /\ ~NoOwner
  /\ prf_array_append_ptr(OpenedHeap, OpenedStack, level + 1, Node)
  /\ level' = level + 1
  /\ parent' = Append(parent, NULL) /\ children' = Append(children, NULL)
  /\ UNCHANGED status

LoadAncillary ==
  /\ Record("anc") /\ ~NoOwner
  /\ prf_array_append_ptr(OpenedHeap, OpenedStack, level + 1, Node)
  /\ Attach(level + 1, Append(parent, NULL), Append(children, NULL))
  /\ UNCHANGED <<level, status>>
LoadPop(k) ==
  /\ Record(k) /\ k \in {"pop", "xpop"} /\ level > 0
  /\ prf_array_append_ptr(heap, stack, level, Node)
  /\ Attach(level, Append(parent, NULL), Append(children, NULL))
  /\ level' = level - 1
  /\ UNCHANGED status

\* Ways to die: assert(level > 0), assert(0), assert(info != NULL), and the
\* read of stack[level][-1].
LoadDies(k) ==
  /\ Record(k)
  /\ \/ k = "xpop" /\ level = 0 /\ status' = "asserted"
     \/ k = "bogus" /\ level > 0 /\ status' = "asserted"
     \/ k = "unknown" /\ status' = "asserted"
     \/ k \in {"push", "anc"} /\ NoOwner /\ status' = "overrun"
  /\ parent' = Append(parent, NULL) /\ children' = Append(children, NULL)
  /\ UNCHANGED <<heap, stack, level>>

\* `goto error'
LoadFails ==
  /\ status = "loading" /\ "bad" \in Kinds
  /\ status' = "failed"
  /\ UNCHANGED <<kind, parent, children, heap, stack, level>>

\* After the loop: exactly one root, or no model.
Finish ==
  IF Len(Elems(List(0))) = 1
  THEN status' = "loaded" /\ heap' = [heap EXCEPT ![List(0)].live = FALSE]
  ELSE status' = "refused" /\ UNCHANGED heap

\* bf_at_eof
EndOfFile ==
  /\ status = "loading"
  /\ Finish
  /\ UNCHANGED <<kind, parent, children, stack, level>>

\* An opcode that cannot stand on level 0 is taken for trailing garbage.
TrailingGarbage ==
  /\ status = "loading" /\ level = 0
  /\ {"bogus", "pop"} \cap Kinds # {}
  /\ Finish
  /\ UNCHANGED <<kind, parent, children, stack, level>>

LoadRecord ==
  \/ \E k \in Kinds \cup Roots : LoadPrimary(k) \/ LoadPop(k) \/ LoadDies(k)
  \/ LoadPush \/ LoadAncillary
  \/ LoadFails \/ EndOfFile \/ TrailingGarbage

Next == LoadRecord
Spec == Init /\ [][Next]_vars
-----------------------------------------------------------------------------
\* The variables have their types; `status' says whether the load is still
\* running, returned TRUE or FALSE, or died.
TypeOK ==
  /\ kind \in Seq(Kinds \cup Roots) /\ Len(kind) <= MaxNodes
  /\ parent \in [Nodes -> Nodes \cup {NULL}]
  /\ children \in [Nodes -> DOMAIN heap \cup {NULL}]
  /\ heap \in Seq([elems : Seq(Nodes), size : Nat, live : BOOLEAN])
  /\ stack \in Seq(DOMAIN heap) /\ level \in 0..(Len(stack) - 1)
  /\ status \in {"loading", "loaded", "refused", "failed", "asserted", "overrun"}

\* Whoever dereferences a children pointer finds an allocated array, except
\* below a node whose list is still open: a push after an ancillary node or
\* after another push/pop section extends a list that is already attached,
\* and realloc may move it until the pop attaches it again.  (The file may end
\* after any record, so this is what a finished load leaves behind.)
OnOpenPath(n) == \E l \in 0..(level - 1) : n = Owner(l)
ChildrenLive ==
  status = "loading" =>
    \A n \in Nodes :
      children[n] # NULL => (Elems(children[n]) # <<>> /\ (heap[children[n]].live \/ OnOpenPath(n)))

\* The tree the manual promises, computed from the records alone: the child
\* array of a node holds the ancillary nodes that follow it and the pushes,
\* the pops and the primary nodes between them.
Opened(n) == Cardinality({m \in 1..n : kind[m] = "push"})
Closed(n) == Cardinality({m \in 1..n : kind[m] \in {"pop", "xpop"}})
Depth(n) == (Opened(n - 1) - Closed(n - 1)) + (IF kind[n] \in {"push", "anc"} THEN 1 ELSE 0)
IsLogicalParent(p, n) ==
  /\ p < n /\ Depth(p) = Depth(n) - 1
  /\ \A m \in (p + 1)..(n - 1) : Depth(m) # Depth(n) - 1
LogicalChildren(p) == {n \in Nodes : n > p /\ IsLogicalParent(p, n)}
Complete == status = "loaded" /\ level = 0
Members(s) == {s[i] : i \in DOMAIN s}
Ascending(s) == \A i \in 1..(Len(s) - 1) : s[i] < s[i + 1]
TreeAsRecorded ==
  Complete =>
    \A p \in Nodes :
      /\ \A n \in LogicalChildren(p) : parent[n] = p
      /\ IF LogicalChildren(p) = {} THEN children[p] = NULL
         ELSE /\ Members(Elems(children[p])) = LogicalChildren(p)
              /\ Ascending(Elems(children[p]))

\* While the file is read, the open lists on the stack, and the one that a push
\* or an ancillary node would reopen, are exactly the logical children of their
\* owners: no node is lost when a list is reopened or moved.
InUse(l) == l <= level \/ (l = level + 1 /\ ~NoOwner /\ ~NeedsList)
StackHoldsTree ==
  status = "loading" =>
    \A l \in 1..(level + 1) :
      InUse(l) =>
        /\ l < Len(stack) /\ Elems(List(l - 1)) # <<>>
        /\ heap[List(l)].live
        /\ Members(Elems(List(l))) = LogicalChildren(Owner(l - 1))

\* The loader's lists hold the tree at every record, and no pointer to one that
\* has moved is left.
LoadKeepsLists == (status = "loading" => TypeOK) /\ ChildrenLive /\ StackHoldsTree

\* The nodes of a list, and a node with those above it, for the properties of
\* the traversals.
Siblings(n) == {m \in Nodes : parent[m] = parent[n]}
Ancestors(n) ==
  LET up[m \in 0..Len(kind)] == IF m = 0 THEN {} ELSE {m} \cup up[parent[m]] IN up[n]
=============================================================================
