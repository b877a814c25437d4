------------------------------ MODULE NodeInfo ------------------------------
(***************************************************************************)
(* The registry of node types (src/nodeinfo.c): a table indexed by opcode. *)
(* Whoever asks for a type gets a pointer to its entry; registering a type *)
(* again frees the entry and makes a new one.                              *)
(***************************************************************************)
EXTENDS Arrays, FiniteSets

CONSTANTS
  Opcode,     \* the opcodes applications register
  Default,    \* the opcodes prf_nodeinfo_init registers, those with support twice
  Supported,
  InfoSize,   \* sizeof(prf_nodeinfo_t), 72
  TypeSlots,  \* the size the table is made with (128)
  MaxInfos    \* bound: entries made in one session

MaxOpcode == 65535  \* uint16_t
ASSUME InfoAssumption ==
  /\ Opcode \subseteq 0..MaxOpcode /\ Default \subseteq 1..MaxOpcode /\ Supported \subseteq Default
  /\ InfoSize \in Nat \ {0} /\ TypeSlots \in Nat \ {0} /\ MaxInfos \in Nat
\* The table is made for entries and holds pointers to them: what the field
\* elemsize keeps of the size of an entry, 8 of 72, is still a pointer's.
ASSUME InfoSizeAssumption == PointerSize <= InfoSize % 16

VARIABLES
  nodetypes,  \* the table, nodetypes[k] at k + 1: NULL or an entry
  info,       \* entry -> opcode, whether it is allocated
  latest      \* auxiliary: opcode -> the entry registered last, NULL for none

infovars == <<nodetypes, info, latest>>

InfoInit ==
  /\ nodetypes = [size |-> 0, elemsize |-> 0, bytes |-> 0, elems |-> <<>>]
  /\ info = <<>> /\ latest = [o \in Opcode \cup Default |-> NULL]

prf_nodeinfo_get(types, opcode) ==
  IF opcode < prf_array_count(types) THEN types.elems[opcode + 1] ELSE NULL

\* The table is filled up with NULL as far as the opcode, one by one.
Padded(types, opcode) ==
  LET pad[n \in 0..(opcode + 1)] ==
        IF n <= prf_array_count(types) THEN types ELSE prf_array_append(pad[n - 1], NULL)
  IN IF opcode < prf_array_count(types) THEN types ELSE pad[opcode + 1]
\* The table and the entries after prf_nodeinfo_set.
\* Mutation of Set: an old entry is kept, and freed.
SetKeepsOld(r, opcode) ==
  LET types == Padded(r.types, opcode)
      old == types.elems[opcode + 1]
  IN IF old = NULL
     THEN [types |-> [types EXCEPT !.elems[opcode + 1] = Len(r.info) + 1],
           info |-> Append(r.info, [opcode |-> opcode, live |-> TRUE])]
     ELSE [types |-> types, info |-> Append([r.info EXCEPT ![old].live = FALSE], [opcode |-> opcode, live |-> TRUE])]
Set(r, opcode) ==
  LET types == Padded(r.types, opcode)
      old == types.elems[opcode + 1]
  IN [types |-> [types EXCEPT !.elems[opcode + 1] = Len(r.info) + 1],
      info |-> Append(IF old = NULL THEN r.info ELSE [r.info EXCEPT ![old].live = FALSE],
                      [opcode |-> opcode, live |-> TRUE])]
prf_nodeinfo_set(opcode) ==
  /\ opcode > 0 /\ Len(info) < MaxInfos
  /\ LET r == Set([types |-> nodetypes, info |-> info], opcode)
     IN nodetypes' = r.types /\ info' = r.info
  /\ latest' = [latest EXCEPT ![opcode] = Len(info) + 1]

\* The defaults in the order of their opcodes, then the supported ones again.
Sorted(S) == CHOOSE s \in [1..Cardinality(S) -> S] : \A i, j \in DOMAIN s : i < j => s[i] < s[j]
prf_nodeinfo_init ==
  LET ops == Sorted(Default) \o Sorted(Supported)
      reg[n \in 0..Len(ops)] ==
        IF n = 0 THEN [types |-> prf_array_init(TypeSlots, InfoSize), info |-> <<>>]
        ELSE Set(reg[n - 1], ops[n])
      last(o) == {n \in DOMAIN ops : ops[n] = o}
  IN /\ nodetypes' = reg[Len(ops)].types /\ info' = reg[Len(ops)].info
     /\ latest' = [o \in Opcode \cup Default |->
                     IF last(o) = {} THEN NULL ELSE CHOOSE n \in last(o) : \A m \in last(o) : m <= n]

prf_nodeinfo_exit ==
  /\ info' = [e \in DOMAIN info |->
                [info[e] EXCEPT !.live = @ /\ ~\E i \in DOMAIN nodetypes.elems : nodetypes.elems[i] = e]]
  /\ nodetypes' = [size |-> 0, elemsize |-> 0, bytes |-> 0, elems |-> <<>>]
  /\ latest' = [o \in DOMAIN latest |-> NULL]

InfoCalls == \E o \in Opcode : prf_nodeinfo_set(o)
-----------------------------------------------------------------------------
\* Asking for a type gives the entry registered last for it, allocated, and
\* nothing for an opcode nobody registered, before and after the table grew.
LatestIsFound ==
  \A o \in DOMAIN latest :
    LET e == prf_nodeinfo_get(nodetypes, o)
    IN e = latest[o] /\ (e # NULL => info[e].live /\ info[e].opcode = o)
=============================================================================
