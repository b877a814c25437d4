------------------------------ MODULE Library -------------------------------
(***************************************************************************)
(* prf_init and prf_exit (src/profit.c) around the parts of the library    *)
(* that keep tables of their own: messages, memory pools, node types.      *)
(* An application may start and stop the library more than once.           *)
(*                                                                         *)
(* No part reads another's tables, so the calls of one part mean the same  *)
(* whatever is done with the others: a session uses one of them.           *)
(***************************************************************************)
EXTENDS MemPool, Messages, NodeInfo

ASSUME LibraryAssumption == "ERROR" \in Type

VARIABLE using  \* "down", or the part in use: "pools", "messages" or "types"

libvars == <<poolvars, msgvars, infovars, using>>

LInit == PoolInit /\ MsgInit /\ InfoInit /\ using = "down"

\* A build without assertions registers one handler, for errors.
prf_init(part) ==
  /\ using = "down"
  /\ prf_messages_init("ERROR", 1, "profit_error")
  /\ pool_system_init
  /\ prf_nodeinfo_init
  /\ using' = part

prf_exit ==
  /\ using # "down"
  /\ prf_nodeinfo_exit /\ pool_system_exit /\ prf_messages_exit
  /\ using' = "down"

Use ==
  \/ using = "pools" /\ PoolCalls /\ UNCHANGED <<msgvars, infovars, using>>
  \/ using = "messages" /\ MsgCalls /\ UNCHANGED <<poolvars, infovars, using>>
  \/ using = "types" /\ InfoCalls /\ UNCHANGED <<poolvars, msgvars, using>>

LNext == (\E part \in {"pools", "messages", "types"} : prf_init(part)) \/ prf_exit \/ Use
LSpec == LInit /\ [][LNext]_libvars
-----------------------------------------------------------------------------
\* Every table of the library lies in the memory it has, however often it grew
\* and whatever size of elements it was made with.
TablesInBounds ==
  /\ InBounds(pools) /\ InBounds(nodetypes)
  /\ \A t \in Type : InBounds(prf_handlers[t])
  /\ \A p \in DOMAIN pool : InBounds(pool[p].blocks)

\* After prf_exit nothing is left allocated, whatever the application left
\* behind; a new session begins with new tables.
NothingLeft ==
  using = "down" =>
    /\ \A p \in DOMAIN pool : ~pool[p].live
    /\ \A b \in DOMAIN blocks : ~blocks[b].live
    /\ \A h \in DOMAIN handler : ~handler[h].live
    /\ \A e \in DOMAIN info : ~info[e].live
=============================================================================
