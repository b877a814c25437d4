------------------------------ MODULE MemPool -------------------------------
(***************************************************************************)
(* Memory pools (src/util/mempool.c): pool_malloc hands out pieces of      *)
(* large blocks that are only given back together, with their pool.  A     *)
(* pool is known by its slot in a table whose slots are used again.        *)
(*                                                                         *)
(* A client holds one pool at a time, as a model does (model->mempool_id). *)
(* Pools and blocks are numbered as they are allocated.                    *)
(***************************************************************************)
EXTENDS Arrays, FiniteSets

CONSTANTS
  Client,
  BlockSize,  \* the block sizes clients ask for
  Request,    \* the sizes of the pieces they ask for
  PoolSlots,  \* the size the table is made with (8)
  MaxPools,   \* bound: pools created in one session
  MaxBlocks   \* bound: blocks allocated in one session

ASSUME PoolAssumption ==
  /\ BlockSize \subseteq Nat /\ Request \subseteq Nat
  /\ PoolSlots \in Nat \ {0} /\ MaxPools \in Nat /\ MaxBlocks \in Nat

VARIABLES
  pools,   \* the table, pools[k] at k + 1: NULL or a pool
  pool,    \* pool -> block_size, blocks, whether it is allocated
  blocks,  \* block -> data_size, data_pos, whether it is allocated
  pool_of, \* client -> mempool_id, 0 for none
  given    \* the pieces clients hold: [client, block, from, to], bytes from..to-1

poolvars == <<pools, pool, blocks, pool_of, given>>

NoTable == [size |-> 0, elemsize |-> 0, bytes |-> 0, elems |-> <<>>]
PoolInit ==
  /\ pools = NoTable /\ pool = <<>> /\ blocks = <<>>
  /\ pool_of = [c \in Client |-> 0] /\ given = {}

Pool(id) == pools.elems[id + 1]
Slots == 1..(prf_array_count(pools) - 1)
FreeSlots == {k \in Slots : Pool(k) = NULL}
new_pool(block_size) ==
  [block_size |-> block_size, blocks |-> prf_array_init(PoolSlots, PointerSize), live |-> TRUE]

\* pools[0] is reserved.
pool_system_init ==
  /\ pools' = prf_array_append(prf_array_init(PoolSlots, PointerSize), NULL)
  /\ pool' = <<>> /\ blocks' = <<>> /\ given' = {}
  /\ pool_of' = [c \in Client |-> 0]

\* Mutation of Slot: a new pool in the first slot, taken or not.
SlotOne == 1
\* The first free slot, or a new one at the end.
Slot == IF FreeSlots = {} THEN prf_array_count(pools)
        ELSE CHOOSE k \in FreeSlots : \A l \in FreeSlots : k <= l
pool_create_sized(c, block_size) ==
  /\ pool_of[c] = 0 /\ Len(pool) < MaxPools
  /\ pool' = Append(pool, new_pool(block_size))
  /\ LET table == IF Slot = prf_array_count(pools) THEN prf_array_append(pools, NULL) ELSE pools
     IN pools' = [table EXCEPT !.elems[Slot + 1] = Len(pool) + 1]
  /\ pool_of' = [pool_of EXCEPT ![c] = Slot]
  /\ UNCHANGED <<blocks, given>>

\* (size + 7) & ~7
Rounded(size) == ((size + 7) \div 8) * 8
Fits(p, size) ==
  {i \in DOMAIN pool[p].blocks.elems :
     LET b == blocks[pool[p].blocks.elems[i]] IN size <= b.data_size - b.data_pos}
Piece(c, b, from, request) == [client |-> c, block |-> b, from |-> from, to |-> from + request]
\* The first block with room for it, or a new one.
FromBlock(c, p, size, request) ==
  LET i == CHOOSE i \in Fits(p, size) : \A j \in Fits(p, size) : i <= j
      b == pool[p].blocks.elems[i]
  IN /\ blocks' = [blocks EXCEPT ![b].data_pos = @ + size]
     /\ given' = given \cup {Piece(c, b, blocks[b].data_pos, request)}
     /\ UNCHANGED pool
FromNewBlock(c, p, size, request) ==
  /\ Len(blocks) < MaxBlocks
  /\ blocks' = Append(blocks, [data_size |-> IF size > pool[p].block_size THEN size ELSE pool[p].block_size,
                               data_pos |-> size, live |-> TRUE])
  /\ pool' = [pool EXCEPT ![p].blocks = prf_array_append(@, Len(blocks) + 1)]
  /\ given' = given \cup {Piece(c, Len(blocks) + 1, 0, request)}
pool_malloc(c, request) ==
  /\ pool_of[c] # 0
  /\ LET p == Pool(pool_of[c])
         size == Rounded(request)
     IN IF Fits(p, size) # {} THEN FromBlock(c, p, size, request)
        ELSE FromNewBlock(c, p, size, request)
  /\ UNCHANGED <<pools, pool_of>>

\* The pools in slots ks are freed, with their blocks.
Freed(ks) ==
  LET ps == {Pool(k) : k \in ks}
      bs == {b \in DOMAIN blocks : \E p \in ps : \E i \in DOMAIN pool[p].blocks.elems :
                                     pool[p].blocks.elems[i] = b}
  IN /\ pool' = [p \in DOMAIN pool |-> [pool[p] EXCEPT !.live = @ /\ p \notin ps]]
     /\ blocks' = [b \in DOMAIN blocks |-> [blocks[b] EXCEPT !.live = @ /\ b \notin bs]]
\* The client forgets the pool and what came from it, as prf_model_destroy does.
pool_destroy(c) ==
  /\ pool_of[c] # 0
  /\ Freed({pool_of[c]})
  /\ pools' = [pools EXCEPT !.elems[pool_of[c] + 1] = NULL]
  /\ pool_of' = [pool_of EXCEPT ![c] = 0]
  /\ given' = {g \in given : g.client # c}

\* Mutation of pool_destroy_all: the last slot is left out.
DestroyAllButLast == Freed({k \in Slots : Pool(k) # NULL /\ k # prf_array_count(pools) - 1})
pool_destroy_all == Freed({k \in Slots : Pool(k) # NULL})
\* Everything goes, and the table.
pool_system_exit ==
  /\ pool_destroy_all
  /\ pools' = NoTable
  /\ pool_of' = [c \in Client |-> 0] /\ given' = {}

PoolCalls ==
  \E c \in Client :
    \/ \E s \in BlockSize : pool_create_sized(c, s)
    \/ \E r \in Request : pool_malloc(c, r)
    \/ pool_destroy(c)
-----------------------------------------------------------------------------
\* The clients' pools are the taken slots, each its own: a slot that is used
\* again belongs to nobody else.
SlotsOwned ==
  /\ \A c \in Client : pool_of[c] # 0 => (pool_of[c] \in Slots /\ Pool(pool_of[c]) # NULL /\ pool[Pool(pool_of[c])].live)
  /\ \A c, d \in Client : (pool_of[c] = pool_of[d] /\ pool_of[c] # 0) => c = d
  /\ \A k \in Slots : Pool(k) # NULL => \E c \in Client : pool_of[c] = k

\* What a client holds lies in an allocated block, inside it, on a multiple of
\* eight, and overlaps nothing else that was handed out, whoever created,
\* filled and destroyed pools in between.
Separate ==
  \A g \in given :
    /\ g.block \in DOMAIN blocks /\ blocks[g.block].live
    /\ g.from % 8 = 0 /\ g.to <= blocks[g.block].data_size
    /\ \A h \in given : (h # g /\ h.block = g.block) => (h.to <= g.from \/ g.to <= h.from)

\* No client's memory depends on what others do with theirs.
PoolsSeparate == SlotsOwned /\ Separate
=============================================================================
