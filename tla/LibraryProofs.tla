--------------------------- MODULE LibraryProofs ----------------------------
(***************************************************************************)
(* Proofs about the tables of the library, for any number of sessions,     *)
(* clients, pools, handlers, nested posts and node types.                  *)
(***************************************************************************)
EXTENDS Library, SequenceTheorems, FiniteSetTheorems, WellFoundedInduction, TLAPS

-----------------------------------------------------------------------------
\* Every non-empty set of naturals has a least element: the first free slot of
\* a table, and the least counterexample in a proof by induction.
LEMMA LeastExists ==
  ASSUME NEW S, S \subseteq Nat, S # {}
  PROVE  \E x \in S : \A y \in S : x <= y
<1>1. PICK n \in S : TRUE
  OBVIOUS
<1> DEFINE U == 0..n
           T == {0..k : k \in {s \in S : s <= n}}
<1>2. IsFiniteSet(U)
  BY FS_Interval
<1>3. IsWellFoundedOn(StrictSubsetOrdering(U), FiniteSubsetsOf(U))
  BY FS_StrictSubsetOrderingWellFounded
<1>4. T \subseteq FiniteSubsetsOf(U) /\ T # {}
  <2>1. ASSUME NEW k \in S, k <= n PROVE 0..k \in FiniteSubsetsOf(U)
    BY <2>1, FS_Interval DEF FiniteSubsetsOf
  <2> QED
    BY <2>1
<1> HIDE DEF T, U
<1>5. PICK x \in T : \A y \in T : ~(<<y, x>> \in StrictSubsetOrdering(U))
  BY <1>3, <1>4, WFMin
<1>6. PICK k \in S : k <= n /\ x = 0..k
  BY <1>5 DEF T
<1>7. ASSUME NEW y \in S PROVE k <= y
  <2>1. SUFFICES ASSUME y < k PROVE FALSE
    BY <1>6
  <2>2. 0..y \in T
    BY <1>6, <2>1 DEF T
  <2>3. 0..y \subseteq 0..k /\ 0..y # 0..k /\ 0..y \in SUBSET U /\ 0..k \in SUBSET U
    BY <1>6, <2>1 DEF U
  <2>4. <<0..y, x>> \in StrictSubsetOrdering(U)
    BY <1>6, <2>3 DEF StrictSubsetOrdering
  <2> QED
    BY <1>5, <2>2, <2>4
<1> QED
  BY <1>7

-----------------------------------------------------------------------------
(* The inductive invariant: arrays. *)

Array == [size : Nat, elemsize : Nat, bytes : Nat, elems : Seq(Nat)]

\* An array has room for its elements, and doubles to more of them.
Roomy(a) ==
  /\ a \in Array
  /\ 1 <= a.size /\ Len(a.elems) <= a.size
  /\ PointerSize <= a.elemsize /\ a.size * PointerSize <= a.bytes

-----------------------------------------------------------------------------
(* The inductive invariant: memory pools. *)

\* Block b is one of pool p.
Has(p, b) == \E i \in DOMAIN pool[p].blocks.elems : pool[p].blocks.elems[i] = b

PoolRec == [block_size : Nat, blocks : Array, live : BOOLEAN]
BlockRec == [data_size : Nat, data_pos : Nat, live : BOOLEAN]
PoolTypes ==
  /\ pools \in Array
  /\ pool \in Seq(PoolRec)
  /\ blocks \in Seq(BlockRec)
  /\ pool_of \in [Client -> Nat]
  /\ given \subseteq [client : Client, block : Nat, from : Nat, to : Nat]
  /\ pools = NoTable \/ (Roomy(pools) /\ 1 <= Len(pools.elems))
  /\ \A p \in 1..Len(pool) : Roomy(pool[p].blocks)

\* The table and the clients agree, and no pool is in it twice or missing.
SlotsOK ==
  /\ \A k \in Slots : Pool(k) # NULL =>
       /\ Pool(k) \in 1..Len(pool) /\ pool[Pool(k)].live
       /\ \E c \in Client : pool_of[c] = k
  /\ \A k, l \in Slots : (Pool(k) = Pool(l) /\ Pool(k) # NULL) => k = l
  /\ \A p \in 1..Len(pool) : pool[p].live => \E k \in Slots : Pool(k) = p
  /\ \A c \in Client : pool_of[c] # 0 => (pool_of[c] \in Slots /\ Pool(pool_of[c]) # NULL)
  /\ \A c, d \in Client : (pool_of[c] = pool_of[d] /\ pool_of[c] # 0) => c = d

\* A block belongs to one pool and lives as long as it.
BlocksOK ==
  /\ \A p \in 1..Len(pool) : \A b : Has(p, b) => (b \in 1..Len(blocks) /\ (pool[p].live => blocks[b].live))
  /\ \A p, q \in 1..Len(pool) : \A b : (Has(p, b) /\ Has(q, b)) => p = q
  /\ \A b \in 1..Len(blocks) : blocks[b].live => \E p \in 1..Len(pool) : pool[p].live /\ Has(p, b)
  /\ \A b \in 1..Len(blocks) : blocks[b].data_pos % 8 = 0 /\ blocks[b].data_pos <= blocks[b].data_size

\* What a client holds comes from its pool, and lies in the used part of a block.
GivenOK ==
  \A g \in given :
    /\ pool_of[g.client] # 0 /\ Has(Pool(pool_of[g.client]), g.block)
    /\ g.from % 8 = 0 /\ g.from <= g.to /\ g.to <= blocks[g.block].data_pos
    /\ \A h \in given : (h # g /\ h.block = g.block) => (h.to <= g.from \/ g.to <= h.from)

PoolInv == PoolTypes /\ SlotsOK /\ BlocksOK /\ GivenOK

-----------------------------------------------------------------------------
(* The inductive invariant: messages. *)

HandlerRec == [type : Type, level : Nat, func : Func \cup {"profit_error"}, live : BOOLEAN]
PostRec == [type : Type, level : Nat, i : Nat, calling : BOOLEAN, count : Nat, due : SUBSET Nat, told : Seq(Nat)]
MessageTypes ==
  /\ prf_handlers \in [Type -> Array]
  /\ handler \in Seq(HandlerRec)
  /\ posts \in Seq(PostRec)

\* Handler h has a slot.
Listed(h, slots) == \E i \in 1..Len(slots) : slots[i] = h

\* The table of type t holds allocated handlers of this type, each in one slot.
TableOK(t, slots, hs) ==
  /\ \A i \in 1..Len(slots) : slots[i] # NULL =>
       (slots[i] \in 1..Len(hs) /\ hs[slots[i]].live /\ hs[slots[i]].type = t)
  /\ \A i, j \in 1..Len(slots) : (slots[i] = slots[j] /\ slots[i] # NULL) => i = j

\* The tables hold the allocated handlers.
HandlersOK ==
  /\ \A t \in Type : TableOK(t, prf_handlers[t].elems, handler)
  /\ \A h \in 1..Len(handler) : handler[h].live => Listed(h, prf_handlers[handler[h].type].elems)

\* The slots a post has passed: those before i, and i while its handler runs.
Passed(P) == IF P.calling THEN P.i ELSE P.i - 1

\* Where a post stands in the table, which may have grown since.
PostPlace(P, slots) == P.count <= Len(slots) /\ 1 <= P.i /\ P.i <= P.count + 1 /\ (P.calling => P.i <= P.count)
\* Who was told and is still there stands in a slot that was passed.
ToldOK(P, slots, hs) ==
  \A k \in 1..Len(P.told) :
    /\ P.told[k] \in 1..Len(hs) /\ hs[P.told[k]].type = P.type /\ hs[P.told[k]].level <= P.level
    /\ hs[P.told[k]].live => \E j \in 1..Passed(P) : slots[j] = P.told[k]
\* Who is due and still there was told or stands in a slot to come.
DueOK(P, slots, hs) ==
  \A h \in P.due :
    /\ h \in 1..Len(hs) /\ hs[h].level <= P.level
    /\ hs[h].live => \/ \E k \in 1..Len(P.told) : P.told[k] = h
                     \/ \E j \in (Passed(P) + 1)..P.count : slots[j] = h
PostOK(P, slots, hs) ==
  PostPlace(P, slots) /\ Once(P.told) /\ ToldOK(P, slots, hs) /\ DueOK(P, slots, hs)
PostsOK == \A p \in 1..Len(posts) : PostOK(posts[p], prf_handlers[posts[p].type].elems, handler)

MessageInv == MessageTypes /\ HandlersOK /\ PostsOK /\ misused = FALSE

-----------------------------------------------------------------------------
(* The inductive invariant: node types. *)

InfoRec == [opcode : Nat, live : BOOLEAN]

\* The table holds the allocated entries, each at its opcode.
RegistryOK(types, infos) ==
  /\ Roomy(types) /\ infos \in Seq(InfoRec)
  /\ \A k \in 1..Len(types.elems) : types.elems[k] # NULL =>
       /\ types.elems[k] \in 1..Len(infos)
       /\ infos[types.elems[k]].live /\ infos[types.elems[k]].opcode = k - 1
  /\ \A e \in 1..Len(infos) : infos[e].live =>
       (infos[e].opcode + 1 \in 1..Len(types.elems) /\ types.elems[infos[e].opcode + 1] = e)

InfoInv ==
  /\ latest \in [Opcode \cup Default -> Nat]
  /\ \A o \in Opcode \cup Default : prf_nodeinfo_get(nodetypes, o) = latest[o]

-----------------------------------------------------------------------------
(* The inductive invariant: sessions. *)

PoolSession ==
  /\ using # "down" => (Roomy(pools) /\ 1 <= Len(pools.elems))
  /\ using = "down" => ((\A p \in 1..Len(pool) : ~pool[p].live) /\ (\A b \in 1..Len(blocks) : ~blocks[b].live))
MessageSession ==
  /\ using # "down" => \A t \in Type : Roomy(prf_handlers[t])
  /\ using = "down" => (prf_handlers = NoHandlers /\ \A h \in 1..Len(handler) : ~handler[h].live)
InfoSession ==
  /\ using # "down" => RegistryOK(nodetypes, info)
  /\ using = "down" => (nodetypes = NoTable /\ info \in Seq(InfoRec) /\ \A e \in 1..Len(info) : ~info[e].live)

-----------------------------------------------------------------------------
(* Arrays. *)

\* What Append does to a sequence.
LEMMA AppendedSeq ==
  ASSUME NEW S, NEW s \in Seq(S), NEW x \in S
  PROVE  /\ Append(s, x) \in Seq(S) /\ Len(Append(s, x)) = Len(s) + 1
         /\ Append(s, x)[Len(s) + 1] = x /\ \A e \in 1..Len(s) : Append(s, x)[e] = s[e]
  BY AppendProperties

\* Products grow with their factors.
LEMMA ProductOrder ==
  ASSUME NEW a \in Nat, NEW b \in Nat, NEW c \in Nat, a <= b
  PROVE  a * c <= b * c /\ c * a <= c * b /\ a * c \in Nat
<1>1. b = a + (b - a) /\ b - a \in Nat
  OBVIOUS
<1>2. (b - a) * c \in Nat /\ b * c = (a * c) + ((b - a) * c) /\ c * b = b * c /\ c * a = a * c
  BY <1>1
<1> QED
  BY <1>2

\* prf_array_init makes an empty array, with the elements' size cut to four bits.
LEMMA NewArray ==
  ASSUME NEW n \in Nat \ {0}, NEW e \in Nat, PointerSize <= e % 16
  PROVE  Roomy(prf_array_init(n, e)) /\ prf_array_init(n, e).elems = <<>>
<1> USE PointerAssumption
<1>1. e % 16 \in Nat /\ e % 16 <= e
  OBVIOUS
<1>2. n * PointerSize <= n * e /\ n * e \in Nat
  BY <1>1, ProductOrder
<1>3. <<>> \in Seq(Nat) /\ Len(<<>>) = 0
  BY EmptySeq
<1> QED
  BY <1>1, <1>2, <1>3 DEF prf_array_init, Elemsize, Roomy, Array

\* An array of pointers: their size fits in four bits.
LEMMA NewPointerArray ==
  ASSUME NEW n \in Nat \ {0}
  PROVE  Roomy(prf_array_init(n, PointerSize)) /\ prf_array_init(n, PointerSize).elems = <<>>
<1>1. PointerSize \in Nat /\ PointerSize <= PointerSize % 16
  BY PointerAssumption
<1> QED
  BY <1>1, NewArray

\* prf_array_append keeps the elements, adds one, and has room for it.
LEMMA AppendedArray ==
  ASSUME NEW a, Roomy(a), NEW x \in Nat
  PROVE  Roomy(prf_array_append(a, x)) /\ prf_array_append(a, x).elems = Append(a.elems, x)
<1> USE PointerAssumption
<1> DEFINE n == 2 * a.size
           twice == prf_array_set_size(a, n)
           room == IF Len(a.elems) >= a.size THEN twice ELSE a
<1>1. /\ a.size \in Nat /\ a.elemsize \in Nat /\ a.bytes \in Nat /\ a.elems \in Seq(Nat) /\ Len(a.elems) \in Nat
      /\ 1 <= a.size /\ Len(a.elems) <= a.size /\ PointerSize <= a.elemsize /\ a.size * PointerSize <= a.bytes
      /\ a \in Array
  BY DEF Roomy, Array
<1>2. n \in Nat /\ Len(a.elems) + 1 <= n
  BY <1>1
<1>3. prf_array_append(a, x) = [room EXCEPT !.elems = Append(@, x)]
  BY DEF prf_array_append
<1> HIDE DEF n
<1>4. n * PointerSize <= n * a.elemsize /\ n * a.elemsize \in Nat
  <2>1. PointerSize \in Nat /\ a.elemsize \in Nat /\ PointerSize <= a.elemsize
    BY <1>1
  <2>2. n * PointerSize <= n * a.elemsize
    BY <1>2, <2>1, ProductOrder
  <2>3. n * a.elemsize \in Nat
    BY <1>2, <2>1
  <2> QED
    BY <2>2, <2>3
<1>5. /\ twice \in Array /\ twice.elems = a.elems /\ twice.size = n
      /\ twice.elemsize = a.elemsize /\ twice.bytes = n * a.elemsize
  BY <1>1, <1>2, <1>4 DEF Array, prf_array_set_size
<1> HIDE DEF twice
<1>6. /\ room \in Array /\ room.elems = a.elems /\ Len(a.elems) + 1 <= room.size
      /\ PointerSize <= room.elemsize /\ room.size * PointerSize <= room.bytes
  <2>1. CASE Len(a.elems) >= a.size
    BY <1>1, <1>2, <1>4, <1>5, <2>1
  <2>2. CASE ~(Len(a.elems) >= a.size)
    BY <1>1, <2>2
  <2> QED
    BY <2>1, <2>2
<1> HIDE DEF room
<1>7. Append(a.elems, x) \in Seq(Nat) /\ Len(Append(a.elems, x)) = Len(a.elems) + 1
  BY <1>1, AppendProperties
<1> DEFINE new == [room EXCEPT !.elems = Append(@, x)]
<1>8. /\ new \in Array /\ new.elems = Append(a.elems, x)
      /\ new.size = room.size /\ new.elemsize = room.elemsize /\ new.bytes = room.bytes
  BY <1>6, <1>7 DEF Array
<1>9. 1 <= room.size
  BY <1>1, <1>6 DEF Array
<1> HIDE DEF new
<1>10. Roomy(new)
  BY <1>6, <1>7, <1>8, <1>9 DEF Roomy
<1> QED
  BY <1>3, <1>8, <1>10 DEF new

\* An element of an array is overwritten.
LEMMA ReplacedElement ==
  ASSUME NEW a, Roomy(a), NEW i \in 1..Len(a.elems), NEW x \in Nat
  PROVE  Roomy([a EXCEPT !.elems[i] = x]) /\ [a EXCEPT !.elems[i] = x].elems = [a.elems EXCEPT ![i] = x]
<1>1. a.elems \in Seq(Nat) /\ a \in Array
  BY DEF Roomy, Array
<1>2. [a.elems EXCEPT ![i] = x] \in Seq(Nat) /\ Len([a.elems EXCEPT ![i] = x]) = Len(a.elems)
  BY <1>1, ExceptSeq
<1> QED
  BY <1>1, <1>2 DEF Roomy, Array

\* A roomy array's elements lie in its memory.
LEMMA RoomyInBounds ==
  ASSUME NEW a, Roomy(a)
  PROVE  InBounds(a)
<1>1. a.size \in Nat /\ a.bytes \in Nat /\ Len(a.elems) \in Nat /\ PointerSize \in Nat
  BY PointerAssumption DEF Roomy, Array
<1>2. Len(a.elems) * PointerSize <= a.size * PointerSize
  BY <1>1, ProductOrder DEF Roomy
<1>3. Len(a.elems) * PointerSize \in Nat /\ a.size * PointerSize \in Nat
  BY <1>1
<1> QED
  BY <1>1, <1>2, <1>3 DEF Roomy, InBounds

-----------------------------------------------------------------------------
(* Memory pools. *)

\* (size + 7) & ~7 is the next multiple of eight.
LEMMA RoundedFacts ==
  ASSUME NEW size \in Nat
  PROVE  Rounded(size) \in Nat /\ size <= Rounded(size) /\ Rounded(size) % 8 = 0
  BY DEF Rounded

\* Sums of multiples of eight are multiples of eight.
LEMMA MultiplesOfEight ==
  ASSUME NEW a \in Nat, NEW b \in Nat, a % 8 = 0, b % 8 = 0
  PROVE  (a + b) % 8 = 0
  OBVIOUS

\* The types of what the pools are made of.
LEMMA PoolFacts ==
  ASSUME PoolTypes
  PROVE  /\ pools.elems \in Seq(Nat) /\ Len(pools.elems) \in Nat /\ Len(pool) \in Nat /\ Len(blocks) \in Nat
         /\ Slots = 1..(Len(pools.elems) - 1)
         /\ \A k \in Slots : Pool(k) \in Nat
         /\ \A p \in 1..Len(pool) : pool[p] \in PoolRec
         /\ \A b \in 1..Len(blocks) : blocks[b] \in BlockRec
<1>1. pools.elems \in Seq(Nat)
  BY DEF PoolTypes, Array
<1>2. Slots = 1..(Len(pools.elems) - 1)
  BY DEF Slots, prf_array_count
<1>3. \A k \in Slots : Pool(k) \in Nat
  <2> SUFFICES ASSUME NEW k \in Slots PROVE Pool(k) \in Nat
    OBVIOUS
  <2>1. k + 1 \in 1..Len(pools.elems)
    BY <1>1, <1>2
  <2> QED
    BY <1>1, <2>1 DEF Pool
<1>4. pool \in Seq(PoolRec)
  BY DEF PoolTypes
<1>5. blocks \in Seq(BlockRec)
  BY DEF PoolTypes
<1>6. Len(pool) \in Nat /\ \A p \in 1..Len(pool) : pool[p] \in PoolRec
  BY <1>4
<1>7. Len(blocks) \in Nat /\ \A b \in 1..Len(blocks) : blocks[b] \in BlockRec
  BY <1>5
<1>8. Len(pools.elems) \in Nat
  BY <1>1
<1> QED
  BY <1>1, <1>2, <1>3, <1>6, <1>7, <1>8

\* Where a new pool goes: a free slot or the end of the table.
LEMMA SlotFacts ==
  ASSUME PoolTypes, 1 <= Len(pools.elems)
  PROVE  Slot \in Nat /\ 1 <= Slot /\ (Slot = Len(pools.elems) \/ (Slot \in Slots /\ Pool(Slot) = NULL))
<1>1. /\ Len(pools.elems) \in Nat /\ Slots = 1..(Len(pools.elems) - 1)
  BY PoolFacts
<1>2. CASE FreeSlots = {}
  BY <1>1, <1>2 DEF Slot, prf_array_count
<1>3. CASE FreeSlots # {}
  <2>1. FreeSlots \subseteq Nat
    BY <1>1 DEF FreeSlots
  <2>2. \E k \in FreeSlots : \A l \in FreeSlots : k <= l
    BY <1>3, <2>1, LeastExists
  <2>3. Slot \in FreeSlots
    BY <1>3, <2>2 DEF Slot
  <2> QED
    BY <1>1, <2>3 DEF FreeSlots
<1> QED
  BY <1>2, <1>3

\* pool_system_init, before the first call and after every prf_exit.
LEMMA PoolsStart ==
  ASSUME pool_system_init
  PROVE  PoolInv' /\ Roomy(pools)' /\ 1 <= Len(pools'.elems)
<1> USE PoolAssumption
<1> DEFINE new == prf_array_init(PoolSlots, PointerSize)
<1>1. Roomy(new) /\ new.elems = <<>>
  BY NewPointerArray
<1> HIDE DEF new
<1>2. /\ pools' = prf_array_append(new, 0)
      /\ pool' = <<>> /\ blocks' = <<>> /\ given' = {} /\ pool_of' = [c \in Client |-> 0]
  BY DEF pool_system_init, new, NULL
<1>3. Roomy(pools)' /\ pools'.elems = Append(<<>>, 0)
  BY <1>1, <1>2, AppendedArray DEF Roomy, Array
<1>4. Len(pools'.elems) = 1 /\ pools'.elems \in Seq(Nat) /\ pools' \in Array
  <2>1. Len(Append(<<>>, 0)) = 1
    OBVIOUS
  <2> QED
    BY <1>3, <2>1 DEF Roomy, Array
<1>5. PoolTypes'
  <2>1. pool' \in Seq(PoolRec) /\ Len(pool') = 0
    BY <1>2, EmptySeq
  <2>2. blocks' \in Seq(BlockRec)
    BY <1>2, EmptySeq
  <2>3. pool_of' \in [Client -> Nat]
    BY <1>2
  <2> QED
    BY SMTT(30), <1>2, <1>3, <1>4, <2>1, <2>2, <2>3 DEF PoolTypes
<1>6. Slots' = {}
  BY <1>4 DEF Slots, prf_array_count
<1>7. SlotsOK'
  BY <1>2, <1>6 DEF SlotsOK
<1>8. BlocksOK' /\ GivenOK'
  BY <1>2 DEF BlocksOK, GivenOK
<1> QED
  BY <1>3, <1>4, <1>5, <1>7, <1>8 DEF PoolInv

\* Before the first prf_init there is no table.
LEMMA PoolsInit == PoolInit => PoolInv
<1> SUFFICES ASSUME PoolInit PROVE PoolInv
  OBVIOUS
<1>1. pools = NoTable /\ pool = <<>> /\ blocks = <<>> /\ given = {} /\ pool_of = [c \in Client |-> 0]
  BY DEF PoolInit
<1>2. NoTable \in Array /\ NoTable.elems = <<>> /\ Len(NoTable.elems) = 0
  BY EmptySeq DEF NoTable, Array
<1>3. Slots = {}
  BY <1>1, <1>2 DEF Slots, prf_array_count
<1>4. PoolTypes
  BY <1>1, <1>2 DEF PoolTypes
<1> QED
  BY <1>1, <1>3, <1>4 DEF PoolInv, SlotsOK, BlocksOK, GivenOK

\* A new pool has no blocks and takes a slot that nobody has.
LEMMA CreatePreserves ==
  ASSUME PoolInv, Roomy(pools), 1 <= Len(pools.elems), NEW c \in Client, NEW s \in BlockSize, pool_create_sized(c, s)
  PROVE  PoolInv' /\ Roomy(pools)' /\ 1 <= Len(pools'.elems)
<1> USE PoolAssumption
<1> PICK n : n = Slot
  OBVIOUS
<1> PICK new : new = Len(pool) + 1
  OBVIOUS
<1> DEFINE fresh == new_pool(s)
           table == IF n = Len(pools.elems) THEN prf_array_append(pools, NULL) ELSE pools
<1>1. PoolTypes /\ SlotsOK /\ BlocksOK /\ GivenOK
  BY DEF PoolInv
<1>2. /\ pools.elems \in Seq(Nat) /\ Len(pools.elems) \in Nat /\ Len(pool) \in Nat /\ Len(blocks) \in Nat
      /\ Slots = 1..(Len(pools.elems) - 1)
      /\ n \in Nat /\ 1 <= n /\ (n = Len(pools.elems) \/ (n \in Slots /\ Pool(n) = NULL))
  BY <1>1, PoolFacts, SlotFacts
<1>3. /\ pool_of[c] = 0 /\ pool' = Append(pool, fresh) /\ blocks' = blocks /\ given' = given
      /\ pools' = [table EXCEPT !.elems[n + 1] = new]
      /\ pool_of' = [pool_of EXCEPT ![c] = n]
  BY DEF pool_create_sized, prf_array_count
<1>4. fresh.live = TRUE /\ Roomy(fresh.blocks) /\ fresh.blocks.elems = <<>> /\ fresh \in PoolRec
  <2>1. Roomy(prf_array_init(PoolSlots, PointerSize)) /\ prf_array_init(PoolSlots, PointerSize).elems = <<>>
    BY NewPointerArray
  <2> QED
    BY <2>1 DEF new_pool, Roomy, PoolRec
<1> HIDE DEF fresh
<1>5. /\ pool' \in Seq(PoolRec) /\ Len(pool') = new
      /\ pool'[new] = fresh /\ \A p \in 1..Len(pool) : pool'[p] = pool[p]
  <2>1. pool \in Seq(PoolRec)
    BY <1>1 DEF PoolTypes
  <2> QED
    BY <1>3, <1>4, <2>1, AppendProperties
<1>6. Roomy(pools') /\ n + 1 \in 1..Len(pools'.elems) /\ pools'.elems \in Seq(Nat)
      /\ Len(pools'.elems) = (IF n = Len(pools.elems) THEN Len(pools.elems) + 1 ELSE Len(pools.elems))
      /\ pools'.elems[n + 1] = new
      /\ \A k \in 1..Len(pools.elems) : k # n + 1 => pools'.elems[k] = pools.elems[k]
  <2>1. /\ Roomy(table) /\ table.elems \in Seq(Nat) /\ n + 1 \in 1..Len(table.elems)
        /\ Len(table.elems) = (IF n = Len(pools.elems) THEN Len(pools.elems) + 1 ELSE Len(pools.elems))
        /\ \A k \in 1..Len(pools.elems) : table.elems[k] = pools.elems[k]
    <3>1. CASE n = Len(pools.elems)
      <4>1. table = prf_array_append(pools, 0)
        BY <3>1 DEF NULL
      <4>2. Roomy(table) /\ table.elems = Append(pools.elems, 0)
        BY <4>1, AppendedArray
      <4> HIDE DEF table
      <4>3. table.elems \in Seq(Nat) /\ Len(table.elems) = Len(pools.elems) + 1
            /\ \A k \in 1..Len(pools.elems) : table.elems[k] = pools.elems[k]
        BY <1>2, <4>2, AppendProperties
      <4> QED
        BY <1>2, <3>1, <4>2, <4>3
    <3>2. CASE n # Len(pools.elems)
      <4>1. table = pools
        BY <3>2
      <4>2. n + 1 \in 1..Len(pools.elems)
        BY <1>2, <3>2
      <4> HIDE DEF table
      <4> QED
        BY <1>2, <3>2, <4>1, <4>2
    <3> QED
      BY <3>1, <3>2
  <2> HIDE DEF table
  <2>2. new \in Nat
    BY <1>2
  <2>3. Roomy(pools') /\ pools'.elems = [table.elems EXCEPT ![n + 1] = new]
    <3>1. Roomy(table) /\ n + 1 \in 1..Len(table.elems)
      BY <2>1
    <3>2. /\ Roomy([table EXCEPT !.elems[n + 1] = new])
          /\ [table EXCEPT !.elems[n + 1] = new].elems = [table.elems EXCEPT ![n + 1] = new]
      BY <2>2, <3>1, ReplacedElement
    <3> QED
      BY <1>3, <3>2
  <2>4. pools'.elems \in Seq(Nat) /\ Len(pools'.elems) = Len(table.elems) /\ pools'.elems[n + 1] = new
        /\ \A k \in 1..Len(table.elems) : k # n + 1 => pools'.elems[k] = table.elems[k]
    BY <2>1, <2>2, <2>3, ExceptSeq
  <2>5. 1..Len(pools.elems) \subseteq 1..Len(table.elems)
    BY <1>2, <2>1
  <2> QED
    BY <2>1, <2>3, <2>4, <2>5
<1> HIDE DEF table
<1>7. /\ Slots' = 1..(Len(pools'.elems) - 1) /\ n \in Slots' /\ Pool(n)' = new
      /\ \A k \in Slots' : k # n => (k \in Slots /\ Pool(k)' = Pool(k))
      /\ \A k \in Slots : k \in Slots'
  <2>0. Len(pools'.elems) = (IF n = Len(pools.elems) THEN Len(pools.elems) + 1 ELSE Len(pools.elems))
    BY <1>6
  <2>1. Slots' = 1..(Len(pools'.elems) - 1)
    BY DEF Slots, prf_array_count
  <2>2. n \in Slots' /\ Pool(n)' = new
    BY <1>2, <1>6, <2>1 DEF Pool
  <2>3. ASSUME NEW k \in Slots', k # n PROVE k \in Slots /\ Pool(k)' = Pool(k)
    <3>1. k \in 1..(Len(pools.elems) - 1) /\ k + 1 \in 1..Len(pools.elems) /\ k + 1 # n + 1
      BY <1>2, <2>0, <2>1, <2>3
    <3> QED
      BY <1>2, <1>6, <3>1 DEF Pool
  <2>4. ASSUME NEW k \in Slots PROVE k \in Slots'
    BY <1>2, <1>6, <2>1
  <2> QED
    BY <2>1, <2>2, <2>3, <2>4
<1>8. \A b : \A p \in 1..Len(pool) : Has(p, b)' <=> Has(p, b)
  BY <1>5 DEF Has
<1>9. \A b : ~Has(new, b)'
  BY <1>4, <1>5 DEF Has
<1>10. pool_of' \in [Client -> Nat] /\ pool_of'[c] = n /\ \A d \in Client : d # c => pool_of'[d] = pool_of[d]
  BY <1>1, <1>2, <1>3 DEF PoolTypes
<1>11. 1..Len(pool') = (1..Len(pool)) \cup {new} /\ new \in Nat /\ new # 0 /\ new \notin 1..Len(pool)
  BY <1>2, <1>5
<1>12. PoolTypes'
  <2>1. \A p \in 1..Len(pool') : Roomy(pool'[p].blocks)
    BY <1>1, <1>4, <1>5, <1>11 DEF PoolTypes
  <2>2. pools' \in Array /\ 1 <= Len(pools'.elems)
    BY <1>6 DEF Roomy
  <2>3. blocks' \in Seq(BlockRec) /\ given' \subseteq [client : Client, block : Nat, from : Nat, to : Nat]
    BY <1>1, <1>3 DEF PoolTypes
  <2> QED
    BY <1>5, <1>6, <1>10, <2>1, <2>2, <2>3 DEF PoolTypes
<1>13. \A d \in Client : pool_of[d] # n
  BY SMTT(30), <1>1, <1>2 DEF SlotsOK
<1>14. SlotsOK'
  <2>1. ASSUME NEW k \in Slots', Pool(k)' # NULL
        PROVE  Pool(k)' \in 1..Len(pool') /\ pool'[Pool(k)'].live /\ \E d \in Client : pool_of'[d] = k
    <3>1. CASE k = n
      BY <1>4, <1>5, <1>7, <1>10, <1>11, <3>1
    <3>2. CASE k # n
      <4>1. k \in Slots /\ Pool(k)' = Pool(k)
        BY <1>7, <3>2
      <4>2. Pool(k) \in 1..Len(pool) /\ pool[Pool(k)].live /\ \E d \in Client : pool_of[d] = k
        BY <1>1, <2>1, <4>1 DEF SlotsOK
      <4>3. k # 0
        BY <1>2, <4>1
      <4> QED
        BY <1>3, <1>5, <1>10, <1>11, <4>1, <4>2, <4>3
    <3> QED
      BY <3>1, <3>2
  <2>2. ASSUME NEW k \in Slots', NEW l \in Slots', Pool(k)' = Pool(l)', Pool(k)' # NULL
        PROVE  k = l
    <3>1. ASSUME NEW j \in Slots', j # n, Pool(j)' # NULL PROVE j \in Slots /\ Pool(j)' = Pool(j) /\ Pool(j) # new
      BY <1>1, <1>7, <1>11, <3>1 DEF SlotsOK
    <3>2. CASE k = n \/ l = n
      BY <1>7, <2>2, <3>1, <3>2
    <3>3. CASE k # n /\ l # n
      <4>1. k \in Slots /\ Pool(k)' = Pool(k) /\ l \in Slots /\ Pool(l)' = Pool(l)
        BY <1>7, <3>3
      <4> QED
        BY <1>1, <2>2, <4>1 DEF SlotsOK
    <3> QED
      BY <3>2, <3>3
  <2>3. ASSUME NEW p \in 1..Len(pool'), pool'[p].live PROVE \E k \in Slots' : Pool(k)' = p
    <3>1. CASE p = new
      BY <1>7, <3>1
    <3>2. CASE p # new
      <4>1. p \in 1..Len(pool) /\ pool[p].live
        BY <1>5, <1>11, <2>3, <3>2
      <4>2. PICK k \in Slots : Pool(k) = p
        BY <1>1, <4>1 DEF SlotsOK
      <4>3. p # 0
        BY <1>2, <4>1
      <4> QED
        BY <1>2, <1>7, <4>2, <4>3 DEF NULL
    <3> QED
      BY <3>1, <3>2
  <2>4. ASSUME NEW d \in Client, pool_of'[d] # 0 PROVE pool_of'[d] \in Slots' /\ Pool(pool_of[d])' # NULL
    <3>1. CASE d = c
      BY <1>7, <1>10, <1>11, <3>1 DEF Pool, NULL
    <3>2. CASE d # c
      <4>1. pool_of'[d] = pool_of[d] /\ pool_of[d] # n
        BY <1>10, <1>13, <3>2
      <4>2. pool_of[d] \in Slots /\ Pool(pool_of[d]) # NULL
        BY <1>1, <2>4, <4>1 DEF SlotsOK
      <4> QED
        BY <1>7, <4>1, <4>2 DEF Pool
    <3> QED
      BY <3>1, <3>2
  <2>5. ASSUME NEW d \in Client, NEW e \in Client, pool_of'[d] = pool_of'[e], pool_of'[d] # 0 PROVE d = e
    <3>1. d # c /\ e # c => pool_of[d] = pool_of[e] /\ pool_of[d] # 0
      BY <1>10, <2>5
    <3>2. d # c /\ e # c => d = e
      BY <1>1, <3>1 DEF SlotsOK
    <3>3. d = c \/ e = c => d = e
      BY <1>10, <1>13, <2>5
    <3> QED
      BY <3>2, <3>3
  <2> QED
    BY <2>1, <2>2, <2>3, <2>4, <2>5 DEF SlotsOK
<1>15. BlocksOK'
  <2>1. \A b : \A p \in 1..Len(pool') : Has(p, b)' => p \in 1..Len(pool) /\ pool'[p] = pool[p] /\ Has(p, b)
    BY <1>5, <1>8, <1>9, <1>11
  <2>2. \A p \in 1..Len(pool') : \A b : Has(p, b)' => (b \in 1..Len(blocks') /\ (pool'[p].live => blocks'[b].live))
    BY <1>1, <1>3, <2>1 DEF BlocksOK
  <2>3. \A p, q \in 1..Len(pool') : \A b : (Has(p, b)' /\ Has(q, b)') => p = q
    BY <1>1, <2>1 DEF BlocksOK
  <2>4. \A b \in 1..Len(blocks') : blocks'[b].live => \E p \in 1..Len(pool') : pool'[p].live /\ Has(p, b)'
    BY <1>1, <1>3, <1>5, <1>8, <1>11 DEF BlocksOK
  <2>5. \A b \in 1..Len(blocks') : blocks'[b].data_pos % 8 = 0 /\ blocks'[b].data_pos <= blocks'[b].data_size
    BY <1>1, <1>3 DEF BlocksOK
  <2> QED
    BY <2>2, <2>3, <2>4, <2>5 DEF BlocksOK
<1>16. GivenOK'
  <2> SUFFICES ASSUME NEW g \in given'
               PROVE  /\ pool_of'[g.client] # 0 /\ Has(Pool(pool_of[g.client]), g.block)'
                      /\ g.from % 8 = 0 /\ g.from <= g.to /\ g.to <= blocks'[g.block].data_pos
                      /\ \A h \in given' : (h # g /\ h.block = g.block) => (h.to <= g.from \/ g.to <= h.from)
    BY DEF GivenOK
  <2>1. /\ g \in given /\ pool_of[g.client] # 0 /\ Has(Pool(pool_of[g.client]), g.block)
        /\ g.from % 8 = 0 /\ g.from <= g.to /\ g.to <= blocks'[g.block].data_pos
        /\ \A h \in given' : (h # g /\ h.block = g.block) => (h.to <= g.from \/ g.to <= h.from)
    BY <1>1, <1>3 DEF GivenOK
  <2>2. g.client \in Client /\ g.client # c
    BY <1>1, <1>3, <2>1 DEF PoolTypes
  <2>3. pool_of'[g.client] = pool_of[g.client] /\ pool_of[g.client] # n
    BY <1>10, <1>13, <2>2
  <2>4. pool_of[g.client] \in Slots /\ Pool(pool_of[g.client]) # NULL
    BY <1>1, <2>1, <2>2 DEF SlotsOK
  <2>5. Pool(pool_of[g.client])' = Pool(pool_of[g.client]) /\ Pool(pool_of[g.client]) \in 1..Len(pool)
    BY <1>1, <1>7, <2>3, <2>4 DEF Pool, SlotsOK
  <2>6. Has(Pool(pool_of[g.client]), g.block)'
    BY <1>5, <2>1, <2>5 DEF Has
  <2> QED
    BY <2>1, <2>3, <2>6
<1> QED
  BY <1>6, <1>12, <1>14, <1>15, <1>16 DEF PoolInv, Roomy

\* A client's pool is in the table and allocated.
LEMMA ClientsPool ==
  ASSUME PoolInv, NEW c \in Client, pool_of[c] # 0
  PROVE  /\ pool_of[c] \in Slots /\ Pool(pool_of[c]) \in 1..Len(pool) /\ pool[Pool(pool_of[c])].live
         /\ \A d \in Client : (pool_of[d] # 0 /\ Pool(pool_of[d]) = Pool(pool_of[c])) => d = c
<1>1. SlotsOK
  BY DEF PoolInv
<1>2. pool_of[c] \in Slots /\ Pool(pool_of[c]) # NULL
  BY <1>1 DEF SlotsOK
<1>3. Pool(pool_of[c]) \in 1..Len(pool) /\ pool[Pool(pool_of[c])].live
  BY <1>1, <1>2 DEF SlotsOK
<1>4. ASSUME NEW d \in Client, pool_of[d] # 0, Pool(pool_of[d]) = Pool(pool_of[c]) PROVE d = c
  <2>1. pool_of[d] \in Slots
    BY <1>1, <1>4 DEF SlotsOK
  <2>2. pool_of[d] = pool_of[c]
    BY <1>1, <1>2, <1>4, <2>1 DEF SlotsOK
  <2> QED
    BY <1>1, <1>4, <2>2 DEF SlotsOK
<1> QED
  BY <1>2, <1>3, <1>4

\* A piece of a block with room for it: the block's unused part shrinks.
LEMMA FromBlockPreserves ==
  ASSUME PoolInv, NEW c \in Client, NEW r \in Nat, NEW p, NEW size, pool_of[c] # 0, p = Pool(pool_of[c]),
         size = Rounded(r), Fits(p, size) # {}, FromBlock(c, p, size, r), UNCHANGED <<pools, pool_of>>
  PROVE  PoolInv'
<1>1. PoolTypes /\ SlotsOK /\ BlocksOK /\ GivenOK
  BY DEF PoolInv
<1>2. p \in 1..Len(pool) /\ pool[p].live
  BY ClientsPool
<1>3. size \in Nat /\ r <= size /\ size % 8 = 0
  BY RoundedFacts
<1>4. PICK b : /\ Has(p, b) /\ size <= blocks[b].data_size - blocks[b].data_pos
               /\ blocks' = [blocks EXCEPT ![b].data_pos = @ + size]
               /\ given' = given \cup {Piece(c, b, blocks[b].data_pos, r)}
               /\ pool' = pool
  <2> DEFINE i == CHOOSE i \in Fits(p, size) : \A j \in Fits(p, size) : i <= j
  <2>1. pool[p].blocks.elems \in Seq(Nat)
    BY <1>1, <1>2, PoolFacts DEF PoolRec, Array
  <2>2. Fits(p, size) \subseteq Nat
    BY SMTT(30), <2>1 DEF Fits
  <2>3. \E k \in Fits(p, size) : \A l \in Fits(p, size) : k <= l
    BY <2>2, LeastExists
  <2>4. i \in Fits(p, size)
    BY <2>3
  <2>5. /\ blocks' = [blocks EXCEPT ![pool[p].blocks.elems[i]].data_pos = @ + size]
        /\ given' = given \cup {Piece(c, pool[p].blocks.elems[i], blocks[pool[p].blocks.elems[i]].data_pos, r)}
        /\ pool' = pool
    BY DEF FromBlock
  <2> HIDE DEF i
  <2>6. i \in DOMAIN pool[p].blocks.elems
    BY <2>4 DEF Fits
  <2>7. size <= blocks[pool[p].blocks.elems[i]].data_size - blocks[pool[p].blocks.elems[i]].data_pos
    BY <2>4 DEF Fits
  <2>8. Has(p, pool[p].blocks.elems[i])
    BY <2>6 DEF Has
  <2> QED
    BY <2>5, <2>7, <2>8
<1> PICK pos : pos = blocks[b].data_pos
  OBVIOUS
<1>5. b \in 1..Len(blocks) /\ blocks[b].live
  BY <1>1, <1>2, <1>4 DEF BlocksOK
<1>6. pos \in Nat /\ pos % 8 = 0 /\ blocks[b].data_size \in Nat /\ blocks \in Seq(BlockRec) /\ Len(blocks) \in Nat
  BY <1>1, <1>5, PoolFacts DEF BlockRec, BlocksOK, PoolTypes
<1>7. pos + size \in Nat /\ (pos + size) % 8 = 0 /\ pos + size <= blocks[b].data_size
  <2>1. (pos + size) % 8 = 0
    BY <1>3, <1>6, MultiplesOfEight
  <2>2. size <= blocks[b].data_size - pos
    BY <1>4
  <2>3. pos + size \in Nat /\ pos + size <= blocks[b].data_size
    BY SMTT(30), <1>3, <1>6, <2>2
  <2> QED
    BY <2>1, <2>3
<1>8. /\ blocks' \in Seq(BlockRec) /\ Len(blocks') = Len(blocks)
      /\ \A a \in 1..Len(blocks) : /\ blocks'[a].live = blocks[a].live /\ blocks'[a].data_size = blocks[a].data_size
                                   /\ a # b => blocks'[a] = blocks[a]
      /\ blocks'[b].data_pos = pos + size
  <2>1. \A a \in 1..Len(blocks) : blocks[a] \in BlockRec
    BY <1>1, PoolFacts
  <2>2. DOMAIN blocks = 1..Len(blocks)
    BY <1>6
  <2>3. blocks' = [blocks EXCEPT ![b] = [blocks[b] EXCEPT !.data_pos = pos + size]]
    BY <1>4
  <2>4. [blocks[b] EXCEPT !.data_pos = pos + size] \in BlockRec
    BY <1>5, <1>7, <2>1 DEF BlockRec
  <2>5. blocks' \in Seq(BlockRec) /\ Len(blocks') = Len(blocks)
    BY <1>5, <1>6, <2>3, <2>4, ExceptSeq
  <2>6. blocks'[b] = [blocks[b] EXCEPT !.data_pos = pos + size] /\ \A a \in 1..Len(blocks) : a # b => blocks'[a] = blocks[a]
    BY <1>5, <2>2, <2>3
  <2>7. /\ blocks'[b].live = blocks[b].live /\ blocks'[b].data_size = blocks[b].data_size
        /\ blocks'[b].data_pos = pos + size
    BY ZenonT(30), <1>5, <2>1, <2>6 DEF BlockRec
  <2> QED
    BY <2>5, <2>6, <2>7
<1>9. (\A k \in Slots' : k \in Slots) /\ (\A k \in Slots : k \in Slots') /\ \A k : Pool(k)' = Pool(k)
  BY DEF Slots, Pool
<1>10. \A q, a : Has(q, a)' <=> Has(q, a)
  BY <1>4 DEF Has
<1> DEFINE g0 == Piece(c, b, pos, r)
<1>11. g0.client = c /\ g0.block = b /\ g0.from = pos /\ g0.to = pos + r /\ pos + r \in Nat
       /\ g0 \in [client : Client, block : Nat, from : Nat, to : Nat]
  BY <1>5, <1>6 DEF Piece
<1>12. given' = given \cup {g0}
  BY <1>4
<1> HIDE DEF g0
<1>13. PoolTypes'
  BY <1>1, <1>4, <1>8, <1>11, <1>12 DEF PoolTypes
<1>14. SlotsOK'
  BY <1>1, <1>4, <1>9 DEF SlotsOK
<1>15. BlocksOK'
  <2>1. \A q \in 1..Len(pool') : \A a : Has(q, a)' => (a \in 1..Len(blocks') /\ (pool'[q].live => blocks'[a].live))
    BY <1>1, <1>4, <1>8, <1>10 DEF BlocksOK
  <2>2. \A q, l \in 1..Len(pool') : \A a : (Has(q, a)' /\ Has(l, a)') => q = l
    BY <1>1, <1>4, <1>10 DEF BlocksOK
  <2>3. \A a \in 1..Len(blocks') : blocks'[a].live => \E q \in 1..Len(pool') : pool'[q].live /\ Has(q, a)'
    BY <1>1, <1>4, <1>8, <1>10 DEF BlocksOK
  <2>4. ASSUME NEW a \in 1..Len(blocks') PROVE blocks'[a].data_pos % 8 = 0 /\ blocks'[a].data_pos <= blocks'[a].data_size
    <3>1. CASE a = b
      BY <1>5, <1>7, <1>8, <3>1
    <3>2. CASE a # b
      BY <1>1, <1>8, <3>2 DEF BlocksOK
    <3> QED
      BY <3>1, <3>2
  <2> QED
    BY <2>1, <2>2, <2>3, <2>4 DEF BlocksOK
<1>16. ASSUME NEW g \in given
       PROVE  /\ g.block \in 1..Len(blocks) /\ pool_of'[g.client] # 0 /\ Has(Pool(pool_of[g.client]), g.block)'
              /\ g.from % 8 = 0 /\ g.from <= g.to /\ g.to <= blocks'[g.block].data_pos
              /\ (g.block = b => g.to <= pos) /\ g.to \in Nat /\ g.from \in Nat
  <2>1. /\ g.client \in Client /\ g.to \in Nat /\ g.from \in Nat
    BY <1>1 DEF PoolTypes
  <2>2. /\ pool_of[g.client] # 0 /\ Has(Pool(pool_of[g.client]), g.block)
        /\ g.from % 8 = 0 /\ g.from <= g.to /\ g.to <= blocks[g.block].data_pos
    BY <1>1 DEF GivenOK
  <2>3. Pool(pool_of[g.client]) \in 1..Len(pool)
    BY <2>1, <2>2, ClientsPool
  <2>4. g.block \in 1..Len(blocks)
    BY <1>1, <2>2, <2>3 DEF BlocksOK
  <2>5. g.block = b => (g.to <= pos /\ g.to <= pos + size)
    BY <1>3, <1>6, <2>1, <2>2
  <2>6. g.to <= blocks'[g.block].data_pos
    BY <1>8, <2>2, <2>4, <2>5
  <2>7. Has(Pool(pool_of[g.client]), g.block)'
    BY <1>4, <2>2 DEF Has, Pool
  <2> QED
    BY <2>1, <2>2, <2>4, <2>5, <2>6, <2>7
<1>17. /\ pool_of'[g0.client] # 0 /\ Has(Pool(pool_of[g0.client]), g0.block)'
       /\ g0.from % 8 = 0 /\ g0.from <= g0.to /\ g0.to <= blocks'[g0.block].data_pos
  <2>1. Has(Pool(pool_of[c]), b)'
    BY <1>4 DEF Has, Pool
  <2>2. g0.from <= g0.to /\ g0.to <= blocks'[b].data_pos
    BY SMTT(30), <1>3, <1>6, <1>8, <1>11
  <2> QED
    BY <1>6, <1>11, <2>1, <2>2
<1>18. GivenOK'
  <2>1. ASSUME NEW g \in given', NEW h \in given', h # g, h.block = g.block PROVE h.to <= g.from \/ g.to <= h.from
    <3>1. CASE g = g0
      BY <1>11, <1>12, <1>16, <2>1, <3>1
    <3>2. CASE h = g0
      BY <1>11, <1>12, <1>16, <2>1, <3>2
    <3>3. CASE g # g0 /\ h # g0
      BY <1>1, <1>12, <2>1, <3>3 DEF GivenOK
    <3> QED
      BY <3>1, <3>2, <3>3
  <2>2. ASSUME NEW g \in given'
        PROVE  /\ pool_of'[g.client] # 0 /\ Has(Pool(pool_of[g.client]), g.block)'
               /\ g.from % 8 = 0 /\ g.from <= g.to /\ g.to <= blocks'[g.block].data_pos
    <3>1. CASE g = g0
      BY <1>17, <3>1
    <3>2. CASE g # g0
      BY <1>12, <1>16, <3>2
    <3> QED
      BY <3>1, <3>2
  <2> QED
    BY <2>1, <2>2 DEF GivenOK
<1> QED
  BY <1>13, <1>14, <1>15, <1>18 DEF PoolInv

\* A list of numbers with one more.
LEMMA AppendedNumber ==
  ASSUME NEW s \in Seq(Nat), NEW n \in Nat
  PROVE  /\ Len(Append(s, n)) = Len(s) + 1 /\ Append(s, n)[Len(s) + 1] = n
         /\ \A i \in 1..Len(s) : Append(s, n)[i] = s[i]
         /\ Append(s, n) \in Seq(Nat)
<1>1. n \in Nat /\ s \in Seq(Nat)
  OBVIOUS
<1>2. /\ Len(Append(s, n)) = Len(s) + 1 /\ Append(s, n) \in Seq(Nat)
      /\ \A i \in 1..Len(s) : Append(s, n)[i] = s[i]
      /\ Append(s, n)[Len(s) + 1] = n
  BY <1>1, AppendProperties
<1> QED
  BY <1>2

\* No block has room: the piece begins a block of its own, at the end of the pool.
LEMMA FromNewBlockPreserves ==
  ASSUME PoolInv, NEW c \in Client, NEW r \in Nat, NEW p, NEW size, pool_of[c] # 0, p = Pool(pool_of[c]),
         size = Rounded(r), FromNewBlock(c, p, size, r), UNCHANGED <<pools, pool_of>>
  PROVE  PoolInv'
<1>1. PoolTypes /\ SlotsOK /\ BlocksOK /\ GivenOK
  BY DEF PoolInv
<1>2. p \in 1..Len(pool) /\ pool[p].live
  BY ClientsPool
<1>3. size \in Nat /\ r <= size /\ size % 8 = 0
  BY RoundedFacts
<1> PICK nb : nb = Len(blocks) + 1
  OBVIOUS
<1> DEFINE room == IF size > pool[p].block_size THEN size ELSE pool[p].block_size
           fresh == [data_size |-> room, data_pos |-> size, live |-> TRUE]
           grown == prf_array_append(pool[p].blocks, nb)
           g0 == Piece(c, nb, 0, r)
<1>4. /\ blocks' = Append(blocks, fresh) /\ given' = given \cup {g0}
      /\ pool' = [pool EXCEPT ![p] = [pool[p] EXCEPT !.blocks = grown]]
  BY DEF FromNewBlock
<1>5. /\ Len(pool) \in Nat /\ Len(blocks) \in Nat /\ pool \in Seq(PoolRec) /\ blocks \in Seq(BlockRec)
      /\ pool[p] \in PoolRec /\ nb \in Nat /\ nb \notin 1..Len(blocks)
  <2>1. Len(pool) \in Nat /\ Len(blocks) \in Nat /\ pool[p] \in PoolRec
    BY <1>1, <1>2, PoolFacts
  <2>2. pool \in Seq(PoolRec) /\ blocks \in Seq(BlockRec)
    BY <1>1 DEF PoolTypes
  <2>3. nb \in Nat /\ nb \notin 1..Len(blocks)
    BY <2>1
  <2> QED
    BY <2>1, <2>2, <2>3
<1>6. room \in Nat /\ size <= room
  BY <1>3, <1>5 DEF PoolRec
<1> HIDE DEF room
<1>7. fresh \in BlockRec /\ fresh.live = TRUE /\ fresh.data_pos = size /\ fresh.data_size = room
  BY <1>3, <1>6 DEF BlockRec
<1> HIDE DEF fresh
<1>8. /\ blocks' \in Seq(BlockRec) /\ Len(blocks') = nb /\ blocks'[nb] = fresh
      /\ \A a \in 1..Len(blocks) : blocks'[a] = blocks[a]
  BY <1>4, <1>5, <1>7, AppendProperties
<1>9. 1..Len(blocks') = (1..Len(blocks)) \cup {nb}
  BY <1>5, <1>8
<1>10. Roomy(pool[p].blocks) /\ pool[p].blocks.elems \in Seq(Nat)
  BY <1>1, <1>2 DEF PoolTypes, Roomy, Array
<1>11. Roomy(grown) /\ grown.elems = Append(pool[p].blocks.elems, nb)
  BY <1>5, <1>10, AppendedArray
<1> HIDE DEF grown
<1>12. \A a : (\E i \in DOMAIN grown.elems : grown.elems[i] = a) <=> (Has(p, a) \/ a = nb)
  <2> PICK old : old = pool[p].blocks.elems
    OBVIOUS
  <2> PICK all : all = grown.elems
    OBVIOUS
  <2>0. old \in Seq(Nat) /\ all = Append(old, nb) /\ nb \in Nat
    BY <1>5, <1>10, <1>11
  <2>1. /\ DOMAIN old = 1..Len(old) /\ Len(old) \in Nat /\ DOMAIN all = 1..Len(all) /\ Len(all) = Len(old) + 1
        /\ \A i \in 1..Len(old) : all[i] = old[i]
        /\ all[Len(old) + 1] = nb
    <3>1. /\ Len(Append(old, nb)) = Len(old) + 1 /\ Append(old, nb)[Len(old) + 1] = nb
          /\ \A i \in 1..Len(old) : Append(old, nb)[i] = old[i]
          /\ Append(old, nb) \in Seq(Nat)
      <4>1. nb \in Nat /\ old \in Seq(Nat)
        BY <2>0
      <4> QED
        BY <4>1, AppendedNumber
    <3>2. all \in Seq(Nat)
      BY <2>0, <3>1
    <3>3. DOMAIN old = 1..Len(old) /\ Len(old) \in Nat /\ DOMAIN all = 1..Len(all)
      BY <2>0, <3>2, LenProperties
    <3> QED
      BY <2>0, <3>1, <3>3
  <2>2. DOMAIN all = DOMAIN old \cup {Len(old) + 1}
    BY <2>1
  <2>3. \A a : (\E i \in DOMAIN all : all[i] = a) <=> ((\E i \in DOMAIN old : old[i] = a) \/ a = nb)
    BY <2>1, <2>2
  <2> QED
    BY <2>3 DEF Has
<1>13. /\ pool' \in Seq(PoolRec) /\ Len(pool') = Len(pool)
       /\ \A q \in 1..Len(pool) : pool'[q].live = pool[q].live /\ (q # p => pool'[q] = pool[q])
       /\ pool'[p].blocks = grown
  <2>1. DOMAIN pool = 1..Len(pool)
    BY <1>5
  <2>2. [pool[p] EXCEPT !.blocks = grown] \in PoolRec
    BY <1>5, <1>11 DEF PoolRec, Roomy
  <2>3. pool' \in Seq(PoolRec) /\ Len(pool') = Len(pool)
    BY <1>2, <1>4, <1>5, <2>2, ExceptSeq
  <2>4. pool'[p] = [pool[p] EXCEPT !.blocks = grown] /\ \A q \in 1..Len(pool) : q # p => pool'[q] = pool[q]
    BY <1>2, <1>4, <2>1
  <2>5. pool'[p].live = pool[p].live /\ pool'[p].blocks = grown
    BY <1>5, <2>4 DEF PoolRec
  <2> QED
    BY <2>3, <2>4, <2>5
<1>14. ASSUME NEW q \in 1..Len(pool), NEW a PROVE Has(q, a)' <=> (Has(q, a) \/ (q = p /\ a = nb))
  <2>1. CASE q = p
    <3>1. Has(p, a)' <=> \E i \in DOMAIN grown.elems : grown.elems[i] = a
      BY <1>13 DEF Has
    <3> QED
      BY <1>12, <2>1, <3>1
  <2>2. CASE q # p
    <3>1. pool'[q] = pool[q]
      BY <1>13, <2>2
    <3> QED
      BY <2>2, <3>1 DEF Has
  <2> QED
    BY <2>1, <2>2
<1>15. (\A k \in Slots' : k \in Slots) /\ (\A k \in Slots : k \in Slots') /\ \A k : Pool(k)' = Pool(k)
  BY DEF Slots, Pool
<1>16. /\ g0.client = c /\ g0.block = nb /\ g0.from = 0 /\ g0.to = r
       /\ g0 \in [client : Client, block : Nat, from : Nat, to : Nat]
  BY <1>5 DEF Piece
<1> HIDE DEF g0
<1>17. PoolTypes'
  <2>1. \A q \in 1..Len(pool') : Roomy(pool'[q].blocks)
    BY <1>1, <1>11, <1>13 DEF PoolTypes
  <2> QED
    BY <1>1, <1>4, <1>8, <1>13, <1>16, <2>1 DEF PoolTypes
<1>18. SlotsOK'
  BY <1>1, <1>13, <1>15 DEF SlotsOK
<1>19. ASSUME NEW q \in 1..Len(pool), NEW a, Has(q, a) PROVE a \in 1..Len(blocks) /\ a # nb
  BY <1>1, <1>5, <1>19 DEF BlocksOK
<1>20. BlocksOK'
  <2>1. \A q \in 1..Len(pool') : \A a : Has(q, a)' => (a \in 1..Len(blocks') /\ (pool'[q].live => blocks'[a].live))
    BY <1>1, <1>7, <1>8, <1>9, <1>13, <1>14 DEF BlocksOK
  <2>2. \A q, l \in 1..Len(pool') : \A a : (Has(q, a)' /\ Has(l, a)') => q = l
    BY <1>1, <1>13, <1>14, <1>19 DEF BlocksOK
  <2>3. \A a \in 1..Len(blocks') : blocks'[a].live => \E q \in 1..Len(pool') : pool'[q].live /\ Has(q, a)'
    BY <1>1, <1>2, <1>8, <1>9, <1>13, <1>14 DEF BlocksOK
  <2>4. ASSUME NEW a \in 1..Len(blocks') PROVE blocks'[a].data_pos % 8 = 0 /\ blocks'[a].data_pos <= blocks'[a].data_size
    <3>1. CASE a = nb
      BY <1>3, <1>6, <1>7, <1>8, <3>1
    <3>2. CASE a # nb
      BY <1>1, <1>8, <1>9, <3>2 DEF BlocksOK
    <3> QED
      BY <3>1, <3>2
  <2> QED
    BY <2>1, <2>2, <2>3, <2>4 DEF BlocksOK
<1>21. ASSUME NEW g \in given
       PROVE  /\ g.block # nb /\ pool_of'[g.client] # 0 /\ Has(Pool(pool_of[g.client]), g.block)'
              /\ g.from % 8 = 0 /\ g.from <= g.to /\ g.to <= blocks'[g.block].data_pos
  <2>1. g.client \in Client
    BY <1>1 DEF PoolTypes
  <2>2. /\ pool_of[g.client] # 0 /\ Has(Pool(pool_of[g.client]), g.block)
        /\ g.from % 8 = 0 /\ g.from <= g.to /\ g.to <= blocks[g.block].data_pos
    BY <1>1 DEF GivenOK
  <2>3. PICK q : q = Pool(pool_of[g.client])
    OBVIOUS
  <2>4. q \in 1..Len(pool)
    BY <2>1, <2>2, <2>3, ClientsPool
  <2>5. g.block \in 1..Len(blocks) /\ g.block # nb /\ Has(q, g.block)'
    BY <1>14, <1>19, <2>2, <2>3, <2>4
  <2>6. Has(Pool(pool_of[g.client]), g.block)'
    BY <2>3, <2>5 DEF Has, Pool
  <2> QED
    BY <1>8, <2>2, <2>5, <2>6
<1>22. /\ pool_of'[g0.client] # 0 /\ Has(Pool(pool_of[g0.client]), g0.block)'
       /\ g0.from % 8 = 0 /\ g0.from <= g0.to /\ g0.to <= blocks'[g0.block].data_pos
  <2>1. Has(p, nb)'
    BY <1>2, <1>14
  <2>2. Has(Pool(pool_of[c]), nb)'
    BY <2>1 DEF Has, Pool
  <2>3. g0.from <= g0.to /\ g0.to <= blocks'[nb].data_pos
    BY <1>3, <1>7, <1>8, <1>16
  <2> QED
    BY <1>16, <2>2, <2>3
<1>23. GivenOK'
  <2>1. ASSUME NEW g \in given', NEW h \in given', h # g, h.block = g.block PROVE h.to <= g.from \/ g.to <= h.from
    <3>1. g \in given /\ h \in given
      BY <1>4, <1>16, <1>21, <2>1
    <3> QED
      BY <1>1, <2>1, <3>1 DEF GivenOK
  <2>2. ASSUME NEW g \in given'
        PROVE  /\ pool_of'[g.client] # 0 /\ Has(Pool(pool_of[g.client]), g.block)'
               /\ g.from % 8 = 0 /\ g.from <= g.to /\ g.to <= blocks'[g.block].data_pos
    <3>1. CASE g = g0
      BY <1>22, <3>1
    <3>2. CASE g # g0
      BY <1>4, <1>21, <3>2
    <3> QED
      BY <3>1, <3>2
  <2> QED
    BY <2>1, <2>2 DEF GivenOK
<1> QED
  BY <1>17, <1>18, <1>20, <1>23 DEF PoolInv

\* pool_malloc: from a block with room, or a new one.
LEMMA MallocPreserves ==
  ASSUME PoolInv, NEW c \in Client, NEW r \in Request, pool_malloc(c, r)
  PROVE  PoolInv' /\ pools' = pools
<1> PICK p : p = Pool(pool_of[c])
  OBVIOUS
<1> PICK size : size = Rounded(r)
  OBVIOUS
<1>1. r \in Nat
  BY PoolAssumption
<1>2. /\ pool_of[c] # 0 /\ UNCHANGED <<pools, pool_of>>
      /\ IF Fits(p, size) # {} THEN FromBlock(c, p, size, r) ELSE FromNewBlock(c, p, size, r)
  BY DEF pool_malloc
<1>3. CASE Fits(p, size) # {}
  BY <1>1, <1>2, <1>3, FromBlockPreserves
<1>4. CASE Fits(p, size) = {}
  BY <1>1, <1>2, <1>4, FromNewBlockPreserves
<1> QED
  BY <1>2, <1>3, <1>4

\* Freeing the pools of some slots ends them and their blocks, and nothing else.
LEMMA FreedFacts ==
  ASSUME PoolTypes, NEW ks, Freed(ks)
  PROVE  /\ pool' \in Seq(PoolRec) /\ Len(pool') = Len(pool) /\ blocks' \in Seq(BlockRec) /\ Len(blocks') = Len(blocks)
         /\ \A p \in 1..Len(pool) :
              pool'[p].blocks = pool[p].blocks /\ (pool'[p].live <=> (pool[p].live /\ \A k \in ks : Pool(k) # p))
         /\ \A b \in 1..Len(blocks) :
              /\ blocks'[b].data_size = blocks[b].data_size /\ blocks'[b].data_pos = blocks[b].data_pos
              /\ blocks'[b].live <=> (blocks[b].live /\ \A k \in ks : ~Has(Pool(k), b))
<1> DEFINE ps == {Pool(k) : k \in ks}
           bs == {b \in DOMAIN blocks : \E p \in ps : \E i \in DOMAIN pool[p].blocks.elems : pool[p].blocks.elems[i] = b}
<1>1. /\ pool' = [p \in DOMAIN pool |-> [pool[p] EXCEPT !.live = @ /\ p \notin ps]]
      /\ blocks' = [b \in DOMAIN blocks |-> [blocks[b] EXCEPT !.live = @ /\ b \notin bs]]
  BY DEF Freed
<1>2. /\ pool \in Seq(PoolRec) /\ Len(pool) \in Nat /\ DOMAIN pool = 1..Len(pool)
      /\ blocks \in Seq(BlockRec) /\ Len(blocks) \in Nat /\ DOMAIN blocks = 1..Len(blocks)
  BY DEF PoolTypes
<1>3. (\A p \in 1..Len(pool) : pool[p] \in PoolRec) /\ (\A b \in 1..Len(blocks) : blocks[b] \in BlockRec)
  BY PoolFacts
<1>4. \A p : p \notin ps <=> \A k \in ks : Pool(k) # p
  OBVIOUS
<1>5. \A b \in 1..Len(blocks) : b \notin bs <=> \A k \in ks : ~Has(Pool(k), b)
  BY <1>2 DEF Has
<1> HIDE DEF ps, bs
<1>6. \A p \in 1..Len(pool) : /\ pool'[p] \in PoolRec /\ pool'[p].blocks = pool[p].blocks
                              /\ pool'[p].live <=> (pool[p].live /\ p \notin ps)
  BY <1>1, <1>2, <1>3 DEF PoolRec
<1>7. \A b \in 1..Len(blocks) :
        /\ blocks'[b] \in BlockRec
        /\ blocks'[b].data_size = blocks[b].data_size /\ blocks'[b].data_pos = blocks[b].data_pos
        /\ blocks'[b].live <=> (blocks[b].live /\ b \notin bs)
  BY <1>1, <1>2, <1>3 DEF BlockRec
<1>8. pool' \in Seq(PoolRec) /\ Len(pool') = Len(pool)
  <2>1. pool' \in [1..Len(pool) -> PoolRec]
    BY <1>1, <1>2, <1>6
  <2> QED
    BY <1>2, <2>1, LenProperties, IsASeq
<1>9. blocks' \in Seq(BlockRec) /\ Len(blocks') = Len(blocks)
  <2>1. blocks' \in [1..Len(blocks) -> BlockRec]
    BY <1>1, <1>2, <1>7
  <2> QED
    BY <1>2, <2>1, LenProperties, IsASeq
<1> QED
  BY <1>4, <1>5, <1>6, <1>7, <1>8, <1>9

\* A pool goes with its blocks, and its client gives back what came from them.
LEMMA DestroyPreserves ==
  ASSUME PoolInv, Roomy(pools), 1 <= Len(pools.elems), NEW c \in Client, pool_destroy(c)
  PROVE  PoolInv' /\ Roomy(pools)' /\ 1 <= Len(pools'.elems)
<1> PICK n : n = pool_of[c]
  OBVIOUS
<1> PICK p : p = Pool(n)
  OBVIOUS
<1>1. PoolTypes /\ SlotsOK /\ BlocksOK /\ GivenOK
  BY DEF PoolInv
<1>2. /\ n # 0 /\ Freed({n}) /\ pools' = [pools EXCEPT !.elems[n + 1] = 0]
      /\ pool_of' = [pool_of EXCEPT ![c] = 0] /\ given' = {g \in given : g.client # c}
  BY DEF pool_destroy, NULL
<1>3. n \in Slots /\ p \in 1..Len(pool) /\ pool[p].live
      /\ \A d \in Client : (pool_of[d] # 0 /\ Pool(pool_of[d]) = p) => d = c
  BY <1>2, ClientsPool
<1>4. /\ pools.elems \in Seq(Nat) /\ Len(pools.elems) \in Nat /\ Slots = 1..(Len(pools.elems) - 1)
      /\ Len(pool) \in Nat /\ \A k \in Slots : Pool(k) \in Nat
  BY <1>1, PoolFacts
<1>5. n + 1 \in 1..Len(pools.elems) /\ n \in Nat
  BY <1>3, <1>4
<1>6. Roomy(pools') /\ pools'.elems = [pools.elems EXCEPT ![n + 1] = 0]
  BY <1>2, <1>5, ReplacedElement
<1>7. /\ Len(pools'.elems) = Len(pools.elems) /\ pools'.elems[n + 1] = 0
      /\ \A k \in 1..Len(pools.elems) : k # n + 1 => pools'.elems[k] = pools.elems[k]
  BY <1>4, <1>5, <1>6, ExceptSeq
<1>8. /\ \A k \in Slots' : k \in Slots
      /\ \A k \in Slots : k \in Slots'
      /\ Pool(n)' = NULL /\ \A k \in Slots : k # n => Pool(k)' = Pool(k)
  <2>1. (\A k \in Slots' : k \in Slots) /\ (\A k \in Slots : k \in Slots')
    BY <1>7 DEF Slots, prf_array_count
  <2>2. ASSUME NEW k \in Slots, k # n PROVE Pool(k)' = Pool(k)
    <3>1. k + 1 \in 1..Len(pools.elems) /\ k + 1 # n + 1
      BY <1>4, <1>5, <2>2
    <3> QED
      BY <1>7, <3>1 DEF Pool
  <2> QED
    BY <1>7, <2>1, <2>2 DEF Pool, NULL
<1>9. /\ pool' \in Seq(PoolRec) /\ Len(pool') = Len(pool) /\ blocks' \in Seq(BlockRec) /\ Len(blocks') = Len(blocks)
      /\ \A q \in 1..Len(pool) : pool'[q].blocks = pool[q].blocks /\ (pool'[q].live <=> (pool[q].live /\ q # p))
      /\ \A b \in 1..Len(blocks) :
           /\ blocks'[b].data_size = blocks[b].data_size /\ blocks'[b].data_pos = blocks[b].data_pos
           /\ blocks'[b].live <=> (blocks[b].live /\ ~Has(p, b))
  BY <1>1, <1>2, FreedFacts
<1>10. \A q \in 1..Len(pool) : \A b : Has(q, b)' <=> Has(q, b)
  BY <1>9 DEF Has
<1>11. pool_of' \in [Client -> Nat] /\ pool_of'[c] = 0 /\ \A d \in Client : d # c => pool_of'[d] = pool_of[d]
  BY <1>1, <1>2 DEF PoolTypes
<1>12. PoolTypes'
  <2>1. \A q \in 1..Len(pool') : Roomy(pool'[q].blocks)
    BY <1>1, <1>9 DEF PoolTypes
  <2>2. pools' \in Array /\ 1 <= Len(pools'.elems)
    BY <1>6, <1>7 DEF Roomy
  <2>3. given' \subseteq [client : Client, block : Nat, from : Nat, to : Nat]
    BY <1>1, <1>2 DEF PoolTypes
  <2> QED
    BY <1>6, <1>9, <1>11, <2>1, <2>2, <2>3 DEF PoolTypes
<1>13. \A k \in Slots : (k # n /\ Pool(k) # NULL) => Pool(k) # p
  BY <1>1, <1>3 DEF SlotsOK
<1>14. SlotsOK'
  <2>1. ASSUME NEW k \in Slots', Pool(k)' # NULL
        PROVE  Pool(k)' \in 1..Len(pool') /\ pool'[Pool(k)'].live /\ \E d \in Client : pool_of'[d] = k
    <3>1. k \in Slots /\ k # n /\ Pool(k)' = Pool(k) /\ Pool(k) # NULL /\ Pool(k) # p
      BY <1>8, <1>13, <2>1
    <3>2. Pool(k) \in 1..Len(pool) /\ pool[Pool(k)].live /\ \E d \in Client : pool_of[d] = k
      BY <1>1, <3>1 DEF SlotsOK
    <3> QED
      BY <1>9, <1>11, <3>1, <3>2
  <2>2. ASSUME NEW k \in Slots', NEW l \in Slots', Pool(k)' = Pool(l)', Pool(k)' # NULL PROVE k = l
    <3>1. k \in Slots /\ l \in Slots /\ Pool(k)' = Pool(k) /\ Pool(l)' = Pool(l)
      BY <1>8, <2>2
    <3> QED
      BY <1>1, <2>2, <3>1 DEF SlotsOK
  <2>3. ASSUME NEW q \in 1..Len(pool'), pool'[q].live PROVE \E k \in Slots' : Pool(k)' = q
    <3>1. q \in 1..Len(pool) /\ pool[q].live /\ q # p
      BY <1>9, <2>3
    <3>2. PICK k \in Slots : Pool(k) = q
      BY <1>1, <3>1 DEF SlotsOK
    <3> QED
      BY <1>8, <3>1, <3>2
  <2>4. ASSUME NEW d \in Client, pool_of'[d] # 0 PROVE pool_of'[d] \in Slots' /\ Pool(pool_of[d])' # NULL
    <3>1. d # c /\ pool_of'[d] = pool_of[d] /\ pool_of[d] # n
      BY <1>1, <1>2, <1>11, <2>4 DEF SlotsOK
    <3>2. pool_of[d] \in Slots /\ Pool(pool_of[d]) # NULL
      BY <1>1, <2>4, <3>1 DEF SlotsOK
    <3> QED
      BY <1>8, <3>1, <3>2 DEF Pool
  <2>5. ASSUME NEW d \in Client, NEW e \in Client, pool_of'[d] = pool_of'[e], pool_of'[d] # 0 PROVE d = e
    BY <1>1, <1>11, <2>5 DEF SlotsOK
  <2> QED
    BY <2>1, <2>2, <2>3, <2>4, <2>5 DEF SlotsOK
<1>15. BlocksOK'
  <2>1. \A q \in 1..Len(pool') : \A b : Has(q, b)' => (b \in 1..Len(blocks') /\ (pool'[q].live => blocks'[b].live))
    BY <1>1, <1>3, <1>9, <1>10 DEF BlocksOK
  <2>2. \A q, l \in 1..Len(pool') : \A b : (Has(q, b)' /\ Has(l, b)') => q = l
    BY <1>1, <1>9, <1>10 DEF BlocksOK
  <2>3. \A b \in 1..Len(blocks') : blocks'[b].live => \E q \in 1..Len(pool') : pool'[q].live /\ Has(q, b)'
    BY <1>1, <1>9, <1>10 DEF BlocksOK
  <2>4. \A b \in 1..Len(blocks') : blocks'[b].data_pos % 8 = 0 /\ blocks'[b].data_pos <= blocks'[b].data_size
    BY <1>1, <1>9 DEF BlocksOK
  <2> QED
    BY <2>1, <2>2, <2>3, <2>4 DEF BlocksOK
<1>16. GivenOK'
  <2> SUFFICES ASSUME NEW g \in given'
               PROVE  /\ pool_of'[g.client] # 0 /\ Has(Pool(pool_of[g.client]), g.block)'
                      /\ g.from % 8 = 0 /\ g.from <= g.to /\ g.to <= blocks'[g.block].data_pos
                      /\ \A h \in given' : (h # g /\ h.block = g.block) => (h.to <= g.from \/ g.to <= h.from)
    BY DEF GivenOK
  <2>1. /\ g \in given /\ g.client # c /\ pool_of[g.client] # 0 /\ Has(Pool(pool_of[g.client]), g.block)
        /\ g.from % 8 = 0 /\ g.from <= g.to /\ g.to <= blocks[g.block].data_pos
        /\ \A h \in given' : (h # g /\ h.block = g.block) => (h.to <= g.from \/ g.to <= h.from)
    BY <1>1, <1>2 DEF GivenOK
  <2>2. g.client \in Client
    BY <1>1, <2>1 DEF PoolTypes
  <2>3. pool_of'[g.client] = pool_of[g.client] /\ pool_of[g.client] # n
    BY <1>1, <1>2, <1>11, <2>1, <2>2 DEF SlotsOK
  <2>4. pool_of[g.client] \in Slots /\ Pool(pool_of[g.client]) \in 1..Len(pool)
    BY <2>1, <2>2, ClientsPool
  <2>5. Pool(pool_of[g.client])' = Pool(pool_of[g.client])
    BY <1>8, <2>3, <2>4 DEF Pool
  <2>6. g.block \in 1..Len(blocks)
    BY <1>1, <2>1, <2>4 DEF BlocksOK
  <2>7. Has(Pool(pool_of[g.client]), g.block)'
    BY SMTT(30), <1>9, <2>1, <2>4, <2>5 DEF Has
  <2> QED
    BY <1>9, <2>1, <2>3, <2>6, <2>7
<1> QED
  BY <1>6, <1>12, <1>14, <1>15, <1>16, <1>7 DEF PoolInv

\* pool_system_exit leaves no pool and no block allocated.
LEMMA PoolsExit ==
  ASSUME PoolInv, pool_system_exit
  PROVE  /\ PoolInv' /\ pools' = NoTable
         /\ (\A p \in 1..Len(pool') : ~pool'[p].live) /\ (\A b \in 1..Len(blocks') : ~blocks'[b].live)
<1> PICK ks : ks = {k \in Slots : Pool(k) # NULL}
  OBVIOUS
<1>1. PoolTypes /\ SlotsOK /\ BlocksOK
  BY DEF PoolInv
<1>2. Freed(ks) /\ pools' = NoTable /\ pool_of' = [c \in Client |-> 0] /\ given' = {}
  BY DEF pool_system_exit, pool_destroy_all
<1>3. /\ pool' \in Seq(PoolRec) /\ Len(pool') = Len(pool) /\ blocks' \in Seq(BlockRec) /\ Len(blocks') = Len(blocks)
      /\ \A p \in 1..Len(pool) :
           pool'[p].blocks = pool[p].blocks /\ (pool'[p].live <=> (pool[p].live /\ \A k \in ks : Pool(k) # p))
      /\ \A b \in 1..Len(blocks) :
           /\ blocks'[b].data_size = blocks[b].data_size /\ blocks'[b].data_pos = blocks[b].data_pos
           /\ blocks'[b].live <=> (blocks[b].live /\ \A k \in ks : ~Has(Pool(k), b))
  BY <1>1, <1>2, FreedFacts
<1>4. ASSUME NEW p \in 1..Len(pool), pool[p].live PROVE \E k \in ks : Pool(k) = p
  <2>1. PICK k \in Slots : Pool(k) = p
    BY <1>1, <1>4 DEF SlotsOK
  <2>2. Len(pool) \in Nat
    BY <1>1, PoolFacts
  <2>3. p # NULL
    BY <2>2 DEF NULL
  <2> QED
    BY <2>1, <2>3
<1>5. \A p \in 1..Len(pool') : ~pool'[p].live
  BY <1>3, <1>4
<1>6. \A b \in 1..Len(blocks') : ~blocks'[b].live
  BY <1>1, <1>3, <1>4 DEF BlocksOK
<1>7. NoTable \in Array /\ NoTable.elems = <<>> /\ Len(NoTable.elems) = 0
  BY EmptySeq DEF NoTable, Array
<1>8. Slots' = {}
  BY <1>2, <1>7 DEF Slots, prf_array_count
<1>9. PoolTypes'
  <2>1. \A p \in 1..Len(pool') : Roomy(pool'[p].blocks)
    BY <1>1, <1>3 DEF PoolTypes
  <2> QED
    BY <1>2, <1>3, <1>7, <2>1 DEF PoolTypes
<1>10. SlotsOK'
  BY <1>2, <1>5, <1>8 DEF SlotsOK
<1>11. \A p \in 1..Len(pool) : \A b : Has(p, b)' <=> Has(p, b)
  BY <1>3 DEF Has
<1>12. BlocksOK'
  <2>1. \A p \in 1..Len(pool') : \A b : Has(p, b)' => (b \in 1..Len(blocks') /\ (pool'[p].live => blocks'[b].live))
    BY <1>1, <1>3, <1>5, <1>11 DEF BlocksOK
  <2>2. \A p, q \in 1..Len(pool') : \A b : (Has(p, b)' /\ Has(q, b)') => p = q
    BY <1>1, <1>3, <1>11 DEF BlocksOK
  <2>3. \A b \in 1..Len(blocks') : blocks'[b].data_pos % 8 = 0 /\ blocks'[b].data_pos <= blocks'[b].data_size
    BY <1>1, <1>3 DEF BlocksOK
  <2> QED
    BY <1>6, <2>1, <2>2, <2>3 DEF BlocksOK
<1>13. GivenOK'
  BY <1>2 DEF GivenOK
<1> QED
  BY <1>2, <1>5, <1>6, <1>9, <1>10, <1>12, <1>13 DEF PoolInv

\* What the pools' invariant says of pools that clients use.
LEMMA PoolsAreSeparate == PoolInv => PoolsSeparate
<1> SUFFICES ASSUME PoolInv PROVE PoolsSeparate
  OBVIOUS
<1>1. PoolTypes /\ SlotsOK /\ BlocksOK /\ GivenOK
  BY DEF PoolInv
<1>2. SlotsOwned
  BY <1>1 DEF SlotsOwned, SlotsOK
<1>3. DOMAIN blocks = 1..Len(blocks) /\ \A b \in 1..Len(blocks) : blocks[b] \in BlockRec
  BY <1>1, PoolFacts DEF PoolTypes
<1>4. ASSUME NEW g \in given
      PROVE  g.block \in DOMAIN blocks /\ blocks[g.block].live /\ g.from % 8 = 0 /\ g.to <= blocks[g.block].data_size
  <2>1. g.client \in Client /\ g.to \in Nat
    BY <1>1 DEF PoolTypes
  <2>2. /\ pool_of[g.client] # 0 /\ Has(Pool(pool_of[g.client]), g.block)
        /\ g.from % 8 = 0 /\ g.to <= blocks[g.block].data_pos
    BY <1>1 DEF GivenOK
  <2>3. Pool(pool_of[g.client]) \in 1..Len(pool) /\ pool[Pool(pool_of[g.client])].live
    BY <2>1, <2>2, ClientsPool
  <2>4. g.block \in 1..Len(blocks) /\ blocks[g.block].live
    BY <1>1, <2>2, <2>3 DEF BlocksOK
  <2>5. /\ blocks[g.block].data_pos <= blocks[g.block].data_size
        /\ blocks[g.block].data_pos \in Nat /\ blocks[g.block].data_size \in Nat
    BY <1>1, <1>3, <2>4 DEF BlocksOK, BlockRec
  <2>6. g.to <= blocks[g.block].data_size
    BY <2>1, <2>2, <2>5
  <2> QED
    BY <1>3, <2>2, <2>4, <2>6
<1>5. \A g, h \in given : (h # g /\ h.block = g.block) => (h.to <= g.from \/ g.to <= h.from)
  BY <1>1 DEF GivenOK
<1>6. Separate
  BY <1>4, <1>5 DEF Separate
<1> QED
  BY <1>2, <1>6 DEF PoolsSeparate

\* A step that leaves the pools alone.
LEMMA PoolsFrame ==
  ASSUME PoolInv, UNCHANGED poolvars
  PROVE  PoolInv'
<1>1. pools' = pools /\ pool' = pool /\ blocks' = blocks /\ pool_of' = pool_of /\ given' = given
  BY DEF poolvars
<1>2. PoolTypes'
  BY <1>1 DEF PoolInv, PoolTypes
<1>3. \A p, b : Has(p, b)' <=> Has(p, b)
  BY <1>1 DEF Has
<1>4. SlotsOK'
  BY <1>1 DEF PoolInv, SlotsOK, Slots, Pool
<1>5. BlocksOK'
  BY <1>1, <1>3 DEF PoolInv, BlocksOK
<1>6. GivenOK'
  BY <1>1, <1>3 DEF PoolInv, GivenOK, Pool
<1> QED
  BY <1>2, <1>4, <1>5, <1>6 DEF PoolInv

\* The pools' invariant holds in every session.
LEMMA PoolsInvariant == LSpec => [](PoolInv /\ PoolSession)
<1>1. LInit => PoolInv /\ PoolSession
  <2> SUFFICES ASSUME LInit PROVE PoolInv /\ PoolSession
    OBVIOUS
  <2>1. PoolInv
    BY PoolsInit DEF LInit
  <2>2. using = "down" /\ pool = <<>> /\ blocks = <<>>
    BY DEF LInit, PoolInit
  <2>3. PoolSession
    BY <2>2 DEF PoolSession
  <2> QED
    BY <2>1, <2>3
<1>2. (PoolInv /\ PoolSession) /\ [LNext]_libvars => (PoolInv /\ PoolSession)'
  <2> SUFFICES ASSUME PoolInv, PoolSession, [LNext]_libvars PROVE PoolInv' /\ PoolSession'
    OBVIOUS
  <2>1. ASSUME UNCHANGED poolvars, using' = using PROVE PoolInv' /\ PoolSession'
    <3>1. pools' = pools /\ pool' = pool /\ blocks' = blocks
      BY <2>1 DEF poolvars
    <3> QED
      BY <2>1, <3>1, PoolsFrame DEF PoolSession
  <2>2. ASSUME NEW part \in {"pools", "messages", "types"}, prf_init(part) PROVE PoolInv' /\ PoolSession'
    <3>1. pool_system_init /\ using' # "down"
      BY <2>2 DEF prf_init
    <3> QED
      BY <3>1, PoolsStart DEF PoolSession
  <2>3. CASE prf_exit
    <3>1. pool_system_exit /\ using' = "down"
      BY <2>3 DEF prf_exit
    <3> QED
      BY <3>1, PoolsExit DEF PoolSession
  <2>4. ASSUME using = "pools", PoolCalls, using' = using PROVE PoolInv' /\ PoolSession'
    <3>1. Roomy(pools) /\ 1 <= Len(pools.elems) /\ using' # "down"
      BY <2>4 DEF PoolSession
    <3>2. PICK c \in Client :
            (\E s \in BlockSize : pool_create_sized(c, s)) \/ (\E r \in Request : pool_malloc(c, r)) \/ pool_destroy(c)
      BY <2>4 DEF PoolCalls
    <3>3. ASSUME NEW s \in BlockSize, pool_create_sized(c, s) PROVE PoolInv' /\ PoolSession'
      BY <3>1, <3>3, CreatePreserves DEF PoolSession
    <3>4. ASSUME NEW r \in Request, pool_malloc(c, r) PROVE PoolInv' /\ PoolSession'
      <4>1. PoolInv' /\ pools' = pools
        BY <3>4, MallocPreserves
      <4> QED
        BY <3>1, <4>1 DEF PoolSession
    <3>5. CASE pool_destroy(c)
      BY <3>1, <3>5, DestroyPreserves DEF PoolSession
    <3> QED
      BY <3>2, <3>3, <3>4, <3>5
  <2>5. CASE Use
    <3>1. CASE using = "pools" /\ PoolCalls /\ UNCHANGED <<msgvars, infovars, using>>
      BY <2>4, <3>1
    <3>2. CASE using # "pools"
      BY <2>1, <2>5, <3>2 DEF Use
    <3> QED
      BY <2>5, <3>1, <3>2 DEF Use
  <2>6. CASE UNCHANGED libvars
    BY <2>1, <2>6 DEF libvars
  <2> QED
    BY <2>2, <2>3, <2>5, <2>6 DEF LNext
<1> QED
  BY <1>1, <1>2, PTL DEF LSpec

\* No client's memory depends on what other clients do with theirs: every piece
\* pool_malloc handed out lies in an allocated block of the client's own pool,
\* apart from every other piece, whatever pools are created, filled and destroyed.
THEOREM PoolsStaySeparate == LSpec => []PoolsSeparate
  BY PoolsInvariant, PoolsAreSeparate, PTL

-----------------------------------------------------------------------------
(* Messages. *)

\* The types of what the handlers' tables are made of.
LEMMA MessageFacts ==
  ASSUME MessageTypes
  PROVE  /\ Len(handler) \in Nat /\ DOMAIN handler = 1..Len(handler) /\ \A h \in 1..Len(handler) : handler[h] \in HandlerRec
         /\ Len(posts) \in Nat /\ \A p \in 1..Len(posts) : posts[p] \in PostRec
         /\ \A t \in Type : /\ prf_handlers[t].elems \in Seq(Nat) /\ Len(prf_handlers[t].elems) \in Nat
                            /\ DOMAIN prf_handlers[t].elems = 1..Len(prf_handlers[t].elems)
                            /\ \A i \in 1..Len(prf_handlers[t].elems) : prf_handlers[t].elems[i] \in Nat
<1>1. handler \in Seq(HandlerRec) /\ posts \in Seq(PostRec)
  BY DEF MessageTypes
<1>2. ASSUME NEW t \in Type
      PROVE  /\ prf_handlers[t].elems \in Seq(Nat) /\ Len(prf_handlers[t].elems) \in Nat
             /\ DOMAIN prf_handlers[t].elems = 1..Len(prf_handlers[t].elems)
             /\ \A i \in 1..Len(prf_handlers[t].elems) : prf_handlers[t].elems[i] \in Nat
  <2>1. prf_handlers[t].elems \in Seq(Nat)
    BY DEF MessageTypes, Array
  <2> QED
    BY <2>1
<1>3. Len(handler) \in Nat /\ DOMAIN handler = 1..Len(handler) /\ \A h \in 1..Len(handler) : handler[h] \in HandlerRec
  BY <1>1
<1>4. Len(posts) \in Nat /\ \A p \in 1..Len(posts) : posts[p] \in PostRec
  BY <1>1
<1> QED
  BY <1>2, <1>3, <1>4

\* A post keeps its place when handlers come and go, as long as those that are
\* still there keep their slots.
LEMMA PostKeeps ==
  ASSUME NEW P \in PostRec, NEW slots, NEW hs, NEW slots2, NEW hs2,
         PostOK(P, slots, hs), Len(slots) \in Nat, Len(slots2) \in Nat, Len(hs) \in Nat, Len(hs2) \in Nat,
         Len(slots) <= Len(slots2), Len(hs) <= Len(hs2),
         \A h \in 1..Len(hs) : hs2[h].type = hs[h].type /\ hs2[h].level = hs[h].level /\ (hs2[h].live => hs[h].live),
         \A j \in 1..Len(slots) : (slots[j] \in 1..Len(hs) /\ hs2[slots[j]].live) => slots2[j] = slots[j]
  PROVE  PostOK(P, slots2, hs2)
<1>1. PostPlace(P, slots) /\ Once(P.told) /\ ToldOK(P, slots, hs) /\ DueOK(P, slots, hs)
  BY DEF PostOK
<1>2. P.i \in Nat /\ P.count \in Nat /\ P.calling \in BOOLEAN
  BY DEF PostRec
<1>3. PostPlace(P, slots2)
  BY <1>1, <1>2 DEF PostPlace
<1>4. 1..Len(hs) \subseteq 1..Len(hs2)
  OBVIOUS
<1>5. Passed(P) \in Nat /\ Passed(P) <= P.count /\ P.count <= Len(slots)
  BY <1>1, <1>2 DEF PostPlace, Passed
<1>6. 1..Passed(P) \subseteq 1..Len(slots) /\ (Passed(P) + 1)..P.count \subseteq 1..Len(slots)
  BY <1>2, <1>5
<1>7. ToldOK(P, slots2, hs2)
  <2> SUFFICES ASSUME NEW k \in 1..Len(P.told)
               PROVE  /\ P.told[k] \in 1..Len(hs2) /\ hs2[P.told[k]].type = P.type /\ hs2[P.told[k]].level <= P.level
                      /\ hs2[P.told[k]].live => \E j \in 1..Passed(P) : slots2[j] = P.told[k]
    BY DEF ToldOK
  <2>1. /\ P.told[k] \in 1..Len(hs) /\ hs[P.told[k]].type = P.type /\ hs[P.told[k]].level <= P.level
        /\ hs[P.told[k]].live => \E j \in 1..Passed(P) : slots[j] = P.told[k]
    BY <1>1 DEF ToldOK
  <2>2. P.told[k] \in 1..Len(hs2) /\ hs2[P.told[k]].type = P.type /\ hs2[P.told[k]].level <= P.level
    BY <1>4, <2>1
  <2>3. ASSUME hs2[P.told[k]].live PROVE \E j \in 1..Passed(P) : slots2[j] = P.told[k]
    <3>1. PICK j \in 1..Passed(P) : slots[j] = P.told[k]
      BY <2>1, <2>3
    <3>2. slots2[j] = slots[j]
      BY <1>6, <2>1, <2>3, <3>1
    <3> QED
      BY <3>1, <3>2
  <2> QED
    BY <2>2, <2>3
<1>8. DueOK(P, slots2, hs2)
  <2> SUFFICES ASSUME NEW h \in P.due
               PROVE  /\ h \in 1..Len(hs2) /\ hs2[h].level <= P.level
                      /\ hs2[h].live => \/ \E k \in 1..Len(P.told) : P.told[k] = h
                                        \/ \E j \in (Passed(P) + 1)..P.count : slots2[j] = h
    BY DEF DueOK
  <2>1. /\ h \in 1..Len(hs) /\ hs[h].level <= P.level
        /\ hs[h].live => \/ \E k \in 1..Len(P.told) : P.told[k] = h
                         \/ \E j \in (Passed(P) + 1)..P.count : slots[j] = h
    BY <1>1 DEF DueOK
  <2>2. h \in 1..Len(hs2) /\ hs2[h].level <= P.level
    BY <1>4, <2>1
  <2>3. ASSUME hs2[h].live, NEW j \in (Passed(P) + 1)..P.count, slots[j] = h PROVE slots2[j] = h
    BY <1>6, <2>1, <2>3
  <2> QED
    BY <2>1, <2>2, <2>3
<1> QED
  BY <1>1, <1>3, <1>7, <1>8 DEF PostOK

\* The table that prf_messages_add_handler makes of table a.
WithHandler(a, new) ==
  LET free == {i \in DOMAIN a.elems : a.elems[i] = NULL}
  IN IF free = {} THEN prf_array_append(a, new)
     ELSE [a EXCEPT !.elems[CHOOSE i \in free : \A j \in free : i <= j] = new]

\* Where a new handler goes: a free slot or a new one at the end.
LEMMA AddedHandler ==
  ASSUME NEW a, Roomy(a), NEW new \in Nat, NEW b, b = WithHandler(a, new)
  PROVE  /\ Roomy(b) /\ Len(a.elems) <= Len(b.elems)
         /\ \E n \in 1..Len(b.elems) : /\ b.elems[n] = new
                                       /\ n \in 1..Len(a.elems) => a.elems[n] = NULL
                                       /\ \A j \in 1..Len(b.elems) : j # n => (j \in 1..Len(a.elems) /\ b.elems[j] = a.elems[j])
<1> DEFINE free == {i \in DOMAIN a.elems : a.elems[i] = NULL}
<1>1. a.elems \in Seq(Nat) /\ Len(a.elems) \in Nat /\ DOMAIN a.elems = 1..Len(a.elems)
  BY DEF Roomy, Array
<1>2. CASE free = {}
  <2>1. b = prf_array_append(a, new)
    BY <1>2 DEF WithHandler
  <2>2. Roomy(b) /\ b.elems = Append(a.elems, new)
    BY <2>1, AppendedArray
  <2>3. /\ Len(b.elems) = Len(a.elems) + 1 /\ b.elems[Len(a.elems) + 1] = new
        /\ \A j \in 1..Len(a.elems) : b.elems[j] = a.elems[j]
    BY <1>1, <2>2, AppendProperties
  <2>4. Len(a.elems) + 1 \in 1..Len(b.elems) /\ Len(a.elems) + 1 \notin 1..Len(a.elems) /\ Len(a.elems) <= Len(b.elems)
        /\ \A j \in 1..Len(b.elems) : j # Len(a.elems) + 1 => j \in 1..Len(a.elems)
    BY <1>1, <2>3
  <2> QED
    BY <2>2, <2>3, <2>4
<1>3. CASE free # {}
  <2> DEFINE n == CHOOSE i \in free : \A j \in free : i <= j
  <2>1. free \subseteq Nat
    BY <1>1
  <2>2. \E i \in free : \A j \in free : i <= j
    BY <1>3, <2>1, LeastExists
  <2>3. n \in free
    BY <2>2
  <2>4. b = [a EXCEPT !.elems[n] = new]
    BY <1>3 DEF WithHandler
  <2> HIDE DEF n
  <2>5. n \in 1..Len(a.elems) /\ a.elems[n] = NULL
    BY <1>1, <2>3
  <2>6. Roomy(b) /\ b.elems = [a.elems EXCEPT ![n] = new]
    BY <2>4, <2>5, ReplacedElement
  <2>7. /\ Len(b.elems) = Len(a.elems) /\ b.elems[n] = new
        /\ \A j \in 1..Len(a.elems) : j # n => b.elems[j] = a.elems[j]
    BY <1>1, <2>5, <2>6, ExceptSeq
  <2> QED
    BY <1>1, <2>5, <2>6, <2>7
<1> QED
  BY <1>2, <1>3

\* A handler is added, from outside or while other handlers run.
LEMMA AddPreserves ==
  ASSUME MessageInv, NEW t \in Type, NEW level \in Level, NEW func \in Func, Roomy(prf_handlers[t]),
         prf_messages_add_handler(t, level, func)
  PROVE  MessageInv' /\ Roomy(prf_handlers'[t]) /\ \A u \in Type : u # t => prf_handlers'[u] = prf_handlers[u]
<1> USE MessageAssumption
<1> PICK new : new = Len(handler) + 1
  OBVIOUS
<1> DEFINE fresh == [type |-> t, level |-> level, func |-> func, live |-> TRUE]
<1>1. MessageTypes /\ HandlersOK /\ PostsOK /\ misused = FALSE
  BY DEF MessageInv
<1>2. /\ handler' = Append(handler, fresh) /\ posts' = posts /\ misused' = misused
      /\ prf_handlers' = [prf_handlers EXCEPT ![t] = WithHandler(prf_handlers[t], new)]
  BY DEF prf_messages_add_handler, WithHandler
<1>3. /\ Len(handler) \in Nat /\ new \in Nat /\ new # NULL /\ new \notin 1..Len(handler)
      /\ \A u \in Type : /\ Len(prf_handlers[u].elems) \in Nat
                         /\ \A i \in 1..Len(prf_handlers[u].elems) : prf_handlers[u].elems[i] \in Nat
  <2>1. Len(handler) \in Nat
    BY <1>1, MessageFacts
  <2>2. new \in Nat /\ new # NULL /\ new \notin 1..Len(handler)
    BY <2>1 DEF NULL
  <2> QED
    BY <1>1, <2>1, <2>2, MessageFacts
<1>4. fresh \in HandlerRec /\ fresh.live = TRUE /\ fresh.type = t
  BY DEF HandlerRec
<1> HIDE DEF fresh
<1>5. /\ handler' \in Seq(HandlerRec) /\ Len(handler') = new /\ handler'[new] = fresh
      /\ \A h \in 1..Len(handler) : handler'[h] = handler[h]
  <2>1. handler \in Seq(HandlerRec)
    BY <1>1 DEF MessageTypes
  <2> QED
    BY <1>2, <1>4, <2>1, AppendProperties
<1>6. 1..Len(handler') = (1..Len(handler)) \cup {new} /\ Len(handler) <= Len(handler')
  BY <1>3, <1>5
<1>7. /\ prf_handlers'[t] = WithHandler(prf_handlers[t], new)
      /\ \A u \in Type : u # t => prf_handlers'[u] = prf_handlers[u]
  BY <1>1, <1>2 DEF MessageTypes
<1> DEFINE old == prf_handlers[t].elems
           now == prf_handlers'[t].elems
<1>8. Roomy(prf_handlers'[t]) /\ Len(old) <= Len(now)
  BY <1>3, <1>7, AddedHandler
<1>9. PICK n \in 1..Len(now) : /\ now[n] = new
                               /\ n \in 1..Len(old) => old[n] = NULL
                               /\ \A j \in 1..Len(now) : j # n => (j \in 1..Len(old) /\ now[j] = old[j])
  <2> PICK a : a = prf_handlers[t]
    OBVIOUS
  <2> PICK b : b = prf_handlers'[t]
    OBVIOUS
  <2>1. Roomy(a) /\ b = WithHandler(a, new) /\ new \in Nat
    BY <1>3, <1>7
  <2>2. \E n \in 1..Len(b.elems) : /\ b.elems[n] = new
                                   /\ n \in 1..Len(a.elems) => a.elems[n] = NULL
                                   /\ \A j \in 1..Len(b.elems) : j # n => (j \in 1..Len(a.elems) /\ b.elems[j] = a.elems[j])
    BY <2>1, AddedHandler
  <2> QED
    BY <2>2
<1>10. prf_handlers' \in [Type -> Array] /\ Len(now) \in Nat
  <2>1. prf_handlers'[t] \in Array
    BY <1>8 DEF Roomy
  <2>2. prf_handlers' \in [Type -> Array]
    BY <1>1, <1>2, <1>7, <2>1 DEF MessageTypes
  <2>3. now \in Seq(Nat)
    BY <2>1 DEF Array
  <2> QED
    BY <2>2, <2>3
<1>11. MessageTypes'
  BY <1>1, <1>2, <1>5, <1>10 DEF MessageTypes
<1>12. 1..Len(old) \subseteq 1..Len(now)
  BY <1>3, <1>8, <1>10
<1> HIDE DEF old, now
<1>13. ASSUME NEW u \in Type PROVE TableOK(u, prf_handlers'[u].elems, handler')
  <2>1. TableOK(u, prf_handlers[u].elems, handler)
    BY <1>1 DEF HandlersOK
  <2>2. CASE u # t
    <3>1. prf_handlers'[u].elems = prf_handlers[u].elems
      BY <1>7, <2>2
    <3> QED
      BY SMTT(30), <1>5, <1>6, <2>1, <3>1 DEF TableOK
  <2>3. CASE u = t
    <3>1. TableOK(t, old, handler)
      BY <2>1, <2>3 DEF old
    <3>2. ASSUME NEW i \in 1..Len(now), now[i] # NULL
          PROVE  now[i] \in 1..Len(handler') /\ handler'[now[i]].live /\ handler'[now[i]].type = t
      <4>1. CASE i = n
        BY <1>4, <1>5, <1>6, <1>9, <4>1
      <4>2. CASE i # n
        <5>1. i \in 1..Len(old) /\ now[i] = old[i]
          BY <1>9, <4>2
        <5>2. old[i] \in 1..Len(handler) /\ handler[old[i]].live /\ handler[old[i]].type = t
          BY <3>1, <3>2, <5>1 DEF TableOK
        <5> QED
          BY <1>5, <1>6, <5>1, <5>2
      <4> QED
        BY <4>1, <4>2
    <3>3. ASSUME NEW i \in 1..Len(now), NEW j \in 1..Len(now), now[i] = now[j], now[i] # NULL PROVE i = j
      <4>1. ASSUME NEW k \in 1..Len(now), k # n, now[k] # NULL PROVE k \in 1..Len(old) /\ now[k] = old[k] /\ now[k] # new
        BY <1>3, <1>9, <3>1, <4>1 DEF TableOK
      <4>2. CASE i = n \/ j = n
        BY <1>9, <3>3, <4>1, <4>2
      <4>3. CASE i # n /\ j # n
        BY <1>9, <3>1, <3>3, <4>3 DEF TableOK
      <4> QED
        BY <4>2, <4>3
    <3> QED
      BY <2>3, <3>2, <3>3 DEF TableOK, now
  <2> QED
    BY <2>2, <2>3
<1>14. ASSUME NEW h \in 1..Len(handler'), handler'[h].live PROVE Listed(h, prf_handlers'[handler'[h].type].elems)
  <2>1. CASE h = new
    <3>1. Listed(h, now)
      BY <1>9, <2>1 DEF Listed
    <3> QED
      BY <1>4, <1>5, <2>1, <3>1 DEF now
  <2>2. CASE h # new
    <3>1. h \in 1..Len(handler) /\ handler'[h] = handler[h]
      BY <1>5, <1>6, <2>2
    <3>2. Listed(h, prf_handlers[handler[h].type].elems) /\ handler[h].type \in Type /\ h \in Nat /\ h # NULL
      <4>1. handler[h] \in HandlerRec
        BY <1>1, <3>1, MessageFacts
      <4>2. h \in Nat /\ h # NULL
        BY <1>3, <3>1 DEF NULL
      <4> QED
        BY <1>1, <1>14, <3>1, <4>1, <4>2 DEF HandlersOK, HandlerRec
    <3>3. CASE handler[h].type = t
      <4>1. PICK i \in 1..Len(old) : old[i] = h
        BY <3>2, <3>3 DEF Listed, old
      <4>2. i \in 1..Len(now) /\ i # n
        BY <1>9, <1>12, <3>2, <4>1
      <4>3. Listed(h, now)
        BY <1>9, <4>1, <4>2 DEF Listed
      <4> QED
        BY <3>1, <3>3, <4>3 DEF now
    <3>4. CASE handler[h].type # t
      BY <1>7, <3>1, <3>2, <3>4
    <3> QED
      BY <3>3, <3>4
  <2> QED
    BY <2>1, <2>2
<1>15. HandlersOK'
  BY <1>13, <1>14 DEF HandlersOK
<1>16. ASSUME NEW p \in 1..Len(posts) PROVE PostOK(posts[p], prf_handlers'[posts[p].type].elems, handler')
  <2> PICK P : P = posts[p]
    OBVIOUS
  <2>1. P \in PostRec /\ P.type \in Type
    BY <1>1, MessageFacts DEF PostRec
  <2>2. PostOK(P, prf_handlers[P.type].elems, handler)
    BY <1>1 DEF PostsOK
  <2> DEFINE slots == prf_handlers[P.type].elems
             slots2 == prf_handlers'[P.type].elems
  <2>3. Len(slots) \in Nat /\ Len(slots2) \in Nat /\ Len(slots) <= Len(slots2)
    BY SMTT(30), <1>3, <1>7, <1>8, <1>10, <2>1 DEF old, now
  <2>4. ASSUME NEW j \in 1..Len(slots), slots[j] \in 1..Len(handler), handler'[slots[j]].live PROVE slots2[j] = slots[j]
    <3>1. CASE P.type = t
      <4>1. slots = old /\ slots2 = now
        BY <3>1 DEF old, now
      <4>2. slots[j] # NULL
        BY <1>3, <2>4 DEF NULL
      <4>3. j \in 1..Len(now) /\ j # n
        BY <1>9, <1>12, <4>1, <4>2
      <4> QED
        BY <1>9, <4>1, <4>3
    <3>2. CASE P.type # t
      BY <1>7, <2>1, <3>2
    <3> QED
      BY <3>1, <3>2
  <2>5. PostOK(P, slots, handler)
    BY <2>2
  <2> HIDE DEF slots, slots2
  <2>6. Len(handler') \in Nat
    BY <1>3, <1>5
  <2>7. \A h \in 1..Len(handler) : /\ handler'[h].type = handler[h].type /\ handler'[h].level = handler[h].level
                                   /\ handler'[h].live => handler[h].live
    BY <1>5
  <2>8. PostOK(P, slots2, handler')
    BY <1>3, <1>6, <2>1, <2>3, <2>4, <2>5, <2>6, <2>7, PostKeeps
  <2> QED
    BY <2>8 DEF slots2
<1>17. PostsOK'
  BY <1>2, <1>16 DEF PostsOK
<1> QED
  BY <1>1, <1>2, <1>7, <1>8, <1>11, <1>15, <1>17 DEF MessageInv

\* Freeing handlers ends them and nothing else.
LEMMA FreeFacts ==
  ASSUME MessageTypes, NEW hs, handler' = Free(hs)
  PROVE  /\ handler' \in Seq(HandlerRec) /\ Len(handler') = Len(handler)
         /\ \A h \in 1..Len(handler) : /\ handler'[h].type = handler[h].type /\ handler'[h].level = handler[h].level
                                       /\ handler'[h].live <=> (handler[h].live /\ h \notin hs)
<1>1. Len(handler) \in Nat /\ DOMAIN handler = 1..Len(handler) /\ \A h \in 1..Len(handler) : handler[h] \in HandlerRec
  BY MessageFacts
<1>2. handler' = [h \in 1..Len(handler) |-> [handler[h] EXCEPT !.live = @ /\ h \notin hs]]
  BY <1>1 DEF Free
<1>3. \A h \in 1..Len(handler) : /\ handler'[h] \in HandlerRec
                                 /\ handler'[h].type = handler[h].type /\ handler'[h].level = handler[h].level
                                 /\ handler'[h].live <=> (handler[h].live /\ h \notin hs)
  <2> SUFFICES ASSUME NEW h \in 1..Len(handler)
               PROVE  /\ handler'[h] \in HandlerRec
                      /\ handler'[h].type = handler[h].type /\ handler'[h].level = handler[h].level
                      /\ handler'[h].live <=> (handler[h].live /\ h \notin hs)
    OBVIOUS
  <2> PICK alive \in BOOLEAN : alive = (handler[h].live /\ h \notin hs)
    OBVIOUS
  <2>1. handler[h] \in HandlerRec
    BY <1>1
  <2>2. handler'[h] = [handler[h] EXCEPT !.live = alive]
    BY <1>2
  <2>3. [handler[h] EXCEPT !.live = alive] \in HandlerRec
    BY <2>1 DEF HandlerRec
  <2>4. handler'[h].live = alive /\ handler'[h].type = handler[h].type /\ handler'[h].level = handler[h].level
    BY <2>1, <2>2 DEF HandlerRec
  <2> QED
    BY <2>2, <2>3, <2>4
<1>4. handler' \in [1..Len(handler) -> HandlerRec]
  BY <1>2, <1>3
<1> QED
  BY <1>1, <1>3, <1>4, LenProperties, IsASeq

\* Handlers are deleted, from outside or while other handlers run.
LEMMA DelPreserves ==
  ASSUME MessageInv, NEW t \in Type, NEW level \in Level, NEW func \in Func, prf_messages_del_handler(t, level, func),
         Roomy(prf_handlers[t])
  PROVE  MessageInv' /\ Roomy(prf_handlers'[t]) /\ \A u \in Type : u # t => prf_handlers'[u] = prf_handlers[u]
<1> PICK hs : hs = Deleted(t, level, func)
  OBVIOUS
<1> DEFINE old == prf_handlers[t].elems
           now == [i \in DOMAIN old |-> IF Is(old[i], level, func) THEN NULL ELSE old[i]]
<1>1. MessageTypes /\ HandlersOK /\ PostsOK /\ misused = FALSE
  BY DEF MessageInv
<1>2. /\ handler' = Free(hs) /\ posts' = posts /\ misused' = misused
      /\ prf_handlers' = [prf_handlers EXCEPT ![t] = [prf_handlers[t] EXCEPT !.elems = now]]
  BY DEF prf_messages_del_handler
<1>3. /\ Len(handler) \in Nat /\ DOMAIN handler = 1..Len(handler)
      /\ \A u \in Type : /\ Len(prf_handlers[u].elems) \in Nat
                         /\ \A i \in 1..Len(prf_handlers[u].elems) : prf_handlers[u].elems[i] \in Nat
  BY <1>1, MessageFacts
<1>4. /\ old \in Seq(Nat) /\ Len(old) \in Nat /\ DOMAIN old = 1..Len(old) /\ \A i \in 1..Len(old) : old[i] \in Nat
  BY <1>1, MessageFacts
<1>5. /\ handler' \in Seq(HandlerRec) /\ Len(handler') = Len(handler)
      /\ \A h \in 1..Len(handler) : /\ handler'[h].type = handler[h].type /\ handler'[h].level = handler[h].level
                                    /\ handler'[h].live <=> (handler[h].live /\ h \notin hs)
  BY <1>1, <1>2, FreeFacts
<1>6. \A h : h \in hs <=> (h \in 1..Len(handler) /\ \E i \in 1..Len(old) : old[i] = h /\ Is(h, level, func))
  BY <1>3, <1>4 DEF Deleted
<1>7. /\ now \in Seq(Nat) /\ Len(now) = Len(old)
      /\ \A i \in 1..Len(old) : now[i] = IF Is(old[i], level, func) THEN NULL ELSE old[i]
  <2>1. now \in [1..Len(old) -> Nat]
    BY <1>4 DEF NULL
  <2> QED
    BY <1>4, <2>1, LenProperties, IsASeq
<1> HIDE DEF now
<1>8. prf_handlers'[t] = [prf_handlers[t] EXCEPT !.elems = now] /\ \A u \in Type : u # t => prf_handlers'[u] = prf_handlers[u]
  BY <1>1, <1>2 DEF MessageTypes
<1>9. Roomy(prf_handlers'[t]) /\ prf_handlers'[t].elems = now /\ prf_handlers'[t] \in Array
  <2>1. prf_handlers[t] \in Array
    BY DEF Roomy
  <2> QED
    BY <1>7, <1>8, <2>1 DEF Roomy, Array
<1>10. prf_handlers' \in [Type -> Array]
  BY <1>1, <1>2, <1>8, <1>9 DEF MessageTypes
<1>11. MessageTypes'
  BY <1>1, <1>2, <1>5, <1>10 DEF MessageTypes
<1>12. TableOK(t, old, handler)
  BY <1>1 DEF HandlersOK
<1> HIDE DEF old
<1>13. ASSUME NEW i \in 1..Len(old), old[i] # NULL
       PROVE  /\ old[i] \in 1..Len(handler) /\ handler[old[i]].live /\ handler[old[i]].type = t
              /\ now[i] = IF old[i] \in hs THEN NULL ELSE old[i]
  <2>1. old[i] \in 1..Len(handler) /\ handler[old[i]].live /\ handler[old[i]].type = t
    BY <1>12, <1>13 DEF TableOK
  <2>2. old[i] \in hs <=> Is(old[i], level, func)
    BY <1>6, <2>1
  <2> QED
    BY <1>7, <2>1, <2>2
<1>14. ASSUME NEW i \in 1..Len(now), now[i] # NULL
       PROVE  /\ i \in 1..Len(old) /\ old[i] # NULL /\ now[i] = old[i] /\ now[i] \notin hs
  <2>1. i \in 1..Len(old) /\ old[i] # NULL
    BY <1>7, <1>14
  <2> QED
    BY <1>13, <1>14, <2>1
<1>15. ASSUME NEW u \in Type PROVE TableOK(u, prf_handlers'[u].elems, handler')
  <2>1. CASE u = t
    <3>1. TableOK(t, now, handler')
      <4>1. ASSUME NEW i \in 1..Len(now), now[i] # NULL
            PROVE  now[i] \in 1..Len(handler') /\ handler'[now[i]].live /\ handler'[now[i]].type = t
        BY <1>5, <1>13, <1>14, <4>1
      <4>2. ASSUME NEW i \in 1..Len(now), NEW j \in 1..Len(now), now[i] = now[j], now[i] # NULL PROVE i = j
        BY <1>12, <1>14, <4>2 DEF TableOK
      <4> QED
        BY <4>1, <4>2 DEF TableOK
    <3> QED
      BY <1>9, <2>1, <3>1
  <2>2. CASE u # t
    <3> PICK slots : slots = prf_handlers[u].elems
      OBVIOUS
    <3>1. TableOK(u, slots, handler) /\ prf_handlers'[u].elems = slots
      BY <1>1, <1>8, <2>2 DEF HandlersOK
    <3>2. \A h \in 1..Len(handler) : h \in hs => handler[h].type = t
      <4> SUFFICES ASSUME NEW h \in 1..Len(handler), h \in hs PROVE handler[h].type = t
        OBVIOUS
      <4>1. PICK i \in 1..Len(old) : old[i] = h
        BY <1>6
      <4>2. h # NULL
        BY <1>3 DEF NULL
      <4> QED
        BY <1>13, <4>1, <4>2
    <3>3. ASSUME NEW i \in 1..Len(slots), slots[i] # NULL
          PROVE  slots[i] \in 1..Len(handler') /\ handler'[slots[i]].live /\ handler'[slots[i]].type = u
      <4>1. slots[i] \in 1..Len(handler) /\ handler[slots[i]].live /\ handler[slots[i]].type = u
        BY <3>1, <3>3 DEF TableOK
      <4> QED
        BY <1>5, <2>2, <3>2, <4>1
    <3> QED
      BY <3>1, <3>3 DEF TableOK
  <2> QED
    BY <2>1, <2>2
<1>16. ASSUME NEW h \in 1..Len(handler'), handler'[h].live PROVE Listed(h, prf_handlers'[handler'[h].type].elems)
  <2>1. h \in 1..Len(handler) /\ handler[h].live /\ h \notin hs /\ handler'[h].type = handler[h].type
    BY <1>5, <1>16
  <2>2. handler[h].type \in Type /\ h # NULL
    BY <1>1, <1>3, <2>1, MessageFacts DEF HandlerRec, NULL
  <2>3. Listed(h, prf_handlers[handler[h].type].elems)
    BY <1>1, <2>1 DEF HandlersOK
  <2>4. CASE handler[h].type = t
    <3>1. PICK i \in 1..Len(old) : old[i] = h
      BY <2>3, <2>4 DEF Listed, old
    <3>2. now[i] = h /\ i \in 1..Len(now)
      BY <1>7, <1>13, <2>1, <2>2, <3>1
    <3>3. Listed(h, now)
      BY <3>2 DEF Listed
    <3> QED
      BY <1>9, <2>1, <2>4, <3>3
  <2>5. CASE handler[h].type # t
    BY <1>8, <2>1, <2>2, <2>3, <2>5
  <2> QED
    BY <2>4, <2>5
<1>17. HandlersOK'
  BY <1>15, <1>16 DEF HandlersOK
<1>18. ASSUME NEW p \in 1..Len(posts) PROVE PostOK(posts[p], prf_handlers'[posts[p].type].elems, handler')
  <2> PICK P : P = posts[p]
    OBVIOUS
  <2>1. P \in PostRec /\ P.type \in Type
    BY <1>1, MessageFacts DEF PostRec
  <2> DEFINE slots == prf_handlers[P.type].elems
             slots2 == prf_handlers'[P.type].elems
  <2>2. PostOK(P, slots, handler)
    BY <1>1 DEF PostsOK
  <2>3. Len(slots) \in Nat /\ Len(slots2) = Len(slots)
    BY <1>3, <1>7, <1>8, <1>9, <2>1 DEF old
  <2>4. ASSUME NEW j \in 1..Len(slots), slots[j] \in 1..Len(handler), handler'[slots[j]].live PROVE slots2[j] = slots[j]
    <3>1. CASE P.type = t
      <4>1. slots = old /\ slots2 = now
        BY <1>9, <3>1 DEF old
      <4>2. slots[j] # NULL /\ slots[j] \notin hs
        BY <1>3, <1>5, <2>4 DEF NULL
      <4> QED
        BY <1>13, <4>1, <4>2
    <3>2. CASE P.type # t
      BY <1>8, <2>1, <3>2
    <3> QED
      BY <3>1, <3>2
  <2> HIDE DEF slots, slots2
  <2>5. \A h \in 1..Len(handler) : /\ handler'[h].type = handler[h].type /\ handler'[h].level = handler[h].level
                                   /\ handler'[h].live => handler[h].live
    BY <1>5
  <2>6. Len(slots2) \in Nat /\ Len(slots) <= Len(slots2) /\ Len(handler') \in Nat /\ Len(handler) <= Len(handler')
    BY <1>3, <1>5, <2>3
  <2>7. PostOK(P, slots2, handler')
    BY <1>3, <2>1, <2>2, <2>3, <2>4, <2>5, <2>6, PostKeeps
  <2> QED
    BY <2>7 DEF slots2
<1>19. PostsOK'
  BY <1>2, <1>18 DEF PostsOK
<1> QED
  BY <1>1, <1>2, <1>8, <1>9, <1>11, <1>17, <1>19 DEF MessageInv

\* A step that changes posts only.
LEMMA PostStep ==
  ASSUME MessageInv, prf_handlers' = prf_handlers, handler' = handler, misused' = FALSE, posts' \in Seq(PostRec),
         \A p \in 1..Len(posts') : PostOK(posts'[p], prf_handlers[posts'[p].type].elems, handler)
  PROVE  MessageInv'
<1>1. MessageTypes' /\ HandlersOK'
  BY DEF MessageInv, MessageTypes, HandlersOK
<1>2. PostsOK'
  BY DEF PostsOK
<1> QED
  BY <1>1, <1>2 DEF MessageInv

\* The innermost post makes a step.
LEMMA InnermostStep ==
  ASSUME MessageInv, posts # <<>>, prf_handlers' = prf_handlers, handler' = handler, misused' = FALSE,
         NEW P \in PostRec, Become(P), PostOK(P, prf_handlers[P.type].elems, handler)
  PROVE  MessageInv'
<1>1. posts \in Seq(PostRec) /\ Len(posts) \in Nat
  BY DEF MessageInv, MessageTypes
<1>2. Len(posts) \in 1..Len(posts)
  BY <1>1
<1>3. posts' = [posts EXCEPT ![Len(posts)] = P]
  BY DEF Become
<1>4. posts' \in Seq(PostRec) /\ Len(posts') = Len(posts) /\ posts'[Len(posts)] = P
      /\ \A p \in 1..Len(posts) : p # Len(posts) => posts'[p] = posts[p]
  BY <1>1, <1>2, <1>3, ExceptSeq
<1>5. ASSUME NEW p \in 1..Len(posts') PROVE PostOK(posts'[p], prf_handlers[posts'[p].type].elems, handler)
  <2>1. CASE p = Len(posts)
    BY <1>4, <2>1
  <2>2. CASE p # Len(posts)
    BY <1>4, <2>2 DEF MessageInv, PostsOK
  <2> QED
    BY <2>1, <2>2
<1> QED
  BY <1>4, <1>5, PostStep

\* The innermost post.
LEMMA InnermostPost ==
  ASSUME MessageInv, posts # <<>>
  PROVE  /\ Post0 \in PostRec /\ Post0.type \in Type /\ PostOK(Post0, prf_handlers[Post0.type].elems, handler)
         /\ TableOK(Post0.type, prf_handlers[Post0.type].elems, handler)
         /\ Len(prf_handlers[Post0.type].elems) \in Nat /\ Len(handler) \in Nat
         /\ \A i \in 1..Len(prf_handlers[Post0.type].elems) : prf_handlers[Post0.type].elems[i] \in Nat
<1>1. MessageTypes /\ HandlersOK /\ PostsOK
  BY DEF MessageInv
<1>2. posts \in Seq(PostRec) /\ Len(posts) \in Nat /\ Len(handler) \in Nat
  BY <1>1, MessageFacts DEF MessageTypes
<1>3. Len(posts) \in 1..Len(posts)
  BY <1>2
<1>4. Post0 \in PostRec
  BY <1>2, <1>3, ElementOfSeq DEF Post0
<1>5. Post0.type \in Type
  BY <1>4 DEF PostRec
<1>6. PostOK(Post0, prf_handlers[Post0.type].elems, handler)
  BY <1>1, <1>3 DEF Post0, PostsOK
<1>7. TableOK(Post0.type, prf_handlers[Post0.type].elems, handler)
  BY <1>1, <1>5 DEF HandlersOK
<1>8. Len(prf_handlers[Post0.type].elems) \in Nat
      /\ \A i \in 1..Len(prf_handlers[Post0.type].elems) : prf_handlers[Post0.type].elems[i] \in Nat
  BY <1>1, <1>5, MessageFacts
<1> QED
  BY <1>2, <1>4, <1>5, <1>6, <1>7, <1>8

\* The handler in the next slot hears the message, and was not told yet.
LEMMA ToldOneMore ==
  ASSUME NEW P \in PostRec, NEW slots, NEW hs, NEW h \in Nat, NEW Q,
         Len(slots) \in Nat, Len(hs) \in Nat, PostOK(P, slots, hs), TableOK(P.type, slots, hs),
         P.calling = FALSE, P.i <= P.count, h = slots[P.i], h # NULL, hs[h].level <= P.level,
         Q = [P EXCEPT !.calling = TRUE, !.told = Append(@, h)]
  PROVE  Q \in PostRec /\ PostOK(Q, slots, hs) /\ hs[h].live
<1>1. /\ P.i \in Nat /\ P.count \in Nat /\ P.told \in Seq(Nat) /\ Len(P.told) \in Nat /\ DOMAIN P.told = 1..Len(P.told)
  BY DEF PostRec
<1>2. PostPlace(P, slots) /\ Once(P.told) /\ ToldOK(P, slots, hs) /\ DueOK(P, slots, hs)
  BY DEF PostOK
<1> PICK told : told = Append(P.told, h)
  OBVIOUS
<1> PICK m : m = Len(P.told) + 1
  OBVIOUS
<1>3. /\ told \in Seq(Nat) /\ Len(told) = m /\ told[m] = h /\ \A k \in 1..Len(P.told) : told[k] = P.told[k]
  BY <1>1, AppendProperties
<1>4. 1..Len(told) = (1..Len(P.told)) \cup {m} /\ DOMAIN told = 1..Len(told)
  BY <1>1, <1>3
<1>5. Q = [P EXCEPT !.calling = TRUE, !.told = told]
  OBVIOUS
<1>6. /\ Q \in PostRec /\ Q.type = P.type /\ Q.level = P.level /\ Q.i = P.i /\ Q.count = P.count
      /\ Q.due = P.due /\ Q.calling = TRUE /\ Q.told = told
  BY <1>3, <1>5 DEF PostRec
<1>7. Passed(P) = P.i - 1 /\ Passed(Q) = P.i /\ P.i \in 1..Len(slots) /\ 1 <= P.i
  BY <1>1, <1>2, <1>6 DEF Passed, PostPlace
<1>8. h \in 1..Len(hs) /\ hs[h].live /\ hs[h].type = P.type
  BY <1>7 DEF TableOK
<1>9. ASSUME NEW k \in 1..Len(P.told) PROVE P.told[k] # h
  <2> SUFFICES ASSUME P.told[k] = h PROVE FALSE
    OBVIOUS
  <2>1. PICK j \in 1..Passed(P) : slots[j] = h
    BY <1>2, <1>8 DEF ToldOK
  <2>2. j \in 1..Len(slots) /\ j # P.i
    BY SMTT(30), <1>1, <1>7, <2>1
  <2> QED
    BY <1>7, <2>1, <2>2 DEF TableOK
<1>10. Once(told)
  <2> SUFFICES ASSUME NEW i \in DOMAIN told, NEW j \in DOMAIN told, told[i] = told[j] PROVE i = j
    BY DEF Once
  <2>1. i \in 1..Len(P.told) /\ j \in 1..Len(P.told) => i = j
    BY <1>1, <1>2, <1>3 DEF Once
  <2>2. i = m \/ j = m => i = j
    BY <1>3, <1>4, <1>9
  <2> QED
    BY <1>4, <2>1, <2>2
<1>11. PostPlace(Q, slots)
  BY <1>2, <1>6 DEF PostPlace
<1>12. 1..Passed(P) \subseteq 1..Passed(Q) /\ P.i \in 1..Passed(Q)
       /\ (Passed(P) + 1)..P.count = {P.i} \cup ((Passed(Q) + 1)..P.count)
  BY <1>1, <1>7
<1>13. ToldOK(Q, slots, hs)
  <2> SUFFICES ASSUME NEW k \in 1..Len(told)
               PROVE  /\ told[k] \in 1..Len(hs) /\ hs[told[k]].type = P.type /\ hs[told[k]].level <= P.level
                      /\ hs[told[k]].live => \E j \in 1..Passed(Q) : slots[j] = told[k]
    BY SMTT(30), <1>6 DEF ToldOK
  <2>1. CASE k = m
    BY <1>3, <1>8, <1>12, <2>1
  <2>2. CASE k # m
    <3>1. k \in 1..Len(P.told) /\ told[k] = P.told[k]
      BY <1>3, <1>4, <2>2
    <3>2. /\ P.told[k] \in 1..Len(hs) /\ hs[P.told[k]].type = P.type /\ hs[P.told[k]].level <= P.level
          /\ hs[P.told[k]].live => \E j \in 1..Passed(P) : slots[j] = P.told[k]
      BY <1>2, <3>1 DEF ToldOK
    <3> QED
      BY <1>12, <3>1, <3>2
  <2> QED
    BY <2>1, <2>2
<1>14. DueOK(Q, slots, hs)
  <2> SUFFICES ASSUME NEW g \in P.due
               PROVE  /\ g \in 1..Len(hs) /\ hs[g].level <= P.level
                      /\ hs[g].live => \/ \E k \in 1..Len(told) : told[k] = g
                                       \/ \E j \in (Passed(Q) + 1)..P.count : slots[j] = g
    <3> SUFFICES ASSUME NEW g \in Q.due
                 PROVE  /\ g \in 1..Len(hs) /\ hs[g].level <= Q.level
                        /\ hs[g].live => \/ \E k \in 1..Len(Q.told) : Q.told[k] = g
                                         \/ \E j \in (Passed(Q) + 1)..Q.count : slots[j] = g
      BY DEF DueOK
    <3>1. Q.due = P.due /\ Q.told = told /\ Q.level = P.level /\ Q.count = P.count
      BY <1>6
    <3> QED
      BY SMTT(30), <3>1
  <2>1. /\ g \in 1..Len(hs) /\ hs[g].level <= P.level
        /\ hs[g].live => \/ \E k \in 1..Len(P.told) : P.told[k] = g
                         \/ \E j \in (Passed(P) + 1)..P.count : slots[j] = g
    BY <1>2 DEF DueOK
  <2>2. ASSUME NEW k \in 1..Len(P.told), P.told[k] = g PROVE \E l \in 1..Len(told) : told[l] = g
    BY <1>3, <1>4, <2>2
  <2>3. ASSUME NEW j \in (Passed(P) + 1)..P.count, slots[j] = g
        PROVE  (\E k \in 1..Len(told) : told[k] = g) \/ \E l \in (Passed(Q) + 1)..P.count : slots[l] = g
    <3>1. CASE j = P.i
      BY <1>3, <1>4, <2>3, <3>1
    <3>2. CASE j # P.i
      BY <1>12, <2>3, <3>2
    <3> QED
      BY <3>1, <3>2
  <2> QED
    BY <2>1, <2>2, <2>3
<1>15. Once(Q.told)
  BY <1>6, <1>10
<1> QED
  BY <1>6, <1>8, <1>11, <1>13, <1>14, <1>15 DEF PostOK

\* A slot is done with: its handler returned, or nobody in it hears the message.
LEMMA OneSlotFurther ==
  ASSUME NEW P \in PostRec, NEW slots, NEW hs, NEW Q, Len(slots) \in Nat, Len(hs) \in Nat, PostOK(P, slots, hs),
         P.i <= P.count, P.calling = FALSE => (slots[P.i] = NULL \/ ~(hs[slots[P.i]].level <= P.level)),
         Q = [P EXCEPT !.calling = FALSE, !.i = @ + 1]
  PROVE  Q \in PostRec /\ PostOK(Q, slots, hs)
<1>1. P.i \in Nat /\ P.count \in Nat /\ P.i + 1 \in Nat /\ P.calling \in BOOLEAN
  BY DEF PostRec
<1>2. PostPlace(P, slots) /\ Once(P.told) /\ ToldOK(P, slots, hs) /\ DueOK(P, slots, hs)
  BY DEF PostOK
<1>3. /\ Q \in PostRec /\ Q.type = P.type /\ Q.level = P.level /\ Q.i = P.i + 1 /\ Q.count = P.count
      /\ Q.due = P.due /\ Q.calling = FALSE /\ Q.told = P.told
  BY <1>1 DEF PostRec
<1>4. 1 <= P.i /\ Passed(P) = (IF P.calling THEN P.i ELSE P.i - 1) /\ Passed(Q) = P.i
  BY <1>1, <1>2, <1>3 DEF Passed, PostPlace
<1>5. PostPlace(Q, slots)
  BY <1>1, <1>2, <1>3 DEF PostPlace
<1>6. 1..Passed(P) \subseteq 1..Passed(Q)
      /\ \A j \in (Passed(P) + 1)..P.count : j \in (Passed(Q) + 1)..P.count \/ (P.calling = FALSE /\ j = P.i)
  BY <1>1, <1>4
<1>7. ToldOK(Q, slots, hs)
  <2> SUFFICES ASSUME NEW k \in 1..Len(P.told)
               PROVE  /\ P.told[k] \in 1..Len(hs) /\ hs[P.told[k]].type = P.type /\ hs[P.told[k]].level <= P.level
                      /\ hs[P.told[k]].live => \E j \in 1..Passed(Q) : slots[j] = P.told[k]
    BY <1>3 DEF ToldOK
  <2> QED
    BY <1>2, <1>6 DEF ToldOK
<1>8. DueOK(Q, slots, hs)
  <2> SUFFICES ASSUME NEW g \in P.due
               PROVE  /\ g \in 1..Len(hs) /\ hs[g].level <= P.level
                      /\ hs[g].live => \/ \E k \in 1..Len(P.told) : P.told[k] = g
                                       \/ \E j \in (Passed(Q) + 1)..P.count : slots[j] = g
    <3> SUFFICES ASSUME NEW g \in Q.due
                 PROVE  /\ g \in 1..Len(hs) /\ hs[g].level <= Q.level
                        /\ hs[g].live => \/ \E k \in 1..Len(Q.told) : Q.told[k] = g
                                         \/ \E j \in (Passed(Q) + 1)..Q.count : slots[j] = g
      BY DEF DueOK
    <3>1. Q.due = P.due /\ Q.told = P.told /\ Q.level = P.level /\ Q.count = P.count
      BY <1>3
    <3> QED
      BY <3>1
  <2>1. /\ g \in 1..Len(hs) /\ hs[g].level <= P.level
        /\ hs[g].live => \/ \E k \in 1..Len(P.told) : P.told[k] = g
                         \/ \E j \in (Passed(P) + 1)..P.count : slots[j] = g
    BY <1>2 DEF DueOK
  <2>2. g # NULL
    BY <2>1 DEF NULL
  <2>3. ASSUME NEW j \in (Passed(P) + 1)..P.count, slots[j] = g PROVE j \in (Passed(Q) + 1)..P.count
    BY <1>6, <2>1, <2>2, <2>3
  <2> QED
    BY <2>1, <2>3
<1>9. Once(Q.told)
  BY <1>2, <1>3
<1> QED
  BY <1>3, <1>5, <1>7, <1>8, <1>9 DEF PostOK

\* The steps of a post: the next handler is called, a slot is passed, a handler returns.
LEMMA DeliveryPreserves ==
  ASSUME MessageInv, CallHandler \/ PassSlot \/ HandlerReturns
  PROVE  MessageInv'
<1> PICK P : P = Post0
  OBVIOUS
<1> DEFINE slots == prf_handlers[P.type].elems
<1>1. posts # <<>> /\ prf_handlers' = prf_handlers /\ handler' = handler
  BY DEF CallHandler, PassSlot, HandlerReturns, Running
<1>2. /\ P \in PostRec /\ P.type \in Type /\ PostOK(P, slots, handler) /\ TableOK(P.type, slots, handler)
      /\ Len(slots) \in Nat /\ Len(handler) \in Nat /\ \A i \in 1..Len(slots) : slots[i] \in Nat
  BY <1>1, InnermostPost
<1>3. P.i \in Nat /\ P.count \in Nat /\ P.calling \in BOOLEAN /\ 1 <= P.i /\ (P.calling => P.i <= P.count) /\ P.count <= Len(slots)
  BY <1>2 DEF PostRec, PostOK, PostPlace
<1>4. misused = FALSE
  BY DEF MessageInv
<1>5. CASE CallHandler
  <2> PICK h : h = slots[P.i]
    OBVIOUS
  <2> PICK Q : Q = [P EXCEPT !.calling = TRUE, !.told = Append(@, h)]
    OBVIOUS
  <2>1. /\ P.calling = FALSE /\ P.i <= P.count /\ h # NULL /\ handler[h].level <= P.level /\ Become(Q)
        /\ misused' = (misused \/ ~handler[h].live)
    BY <1>3, <1>5 DEF CallHandler, Running, Hears, Slot0
  <2> HIDE DEF slots
  <2>2. P.i \in 1..Len(slots)
    BY <1>2, <1>3, <2>1
  <2>3. h \in Nat
    BY <1>2, <2>2
  <2>4. Q \in PostRec /\ PostOK(Q, slots, handler) /\ handler[h].live
    <3>1. /\ P \in PostRec /\ Len(slots) \in Nat /\ Len(handler) \in Nat /\ PostOK(P, slots, handler)
          /\ TableOK(P.type, slots, handler)
      BY <1>2
    <3>2. P.calling = FALSE /\ P.i <= P.count /\ h = slots[P.i] /\ h # NULL /\ handler[h].level <= P.level
      BY <2>1
    <3>3. Q = [P EXCEPT !.calling = TRUE, !.told = Append(@, h)]
      OBVIOUS
    <3> QED
      BY <2>3, <3>1, <3>2, <3>3, ToldOneMore
  <2>5. Q.type = P.type
    BY <1>2 DEF PostRec
  <2>6. misused' = FALSE
    BY <1>4, <2>1, <2>4
  <2> QED
    BY <1>1, <2>1, <2>4, <2>5, <2>6, InnermostStep DEF slots
<1>6. CASE PassSlot
  <2> PICK Q : Q = [P EXCEPT !.i = @ + 1]
    OBVIOUS
  <2>1. P.calling = FALSE /\ P.i <= P.count /\ Become(Q) /\ misused' = FALSE
    BY <1>3, <1>4, <1>6 DEF PassSlot, Running
  <2>2. slots[P.i] = NULL \/ ~(handler[slots[P.i]].level <= P.level)
    BY <1>6 DEF PassSlot, Hears, Slot0
  <2>3. Q = [P EXCEPT !.calling = FALSE, !.i = @ + 1] /\ Q.type = P.type
    BY <1>2, <2>1 DEF PostRec
  <2> HIDE DEF slots
  <2>4. Q \in PostRec /\ PostOK(Q, slots, handler)
    BY <1>2, <2>1, <2>2, <2>3, OneSlotFurther
  <2> QED
    BY <1>1, <2>1, <2>3, <2>4, InnermostStep DEF slots
<1>7. CASE HandlerReturns
  <2> PICK Q : Q = [P EXCEPT !.calling = FALSE, !.i = @ + 1]
    OBVIOUS
  <2>1. P.calling # FALSE /\ P.i <= P.count /\ Become(Q) /\ misused' = FALSE
    BY <1>3, <1>4, <1>7 DEF HandlerReturns
  <2>2. Q.type = P.type /\ Q = [P EXCEPT !.calling = FALSE, !.i = @ + 1]
    BY <1>2 DEF PostRec
  <2> HIDE DEF slots
  <2>3. Q \in PostRec /\ PostOK(Q, slots, handler)
    <3>1. P.calling = FALSE => (slots[P.i] = NULL \/ ~(handler[slots[P.i]].level <= P.level))
      BY <2>1
    <3>2. P \in PostRec /\ Len(slots) \in Nat /\ Len(handler) \in Nat /\ PostOK(P, slots, handler) /\ P.i <= P.count
      BY <1>2, <2>1
    <3> QED
      BY <2>2, <3>1, <3>2, OneSlotFurther
  <2> QED
    BY <1>1, <2>1, <2>2, <2>3, InnermostStep DEF slots
<1> QED
  BY <1>5, <1>6, <1>7

\* A post begins, perhaps inside a handler, or the innermost one returns.
LEMMA PostingPreserves ==
  ASSUME MessageInv, (\E t \in Type, l \in Level : prf_messages_post_va(t, l)) \/ PostReturns
  PROVE  MessageInv'
<1> USE MessageAssumption
<1>1. MessageTypes /\ HandlersOK /\ PostsOK /\ misused = FALSE
  BY DEF MessageInv
<1>2. posts \in Seq(PostRec) /\ Len(posts) \in Nat /\ DOMAIN handler = 1..Len(handler) /\ Len(handler) \in Nat
  BY <1>1, MessageFacts DEF MessageTypes
<1>3. ASSUME NEW t \in Type, NEW l \in Level, prf_messages_post_va(t, l) PROVE MessageInv'
  <2> PICK slots : slots = prf_handlers[t].elems
    OBVIOUS
  <2> PICK due : due = {h \in DOMAIN handler : \E i \in DOMAIN slots : slots[i] = h /\ Hears(h, l)}
    OBVIOUS
  <2> PICK Q : Q = [type |-> t, level |-> l, i |-> 1, calling |-> FALSE, count |-> Len(slots), due |-> due, told |-> <<>>]
    OBVIOUS
  <2>1. posts' = Append(posts, Q) /\ prf_handlers' = prf_handlers /\ handler' = handler /\ misused' = FALSE
    BY <1>1, <1>3 DEF prf_messages_post_va, prf_array_count
  <2>2. Len(slots) \in Nat /\ DOMAIN slots = 1..Len(slots)
    BY <1>1, MessageFacts
  <2>3. due \subseteq Nat /\ <<>> \in Seq(Nat)
    BY <1>2
  <2>4. Q \in PostRec
    BY <2>2, <2>3 DEF PostRec
  <2>5. /\ Q.i = 1 /\ Q.calling = FALSE /\ Q.count = Len(slots) /\ Q.told = <<>> /\ Q.type = t /\ Q.level = l
        /\ Q.due = due /\ Passed(Q) = 0
    BY DEF Passed
  <2>6. PostPlace(Q, slots) /\ Once(Q.told) /\ ToldOK(Q, slots, handler)
    BY <2>2, <2>5 DEF PostPlace, Once, ToldOK
  <2>7. ASSUME NEW h \in due
        PROVE  h \in 1..Len(handler) /\ handler[h].level <= l /\ \E j \in (Passed(Q) + 1)..Q.count : slots[j] = h
    <3>1. h \in 1..Len(handler) /\ handler[h].level <= l /\ \E j \in 1..Len(slots) : slots[j] = h
      BY <1>2, <2>2 DEF Hears
    <3>2. (Passed(Q) + 1)..Q.count = 1..Len(slots)
      BY <2>5
    <3> QED
      BY <3>1, <3>2
  <2>8. DueOK(Q, slots, handler)
    BY <2>5, <2>7 DEF DueOK
  <2>9. PostOK(Q, prf_handlers[Q.type].elems, handler)
    BY <2>5, <2>6, <2>8 DEF PostOK
  <2>10. posts' \in Seq(PostRec) /\ Len(posts') = Len(posts) + 1 /\ posts'[Len(posts) + 1] = Q
         /\ \A p \in 1..Len(posts) : posts'[p] = posts[p]
    BY <1>2, <2>1, <2>4, AppendProperties
  <2>11. 1..Len(posts') = (1..Len(posts)) \cup {Len(posts) + 1}
    BY <1>2, <2>10
  <2>12. \A p \in 1..Len(posts') : PostOK(posts'[p], prf_handlers[posts'[p].type].elems, handler)
    BY <1>1, <2>9, <2>10, <2>11 DEF PostsOK
  <2> QED
    BY <2>1, <2>10, <2>12, PostStep
<1>4. CASE PostReturns
  <2>1. /\ posts' = SubSeq(posts, 1, Len(posts) - 1) /\ prf_handlers' = prf_handlers /\ handler' = handler
        /\ misused' = FALSE /\ posts # <<>>
    BY <1>1, <1>4 DEF PostReturns, Running
  <2>2. 1 <= Len(posts)
    BY <1>2, <2>1
  <2>3. posts' \in Seq(PostRec) /\ Len(posts') = Len(posts) - 1 /\ \A p \in 1..(Len(posts) - 1) : posts'[p] = posts[p]
    <3> PICK n : n = Len(posts) - 1
      OBVIOUS
    <3>1. n \in Nat /\ n \in Int /\ 1 \in Int /\ 1..n \subseteq 1..Len(posts) /\ n - 1 + 1 = n /\ (1 <= n \/ n = 0)
      BY <1>2, <2>2
    <3>2. \A i \in 1..n : posts[i] \in PostRec
      BY <1>2, <3>1, ElementOfSeq
    <3>3. /\ SubSeq(posts, 1, n) \in Seq(PostRec) /\ Len(SubSeq(posts, 1, n)) = (IF 1 <= n THEN n - 1 + 1 ELSE 0)
          /\ \A i \in 1..(n - 1 + 1) : SubSeq(posts, 1, n)[i] = posts[1 + i - 1]
      BY <3>1, <3>2, SubSeqProperties
    <3>4. Len(posts') = n
      BY <2>1, <3>1, <3>3
    <3>5. \A i \in 1..n : posts'[i] = posts[i]
      BY <2>1, <3>1, <3>3
    <3> QED
      BY <2>1, <3>3, <3>4, <3>5
  <2>4. 1..Len(posts') \subseteq 1..Len(posts)
    BY <1>2, <2>3
  <2>5. \A p \in 1..Len(posts') : PostOK(posts'[p], prf_handlers[posts'[p].type].elems, handler)
    BY <1>1, <2>3, <2>4 DEF PostsOK
  <2> QED
    BY <2>1, <2>3, <2>5, PostStep
<1> QED
  BY <1>3, <1>4

\* Empty tables, as before the first prf_init and after every prf_exit.
LEMMA NoHandlersFacts ==
  NoHandlers \in [Type -> Array] /\ \A t \in Type : NoHandlers[t].elems = <<>>
<1>1. [size |-> 0, elemsize |-> 0, bytes |-> 0, elems |-> <<>>] \in Array
  BY EmptySeq DEF Array
<1> QED
  BY <1>1 DEF NoHandlers

\* prf_messages_init with the handler for errors.
LEMMA MessagesStart ==
  ASSUME MessageInv, prf_messages_init("ERROR", 1, "profit_error")
  PROVE  MessageInv' /\ posts' = <<>> /\ \A t \in Type : Roomy(prf_handlers'[t])
<1>0. \A i \in 1..1 : i = 1
  OBVIOUS
<1> USE MessageAssumption, LibraryAssumption
<1> PICK empty : empty = prf_array_init(HandlerSlots, PointerSize)
  OBVIOUS
<1> PICK one : one = prf_array_append(empty, 1)
  OBVIOUS
<1> PICK h1 : h1 = [type |-> "ERROR", level |-> 1, func |-> "profit_error", live |-> TRUE]
  OBVIOUS
<1>1. Roomy(empty) /\ empty.elems = <<>>
  BY NewPointerArray
<1>2. Roomy(one) /\ one.elems = Append(<<>>, 1)
  BY <1>1, AppendedArray
<1>3. one.elems = <<1>> /\ Len(one.elems) = 1 /\ one.elems[1] = 1
  BY <1>2
<1>4. /\ prf_handlers' = [u \in Type |-> IF u = "ERROR" THEN one ELSE empty]
      /\ handler' = <<h1>> /\ posts' = <<>> /\ misused' = FALSE
  BY DEF prf_messages_init, MessageInv
<1>5. h1 \in HandlerRec /\ h1.live = TRUE /\ h1.type = "ERROR"
  BY DEF HandlerRec
<1>6. handler' \in Seq(HandlerRec) /\ Len(handler') = 1 /\ handler'[1] = h1
  BY <1>4, <1>5
<1>7. \A u \in Type : Roomy(prf_handlers'[u])
  BY <1>1, <1>2, <1>4
<1>8. prf_handlers' \in [Type -> Array]
  <2>1. empty \in Array /\ one \in Array
    BY <1>1, <1>2 DEF Roomy
  <2> QED
    BY <1>4, <2>1
<1>9. posts' \in Seq(PostRec) /\ Len(posts') = 0
  BY <1>4, EmptySeq
<1>10. MessageTypes'
  BY <1>6, <1>8, <1>9 DEF MessageTypes
<1>11. ASSUME NEW u \in Type PROVE TableOK(u, prf_handlers'[u].elems, handler')
  <2>1. CASE u = "ERROR"
    <3>1. prf_handlers'[u].elems = one.elems
      BY <1>4, <2>1
    <3>2. \A i \in 1..Len(one.elems) : i = 1
      <4>1. Len(one.elems) = 1
        BY <1>3
      <4> QED
        BY <1>0, <4>1
    <3> QED
      BY <1>3, <1>5, <1>6, <2>1, <3>1, <3>2 DEF TableOK
  <2>2. CASE u # "ERROR"
    <3>1. prf_handlers'[u].elems = <<>> /\ Len(<<>>) = 0
      BY <1>1, <1>4, <2>2, EmptySeq
    <3> QED
      BY <3>1 DEF TableOK
  <2> QED
    BY <2>1, <2>2
<1>12. ASSUME NEW h \in 1..Len(handler') PROVE Listed(h, prf_handlers'[handler'[h].type].elems)
  <2>1. h = 1 /\ handler'[h].type = "ERROR" /\ prf_handlers'["ERROR"].elems = one.elems
    BY <1>4, <1>5, <1>6
  <2>2. Listed(1, one.elems)
    BY <1>3 DEF Listed
  <2> QED
    BY <2>1, <2>2
<1>13. HandlersOK'
  BY <1>11, <1>12 DEF HandlersOK
<1>14. PostsOK'
  BY <1>9 DEF PostsOK
<1> QED
  BY <1>4, <1>7, <1>10, <1>13, <1>14 DEF MessageInv

\* Before the first prf_init there is no table.
LEMMA MessagesInit == MsgInit => MessageInv
<1> SUFFICES ASSUME MsgInit PROVE MessageInv
  OBVIOUS
<1>1. prf_handlers = NoHandlers /\ handler = <<>> /\ posts = <<>> /\ misused = FALSE
  BY DEF MsgInit
<1>2. MessageTypes
  BY <1>1, NoHandlersFacts, EmptySeq DEF MessageTypes
<1>3. \A t \in Type : TableOK(t, prf_handlers[t].elems, handler)
  <2>1. Len(<<>>) = 0 /\ \A t \in Type : prf_handlers[t].elems = <<>>
    BY <1>1, NoHandlersFacts
  <2> QED
    BY <2>1 DEF TableOK
<1>4. HandlersOK
  BY <1>1, <1>3 DEF HandlersOK
<1>5. PostsOK
  BY <1>1 DEF PostsOK
<1> QED
  BY <1>1, <1>2, <1>4, <1>5 DEF MessageInv

\* prf_messages_exit frees every handler that is left.
LEMMA MessagesExit ==
  ASSUME MessageInv, prf_messages_exit
  PROVE  MessageInv' /\ prf_handlers' = NoHandlers /\ \A h \in 1..Len(handler') : ~handler'[h].live
<1> PICK hs : hs = {h \in DOMAIN handler : \E t \in Type : \E i \in DOMAIN prf_handlers[t].elems : prf_handlers[t].elems[i] = h}
  OBVIOUS
<1>1. MessageTypes /\ HandlersOK /\ misused = FALSE
  BY DEF MessageInv
<1>2. handler' = Free(hs) /\ prf_handlers' = NoHandlers /\ posts' = <<>> /\ misused' = FALSE
  BY <1>1 DEF prf_messages_exit
<1>3. /\ handler' \in Seq(HandlerRec) /\ Len(handler') = Len(handler)
      /\ \A h \in 1..Len(handler) : /\ handler'[h].type = handler[h].type /\ handler'[h].level = handler[h].level
                                    /\ handler'[h].live <=> (handler[h].live /\ h \notin hs)
  BY <1>1, <1>2, FreeFacts
<1>4. ASSUME NEW h \in 1..Len(handler), handler[h].live PROVE h \in hs
  <2>1. handler[h].type \in Type /\ DOMAIN handler = 1..Len(handler)
    BY <1>1, MessageFacts DEF HandlerRec
  <2>2. Listed(h, prf_handlers[handler[h].type].elems)
    BY <1>1, <1>4 DEF HandlersOK
  <2>3. DOMAIN prf_handlers[handler[h].type].elems = 1..Len(prf_handlers[handler[h].type].elems)
    BY <1>1, <2>1, MessageFacts
  <2> QED
    BY <2>1, <2>2, <2>3 DEF Listed
<1>5. \A h \in 1..Len(handler') : ~handler'[h].live
  BY <1>3, <1>4
<1>6. MessageTypes'
  <2>1. posts' \in Seq(PostRec)
    BY <1>2, EmptySeq
  <2> QED
    BY <1>2, <1>3, <2>1, NoHandlersFacts DEF MessageTypes
<1>7. \A t \in Type : TableOK(t, prf_handlers'[t].elems, handler')
  <2>1. Len(<<>>) = 0 /\ \A t \in Type : prf_handlers'[t].elems = <<>>
    BY <1>2, NoHandlersFacts
  <2> QED
    BY <2>1 DEF TableOK
<1>8. HandlersOK'
  BY <1>5, <1>7 DEF HandlersOK
<1>9. PostsOK'
  BY <1>2 DEF PostsOK
<1> QED
  BY <1>2, <1>5, <1>6, <1>8, <1>9 DEF MessageInv

\* What the invariant says of the posts in progress.
LEMMA MessagesDelivered == MessageInv => DeliveredOnce
<1> SUFFICES ASSUME MessageInv PROVE DeliveredOnce
  OBVIOUS
<1>1. MessageTypes /\ PostsOK /\ misused = FALSE
  BY DEF MessageInv
<1>2. ASSUME NEW p \in 1..Len(posts)
      PROVE  /\ Once(posts[p].told)
             /\ \A i \in DOMAIN posts[p].told :
                  LET h == handler[posts[p].told[i]] IN h.type = posts[p].type /\ h.level <= posts[p].level
             /\ posts[p].i > posts[p].count =>
                  \A h \in posts[p].due : handler[h].live => \E i \in DOMAIN posts[p].told : posts[p].told[i] = h
  <2> PICK P : P = posts[p]
    OBVIOUS
  <2> PICK slots : slots = prf_handlers[P.type].elems
    OBVIOUS
  <2>1. P \in PostRec
    BY <1>1, MessageFacts
  <2>2. P.i \in Nat /\ P.count \in Nat /\ P.calling \in BOOLEAN /\ DOMAIN P.told = 1..Len(P.told)
    BY <2>1 DEF PostRec
  <2>3. PostPlace(P, slots) /\ Once(P.told) /\ ToldOK(P, slots, handler) /\ DueOK(P, slots, handler)
    BY <1>1 DEF PostsOK, PostOK
  <2>4. \A i \in DOMAIN P.told : handler[P.told[i]].type = P.type /\ handler[P.told[i]].level <= P.level
    BY <2>2, <2>3 DEF ToldOK
  <2>5. ASSUME P.i > P.count, NEW h \in P.due, handler[h].live PROVE \E i \in DOMAIN P.told : P.told[i] = h
    <3>1. (Passed(P) + 1)..P.count = {}
      BY <2>2, <2>3, <2>5 DEF PostPlace, Passed
    <3> QED
      BY <2>2, <2>3, <2>5, <3>1 DEF DueOK
  <2> QED
    BY <2>3, <2>4, <2>5
<1> QED
  BY <1>1, <1>2 DEF DeliveredOnce

\* The messages' invariant holds in every session.
LEMMA MessagesInvariant == LSpec => [](MessageInv /\ MessageSession)
<1>1. LInit => MessageInv /\ MessageSession
  <2> SUFFICES ASSUME LInit PROVE MessageInv /\ MessageSession
    OBVIOUS
  <2>1. MessageInv
    BY MessagesInit DEF LInit
  <2>2. using = "down" /\ prf_handlers = NoHandlers /\ handler = <<>>
    BY DEF LInit, MsgInit
  <2> QED
    BY <2>1, <2>2 DEF MessageSession
<1>2. (MessageInv /\ MessageSession) /\ [LNext]_libvars => (MessageInv /\ MessageSession)'
  <2> SUFFICES ASSUME MessageInv, MessageSession, [LNext]_libvars PROVE MessageInv' /\ MessageSession'
    OBVIOUS
  <2>1. ASSUME UNCHANGED msgvars, using' = using PROVE MessageInv' /\ MessageSession'
    <3>1. prf_handlers' = prf_handlers /\ handler' = handler /\ posts' = posts /\ misused' = misused
      BY <2>1 DEF msgvars
    <3>2. MessageTypes' /\ HandlersOK' /\ PostsOK'
      BY <3>1 DEF MessageInv, MessageTypes, HandlersOK, PostsOK
    <3>3. MessageSession'
      BY <2>1, <3>1 DEF MessageSession
    <3> QED
      BY <3>1, <3>2, <3>3 DEF MessageInv
  <2>2. ASSUME NEW part \in {"pools", "messages", "types"}, prf_init(part) PROVE MessageInv' /\ MessageSession'
    <3>1. prf_messages_init("ERROR", 1, "profit_error") /\ using' # "down"
      BY <2>2 DEF prf_init
    <3> QED
      BY <3>1, MessagesStart DEF MessageSession
  <2>3. CASE prf_exit
    <3>1. prf_messages_exit /\ using' = "down"
      BY <2>3 DEF prf_exit
    <3> QED
      BY <3>1, MessagesExit DEF MessageSession
  <2>4. ASSUME using = "messages", MsgCalls, using' = using PROVE MessageInv' /\ MessageSession'
    <3>1. (\A t \in Type : Roomy(prf_handlers[t])) /\ using' # "down"
      BY <2>4 DEF MessageSession
    <3>2. ASSUME NEW t \in Type, NEW l \in Level, NEW f \in Func,
                 prf_messages_add_handler(t, l, f) \/ prf_messages_del_handler(t, l, f)
          PROVE  MessageInv' /\ MessageSession'
      <4>1. MessageInv' /\ Roomy(prf_handlers'[t]) /\ \A u \in Type : u # t => prf_handlers'[u] = prf_handlers[u]
        BY <3>1, <3>2, AddPreserves, DelPreserves
      <4> QED
        BY <3>1, <4>1 DEF MessageSession
    <3>3. ASSUME prf_handlers' = prf_handlers, MessageInv' PROVE MessageSession'
      BY <3>1, <3>3 DEF MessageSession
    <3>4. CASE CallHandler \/ PassSlot \/ HandlerReturns
      <4>1. prf_handlers' = prf_handlers
        BY <3>4 DEF CallHandler, PassSlot, HandlerReturns
      <4> QED
        BY <3>3, <3>4, <4>1, DeliveryPreserves
    <3>5. CASE (\E t \in Type, l \in Level : prf_messages_post_va(t, l)) \/ PostReturns
      <4>1. prf_handlers' = prf_handlers
        BY <3>5 DEF prf_messages_post_va, PostReturns
      <4> QED
        BY <3>3, <3>5, <4>1, PostingPreserves
    <3> QED
      BY <2>4, <3>2, <3>4, <3>5 DEF MsgCalls
  <2>5. CASE Use
    <3>1. CASE using = "messages" /\ MsgCalls /\ UNCHANGED <<poolvars, infovars, using>>
      BY <2>4, <3>1
    <3>2. CASE using # "messages"
      BY <2>1, <2>5, <3>2 DEF Use
    <3> QED
      BY <2>5, <3>1, <3>2 DEF Use
  <2>6. CASE UNCHANGED libvars
    BY <2>1, <2>6 DEF libvars
  <2> QED
    BY <2>2, <2>3, <2>5, <2>6 DEF LNext
<1> QED
  BY <1>1, <1>2, PTL DEF LSpec

\* A message reaches every handler that heard it when it was posted exactly once,
\* unless the handler is deleted before its turn, whatever handlers add, delete and
\* post while it is delivered; none is called after it was deleted.
THEOREM MessagesAreDeliveredOnce == LSpec => []DeliveredOnce
  BY MessagesInvariant, MessagesDelivered, PTL

-----------------------------------------------------------------------------
(* Node types. *)

\* The loop of prf_nodeinfo_set as a function: the table of c elements after n rounds.
IsPad(f, types, c, m) == f = [n \in 0..m |-> IF n <= c THEN types ELSE prf_array_append(f[n - 1], NULL)]
Pad(types, opcode) == CHOOSE f : IsPad(f, types, Len(types.elems), opcode + 1)

\* The loop that fills the table up has a result, however far it goes: otherwise
\* there would be a least number of rounds after which it has none.
LEMMA PadExists ==
  ASSUME NEW types, NEW c \in Nat, NEW m \in Nat
  PROVE  \E f : IsPad(f, types, c, m)
<1> DEFINE bad == {k \in Nat : ~\E f : IsPad(f, types, c, k)}
<1> SUFFICES ASSUME bad # {} PROVE FALSE
  OBVIOUS
<1>1. PICK k \in bad : \A l \in bad : k <= l
  BY LeastExists
<1>2. CASE k = 0
  <2>1. IsPad([n \in 0..0 |-> types], types, c, 0)
    BY DEF IsPad
  <2> QED
    BY <1>1, <1>2, <2>1
<1>3. CASE k # 0
  <2>1. k - 1 \in Nat /\ k \in Nat /\ k - 1 \notin bad
    BY <1>1, <1>3
  <2>2. PICK f : IsPad(f, types, c, k - 1)
    BY <2>1
  <2> PICK g : g = [n \in 0..k |-> IF n <= c THEN types ELSE prf_array_append(f[n - 1], NULL)]
    OBVIOUS
  <2>3. ASSUME NEW n \in 0..k, ~(n <= c) PROVE g[n - 1] = f[n - 1]
    <3>1. n - 1 \in 0..(k - 1) /\ n - 1 \in 0..k
      BY <2>1, <2>3
    <3>2. f[n - 1] = IF n - 1 <= c THEN types ELSE prf_array_append(f[n - 1 - 1], NULL)
      BY <2>2, <3>1 DEF IsPad
    <3>3. g[n - 1] = IF n - 1 <= c THEN types ELSE prf_array_append(f[n - 1 - 1], NULL)
      BY <3>1
    <3> QED
      BY <3>2, <3>3
  <2>4. IsPad(g, types, c, k)
    BY <2>3 DEF IsPad
  <2> QED
    BY <1>1, <2>4
<1> QED
  BY <1>2, <1>3

\* The table reaches as far as the opcode, keeps what it had and has nothing else.
LEMMA PaddedTable ==
  ASSUME NEW types, Roomy(types), NEW opcode \in Nat, NEW b, b = Padded(types, opcode)
  PROVE  /\ Roomy(b) /\ opcode + 1 \in 1..Len(b.elems) /\ Len(types.elems) <= Len(b.elems)
         /\ \A k \in 1..Len(b.elems) : b.elems[k] = IF k <= Len(types.elems) THEN types.elems[k] ELSE NULL
<1> PICK c : c = Len(types.elems)
  OBVIOUS
<1> PICK f : f = Pad(types, opcode)
  OBVIOUS
<1>1. c \in Nat /\ types.elems \in Seq(Nat)
  BY DEF Roomy, Array
<1>2. b = IF opcode < c THEN types ELSE f[opcode + 1]
  BY DEF Padded, Pad, IsPad, prf_array_count
<1>3. CASE opcode < c
  BY <1>1, <1>2, <1>3
<1>4. CASE ~(opcode < c)
  <2>1. opcode + 1 \in Nat
    OBVIOUS
  <2>2. f = [n \in 0..(opcode + 1) |-> IF n <= c THEN types ELSE prf_array_append(f[n - 1], NULL)]
    <3>1. \E g : IsPad(g, types, c, opcode + 1)
      BY <1>1, <2>1, PadExists
    <3>2. IsPad(f, types, c, opcode + 1)
      BY <3>1 DEF Pad
    <3> QED
      BY <3>2 DEF IsPad
  <2> DEFINE Good(a, n) ==
               /\ Roomy(a) /\ Len(a.elems) = (IF n <= c THEN c ELSE n)
               /\ \A k \in 1..Len(a.elems) : a.elems[k] = IF k <= c THEN types.elems[k] ELSE NULL
             bad == {n \in 0..(opcode + 1) : ~Good(f[n], n)}
  <2>3. bad = {}
    <3> SUFFICES ASSUME bad # {} PROVE FALSE
      OBVIOUS
    <3>1. PICK n \in bad : \A l \in bad : n <= l
      <4>1. bad \subseteq Nat
        BY <2>1
      <4> QED
        BY <4>1, LeastExists
    <3>2. n \in 0..(opcode + 1) /\ n \in Nat /\ ~Good(f[n], n)
      BY <2>1, <3>1
    <3>3. CASE n <= c
      <4>1. f[n] = types
        BY <2>2, <3>2, <3>3
      <4>2. Good(types, n)
        BY <1>1, <3>3
      <4> QED
        BY <3>2, <4>1, <4>2
    <3>4. CASE ~(n <= c)
      <4>1. n - 1 \in 0..(opcode + 1) /\ n - 1 \in Nat /\ ~(n <= n - 1)
        BY <1>1, <2>1, <3>2, <3>4
      <4>2. Good(f[n - 1], n - 1)
        BY <3>1, <4>1
      <4> PICK a : a = f[n - 1]
        OBVIOUS
      <4> PICK d : d = f[n]
        OBVIOUS
      <4>3. d = prf_array_append(a, 0)
        BY <2>2, <3>2, <3>4 DEF NULL
      <4>4. Roomy(a) /\ Len(a.elems) = n - 1
            /\ \A k \in 1..(n - 1) : a.elems[k] = IF k <= c THEN types.elems[k] ELSE NULL
        <5>1. Len(a.elems) = n - 1
          BY <1>1, <3>2, <3>4, <4>2
        <5> QED
          BY <4>2, <5>1
      <4>5. Roomy(d) /\ d.elems = Append(a.elems, 0)
        BY ZenonT(30), <4>3, <4>4, AppendedArray
      <4>6. a.elems \in Seq(Nat)
        BY <4>4 DEF Roomy, Array
      <4>7. Len(d.elems) = n /\ d.elems[n] = 0 /\ \A k \in 1..(n - 1) : d.elems[k] = a.elems[k]
        <5>1. Len(d.elems) = Len(a.elems) + 1 /\ d.elems[Len(a.elems) + 1] = 0 /\ \A k \in 1..Len(a.elems) : d.elems[k] = a.elems[k]
          BY <4>5, <4>6, AppendProperties
        <5>2. Len(a.elems) + 1 = n
          BY <3>2, <4>4
        <5> QED
          BY <4>4, <5>1, <5>2
      <4>8. ASSUME NEW k \in 1..n PROVE d.elems[k] = IF k <= c THEN types.elems[k] ELSE NULL
        <5>1. CASE k = n
          BY <1>1, <3>4, <4>7, <5>1 DEF NULL
        <5>2. CASE k # n
          <6>1. k \in 1..(n - 1)
            BY <3>2, <5>2
          <6> QED
            BY SMTT(30), <4>4, <4>7, <6>1
        <5> QED
          BY <5>1, <5>2
      <4>9. Good(d, n)
        BY <3>4, <4>5, <4>7, <4>8
      <4> QED
        BY <3>2, <4>9
    <3> QED
      BY <3>3, <3>4
  <2>4. opcode + 1 \in 0..(opcode + 1) /\ ~(opcode + 1 <= c)
    BY <1>1, <1>4
  <2>5. Good(f[opcode + 1], opcode + 1)
    BY <2>3, <2>4
  <2>6. b = f[opcode + 1]
    BY <1>2, <1>4
  <2>7. Roomy(b) /\ Len(b.elems) = opcode + 1
        /\ \A k \in 1..Len(b.elems) : b.elems[k] = IF k <= c THEN types.elems[k] ELSE NULL
    BY <2>4, <2>5, <2>6
  <2>8. opcode + 1 \in 1..Len(b.elems) /\ c <= Len(b.elems)
    BY <1>1, <2>4, <2>7
  <2> QED
    BY <2>7, <2>8
<1> QED
  BY <1>3, <1>4

\* prf_nodeinfo_set: the opcode gets a new entry, an old one is freed, and no other
\* opcode is touched.
LEMMA SetRegistry ==
  ASSUME NEW r, RegistryOK(r.types, r.info), NEW opcode \in Nat, NEW s, s = Set(r, opcode)
  PROVE  /\ RegistryOK(s.types, s.info) /\ Len(s.info) = Len(r.info) + 1
         /\ prf_nodeinfo_get(s.types, opcode) = Len(r.info) + 1
         /\ \A q \in Nat : q # opcode => prf_nodeinfo_get(s.types, q) = prf_nodeinfo_get(r.types, q)
<1> PICK types : types = Padded(r.types, opcode)
  OBVIOUS
<1> PICK old : old = types.elems[opcode + 1]
  OBVIOUS
<1> PICK new : new = Len(r.info) + 1
  OBVIOUS
<1> DEFINE fresh == [opcode |-> opcode, live |-> TRUE]
           kept == IF old = NULL THEN r.info ELSE [r.info EXCEPT ![old].live = FALSE]
<1>1. s.types = [types EXCEPT !.elems[opcode + 1] = new] /\ s.info = Append(kept, fresh)
  BY DEF Set
<1>2. Roomy(r.types) /\ r.info \in Seq(InfoRec) /\ Len(r.info) \in Nat /\ DOMAIN r.info = 1..Len(r.info)
      /\ Len(r.types.elems) \in Nat
  BY DEF RegistryOK, Roomy, Array
<1>3. /\ Roomy(types) /\ opcode + 1 \in 1..Len(types.elems) /\ Len(r.types.elems) <= Len(types.elems)
      /\ \A k \in 1..Len(types.elems) : types.elems[k] = IF k <= Len(r.types.elems) THEN r.types.elems[k] ELSE NULL
  BY <1>2, PaddedTable
<1>4. types.elems \in Seq(Nat) /\ Len(types.elems) \in Nat
  BY <1>3 DEF Roomy, Array
<1>5. \A k \in 1..Len(types.elems) : types.elems[k] # NULL =>
        /\ types.elems[k] \in 1..Len(r.info)
        /\ r.info[types.elems[k]].live /\ r.info[types.elems[k]].opcode = k - 1
  <2> SUFFICES ASSUME NEW k \in 1..Len(types.elems), types.elems[k] # NULL
               PROVE  /\ types.elems[k] \in 1..Len(r.info)
                      /\ r.info[types.elems[k]].live /\ r.info[types.elems[k]].opcode = k - 1
    OBVIOUS
  <2>1. k <= Len(r.types.elems) /\ types.elems[k] = r.types.elems[k]
    BY <1>3
  <2>2. k \in 1..Len(r.types.elems)
    BY <1>2, <1>4, <2>1
  <2> QED
    BY <2>1, <2>2 DEF RegistryOK
<1>6. \A e \in 1..Len(r.info) : r.info[e].live =>
        (r.info[e].opcode + 1 \in 1..Len(types.elems) /\ types.elems[r.info[e].opcode + 1] = e)
  <2> SUFFICES ASSUME NEW e \in 1..Len(r.info), r.info[e].live
               PROVE  r.info[e].opcode + 1 \in 1..Len(types.elems) /\ types.elems[r.info[e].opcode + 1] = e
    OBVIOUS
  <2> PICK k : k = r.info[e].opcode + 1
    OBVIOUS
  <2>1. k \in 1..Len(r.types.elems) /\ r.types.elems[k] = e
    BY DEF RegistryOK
  <2>2. k \in 1..Len(types.elems) /\ k <= Len(r.types.elems)
    <3>1. Len(r.types.elems) <= Len(types.elems) /\ Len(r.types.elems) \in Nat /\ k \in 1..Len(r.types.elems)
      BY <1>2, <1>3, <2>1
    <3> QED
      BY SMTT(30), <1>4, <3>1
  <2>3. types.elems[k] = e
    BY <1>3, <2>1, <2>2
  <2> QED
    BY <2>2, <2>3
<1>7. \A e \in 1..Len(r.info) : r.info[e] \in InfoRec
  BY <1>2, ElementOfSeq
<1>8. /\ kept \in Seq(InfoRec) /\ Len(kept) = Len(r.info)
      /\ \A e \in 1..Len(r.info) : /\ kept[e].opcode = r.info[e].opcode
                                   /\ kept[e].live <=> (r.info[e].live /\ e # old)
  <2>1. CASE old = NULL
    BY <1>2, <2>1 DEF NULL
  <2>2. CASE old # NULL
    <3>1. old \in 1..Len(r.info)
      BY <1>3, <1>5, <2>2
    <3> PICK dead : dead = [r.info[old] EXCEPT !.live = FALSE]
      OBVIOUS
    <3>2. dead \in InfoRec /\ dead.live = FALSE /\ dead.opcode = r.info[old].opcode
      BY <1>7, <3>1 DEF InfoRec
    <3>3. kept = [r.info EXCEPT ![old] = dead]
      BY <2>2
    <3>4. kept \in Seq(InfoRec) /\ Len(kept) = Len(r.info)
      <4>1. dead \in InfoRec
        BY <3>2
      <4>2. [r.info EXCEPT ![old] = dead] \in Seq(InfoRec) /\ Len([r.info EXCEPT ![old] = dead]) = Len(r.info)
        BY <1>2, <3>1, <4>1, ExceptSeq
      <4> QED
        BY <3>3, <4>2
    <3>5. kept[old] = dead /\ \A e \in 1..Len(r.info) : e # old => kept[e] = r.info[e]
      BY <1>2, <3>1, <3>3
    <3> QED
      BY <3>2, <3>4, <3>5
  <2> QED
    BY <2>1, <2>2
<1>9. fresh \in InfoRec /\ fresh.opcode = opcode /\ fresh.live = TRUE
  BY DEF InfoRec
<1> HIDE DEF fresh, kept
<1>10. /\ s.info \in Seq(InfoRec) /\ Len(s.info) = new /\ s.info[new] = fresh
       /\ \A e \in 1..Len(r.info) : s.info[e] = kept[e]
  <2>1. kept \in Seq(InfoRec) /\ Len(kept) = Len(r.info) /\ fresh \in InfoRec
    BY <1>8, <1>9
  <2>2. /\ Append(kept, fresh) \in Seq(InfoRec) /\ Len(Append(kept, fresh)) = Len(kept) + 1
        /\ Append(kept, fresh)[Len(kept) + 1] = fresh /\ \A e \in 1..Len(kept) : Append(kept, fresh)[e] = kept[e]
    BY <2>1, AppendedSeq
  <2> QED
    BY <1>1, <2>1, <2>2
<1>11. new \in Nat /\ new # NULL /\ 1..Len(s.info) = (1..Len(r.info)) \cup {new} /\ new \notin 1..Len(r.info)
  BY <1>2, <1>10 DEF NULL
<1>12. Roomy(s.types) /\ s.types.elems = [types.elems EXCEPT ![opcode + 1] = new]
  <2> PICK i : i = opcode + 1
    OBVIOUS
  <2>1. Roomy([types EXCEPT !.elems[i] = new]) /\ [types EXCEPT !.elems[i] = new].elems = [types.elems EXCEPT ![i] = new]
    BY <1>3, <1>11, ReplacedElement
  <2> QED
    BY <1>1, <2>1
<1>13. /\ Len(s.types.elems) = Len(types.elems) /\ s.types.elems[opcode + 1] = new
       /\ \A k \in 1..Len(types.elems) : k # opcode + 1 => s.types.elems[k] = types.elems[k]
  BY <1>3, <1>4, <1>11, <1>12, ExceptSeq
<1>14. ASSUME NEW k \in 1..Len(s.types.elems), s.types.elems[k] # NULL
       PROVE  /\ s.types.elems[k] \in 1..Len(s.info)
              /\ s.info[s.types.elems[k]].live /\ s.info[s.types.elems[k]].opcode = k - 1
  <2>1. CASE k = opcode + 1
    <3>1. k - 1 = opcode
      BY <2>1
    <3> QED
      BY SMTT(30), <1>9, <1>10, <1>11, <1>13, <2>1, <3>1
  <2>2. CASE k # opcode + 1
    <3> PICK e : e = types.elems[k]
      OBVIOUS
    <3>1. k \in 1..Len(types.elems) /\ s.types.elems[k] = e /\ e # NULL
      BY <1>13, <1>14, <2>2
    <3>2. e \in 1..Len(r.info) /\ r.info[e].live /\ r.info[e].opcode = k - 1
      BY <1>5, <3>1
    <3>3. e # old
      <4> SUFFICES ASSUME e = old PROVE FALSE
        OBVIOUS
      <4> PICK i : i = opcode + 1
        OBVIOUS
      <4>1. r.info[e].opcode = i - 1
        BY <1>3, <1>5, <3>1
      <4>2. k - 1 = i - 1
        BY <3>2, <4>1
      <4>3. k \in Nat /\ i \in Nat
        BY <1>4, <3>1
      <4>4. k = i
        BY <4>2, <4>3
      <4> QED
        BY <2>2, <4>4
    <3>4. s.info[e].live /\ s.info[e].opcode = k - 1
      BY ZenonT(30), <1>8, <1>10, <3>2, <3>3
    <3> QED
      BY <1>11, <3>1, <3>2, <3>4
  <2> QED
    BY <2>1, <2>2
<1>15. ASSUME NEW e \in 1..Len(s.info), s.info[e].live
       PROVE  s.info[e].opcode + 1 \in 1..Len(s.types.elems) /\ s.types.elems[s.info[e].opcode + 1] = e
  <2>1. CASE e = new
    BY <1>3, <1>9, <1>10, <1>13, <2>1
  <2>2. CASE e # new
    <3>1. e \in 1..Len(r.info) /\ r.info[e].live /\ e # old /\ s.info[e].opcode = r.info[e].opcode
      BY <1>8, <1>10, <1>11, <1>15, <2>2
    <3> PICK k : k = r.info[e].opcode + 1
      OBVIOUS
    <3>2. k \in 1..Len(types.elems) /\ types.elems[k] = e
      BY <1>6, <3>1
    <3>3. k # opcode + 1
      BY <3>1, <3>2
    <3> QED
      BY <1>13, <3>1, <3>2, <3>3
  <2> QED
    BY <2>1, <2>2
<1>16. RegistryOK(s.types, s.info)
  BY <1>10, <1>12, <1>14, <1>15 DEF RegistryOK
<1>17. prf_nodeinfo_get(s.types, opcode) = new
  <2>1. opcode < Len(s.types.elems)
    BY <1>3, <1>4, <1>13
  <2> QED
    BY <1>13, <2>1 DEF prf_nodeinfo_get, prf_array_count
<1>18. ASSUME NEW q \in Nat, q # opcode PROVE prf_nodeinfo_get(s.types, q) = prf_nodeinfo_get(r.types, q)
  <2>1. CASE q < Len(types.elems)
    <3>1. q + 1 \in 1..Len(types.elems) /\ q + 1 # opcode + 1 /\ (q + 1 <= Len(r.types.elems) <=> q < Len(r.types.elems))
      BY SMTT(30), <1>2, <1>4, <1>18, <2>1
    <3>2. s.types.elems[q + 1] = IF q + 1 <= Len(r.types.elems) THEN r.types.elems[q + 1] ELSE NULL
      BY <1>3, <1>13, <3>1
    <3> QED
      BY <1>13, <2>1, <3>1, <3>2 DEF prf_nodeinfo_get, prf_array_count
  <2>2. CASE ~(q < Len(types.elems))
    <3>1. ~(q < Len(r.types.elems))
      BY <1>2, <1>3, <1>4, <2>2
    <3> QED
      BY <1>13, <2>2, <3>1 DEF prf_nodeinfo_get, prf_array_count
  <2> QED
    BY <2>1, <2>2
<1> QED
  BY <1>10, <1>16, <1>17, <1>18

\* A set of numbers can be put in order.
LEMMA SortedExists ==
  ASSUME NEW S \in SUBSET Nat, IsFiniteSet(S)
  PROVE  \E s \in [1..Cardinality(S) -> S] : \A i, j \in DOMAIN s : i < j => s[i] < s[j]
<1> DEFINE Order(T, s) == s \in [1..Cardinality(T) -> T] /\ \A i, j \in 1..Cardinality(T) : i < j => s[i] < s[j]
           bad == {n \in Nat : \E T \in SUBSET Nat : IsFiniteSet(T) /\ Cardinality(T) = n /\ ~\E s : Order(T, s)}
<1>1. bad = {}
  <2> SUFFICES ASSUME bad # {} PROVE FALSE
    OBVIOUS
  <2>1. PICK n \in bad : \A l \in bad : n <= l
    BY LeastExists
  <2>2. PICK T \in SUBSET Nat : IsFiniteSet(T) /\ Cardinality(T) = n /\ ~\E s : Order(T, s)
    BY <2>1
  <2>3. n \in Nat
    BY <2>1
  <2>4. CASE n = 0
    <3>1. 1..Cardinality(T) = {}
      BY <2>2, <2>4
    <3>2. Order(T, [i \in 1..Cardinality(T) |-> 0])
      BY <3>1
    <3> QED
      BY <2>2, <3>2
  <2>5. CASE n # 0
    <3>1. T # {}
      BY <2>2, <2>5, FS_EmptySet
    <3>2. PICK x \in T : \A y \in T : x <= y
      BY <3>1, LeastExists
    <3> PICK R : R = T \ {x}
      OBVIOUS
    <3>3. IsFiniteSet(R) /\ Cardinality(R) = n - 1 /\ R \in SUBSET Nat
      BY <2>2, <3>2, FS_RemoveElement
    <3>4. n - 1 \in Nat /\ n - 1 \notin bad
      BY <2>1, <2>3, <2>5
    <3>5. PICK t : Order(R, t)
      BY <3>3, <3>4
    <3> PICK s : s = [i \in 1..n |-> IF i = 1 THEN x ELSE t[i - 1]]
      OBVIOUS
    <3>6. \A i \in 1..n : i # 1 => i - 1 \in 1..(n - 1)
      BY <2>3
    <3>7. \A i \in 1..(n - 1) : t[i] \in R
      BY <3>3, <3>5
    <3>8. \A i \in 1..n : i # 1 => s[i] = t[i - 1] /\ s[i] \in R
      BY <3>6, <3>7
    <3>9. s \in [1..n -> T] /\ (1 \in 1..n => s[1] = x)
      BY <3>2, <3>8
    <3>10. ASSUME NEW i \in 1..n, NEW j \in 1..n, i < j PROVE s[i] < s[j]
      <4>0. j # 1
        BY <2>3, <3>10
      <4>1. j # 1 /\ s[j] \in R /\ s[j] \in Nat /\ x \in Nat
        BY <3>2, <3>3, <3>8, <4>0
      <4>2. CASE i = 1
        <5>1. s[i] = x /\ x <= s[j] /\ x # s[j]
          BY <3>2, <3>9, <4>1, <4>2
        <5> QED
          BY <4>1, <5>1
      <4>3. CASE i # 1
        <5>1. i - 1 \in 1..(n - 1) /\ j - 1 \in 1..(n - 1) /\ i - 1 < j - 1
          BY <2>3, <3>10, <4>1, <4>3
        <5>2. t[i - 1] < t[j - 1]
          BY <3>3, <3>5, <5>1
        <5> QED
          BY <3>8, <4>1, <4>3, <5>2
      <4> QED
        BY <4>2, <4>3
    <3>11. Order(T, s)
      BY <2>2, <3>9, <3>10
    <3> QED
      BY <2>2, <3>11
  <2> QED
    BY <2>4, <2>5
<1>2. Cardinality(S) \in Nat
  BY FS_CardinalityType
<1>3. PICK s : Order(S, s)
  BY <1>1, <1>2
<1> QED
  BY <1>3

\* The registrations of prf_nodeinfo_init as a function: the registry after n of them.
IsReg(f, ops, start, m) == f = [n \in 0..m |-> IF n = 0 THEN start ELSE Set(f[n - 1], ops[n])]
Reg(ops, start) == CHOOSE f : IsReg(f, ops, start, Len(ops))

\* They have a result, however many there are.
LEMMA RegExists ==
  ASSUME NEW ops, NEW start, NEW m \in Nat
  PROVE  \E f : IsReg(f, ops, start, m)
<1> DEFINE bad == {k \in Nat : ~\E f : IsReg(f, ops, start, k)}
<1> SUFFICES ASSUME bad # {} PROVE FALSE
  OBVIOUS
<1>1. PICK k \in bad : \A l \in bad : k <= l
  BY LeastExists
<1>2. CASE k = 0
  <2>1. IsReg([n \in 0..0 |-> start], ops, start, 0)
    BY DEF IsReg
  <2> QED
    BY <1>1, <1>2, <2>1
<1>3. CASE k # 0
  <2>1. k - 1 \in Nat /\ k \in Nat /\ k - 1 \notin bad
    BY <1>1, <1>3
  <2>2. PICK f : IsReg(f, ops, start, k - 1)
    BY <2>1
  <2> PICK g : g = [n \in 0..k |-> IF n = 0 THEN start ELSE Set(f[n - 1], ops[n])]
    OBVIOUS
  <2>3. ASSUME NEW n \in 0..k, n # 0 PROVE g[n - 1] = f[n - 1]
    <3>1. n - 1 \in 0..(k - 1) /\ n - 1 \in 0..k
      BY <2>1, <2>3
    <3>2. f[n - 1] = IF n - 1 = 0 THEN start ELSE Set(f[n - 1 - 1], ops[n - 1])
      BY <2>2, <3>1 DEF IsReg
    <3>3. g[n - 1] = IF n - 1 = 0 THEN start ELSE Set(f[n - 1 - 1], ops[n - 1])
      BY <3>1
    <3> QED
      BY <3>2, <3>3
  <2>4. IsReg(g, ops, start, k)
    BY <2>3 DEF IsReg
  <2> QED
    BY <1>1, <2>4
<1> QED
  BY <1>2, <1>3

\* e is the last of the first n registrations of opcode q, NULL if there is none.
LastOf(ops, n, q, e) ==
  \/ e = NULL /\ \A m \in 1..n : ops[m] # q
  \/ e \in 1..n /\ ops[e] = q /\ \A m \in 1..n : ops[m] = q => m <= e

\* After the registrations every opcode has the entry of its last one.
LEMMA Registered ==
  ASSUME NEW ops \in Seq(Nat), NEW start, RegistryOK(start.types, start.info), Len(start.info) = 0,
         \A q \in Nat : prf_nodeinfo_get(start.types, q) = NULL,
         NEW r, r = Reg(ops, start)[Len(ops)]
  PROVE  RegistryOK(r.types, r.info) /\ \A q \in Nat : LastOf(ops, Len(ops), q, prf_nodeinfo_get(r.types, q))
<1> PICK f : f = Reg(ops, start)
  OBVIOUS
<1> PICK len : len = Len(ops)
  OBVIOUS
<1>1. len \in Nat /\ \A n \in 1..len : ops[n] \in Nat
  OBVIOUS
<1>2. IsReg(f, ops, start, len)
  <2>1. \E g : IsReg(g, ops, start, len)
    BY <1>1, RegExists
  <2> QED
    BY <2>1 DEF Reg
<1> DEFINE Good(n) == /\ RegistryOK(f[n].types, f[n].info) /\ Len(f[n].info) = n
                      /\ \A q \in Nat : LastOf(ops, n, q, prf_nodeinfo_get(f[n].types, q))
           bad == {n \in 0..len : ~Good(n)}
<1>3. bad = {}
  <2> SUFFICES ASSUME bad # {} PROVE FALSE
    OBVIOUS
  <2>1. PICK n \in bad : \A l \in bad : n <= l
    <3>1. bad \subseteq Nat
      BY <1>1
    <3> QED
      BY <3>1, LeastExists
  <2>2. n \in 0..len /\ n \in Nat /\ ~Good(n)
    BY <1>1, <2>1
  <2>3. CASE n = 0
    <3>1. f[n] = start
      BY <1>2, <2>2, <2>3 DEF IsReg
    <3>2. \A q \in Nat : LastOf(ops, n, q, prf_nodeinfo_get(start.types, q))
      BY <2>3 DEF LastOf
    <3>3. Good(n)
      BY <2>3, <3>1, <3>2
    <3> QED
      BY <2>2, <3>3
  <2>4. CASE n # 0
    <3>1. n - 1 \in 0..len /\ n - 1 \in Nat /\ n \in 1..len /\ ~(n <= n - 1)
      BY <1>1, <2>2, <2>4
    <3>2. Good(n - 1)
      BY <2>1, <3>1
    <3> PICK a : a = f[n - 1]
      OBVIOUS
    <3> PICK b : b = f[n]
      OBVIOUS
    <3> PICK o : o = ops[n]
      OBVIOUS
    <3>3. b = Set(a, o) /\ o \in Nat
      BY <1>1, <1>2, <2>2, <2>4, <3>1 DEF IsReg
    <3>4. RegistryOK(a.types, a.info) /\ Len(a.info) = n - 1 /\ \A q \in Nat : LastOf(ops, n - 1, q, prf_nodeinfo_get(a.types, q))
      BY <3>2
    <3> HIDE DEF Good
    <3>5. /\ RegistryOK(b.types, b.info) /\ Len(b.info) = Len(a.info) + 1
          /\ prf_nodeinfo_get(b.types, o) = Len(a.info) + 1
          /\ \A q \in Nat : q # o => prf_nodeinfo_get(b.types, q) = prf_nodeinfo_get(a.types, q)
      BY SMTT(30), <3>3, <3>4, SetRegistry
    <3>6. Len(a.info) + 1 = n
      BY <2>2, <3>4
    <3>7. 1..n = (1..(n - 1)) \cup {n} /\ \A m \in 1..n : m <= n
      BY <2>2, <3>1
    <3>8. ASSUME NEW q \in Nat PROVE LastOf(ops, n, q, prf_nodeinfo_get(b.types, q))
      <4>1. CASE q = o
        <5>1. prf_nodeinfo_get(b.types, q) = n /\ n \in 1..n /\ ops[n] = q
          BY <3>5, <3>6, <3>7, <4>1
        <5> QED
          BY <3>7, <5>1 DEF LastOf
      <4>2. CASE q # o
        <5> PICK e : e = prf_nodeinfo_get(a.types, q)
          OBVIOUS
        <5>1. LastOf(ops, n - 1, q, e) /\ prf_nodeinfo_get(b.types, q) = e
          BY <3>4, <3>5, <4>2
        <5>2. ops[n] # q
          BY <4>2
        <5>3. LastOf(ops, n, q, e)
          BY <3>7, <5>1, <5>2 DEF LastOf
        <5> QED
          BY <5>1, <5>3
      <4> QED
        BY <4>1, <4>2
    <3>9. Good(n)
      BY <3>5, <3>6, <3>8 DEF Good
    <3> QED
      BY <2>2, <3>9
  <2> QED
    BY <2>3, <2>4
<1>4. len \in 0..len
  BY <1>1
<1>5. Good(len)
  BY <1>3, <1>4
<1> QED
  BY <1>5

\* An opcode is a 16-bit number.
LEMMA MaxOpcodeIsNat == MaxOpcode \in Nat
BY DEF MaxOpcode

\* The opcodes of prf_nodeinfo_init are numbers.
LEMMA DefaultOpcodes == Sorted(Default) \o Sorted(Supported) \in Seq(Nat)
<1>0. MaxOpcode \in Nat
  BY MaxOpcodeIsNat
<1>1. IsFiniteSet(1..MaxOpcode) /\ Default \subseteq 1..MaxOpcode /\ Supported \subseteq 1..MaxOpcode
  BY <1>0, InfoAssumption, FS_Interval
<1>2. ASSUME NEW S, S \subseteq 1..MaxOpcode PROVE Sorted(S) \in Seq(Nat)
  <2>1. IsFiniteSet(S) /\ S \in SUBSET Nat /\ Cardinality(S) \in Nat
    <3>1. IsFiniteSet(S)
      BY <1>1, <1>2, FS_Subset
    <3>2. S \in SUBSET Nat
      BY <1>0, <1>2
    <3> QED
      BY <3>1, <3>2, FS_CardinalityType
  <2>2. \E s \in [1..Cardinality(S) -> S] : \A i, j \in DOMAIN s : i < j => s[i] < s[j]
    BY <2>1, SortedExists
  <2>3. Sorted(S) \in [1..Cardinality(S) -> S]
    BY <2>2 DEF Sorted
  <2>4. Sorted(S) \in [1..Cardinality(S) -> Nat]
    BY <2>1, <2>3
  <2> QED
    BY <2>1, <2>4, IsASeq
<1>3. Sorted(Default) \in Seq(Nat) /\ Sorted(Supported) \in Seq(Nat)
  BY <1>1, <1>2
<1> QED
  BY <1>3, ConcatProperties

\* prf_nodeinfo_init: the defaults are found.
LEMMA TypesStart ==
  ASSUME prf_nodeinfo_init
  PROVE  InfoInv' /\ RegistryOK(nodetypes, info)'
<1> USE InfoAssumption
<1>0. MaxOpcode \in Nat
  BY MaxOpcodeIsNat
<1> DEFINE ops == Sorted(Default) \o Sorted(Supported)
           start == [types |-> prf_array_init(TypeSlots, InfoSize), info |-> <<>>]
           r == Reg(ops, start)[Len(ops)]
           last(o) == {n \in DOMAIN ops : ops[n] = o}
           All == Opcode \cup Default
<1>1. /\ nodetypes' = r.types /\ info' = r.info
      /\ latest' = [o \in All |-> IF last(o) = {} THEN NULL ELSE CHOOSE n \in last(o) : \A m \in last(o) : m <= n]
  BY DEF prf_nodeinfo_init, Reg, IsReg
<1>2. ops \in Seq(Nat)
  BY DefaultOpcodes
<1> HIDE DEF ops
<1>3. Roomy(start.types) /\ start.types.elems = <<>> /\ start.info = <<>>
  BY NewArray, InfoSizeAssumption DEF Elemsize
<1> HIDE DEF start
<1>4. Len(<<>>) = 0 /\ <<>> \in Seq(InfoRec)
  BY EmptySeq
<1>5. RegistryOK(start.types, start.info) /\ Len(start.info) = 0
  BY <1>3, <1>4 DEF RegistryOK
<1>6. \A q \in Nat : prf_nodeinfo_get(start.types, q) = NULL
  BY <1>3, <1>4 DEF prf_nodeinfo_get, prf_array_count
<1>7. RegistryOK(r.types, r.info) /\ \A q \in Nat : LastOf(ops, Len(ops), q, prf_nodeinfo_get(r.types, q))
  BY <1>2, <1>5, <1>6, Registered
<1> HIDE DEF r
<1>8. ASSUME NEW o \in All
      PROVE  prf_nodeinfo_get(nodetypes', o) \in Nat /\ latest'[o] = prf_nodeinfo_get(nodetypes', o)
  <2> PICK e : e = prf_nodeinfo_get(r.types, o)
    OBVIOUS
  <2>1. o \in Nat /\ DOMAIN ops = 1..Len(ops) /\ Len(ops) \in Nat
    BY <1>0, <1>2
  <2>2. LastOf(ops, Len(ops), o, e)
    BY <1>7, <2>1
  <2>3. CASE e = NULL
    <3>1. last(o) = {}
      BY <2>1, <2>2, <2>3 DEF LastOf, NULL
    <3> QED
      BY <1>1, <2>3, <3>1 DEF NULL
  <2>4. CASE e # NULL
    <3>1. e \in last(o) /\ \A m \in last(o) : m <= e
      BY <2>1, <2>2, <2>4 DEF LastOf
    <3>2. \A n \in last(o) : n \in Nat
      BY <2>1
    <3>3. \A n \in last(o) : (\A m \in last(o) : m <= n) => n = e
      BY <3>1, <3>2
    <3> HIDE DEF last
    <3>4. (CHOOSE n \in last(o) : \A m \in last(o) : m <= n) = e
      BY <3>1, <3>3
    <3> QED
      BY <1>1, <3>1, <3>2, <3>4
  <2> QED
    BY <2>3, <2>4
<1>9. latest' \in [All -> Nat]
  <2>1. DOMAIN latest' = All /\ \A o \in All : latest'[o] \in Nat
    BY <1>1, <1>8
  <2> QED
    BY <1>1, <2>1
<1>10. InfoInv'
  BY <1>8, <1>9 DEF InfoInv
<1> QED
  BY <1>1, <1>7, <1>10

\* The constants' opcodes are numbers, those that are registered above zero.
LEMMA OpcodesAreNumbers == Opcode \cup Default \subseteq Nat
<1>1. MaxOpcode \in Nat
  BY MaxOpcodeIsNat
<1> QED
  BY <1>1, InfoAssumption

\* An application registers a type, or registers it again.
LEMMA SetPreserves ==
  ASSUME InfoInv, RegistryOK(nodetypes, info), NEW o \in Opcode, prf_nodeinfo_set(o)
  PROVE  InfoInv' /\ RegistryOK(nodetypes, info)'
<1> PICK r : r = [types |-> nodetypes, info |-> info]
  OBVIOUS
<1> PICK s : s = Set(r, o)
  OBVIOUS
<1>1. nodetypes' = s.types /\ info' = s.info /\ latest' = [latest EXCEPT ![o] = Len(info) + 1]
  BY DEF prf_nodeinfo_set
<1>2. r.types = nodetypes /\ r.info = info
  OBVIOUS
<1>3. RegistryOK(r.types, r.info) /\ o \in Nat /\ Len(info) \in Nat
  BY <1>2, OpcodesAreNumbers DEF RegistryOK
<1>4. /\ RegistryOK(s.types, s.info)
      /\ prf_nodeinfo_get(s.types, o) = Len(r.info) + 1
      /\ \A q \in Nat : q # o => prf_nodeinfo_get(s.types, q) = prf_nodeinfo_get(r.types, q)
  BY <1>3, SetRegistry
<1>5. latest' \in [Opcode \cup Default -> Nat]
  BY <1>1, <1>3 DEF InfoInv
<1>6. ASSUME NEW q \in Opcode \cup Default PROVE prf_nodeinfo_get(nodetypes', q) = latest'[q]
  <2>1. q \in Nat
    BY OpcodesAreNumbers
  <2>2. CASE q = o
    <3>1. latest'[q] = Len(info) + 1
      BY <1>1, <2>2 DEF InfoInv
    <3> QED
      BY <1>1, <1>2, <1>4, <2>2, <3>1
  <2>3. CASE q # o
    <3>1. latest'[q] = latest[q]
      BY <1>1, <2>3 DEF InfoInv
    <3>2. prf_nodeinfo_get(nodetypes, q) = latest[q]
      BY DEF InfoInv
    <3> QED
      BY <1>1, <1>2, <1>4, <2>1, <2>3, <3>1, <3>2
  <2> QED
    BY <2>2, <2>3
<1>7. InfoInv'
  BY <1>5, <1>6 DEF InfoInv
<1> QED
  BY <1>1, <1>4, <1>7

\* With no table nothing is found.
LEMMA NothingFound ==
  ASSUME nodetypes = NoTable, latest = [o \in Opcode \cup Default |-> NULL]
  PROVE  InfoInv
<1>1. NoTable.elems = <<>> /\ Len(<<>>) = 0
  BY DEF NoTable
<1>2. \A o \in Opcode \cup Default : prf_nodeinfo_get(nodetypes, o) = NULL
  BY <1>1, OpcodesAreNumbers DEF prf_nodeinfo_get, prf_array_count
<1> QED
  BY <1>2 DEF InfoInv, NULL

\* prf_nodeinfo_exit frees every entry.
LEMMA TypesExit ==
  ASSUME InfoInv, InfoSession, using # "down", prf_nodeinfo_exit
  PROVE  InfoInv' /\ nodetypes' = NoTable /\ info' \in Seq(InfoRec) /\ \A e \in 1..Len(info') : ~info'[e].live
<1> PICK gone : gone = {e \in DOMAIN info : \E i \in DOMAIN nodetypes.elems : nodetypes.elems[i] = e}
  OBVIOUS
<1>1. RegistryOK(nodetypes, info)
  BY DEF InfoSession
<1>2. /\ info \in Seq(InfoRec) /\ Len(info) \in Nat /\ DOMAIN info = 1..Len(info)
      /\ DOMAIN nodetypes.elems = 1..Len(nodetypes.elems)
  BY <1>1 DEF RegistryOK, Roomy, Array
<1>3. \A e \in 1..Len(info) : info[e] \in InfoRec
  BY <1>2, ElementOfSeq
<1>4. info' = [e \in 1..Len(info) |-> [info[e] EXCEPT !.live = @ /\ e \notin gone]]
  BY <1>2 DEF prf_nodeinfo_exit
<1>5. ASSUME NEW e \in 1..Len(info) PROVE info'[e] \in InfoRec /\ (info'[e].live <=> (info[e].live /\ e \notin gone))
  BY <1>3, <1>4 DEF InfoRec
<1>6. info' \in Seq(InfoRec) /\ Len(info') = Len(info)
  <2>1. info' \in [1..Len(info) -> InfoRec]
    BY <1>4, <1>5
  <2> QED
    BY <1>2, <2>1, LenProperties, IsASeq
<1>7. ASSUME NEW e \in 1..Len(info), info[e].live PROVE e \in gone
  BY <1>1, <1>2, <1>7 DEF RegistryOK
<1>8. \A e \in 1..Len(info') : ~info'[e].live
  BY <1>5, <1>6, <1>7
<1>9. nodetypes' = NoTable /\ latest' = [o \in Opcode \cup Default |-> NULL]
  BY DEF prf_nodeinfo_exit, NoTable, InfoInv
<1>10. InfoInv'
  <2>1. NoTable.elems = <<>> /\ Len(<<>>) = 0
    BY DEF NoTable
  <2>2. \A o \in Opcode \cup Default : prf_nodeinfo_get(nodetypes', o) = NULL
    BY <1>9, <2>1, OpcodesAreNumbers DEF prf_nodeinfo_get, prf_array_count
  <2> QED
    BY <1>9, <2>2 DEF InfoInv, NULL
<1> QED
  BY <1>6, <1>8, <1>9, <1>10

\* The registry's invariant holds in every session.
LEMMA TypesInvariant == LSpec => [](InfoInv /\ InfoSession)
<1>1. LInit => InfoInv /\ InfoSession
  <2> SUFFICES ASSUME LInit PROVE InfoInv /\ InfoSession
    OBVIOUS
  <2>1. /\ using = "down" /\ nodetypes = NoTable /\ info = <<>>
        /\ latest = [o \in Opcode \cup Default |-> NULL]
    BY DEF LInit, InfoInit, NoTable
  <2>2. info \in Seq(InfoRec) /\ Len(info) = 0
    BY <2>1, EmptySeq
  <2> QED
    BY <2>1, <2>2, NothingFound DEF InfoSession
<1>2. (InfoInv /\ InfoSession) /\ [LNext]_libvars => (InfoInv /\ InfoSession)'
  <2> SUFFICES ASSUME InfoInv, InfoSession, [LNext]_libvars PROVE InfoInv' /\ InfoSession'
    OBVIOUS
  <2>1. ASSUME UNCHANGED infovars, using' = using PROVE InfoInv' /\ InfoSession'
    BY <2>1 DEF infovars, InfoInv, InfoSession
  <2>2. ASSUME NEW part \in {"pools", "messages", "types"}, prf_init(part) PROVE InfoInv' /\ InfoSession'
    <3>1. prf_nodeinfo_init /\ using' # "down"
      BY <2>2 DEF prf_init
    <3> QED
      BY <3>1, TypesStart DEF InfoSession
  <2>3. CASE prf_exit
    <3>1. prf_nodeinfo_exit /\ using # "down" /\ using' = "down"
      BY <2>3 DEF prf_exit
    <3> QED
      BY <3>1, TypesExit DEF InfoSession
  <2>4. ASSUME using = "types", InfoCalls, using' = using PROVE InfoInv' /\ InfoSession'
    <3>1. RegistryOK(nodetypes, info) /\ using' # "down"
      BY <2>4 DEF InfoSession
    <3>2. PICK o \in Opcode : prf_nodeinfo_set(o)
      BY <2>4 DEF InfoCalls
    <3> QED
      BY <3>1, <3>2, SetPreserves DEF InfoSession
  <2>5. CASE Use
    <3>1. CASE using = "types" /\ InfoCalls /\ UNCHANGED <<poolvars, msgvars, using>>
      BY <2>4, <3>1
    <3>2. CASE using # "types"
      BY <2>1, <2>5, <3>2 DEF Use
    <3> QED
      BY <2>5, <3>1, <3>2 DEF Use
  <2>6. CASE UNCHANGED libvars
    BY <2>1, <2>6 DEF libvars
  <2> QED
    BY <2>2, <2>3, <2>5, <2>6 DEF LNext
<1> QED
  BY <1>1, <1>2, PTL DEF LSpec

\* What the registry's invariant says of looking types up.
LEMMA TypesFound == InfoInv /\ InfoSession => LatestIsFound
<1> SUFFICES ASSUME InfoInv, InfoSession, NEW o \in DOMAIN latest, NEW e, e = prf_nodeinfo_get(nodetypes, o)
             PROVE  e = latest[o] /\ (e # NULL => info[e].live /\ info[e].opcode = o)
  BY DEF LatestIsFound
<1>1. o \in Opcode \cup Default /\ o \in Nat
  BY OpcodesAreNumbers DEF InfoInv
<1>2. e = latest[o]
  BY <1>1 DEF InfoInv
<1>3. ASSUME e # NULL PROVE info[e].live /\ info[e].opcode = o
  <2>1. o < Len(nodetypes.elems) /\ e = nodetypes.elems[o + 1]
    BY <1>3 DEF prf_nodeinfo_get, prf_array_count
  <2>2. using # "down"
    <3> SUFFICES ASSUME nodetypes = NoTable PROVE FALSE
      BY DEF InfoSession
    <3>1. Len(nodetypes.elems) = 0
      BY DEF NoTable
    <3> QED
      BY <1>1, <2>1, <3>1
  <2>3. RegistryOK(nodetypes, info) /\ Len(nodetypes.elems) \in Nat
    BY <2>2 DEF InfoSession, RegistryOK, Roomy, Array
  <2> PICK k : k = o + 1
    OBVIOUS
  <2>4. k \in 1..Len(nodetypes.elems) /\ k - 1 = o
    BY <1>1, <2>1, <2>3
  <2> QED
    BY <1>3, <2>1, <2>3, <2>4 DEF RegistryOK
<1> QED
  BY <1>2, <1>3

\* Asking for a node type gives the entry that was registered last for it, allocated,
\* and nothing for an opcode nobody registered, however often the table grew and types
\* were registered again.
THEOREM LatestTypeIsFound == LSpec => []LatestIsFound
  BY TypesInvariant, TypesFound, PTL

-----------------------------------------------------------------------------
(* The library as a whole. *)

\* Empty tables take no memory.
LEMMA NoTableInBounds == InBounds(NoTable)
  BY PointerAssumption DEF InBounds, NoTable

\* What the invariants say of the tables' memory.
LEMMA TablesFit ==
  PoolInv /\ MessageSession /\ InfoSession => TablesInBounds
<1> SUFFICES ASSUME PoolInv, MessageSession, InfoSession PROVE TablesInBounds
  OBVIOUS
<1>1. InBounds(pools)
  BY NoTableInBounds, RoomyInBounds DEF PoolInv, PoolTypes
<1>2. InBounds(nodetypes)
  BY NoTableInBounds, RoomyInBounds DEF InfoSession, RegistryOK
<1>3. \A t \in Type : InBounds(prf_handlers[t])
  <2>1. CASE using # "down"
    BY <2>1, RoomyInBounds DEF MessageSession
  <2>2. CASE using = "down"
    <3>1. \A t \in Type : prf_handlers[t] = NoTable
      BY <2>2 DEF MessageSession, NoHandlers, NoTable
    <3> QED
      BY <3>1, NoTableInBounds
  <2> QED
    BY <2>1, <2>2
<1>4. \A p \in DOMAIN pool : InBounds(pool[p].blocks)
  <2>1. DOMAIN pool = 1..Len(pool)
    BY DEF PoolInv, PoolTypes
  <2>2. \A p \in 1..Len(pool) : Roomy(pool[p].blocks)
    BY DEF PoolInv, PoolTypes
  <2> QED
    BY <2>1, <2>2, RoomyInBounds
<1> QED
  BY <1>1, <1>2, <1>3, <1>4 DEF TablesInBounds

\* Every table of the library (prf_array_t) lies in the memory it has, however often it
\* grew, in any number of sessions.
THEOREM TablesStayInBounds == LSpec => []TablesInBounds
  BY PoolsInvariant, MessagesInvariant, TypesInvariant, TablesFit, PTL

\* What the invariants say of a library that is down.
LEMMA NothingStays ==
  PoolInv /\ PoolSession /\ MessageInv /\ MessageSession /\ InfoSession => NothingLeft
<1> SUFFICES ASSUME PoolInv, PoolSession, MessageInv, MessageSession, InfoSession, using = "down"
             PROVE  /\ \A p \in DOMAIN pool : ~pool[p].live
                    /\ \A b \in DOMAIN blocks : ~blocks[b].live
                    /\ \A h \in DOMAIN handler : ~handler[h].live
                    /\ \A e \in DOMAIN info : ~info[e].live
  BY DEF NothingLeft
<1>1. DOMAIN pool = 1..Len(pool) /\ DOMAIN blocks = 1..Len(blocks)
  BY DEF PoolInv, PoolTypes
<1>2. DOMAIN handler = 1..Len(handler)
  BY DEF MessageInv, MessageTypes
<1>3. DOMAIN info = 1..Len(info)
  BY DEF InfoSession
<1> QED
  BY <1>1, <1>2, <1>3 DEF PoolSession, MessageSession, InfoSession

\* After prf_exit no pool, block, handler or node type is left allocated, whatever the
\* application did and left behind.
THEOREM NothingIsLeft == LSpec => []NothingLeft
  BY PoolsInvariant, MessagesInvariant, TypesInvariant, NothingStays, PTL
=============================================================================
