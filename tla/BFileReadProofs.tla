-------------------------- MODULE BFileReadProofs ---------------------------
(***************************************************************************)
(* Proofs about a bfile open for reading, for every file, every block size *)
(* and every sequence of calls, with short reads and a file that shrinks.  *)
(***************************************************************************)
EXTENDS BFileRead, SequenceTheorems, TLAPS

-----------------------------------------------------------------------------
(* Quotients and remainders by a positive number b: the position x stands at
   offset x % b of block number x \div b. *)

\* A product with a positive factor is no smaller than the other factor.
LEMMA FactorBound ==
  ASSUME NEW b \in Nat \ {0}, NEW d \in Int, d >= 1
  PROVE  d * b >= b
  OBVIOUS

\* The quotient and the remainder by a block size, for any position.
LEMMA DivisionFacts ==
  ASSUME NEW b \in Nat \ {0}, NEW x \in Nat
  PROVE  /\ x \div b \in Nat
         /\ x % b \in 0..(b - 1)
         /\ x = (b * (x \div b)) + (x % b)
  OBVIOUS

\* Quotient and remainder are unique.
LEMMA DivisionUnique ==
  ASSUME NEW b \in Nat \ {0}, NEW k \in Nat, NEW r \in 0..(b - 1)
  PROVE  ((k * b) + r) % b = r /\ ((k * b) + r) \div b = k
<1> DEFINE x == (k * b) + r
           q == x \div b
           m == x % b
<1>0. x \in Nat
  OBVIOUS
<1>1. q \in Nat /\ m \in 0..(b - 1) /\ x = (b * q) + m
  BY <1>0, DivisionFacts
<1> HIDE DEF q, m
<1>2. (k - q) * b = m - r
  BY <1>1
<1>3. ~(k - q >= 1)
  BY <1>1, <1>2, FactorBound
<1>4. ~(q - k >= 1)
  <2>1. (q - k) * b = r - m
    BY <1>1
  <2> QED
    BY <1>1, <2>1, FactorBound
<1>5. k = q
  BY <1>1, <1>3, <1>4
<1>6. m = r
  BY <1>1, <1>2, <1>5
<1> QED
  BY <1>5, <1>6 DEF m, q

\* The start of a position's block, and which positions lie in that block.
LEMMA BlockStart ==
  ASSUME NEW b \in Nat \ {0}, NEW x \in Nat
  PROVE  /\ x - (x % b) \in Nat /\ (x - (x % b)) % b = 0
         /\ x - (x % b) = (x \div b) * b
         /\ ((x \div b) + 1) * b = x - (x % b) + b
<1>1. x \div b \in Nat /\ x % b \in 0..(b - 1) /\ x = (b * (x \div b)) + (x % b)
  BY DivisionFacts
<1> DEFINE q == x \div b
           m == x % b
<1> HIDE DEF q, m
<1>2. q \in Nat /\ m \in 0..(b - 1) /\ x = (b * q) + m
  BY <1>1 DEF q, m
<1>3. x - m = q * b /\ x - m \in Nat /\ (q + 1) * b = x - m + b
  BY <1>2
<1>4. ((q * b) + 0) % b = 0
  BY <1>2, DivisionUnique
<1>5. (x - m) % b = 0
  BY <1>3, <1>4
<1> QED
  BY <1>3, <1>5 DEF q, m

\* From a block boundary s on, up to the next one, the block is the one that
\* starts at s and the offset counts up from 0.
LEMMA InBlock ==
  ASSUME NEW b \in Nat \ {0}, NEW s \in Nat, s % b = 0, NEW x \in Nat, s <= x, x < s + b
  PROVE  x % b = x - s /\ x \div b = s \div b /\ s = (s \div b) * b
<1>1. s \div b \in Nat /\ s = b * (s \div b)
  BY DivisionFacts
<1> DEFINE k == s \div b
<1> HIDE DEF k
<1>2. k \in Nat /\ s = k * b
  BY <1>1 DEF k
<1>3. x - s \in 0..(b - 1) /\ x = (k * b) + (x - s)
  BY <1>2
<1>4. ((k * b) + (x - s)) % b = x - s /\ ((k * b) + (x - s)) \div b = k
  BY <1>2, <1>3, DivisionUnique
<1> QED
  BY <1>2, <1>3, <1>4 DEF k

\* Two positions with the same quotient are less than a block apart, after the
\* same block boundary.
LEMMA SameBlock ==
  ASSUME NEW b \in Nat \ {0}, NEW x \in Nat, NEW y \in Nat, x \div b = y \div b
  PROVE  x - (x % b) = y - (y % b)
<1>1. x - (x % b) = (x \div b) * b
  BY BlockStart
<1>2. y - (y % b) = (y \div b) * b
  BY BlockStart
<1> QED
  BY <1>1, <1>2, Zenon

\* One block beyond a block boundary is a block boundary.
LEMMA NextBoundary ==
  ASSUME NEW b \in Nat \ {0}, NEW s \in Nat, s % b = 0
  PROVE  (s + b) % b = 0
<1>1. s \div b \in Nat /\ s = b * (s \div b)
  BY DivisionFacts
<1> DEFINE k == s \div b
<1> HIDE DEF k
<1>2. k \in Nat /\ s = k * b
  BY <1>1 DEF k
<1>3. (((k + 1) * b) + 0) % b = 0
  BY <1>2, DivisionUnique
<1>4. s + b = ((k + 1) * b) + 0
  BY <1>2
<1> QED
  BY <1>3, <1>4

\* Later positions lie in the same or a later block.
LEMMA BlockOrder ==
  ASSUME NEW b \in Nat \ {0}, NEW x \in Nat, NEW y \in Nat, x <= y
  PROVE  x \div b <= y \div b
<1> DEFINE j == x \div b
           k == y \div b
           m == x % b
           r == y % b
<1>1. /\ j \in Nat /\ k \in Nat /\ m \in 0..(b - 1) /\ r \in 0..(b - 1)
      /\ x = (b * j) + m /\ y = (b * k) + r
  BY DivisionFacts
<1> HIDE DEF j, k, m, r
<1>2. ~(j - k >= 1)
  <2>1. (j - k) * b = (x - m) - (y - r)
    BY <1>1
  <2>2. (j - k) * b < b
    BY <1>1, <2>1
  <2> QED
    BY <1>1, <2>2, FactorBound
<1> QED
  BY <1>1, <1>2 DEF j, k

\* With an even block size every block boundary is even.
LEMMA EvenBoundary ==
  ASSUME NEW b \in Nat \ {0}, b % 2 = 0, NEW s \in Nat, s % b = 0
  PROVE  s % 2 = 0
<1>1. s \div b \in Nat /\ s = b * (s \div b)
  BY DivisionFacts
<1>2. b \div 2 \in Nat /\ b = 2 * (b \div 2)
  BY DivisionFacts
<1> DEFINE k == s \div b
           h == b \div 2
<1> HIDE DEF k, h
<1>3. k \in Nat /\ h \in Nat /\ s = (2 * h) * k
  BY <1>1, <1>2 DEF k, h
<1>4. h * k \in Nat /\ s = ((h * k) * 2) + 0
  BY <1>3
<1>5. (((h * k) * 2) + 0) % 2 = 0
  BY <1>4, DivisionUnique
<1> QED
  BY <1>4, <1>5

-----------------------------------------------------------------------------
(***************************************************************************)
(* The inductive invariant.  WindowOK alone is not inductive: what the     *)
(* block holds after bf_read_buffer depends on where the FILE stood, on    *)
(* where the block starts and on how much of it was read; what a call      *)
(* answers depends on what its earlier rounds collected.                   *)
(***************************************************************************)

\* The file offset of the block around p.
Start(p) == p - Offset(p)

\* The FILE stands where the next byte of the block is expected.
SeekOK == halted = "no" => IF file THEN fpos = ipos ELSE ipos = Size

\* Nothing was pushed back beyond what has been read.
Unread == \A p \in ipos..(Size - 1) : view[p] = Disk[p]

\* All of the block around pos has been read, as far as the file goes.
BlockRead == ipos = Smaller(Start(pos) + BufferSize, Size)

\* Outside bf_read_buffer: the block around pos has been read, or pos stands
\* at its start and none of it has.
Settled ==
  (fill = NotFilling /\ halted = "no") =>
    /\ pos <= ipos
    /\ BlockRead \/ (pos = ipos /\ Offset(pos) = 0)
    /\ \A p \in Start(pos)..(ipos - 1) : buffer[p - Start(pos)] = view[p]

\* Inside bf_read_buffer: the first fill bytes of the block around pos are read.
Filling ==
  (fill # NotFilling /\ halted = "no") =>
    /\ op.busy
    /\ Start(pos) = ipos - fill
    /\ \A i \in 0..(fill - 1) : buffer[i] = view[Start(pos) + i]

\* What the running call has collected and how far it has moved.
GetProgress ==
  /\ op.n = op.left + Len(op.out)
  /\ pos = Smaller(op.from + Len(op.out), Size)
  /\ \A i \in 1..Len(op.out) :
       op.out[i] = IF op.from + i - 1 < Size THEN view[op.from + i - 1] ELSE 0
ReadProgress ==
  /\ op.left + Len(op.out) = Smaller(op.n, Size - op.from)
  /\ pos = op.from + Len(op.out)
  /\ \A i \in 1..Len(op.out) : op.out[i] = view[op.from + i - 1]
PeekProgress ==
  /\ pos = op.from
  /\ (fill = NotFilling /\ halted = "no") => BlockRead
RewindProgress == op.left = 0 /\ op.out = <<>> /\ pos = op.from - Smaller(op.n, op.from)
Progress ==
  op.busy =>
    /\ op.kind \in {"get", "read", "peek", "rewind"}
    /\ op.kind = "get" => GetProgress
    /\ op.kind = "read" => ReadProgress
    /\ op.kind = "peek" => PeekProgress
    /\ op.kind = "rewind" => RewindProgress

IInv == TypeOK /\ SeekOK /\ Unread /\ Settled /\ Filling /\ Progress

-----------------------------------------------------------------------------
(* Positions and blocks. *)

\* A buffer has room for at least one byte.
LEMMA BufferSizeFacts ==
  ASSUME TypeOK
  PROVE  BufferSize \in Nat \ {0} /\ Size \in Nat \ {0} /\ Offsets = 0..(BufferSize - 1)
  BY BlockAssumption, FileAssumption DEF BufferSize, Offsets, TypeOK

\* A position, the start of its block and its offset in the block.
LEMMA StartFacts ==
  ASSUME TypeOK, NEW p \in Nat
  PROVE  /\ Start(p) \in Nat /\ Start(p) <= p /\ p < Start(p) + BufferSize
         /\ Offset(p) = p - Start(p) /\ Offset(p) \in Offsets
         /\ Block(p) * BufferSize = Start(p) /\ Offset(Start(p)) = 0
<1>1. BufferSize \in Nat \ {0} /\ Offsets = 0..(BufferSize - 1)
  BY BufferSizeFacts
<1>2. p % BufferSize \in 0..(BufferSize - 1)
  BY <1>1, DivisionFacts
<1>3. /\ p - (p % BufferSize) \in Nat /\ (p - (p % BufferSize)) % BufferSize = 0
      /\ p - (p % BufferSize) = (p \div BufferSize) * BufferSize
  BY <1>1, BlockStart
<1> QED
  BY <1>1, <1>2, <1>3 DEF Start, Offset, Block

\* A block boundary is the start of the block of the positions that follow it.
LEMMA StartIs ==
  ASSUME TypeOK, NEW s \in Nat, Offset(s) = 0, NEW p \in Nat, s <= p, p < s + BufferSize
  PROVE  Start(p) = s /\ Block(p) = Block(s)
<1>1. BufferSize \in Nat \ {0}
  BY BufferSizeFacts
<1>2. p % BufferSize = p - s /\ p \div BufferSize = s \div BufferSize
  BY ZenonT(30), <1>1, InBlock DEF Offset
<1> QED
  BY <1>2 DEF Start, Offset, Block

\* Positions of one block have one start.
LEMMA StartOfBlock ==
  ASSUME TypeOK, NEW p \in Nat, NEW q \in Nat, Block(p) = Block(q)
  PROVE  Start(p) = Start(q)
<1>1. BufferSize \in Nat \ {0}
  BY BufferSizeFacts
<1> QED
  BY <1>1, SameBlock DEF Start, Offset, Block

\* The end of a block is the start of the next one.
LEMMA BlockEnds ==
  ASSUME TypeOK, NEW p \in Nat, NEW q \in Nat, q = Start(p) + BufferSize
  PROVE  Offset(q) = 0 /\ Start(q) = q
<1>1. BufferSize \in Nat \ {0} /\ Start(p) \in Nat /\ Offset(Start(p)) = 0
  BY BufferSizeFacts, StartFacts
<1>2. Offset(q) = 0
  BY <1>1, NextBoundary DEF Offset
<1> QED
  BY <1>2 DEF Start

\* No operation changes what kind of bfile it works on, so blocks stay where
\* they are.
LEMMA SameFile ==
  ASSUME file' = file
  PROVE  /\ BufferSize' = BufferSize /\ Offsets' = Offsets
         /\ \A p : Start(p)' = Start(p) /\ Offset(p)' = Offset(p)
  BY DEF BufferSize, Offsets, Start, Offset

\* bf_create_r and bf_create_m.
LEMMA InitIInv == Init => IInv
<1> SUFFICES ASSUME Init PROVE IInv
  OBVIOUS
<1> USE BlockAssumption, FileAssumption
<1>1. TypeOK
  <2>1. buffer \in [Offsets -> Byte]
    BY DEF Init, Offsets, BufferSize
  <2>2. op \in [kind : Kinds, busy : BOOLEAN, n : Nat, left : Nat, from : 0..Size, out : Seq(Byte)]
    <3>1. <<>> \in Seq(Byte)
      BY EmptySeq
    <3> QED
      BY <3>1 DEF Init, Kinds
  <2> QED
    BY <2>1, <2>2 DEF Init, TypeOK, NotFilling, BufferSize
<1>2. SeekOK /\ Unread /\ Filling /\ Progress
  BY DEF Init, SeekOK, Unread, Filling, Progress
<1>3. Settled
  <2>1. pos = 0 /\ pos \in Nat /\ 0 \in Nat
    BY DEF Init
  <2>2. Start(pos) = 0 /\ Offset(pos) = 0
    BY <1>1, <2>1, StartFacts
  <2>3. CASE file
    BY <2>1, <2>2, <2>3 DEF Init, Settled
  <2>4. CASE ~file
    <3>1. ipos = Size /\ BufferSize = Size /\ buffer = Disk /\ view = Disk
      BY <2>4 DEF Init, BufferSize
    <3> QED
      BY <2>1, <2>2, <3>1 DEF Settled, BlockRead, Smaller
  <2> QED
    BY <2>3, <2>4
<1> QED
  BY <1>1, <1>2, <1>3 DEF IInv
-----------------------------------------------------------------------------
(* Every step preserves the invariant. *)

\* The record of a call, field by field.
LEMMA OpFacts ==
  ASSUME TypeOK
  PROVE  /\ op.kind \in Kinds /\ op.busy \in BOOLEAN /\ op.n \in Nat /\ op.left \in Nat
         /\ op.from \in 0..Size /\ op.out \in Seq(Byte)
         /\ op = [kind |-> op.kind, busy |-> op.busy, n |-> op.n, left |-> op.left,
                  from |-> op.from, out |-> op.out]
  BY DEF TypeOK

\* A step that leaves the block, its place and the counters alone keeps their parts.
LEMMA FrameFacts ==
  ASSUME IInv, UNCHANGED <<file, pos, ipos, buffer, fpos, fill, halted, view>>, op'.busy = op.busy \/ fill = NotFilling
  PROVE  SeekOK' /\ Unread' /\ Settled' /\ Filling' /\ BlockRead' = BlockRead
<1>1. BufferSize' = BufferSize /\ \A p : Start(p)' = Start(p) /\ Offset(p)' = Offset(p)
  BY SameFile
<1>2. BlockRead' = BlockRead
  BY <1>1 DEF BlockRead
<1> QED
  BY <1>1, <1>2 DEF IInv, SeekOK, Unread, Settled, Filling

\* A typed read, a block read or a look ahead begins.
LEMMA GetIInv == ASSUME IInv, NEW n \in Requests, bf_get(n) PROVE IInv'
<1> USE BlockAssumption, FileAssumption
<1>0. /\ op' = [kind |-> "get", busy |-> TRUE, n |-> n, left |-> n, from |-> pos, out |-> <<>>]
      /\ UNCHANGED <<file, pos, ipos, buffer, fpos, length, fill, halted, base, view>>
      /\ fill = NotFilling /\ n \in Nat /\ <<>> \in Seq(Byte) /\ pos \in 0..Size
  BY EmptySeq DEF bf_get, Begin, Idle, IInv, Filling, TypeOK
<1>1. TypeOK'
  BY <1>0, SameFile DEF IInv, TypeOK, Kinds
<1>2. SeekOK' /\ Unread' /\ Settled' /\ Filling'
  BY <1>0, FrameFacts
<1>3. Progress'
  BY <1>0 DEF Progress, GetProgress, Smaller
<1> QED
  BY <1>1, <1>2, <1>3 DEF IInv

\* bf_read crops the length to what is left of the file.
LEMMA ReadIInv == ASSUME IInv, NEW n \in Requests, bf_read(n) PROVE IInv'
<1> USE BlockAssumption, FileAssumption
<1>0. /\ op' = [kind |-> "read", busy |-> TRUE, n |-> n, left |-> Smaller(n, Size - pos), from |-> pos, out |-> <<>>]
      /\ UNCHANGED <<file, pos, ipos, buffer, fpos, length, fill, halted, base, view>>
      /\ fill = NotFilling /\ n \in Nat /\ <<>> \in Seq(Byte) /\ pos \in 0..Size
  BY EmptySeq DEF bf_read, Begin, Idle, IInv, Filling, TypeOK
<1>1. TypeOK'
  <2>1. Smaller(n, Size - pos) \in Nat
    BY <1>0 DEF Smaller
  <2> QED
    BY <1>0, <2>1, SameFile DEF IInv, TypeOK, Kinds
<1>2. SeekOK' /\ Unread' /\ Settled' /\ Filling'
  BY <1>0, FrameFacts
<1>3. Progress'
  BY <1>0 DEF Progress, ReadProgress, Smaller
<1> QED
  BY <1>1, <1>2, <1>3 DEF IInv

\* bf_peek_* refills when pos stands at the start of a block that is not read.
LEMMA PeekIInv == ASSUME IInv, bf_peek PROVE IInv'
<1> USE BlockAssumption, FileAssumption
<1>0. /\ op' = [kind |-> "peek", busy |-> TRUE, n |-> 2, left |-> 0, from |-> pos, out |-> <<>>]
      /\ UNCHANGED <<file, pos, ipos, buffer, fpos, length, halted, base, view>>
      /\ fill = NotFilling /\ halted = "no" /\ <<>> \in Seq(Byte) /\ pos \in 0..Size
      /\ fill' = IF Offset(pos) = 0 /\ pos = ipos THEN 0 ELSE fill
  BY EmptySeq DEF bf_peek, bf_read_buffer, Begin, Idle, IInv, Filling, TypeOK
<1>1. TypeOK'
  <2>1. fill' \in NotFilling..BufferSize
    BY <1>0, BufferSizeFacts DEF IInv, TypeOK, NotFilling
  <2> QED
    BY <1>0, <2>1, SameFile DEF IInv, TypeOK, Kinds
<1>2. CASE Offset(pos) = 0 /\ pos = ipos
  <2>1. fill' = 0 /\ fill' # NotFilling
    BY <1>0, <1>2 DEF NotFilling
  <2>2. Start(pos) = pos
    BY <1>0, <1>2, StartFacts DEF IInv
  <2>3. SeekOK' /\ Unread' /\ Settled'
    BY <1>0, <2>1 DEF IInv, SeekOK, Unread, Settled
  <2>4. Filling'
    BY <1>0, <1>2, <2>1, <2>2, SameFile DEF IInv, Filling, TypeOK
  <2>5. Progress'
    BY <1>0, <2>1 DEF Progress, PeekProgress
  <2> QED
    BY <1>1, <2>3, <2>4, <2>5 DEF IInv
<1>3. CASE ~(Offset(pos) = 0 /\ pos = ipos)
  <2>1. fill' = fill
    BY <1>0, <1>3
  <2>2. SeekOK' /\ Unread' /\ Settled' /\ Filling' /\ BlockRead' = BlockRead
    BY <1>0, <2>1, FrameFacts
  <2>3. BlockRead
    BY <1>0, <1>3 DEF IInv, Settled
  <2>4. Progress'
    BY <1>0, <2>1, <2>2, <2>3 DEF Progress, PeekProgress
  <2> QED
    BY <1>1, <2>2, <2>4 DEF IInv
<1> QED
  BY <1>2, <1>3

\* The calls return; another program shortens the file; nothing happens.
LEMMA ReturnIInv ==
  ASSUME IInv, Return \/ PeekReturn \/ Truncate \/ FreadNothing \/ UNCHANGED vars PROVE IInv'
<1> USE BlockAssumption, FileAssumption
<1>0. UNCHANGED <<file, pos, ipos, buffer, fpos, fill, halted, base, view>>
  BY DEF Return, PeekReturn, Truncate, FreadNothing, vars
<1>1. CASE Return
  <2>1. op' = [op EXCEPT !.busy = FALSE] /\ fill = NotFilling /\ length' = length
    BY <1>1 DEF Return, Running
  <2>2. TypeOK'
    BY <1>0, <2>1, SameFile DEF IInv, TypeOK
  <2>3. ~op'.busy
    BY <2>1, OpFacts DEF IInv
  <2> QED
    BY <1>0, <2>1, <2>2, <2>3, FrameFacts DEF IInv, Progress
<1>2. CASE PeekReturn
  <2> DEFINE answer == IF CannotPeek THEN <<0, 0>>
                       ELSE <<buffer[Offset(pos)], buffer[Offset(Offset(pos) + 1)]>>
  <2>1. op' = [op EXCEPT !.busy = FALSE, !.out = answer] /\ fill = NotFilling /\ length' = length
    BY <1>2 DEF PeekReturn, Running
  <2>2. answer \in Seq(Byte)
    <3>9. TypeOK
      BY DEF IInv
    <3>8. pos \in 0..Size
      BY <3>9 DEF TypeOK
    <3>0. TypeOK /\ pos \in Nat
      BY <3>8, <3>9
    <3>1. BufferSize \in Nat \ {0} /\ Offset(pos) \in Offsets
      BY <3>0, StartFacts, BufferSizeFacts
    <3>2. Offset(pos) + 1 \in Nat
      BY <3>0, <3>1, BufferSizeFacts
    <3>3. Offset(Offset(pos) + 1) \in Offsets
      BY <3>2, StartFacts DEF IInv
    <3>4. buffer[Offset(pos)] \in Byte /\ buffer[Offset(Offset(pos) + 1)] \in Byte
      BY <3>1, <3>3 DEF IInv, TypeOK
    <3> QED
      BY <3>4
  <2> HIDE DEF answer
  <2>3. TypeOK'
    BY <1>0, <2>1, <2>2, SameFile DEF IInv, TypeOK
  <2>4. ~op'.busy
    BY <2>1, OpFacts DEF IInv
  <2> QED
    BY <1>0, <2>1, <2>3, <2>4, FrameFacts DEF IInv, Progress
<1>3. CASE Truncate \/ FreadNothing \/ UNCHANGED vars
  <2>0. length \in 0..Size /\ (length' = length \/ length' \in 0..(Size - 1))
    BY <1>3 DEF Truncate, FreadNothing, vars, IInv, TypeOK
  <2>1. op' = op /\ length' \in 0..Size
    BY <1>3, <2>0 DEF Truncate, FreadNothing, vars
  <2>2. TypeOK'
    BY <1>0, <2>1, SameFile DEF IInv, TypeOK
  <2>3. SeekOK' /\ Unread' /\ Settled' /\ Filling' /\ BlockRead' = BlockRead
    BY <1>0, <2>1, FrameFacts
  <2>4. Progress'
    BY <1>0, <2>1, <2>3 DEF IInv, Progress, GetProgress, ReadProgress, PeekProgress, RewindProgress
  <2> QED
    BY <2>2, <2>3, <2>4 DEF IInv
<1> QED
  BY <1>1, <1>2, <1>3

\* fread puts the next bytes of the block behind those it has.
LEMMA FreadIInv == ASSUME IInv, NEW b \in 1..Size, Fread(b) PROVE IInv'
<1> USE BlockAssumption, FileAssumption
<1>0. TypeOK /\ pos \in Nat /\ ipos \in 0..Size /\ fill \in Nat /\ length \in 0..Size /\ fill # NotFilling
  BY DEF Fread, IInv, TypeOK, NotFilling
<1>1. BufferSize \in Nat \ {0} /\ Offsets = 0..(BufferSize - 1)
  BY <1>0, BufferSizeFacts
<1>2. /\ halted = "no" /\ ipos < Size /\ fpos = ipos /\ file
      /\ op.busy /\ Start(pos) = ipos - fill
      /\ \A i \in 0..(fill - 1) : buffer[i] = view[Start(pos) + i]
  BY <1>0 DEF Fread, IInv, SeekOK, Filling
<1>3. b \in Nat /\ 1 <= b /\ b <= BufferSize - fill /\ b <= length - fpos
  BY <1>0, <1>1, <1>2 DEF Fread, Smaller
<1>4. /\ UNCHANGED <<file, pos, length, op, halted, view>>
      /\ fill' = fill + b /\ ipos' = ipos + b /\ fpos' = fpos + b /\ base' = ipos - fill
      /\ buffer' = [i \in Offsets |-> IF i \in fill..(fill + b - 1) THEN Disk[fpos + i - fill] ELSE buffer[i]]
  BY DEF Fread
<1>5. Start(pos) \in Nat
  BY <1>0, StartFacts
<1>6. TypeOK'
  <2>1. buffer' \in [Offsets -> Byte]
    <3>1. \A i \in fill..(fill + b - 1) : Disk[fpos + i - fill] \in Byte
      BY <1>0, <1>2, <1>3
    <3>2. \A i \in Offsets : buffer[i] \in Byte
      BY <1>0 DEF TypeOK
    <3> QED
      BY <1>4, <3>1, <3>2
  <2>2. fill' \in NotFilling..BufferSize /\ ipos' \in 0..Size /\ fpos' \in 0..Size /\ base' \in 0..Size
    BY <1>0, <1>1, <1>2, <1>3, <1>4, <1>5 DEF NotFilling
  <2> QED
    BY <1>0, <1>4, <2>1, <2>2, SameFile DEF TypeOK
<1>7. SeekOK' /\ Unread' /\ Settled'
  <2>1. SeekOK'
    BY <1>2, <1>4 DEF SeekOK
  <2>2. Unread'
    BY <1>0, <1>3, <1>4 DEF IInv, Unread
  <2>3. Settled'
    BY <1>0, <1>3, <1>4 DEF Settled, NotFilling
  <2> QED
    BY <2>1, <2>2, <2>3
<1>8. Filling'
  <2>1. Start(pos)' = ipos' - fill' /\ Start(pos)' = Start(pos)
    BY <1>0, <1>2, <1>3, <1>4, SameFile
  <2>2. ASSUME NEW i \in 0..(fill' - 1) PROVE buffer'[i] = view'[Start(pos) + i]
    <3>1. i \in Offsets
      BY <1>0, <1>1, <1>3, <1>4
    <3>2. CASE i < fill
      <4>1. i \in 0..(fill - 1) /\ i \notin fill..(fill + b - 1)
        BY <1>0, <3>2
      <4> QED
        BY <1>2, <1>4, <3>1, <4>1
    <3>3. CASE i >= fill
      <4>1. i \in fill..(fill + b - 1)
        BY <1>0, <1>3, <1>4, <3>3
      <4>2. fpos + i - fill = Start(pos) + i /\ Start(pos) + i \in ipos..(Size - 1)
        BY <1>0, <1>2, <1>3, <4>1
      <4>3. view[Start(pos) + i] = Disk[Start(pos) + i]
        BY <4>2 DEF IInv, Unread
      <4> QED
        BY <1>4, <3>1, <4>1, <4>2, <4>3
    <3> QED
      BY <1>0, <3>2, <3>3
  <2> QED
    BY <1>2, <1>4, <2>1, <2>2 DEF Filling
<1>9. Progress'
  <2>1. fill' # NotFilling
    BY <1>0, <1>3, <1>4 DEF NotFilling
  <2> QED
    BY <1>4, <2>1 DEF IInv, Progress, GetProgress, ReadProgress, PeekProgress, RewindProgress
<1> QED
  BY <1>6, <1>7, <1>8, <1>9 DEF IInv

\* bf_read_buffer returns with the whole block, or with what is left of the file.
LEMMA FillEndsIInv == ASSUME IInv, FillEnds PROVE IInv'
<1> USE BlockAssumption, FileAssumption
<1>0. /\ TypeOK /\ pos \in Nat /\ pos <= Size /\ ipos \in 0..Size /\ fill \in Nat /\ fill # NotFilling
      /\ fill <= BufferSize
  BY DEF FillEnds, IInv, TypeOK, NotFilling
<1>1. BufferSize \in Nat \ {0}
  BY <1>0, BufferSizeFacts
<1>2. /\ halted = "no" /\ op.busy /\ Start(pos) = ipos - fill
      /\ \A i \in 0..(fill - 1) : buffer[i] = view[Start(pos) + i]
      /\ fill >= BufferSize \/ ipos >= Size
  BY <1>0 DEF FillEnds, IInv, Filling
<1>3. fill' = NotFilling /\ UNCHANGED <<file, pos, ipos, buffer, fpos, length, op, halted, base, view>>
  BY DEF FillEnds
<1>4. Start(pos) \in Nat /\ Start(pos) <= pos /\ pos < Start(pos) + BufferSize
  BY <1>0, StartFacts
<1>5. BlockRead /\ pos <= ipos
  BY <1>0, <1>1, <1>2, <1>4 DEF BlockRead, Smaller
<1>6. BlockRead' /\ Start(pos)' = Start(pos)
  BY <1>3, <1>5, SameFile DEF BlockRead
<1>7. TypeOK'
  <2>1. fill' \in NotFilling..BufferSize
    BY <1>1, <1>3 DEF NotFilling
  <2> QED
    BY <1>0, <1>3, <2>1, SameFile DEF TypeOK
<1>8. SeekOK' /\ Unread' /\ Filling'
  BY <1>3 DEF IInv, SeekOK, Unread, Filling
<1>9. Settled'
  <2>1. ASSUME NEW p \in Start(pos)..(ipos - 1) PROVE buffer[p - Start(pos)] = view[p]
    <3>1. p - Start(pos) \in 0..(fill - 1) /\ Start(pos) + (p - Start(pos)) = p
      BY <1>0, <1>2, <1>4
    <3> QED
      BY <1>2, <3>1
  <2> QED
    BY <1>3, <1>5, <1>6, <2>1 DEF Settled
<1>10. Progress'
  BY <1>3, <1>6 DEF IInv, Progress, GetProgress, ReadProgress, PeekProgress, RewindProgress
<1> QED
  BY <1>7, <1>8, <1>9, <1>10 DEF IInv

\* The next position after one of the block is in the block too, or at the
\* start of the next one.
LEMMA NextPosition ==
  ASSUME TypeOK, NEW p \in Nat, NEW d \in Nat, Offset(p) + d <= BufferSize
  PROVE  \/ Start(p + d) = Start(p) /\ p + d < Start(p) + BufferSize
         \/ p + d = Start(p) + BufferSize /\ Start(p + d) = p + d /\ Offset(p + d) = 0
<1>1. BufferSize \in Nat \ {0}
  BY BufferSizeFacts
<1>2. Start(p) \in Nat /\ Start(p) <= p /\ Offset(p) = p - Start(p) /\ Offset(Start(p)) = 0
  BY StartFacts
<1>3. p + d \in Nat /\ Start(p) <= p + d /\ p + d <= Start(p) + BufferSize
  BY <1>1, <1>2
<1>4. CASE p + d < Start(p) + BufferSize
  BY <1>2, <1>3, <1>4, StartIs
<1>5. CASE p + d = Start(p) + BufferSize
  BY <1>3, <1>5, BlockEnds
<1> QED
  BY <1>1, <1>2, <1>3, <1>4, <1>5

\* A call moves pos forward over bytes of the block: the rest of the block
\* stays as it was.
LEMMA SettledMoves ==
  ASSUME IInv, fill = NotFilling, halted = "no", NEW d \in Nat,
         Offset(pos) + d <= BufferSize, pos + d <= ipos, pos < ipos,
         pos' = pos + d, UNCHANGED <<file, ipos, buffer, fpos, fill, halted, view>>
  PROVE  SeekOK' /\ Unread' /\ Settled' /\ Filling'
<1>1. TypeOK /\ pos \in Nat /\ ipos \in Nat /\ Size \in Nat
  BY FileAssumption DEF IInv, TypeOK
<1>2. BufferSize \in Nat \ {0}
  BY <1>1, BufferSizeFacts
<1>3. SeekOK' /\ Unread' /\ Filling'
  BY DEF IInv, SeekOK, Unread, Filling
<1>4. BlockRead /\ \A p \in Start(pos)..(ipos - 1) : buffer[p - Start(pos)] = view[p]
  BY <1>1 DEF IInv, Settled
<1>5. Start(pos)' = Start(pos + d) /\ BufferSize' = BufferSize /\ Offset(pos)' = Offset(pos + d)
  BY SameFile
<1>8. Settled'
  <2>6. CASE Start(pos + d) = Start(pos)
    BY <1>4, <1>5, <2>6 DEF Settled, BlockRead
  <2>7. CASE pos + d = Start(pos) + BufferSize /\ Start(pos + d) = pos + d /\ Offset(pos + d) = 0
    <3>1. ipos = pos + d
      BY <1>1, <1>2, <1>4, <2>7 DEF BlockRead, Smaller
    <3> QED
      BY <1>1, <1>5, <2>7, <3>1 DEF Settled
  <2> QED
    BY <1>1, <2>6, <2>7, NextPosition
<1> QED
  BY <1>3, <1>8

\* A call finds pos at the end of what has been read, before the end of the
\* file, and runs bf_read_buffer.
LEMMA RefillBegins ==
  ASSUME IInv, fill = NotFilling, halted = "no", op.busy, pos >= ipos, pos # Size,
         bf_read_buffer, UNCHANGED <<file, pos, ipos, buffer, fpos, length, halted, base, view, op>>
  PROVE  IInv'
<1>1. TypeOK /\ pos \in Nat /\ ipos \in Nat /\ pos <= Size /\ Size \in Nat
  BY FileAssumption DEF IInv, TypeOK
<1>2. BufferSize \in Nat \ {0}
  BY <1>1, BufferSizeFacts
<1>3. pos = ipos /\ (BlockRead \/ Offset(pos) = 0)
  BY <1>1 DEF IInv, Settled
<1>4. Start(pos) = pos
  <2>1. Start(pos) \in Nat /\ Start(pos) <= pos /\ pos < Start(pos) + BufferSize /\ Offset(pos) = pos - Start(pos)
    BY <1>1, StartFacts
  <2>2. ~BlockRead
    BY <1>1, <1>2, <1>3, <2>1 DEF BlockRead, Smaller
  <2> QED
    BY <1>1, <1>3, <2>1, <2>2
<1>5. fill' = 0 /\ fill' # NotFilling
  BY DEF bf_read_buffer, NotFilling
<1>6. TypeOK'
  <2>1. fill' \in NotFilling..BufferSize
    BY <1>2, <1>5 DEF NotFilling
  <2> QED
    BY <1>1, <2>1, SameFile DEF TypeOK
<1>7. SeekOK' /\ Unread' /\ Settled'
  BY <1>5 DEF IInv, SeekOK, Unread, Settled
<1>8. Filling'
  BY <1>1, <1>3, <1>4, <1>5, SameFile DEF Filling
<1>9. Progress'
  BY <1>5 DEF IInv, Progress, GetProgress, ReadProgress, PeekProgress, RewindProgress
<1> QED
  BY <1>6, <1>7, <1>8, <1>9 DEF IInv

\* bf_get_uint8 appends 0 at the end of the file, the byte at pos elsewhere.
LEMMA GetByteIInv == ASSUME IInv, GetByte PROVE IInv'
<1> USE BlockAssumption, FileAssumption
<1>0. /\ TypeOK /\ pos \in Nat /\ pos <= Size /\ ipos \in 0..Size
      /\ fill = NotFilling /\ halted = "no" /\ op.busy /\ op.kind = "get" /\ op.left > 0
      /\ UNCHANGED <<file, ipos, buffer, fpos, length, halted, base, view>>
  BY SMTT(30) DEF GetByte, Running, IInv, TypeOK
<1>1. BufferSize \in Nat \ {0} /\ Offsets = 0..(BufferSize - 1)
  BY <1>0, BufferSizeFacts
<1>2. /\ op.n \in Nat /\ op.left \in Nat /\ op.from \in 0..Size /\ op.out \in Seq(Byte)
      /\ op.n = op.left + Len(op.out) /\ Len(op.out) \in Nat
      /\ pos = Smaller(op.from + Len(op.out), Size)
  BY <1>0, OpFacts DEF IInv, Progress, GetProgress
<1>7. \A i \in 1..Len(op.out) : op.out[i] = IF op.from + i - 1 < Size THEN view[op.from + i - 1] ELSE 0
  BY <1>0 DEF IInv, Progress, GetProgress
<1>3. ASSUME NEW v \in Byte, op' = [op EXCEPT !.left = @ - 1, !.out = Append(@, v)],
             v = IF op.from + Len(op.out) < Size THEN view[op.from + Len(op.out)] ELSE 0,
             pos' = Smaller(op.from + (Len(op.out) + 1), Size), fill' = fill
      PROVE  TypeOK' /\ Progress'
  <2>1. /\ op'.left = op.left - 1 /\ op'.out = Append(op.out, v) /\ op'.kind = "get"
        /\ op'.n = op.n /\ op'.from = op.from
    BY <1>0, <1>3, OpFacts
  <2>2. /\ op'.out \in Seq(Byte) /\ Len(op'.out) = Len(op.out) + 1
        /\ op'.out[Len(op.out) + 1] = v /\ \A i \in 1..Len(op.out) : op'.out[i] = op.out[i]
    BY <1>2, <2>1, AppendProperties
  <2>3. TypeOK'
    <3>0. pos' = Smaller(op.from + (Len(op.out) + 1), Size)
      BY <1>3
    <3>3. op.left \in Nat /\ op.left > 0 /\ op'.left = op.left - 1
      BY <1>0, <1>2, <2>1
    <3>4. op.from \in 0..Size /\ Len(op.out) \in Nat
      BY <1>2
    <3>1. op'.left \in Nat /\ pos' \in 0..Size
      BY SMTT(30), <3>0, <3>3, <3>4 DEF Smaller
    <3>2. op' \in [kind : Kinds, busy : BOOLEAN, n : Nat, left : Nat, from : 0..Size, out : Seq(Byte)]
      BY <1>0, <1>3, <2>1, <2>2, <3>1 DEF TypeOK
    <3> QED
      BY <1>0, <1>3, <3>1, <3>2, SameFile DEF TypeOK
  <2>4. ASSUME NEW i \in 1..Len(op'.out)
        PROVE  op'.out[i] = IF op.from + i - 1 < Size THEN view[op.from + i - 1] ELSE 0
    <3>1. CASE i <= Len(op.out)
      BY SMTT(30), <1>2, <1>7, <2>2, <3>1
    <3>2. CASE i = Len(op.out) + 1
      <4>1. op.from + i - 1 = op.from + Len(op.out)
        BY <1>2, <3>2
      <4> QED
        BY <1>3, <2>2, <3>2, <4>1
    <3> QED
      BY SMTT(30), <1>2, <2>2, <3>1, <3>2
  <2>5. GetProgress'
    <3>1. pos' = Smaller(op.from + (Len(op.out) + 1), Size) /\ view' = view
      BY <1>0, <1>3
    <3>3. op.n = op.left + Len(op.out) /\ op.left \in Nat /\ Len(op.out) \in Nat
      BY <1>2
    <3>4. op'.left = op.left - 1 /\ op'.n = op.n /\ op'.from = op.from /\ Len(op'.out) = Len(op.out) + 1
      BY <2>1, <2>2
    <3>2. op'.n = op'.left + Len(op'.out) /\ pos' = Smaller(op'.from + Len(op'.out), Size)
      BY <3>1, <3>3, <3>4
    <3> QED
      BY <2>1, <2>4, <3>1, <3>2 DEF GetProgress
  <2> QED
    BY <2>1, <2>3, <2>5 DEF Progress
<1>4. CASE /\ pos = Size /\ op' = [op EXCEPT !.left = @ - 1, !.out = Append(@, 0)]
           /\ UNCHANGED <<pos, fill>>
  <2>0. pos = Size /\ pos' = pos
    BY <1>4
  <2>1. ~(op.from + Len(op.out) < Size) /\ pos' = Smaller(op.from + (Len(op.out) + 1), Size)
    BY <1>2, <2>0 DEF Smaller
  <2>2. TypeOK' /\ Progress'
    BY <1>3, <1>4, <2>1
  <2>3. op'.busy
    BY <1>0, <1>4, OpFacts
  <2>4. SeekOK' /\ Unread' /\ Settled' /\ Filling'
    BY <1>0, <1>4, FrameFacts
  <2> QED
    BY <2>2, <2>4 DEF IInv
<1>5. CASE pos # Size /\ ipos - pos < 1 /\ bf_read_buffer /\ UNCHANGED <<op, pos>>
  <2>1. pos >= ipos
    BY <1>0, <1>5
  <2> QED
    BY <1>0, <1>5, <2>1, RefillBegins
<1>6. CASE /\ pos # Size /\ ipos - pos >= 1
           /\ op' = [op EXCEPT !.left = @ - 1, !.out = Append(@, buffer[Offset(pos)])]
           /\ pos' = pos + 1 /\ UNCHANGED fill
  <2>1. /\ Start(pos) \in Nat /\ Start(pos) <= pos /\ Offset(pos) = pos - Start(pos) /\ Offset(pos) \in Offsets
    BY <1>0, StartFacts
  <2>2. pos \in Start(pos)..(ipos - 1)
    BY <1>0, <1>6, <2>1
  <2>3. buffer[Offset(pos)] = view[pos] /\ buffer[Offset(pos)] \in Byte
    BY <1>0, <2>1, <2>2 DEF IInv, Settled, TypeOK
  <2>4. /\ pos = op.from + Len(op.out) /\ pos < Size
        /\ pos' = Smaller(op.from + (Len(op.out) + 1), Size)
    <3>1. pos # Size /\ pos <= Size /\ pos' = pos + 1
      BY <1>0, <1>6
    <3>2. op.from \in 0..Size /\ Len(op.out) \in Nat /\ pos = Smaller(op.from + Len(op.out), Size)
      BY <1>2
    <3> QED
      BY <3>1, <3>2 DEF Smaller
  <2>5. TypeOK' /\ Progress'
    BY <1>3, <1>6, <2>3, <2>4
  <2>6. Offset(pos) + 1 <= BufferSize /\ pos + 1 <= ipos /\ pos < ipos /\ 1 \in Nat
    BY <1>0, <1>1, <1>6, <2>1
  <2>7. SeekOK' /\ Unread' /\ Settled' /\ Filling'
    BY <1>0, <1>6, <2>6, SettledMoves
  <2> QED
    BY <2>5, <2>7 DEF IInv
<1> QED
  BY <1>4, <1>5, <1>6 DEF GetByte

\* Concatenation of byte sequences.
LEMMA ConcatBytes ==
  ASSUME NEW s \in Seq(Byte), NEW t \in Seq(Byte)
  PROVE  /\ s \o t \in Seq(Byte)
         /\ Len(s \o t) = Len(s) + Len(t)
         /\ \A i \in 1..(Len(s) + Len(t)) : (s \o t)[i] = IF i <= Len(s) THEN s[i] ELSE t[i - Len(s)]
  BY ConcatProperties

\* The part of the block that a round of bf_read copies: it is not empty, it
\* lies below ipos and it holds the bytes from pos on.
LEMMA ChunkFacts ==
  ASSUME IInv, Running("read"), op.left > 0, pos < ipos
  PROVE  /\ CopyLength \in Nat /\ CopyLength <= op.left
         /\ Offset(pos) + CopyLength <= BufferSize /\ pos + CopyLength <= ipos
         /\ \A i \in 1..CopyLength : /\ buffer[Offset(pos) + i - 1] \in Byte
                                     /\ buffer[Offset(pos) + i - 1] = view[pos + i - 1]
<1> USE FileAssumption
<1>0. TypeOK /\ pos \in Nat /\ ipos \in Nat /\ fill = NotFilling /\ halted = "no"
  BY DEF Running, IInv, TypeOK
<1>1. BufferSize \in Nat \ {0} /\ Offsets = 0..(BufferSize - 1)
  BY <1>0, BufferSizeFacts
<1>2. Start(pos) \in Nat /\ Start(pos) <= pos /\ pos < Start(pos) + BufferSize /\ Offset(pos) = pos - Start(pos)
  BY <1>0, StartFacts
<1>3. op.n \in Nat /\ op.left \in Nat /\ op.from \in 0..Size /\ Len(op.out) \in Nat
  BY <1>0, OpFacts
<1>4. op.left + Len(op.out) = Smaller(op.n, Size - op.from) /\ pos = op.from + Len(op.out)
  BY <1>0 DEF Running, IInv, Progress, ReadProgress
<1>5. pos + op.left <= Size
  BY SMTT(30), <1>3, <1>4 DEF Smaller
<1>6. BlockRead /\ \A p \in Start(pos)..(ipos - 1) : buffer[p - Start(pos)] = view[p]
  BY <1>0 DEF IInv, Settled
<1>7. /\ CopyLength \in Nat /\ CopyLength <= op.left
      /\ Offset(pos) + CopyLength <= BufferSize
  BY <1>0, <1>1, <1>2, <1>3 DEF CopyLength, Smaller
<1>8. pos + CopyLength <= ipos
  BY SMTT(30), <1>0, <1>1, <1>2, <1>3, <1>5, <1>6, <1>7 DEF BlockRead, Smaller
<1>9. ASSUME NEW i \in 1..CopyLength
      PROVE  buffer[Offset(pos) + i - 1] \in Byte /\ buffer[Offset(pos) + i - 1] = view[pos + i - 1]
  <2>1. pos + i - 1 \in Start(pos)..(ipos - 1) /\ Offset(pos) + i - 1 = (pos + i - 1) - Start(pos)
    BY <1>0, <1>2, <1>7, <1>8
  <2>2. Offset(pos) + i - 1 \in Offsets
    BY <1>0, <1>1, <1>2, <1>7
  <2>3. buffer[Offset(pos) + i - 1] \in Byte
    BY <1>0, <2>2 DEF TypeOK
  <2> QED
    BY <1>6, <2>1, <2>3
<1> QED
  BY <1>7, <1>8, <1>9

\* A round of bf_read copies the rest of the block, or refills it.
LEMMA ReadChunkIInv == ASSUME IInv, ReadChunk PROVE IInv'
<1> USE BlockAssumption, FileAssumption
<1>0. /\ TypeOK /\ pos \in Nat /\ ipos \in Nat
      /\ fill = NotFilling /\ halted = "no" /\ op.busy /\ op.kind = "read" /\ op.left > 0 /\ Running("read")
      /\ UNCHANGED <<file, ipos, buffer, fpos, length, halted, base, view>>
  BY SMTT(30) DEF ReadChunk, Running, IInv, TypeOK
<1>1. op.n \in Nat /\ op.left \in Nat /\ op.from \in 0..Size /\ Len(op.out) \in Nat
  BY <1>0, OpFacts
<1>2. op.left + Len(op.out) = Smaller(op.n, Size - op.from) /\ pos = op.from + Len(op.out)
  BY <1>0 DEF IInv, Progress, ReadProgress
<1>3. \A i \in 1..Len(op.out) : op.out[i] = view[op.from + i - 1]
  BY <1>0 DEF IInv, Progress, ReadProgress
<1>4. CASE pos >= ipos /\ bf_read_buffer /\ UNCHANGED <<op, pos>>
  <2>1. pos # Size
    BY <1>0, <1>1, <1>2 DEF Smaller
  <2> QED
    BY <1>0, <1>4, <2>1, RefillBegins
<1>5. CASE /\ pos < ipos
           /\ op' = [op EXCEPT !.left = @ - CopyLength,
                               !.out = @ \o [i \in 1..CopyLength |-> buffer[Offset(pos) + i - 1]]]
           /\ pos' = pos + CopyLength /\ UNCHANGED fill
  <2> DEFINE c == CopyLength
             chunk == [i \in 1..c |-> buffer[Offset(pos) + i - 1]]
  <2>1. /\ c \in Nat /\ c <= op.left /\ Offset(pos) + c <= BufferSize /\ pos + c <= ipos
        /\ \A i \in 1..c : /\ buffer[Offset(pos) + i - 1] \in Byte
                           /\ buffer[Offset(pos) + i - 1] = view[pos + i - 1]
    BY <1>0, <1>5, ChunkFacts
  <2>2. chunk \in Seq(Byte) /\ Len(chunk) = c /\ \A i \in 1..c : chunk[i] = view[pos + i - 1]
    BY <2>1
  <2> HIDE DEF chunk
  <2>3. /\ op'.left = op.left - c /\ op'.out = op.out \o chunk /\ op'.kind = "read" /\ op'.busy
        /\ op'.n = op.n /\ op'.from = op.from /\ pos' = pos + c
    BY <1>0, <1>5, OpFacts DEF chunk
  <2> HIDE DEF c
  <2>4. /\ op'.out \in Seq(Byte) /\ Len(op'.out) = Len(op.out) + c
        /\ \A i \in 1..(Len(op.out) + c) :
             op'.out[i] = IF i <= Len(op.out) THEN op.out[i] ELSE chunk[i - Len(op.out)]
    <3>1. op.out \in Seq(Byte)
      BY <1>0, OpFacts
    <3> QED
      BY SMTT(30), <2>2, <2>3, <3>1, ConcatBytes
  <2>5. TypeOK'
    <3>1. op'.left \in Nat
      <4>1. op.left \in Nat /\ op'.left = op.left - c /\ c \in Nat /\ c <= op.left
        BY <1>1, <2>1, <2>3
      <4> QED
        BY <4>1
    <3>2. pos' \in 0..Size
      <4>1. pos' = pos + c /\ c \in Nat /\ pos + c <= ipos /\ ipos \in 0..Size
        BY <1>0, <2>1, <2>3 DEF TypeOK
      <4> QED
        BY <1>0, <4>1
    <3>3. op' \in [kind : Kinds, busy : BOOLEAN, n : Nat, left : Nat, from : 0..Size, out : Seq(Byte)]
      BY <1>0, <1>5, <2>3, <2>4, <3>1 DEF TypeOK
    <3> QED
      BY <1>0, <1>5, <3>2, <3>3, SameFile DEF TypeOK
  <2>6. SeekOK' /\ Unread' /\ Settled' /\ Filling'
    BY <1>0, <1>5, <2>1, <2>3, SettledMoves
  <2>7. op'.left + Len(op'.out) = Smaller(op'.n, Size - op'.from) /\ pos' = op'.from + Len(op'.out)
    <3>1. /\ op'.left = op.left - c /\ op'.n = op.n /\ op'.from = op.from /\ pos' = pos + c
          /\ Len(op'.out) = Len(op.out) + c /\ c \in Nat
      BY <2>1, <2>3, <2>4
    <3>4. pos = op.from + Len(op.out)
      BY <1>2
    <3>5. op'.left + Len(op'.out) = op.left + Len(op.out)
      BY <1>1, <3>1
    <3>6. pos' = op'.from + Len(op'.out)
      BY <1>1, <3>1, <3>4
    <3>2. op'.left + Len(op'.out) = op.left + Len(op.out) /\ pos' = op'.from + Len(op'.out)
      BY <3>5, <3>6
    <3>3. Smaller(op'.n, Size - op'.from) = Smaller(op.n, Size - op.from)
      BY <3>1
    <3> QED
      BY <1>2, <3>2, <3>3
  <2>8. ASSUME NEW i \in 1..Len(op'.out) PROVE op'.out[i] = view[op.from + i - 1]
    <3>0. i \in 1..(Len(op.out) + c) /\ i \in Nat /\ c \in Nat
      BY <1>1, <2>1, <2>4
    <3>1. CASE i <= Len(op.out)
      BY <1>1, <1>3, <2>4, <3>0, <3>1
    <3>2. CASE i > Len(op.out)
      <4>1. i - Len(op.out) \in 1..c /\ pos + (i - Len(op.out)) - 1 = op.from + i - 1
        BY <1>1, <1>2, <3>0, <3>2
      <4>2. op'.out[i] = chunk[i - Len(op.out)]
        BY <1>1, <2>4, <3>0, <3>2
      <4>3. chunk[i - Len(op.out)] = view[pos + (i - Len(op.out)) - 1]
        BY <2>2, <4>1
      <4> QED
        BY <4>1, <4>2, <4>3
    <3> QED
      BY <1>1, <3>0, <3>1, <3>2
  <2>9. Progress'
    <3>1. view' = view
      BY <1>0
    <3> QED
      BY <2>3, <2>7, <2>8, <3>1 DEF Progress, ReadProgress
  <2> QED
    BY <2>5, <2>6, <2>9 DEF IInv
<1> QED
  BY <1>4, <1>5 DEF ReadChunk

\* bf_rewind stays in the block and what was read of it, or seeks to the start
\* of an earlier block.
LEMMA RewindIInv == ASSUME IInv, NEW n \in Requests, bf_rewind(n) PROVE IInv'
<1> USE BlockAssumption, FileAssumption
<1> DEFINE newpos == pos - Smaller(n, pos)
<1>8. TypeOK /\ Filling /\ ~op.busy /\ halted = "no"
  BY DEF bf_rewind, Idle, IInv
<1>0. /\ TypeOK /\ pos \in Nat /\ pos <= Size /\ ipos \in Nat /\ n \in Nat
      /\ fill = NotFilling /\ halted = "no"
  <2>1. pos \in 0..Size /\ ipos \in 0..Size
    BY <1>8 DEF TypeOK
  <2> QED
    BY <1>8, <2>1 DEF Filling
<1>1. newpos \in Nat /\ newpos <= pos
  BY <1>0 DEF Smaller
<1>2. /\ pos' = newpos
      /\ op' = [kind |-> "rewind", busy |-> TRUE, n |-> n, left |-> 0, from |-> pos, out |-> <<>>]
      /\ UNCHANGED <<file, buffer, length, base>>
  BY DEF bf_rewind, Begin
<1>3. BufferSize \in Nat \ {0}
  BY <1>0, BufferSizeFacts
<1>4. Progress'
  BY <1>2 DEF Progress, RewindProgress
<1>5. op' \in [kind : Kinds, busy : BOOLEAN, n : Nat, left : Nat, from : 0..Size, out : Seq(Byte)]
  <2>1. pos \in 0..Size /\ <<>> \in Seq(Byte)
    BY <1>0, EmptySeq
  <2> QED
    BY <1>0, <1>2, <2>1 DEF Kinds
<1>6. CASE Block(newpos) < Block(pos)
  <2>1. /\ ipos' = Block(newpos) * BufferSize /\ fpos' = ipos' /\ fill' = 0 /\ view' = Disk
        /\ halted' = IF file THEN halted ELSE "null seek"
    BY <1>6 DEF bf_rewind, bf_read_buffer
  <2>7. fill' = 0 /\ fpos' = ipos'
    BY <2>1
  <2>2. /\ Start(newpos) \in Nat /\ Start(newpos) <= newpos /\ ipos' = Start(newpos)
    BY <1>0, <1>1, <2>1, StartFacts
  <2>3. TypeOK'
    <3>1. fill' \in NotFilling..BufferSize /\ ipos' \in 0..Size /\ fpos' \in 0..Size /\ pos' \in 0..Size
      BY <1>0, <1>1, <1>2, <1>3, <2>2, <2>7 DEF NotFilling
    <3>2. halted' \in {"no", "null seek", "unget assert"}
      BY <1>0, <2>1
    <3> QED
      BY <1>0, <1>2, <1>5, <2>1, <3>1, <3>2, SameFile DEF TypeOK
  <2>4. fill' # NotFilling
    BY <2>7 DEF NotFilling
  <2>5. SeekOK' /\ Unread' /\ Settled'
    BY <1>0, <1>2, <2>1, <2>4 DEF SeekOK, Unread, Settled
  <2>6. Filling'
    <3>1. Start(pos)' = ipos' - fill' /\ op'.busy
      <4>1. Start(pos)' = Start(newpos)
        BY <1>2, SameFile
      <4> QED
        BY <1>2, <2>2, <2>7, <4>1
    <3> QED
      BY <2>1, <3>1 DEF Filling
  <2> QED
    BY <1>4, <2>3, <2>5, <2>6 DEF IInv
<1>7. CASE ~(Block(newpos) < Block(pos))
  <2>1. UNCHANGED <<ipos, fpos, halted, fill, view>>
    BY <1>7 DEF bf_rewind
  <2>2. Start(newpos) = Start(pos)
    <3>1. Block(newpos) <= Block(pos) /\ Block(newpos) \in Nat /\ Block(pos) \in Nat
      BY <1>0, <1>1, <1>3, BlockOrder, DivisionFacts DEF Block
    <3>2. Block(newpos) = Block(pos)
      BY <1>7, <3>1
    <3> QED
      BY <1>0, <1>1, <3>2, StartOfBlock
  <2>3. TypeOK'
    <3>1. pos' \in 0..Size
      BY <1>0, <1>1, <1>2
    <3> QED
      BY <1>0, <1>2, <1>5, <2>1, <3>1, SameFile DEF TypeOK
  <2>4. SeekOK' /\ Unread' /\ Filling'
    BY <1>0, <1>2, <2>1 DEF IInv, SeekOK, Unread, Filling
  <2>5. Settled'
    <3>1. /\ pos <= ipos
          /\ BlockRead \/ (pos = ipos /\ Offset(pos) = 0)
          /\ \A p \in Start(pos)..(ipos - 1) : buffer[p - Start(pos)] = view[p]
      BY <1>0 DEF IInv, Settled
    <3>2. Start(pos)' = Start(pos) /\ BufferSize' = BufferSize /\ Offset(pos)' = Offset(newpos)
      BY <1>2, <2>2, SameFile
    <3>3. pos' <= ipos'
      BY <1>0, <1>1, <1>2, <2>1, <3>1
    <3>4. BlockRead' \/ (pos' = ipos' /\ Offset(pos)' = 0)
      <4>1. CASE BlockRead
        BY <2>1, <3>2, <4>1 DEF BlockRead
      <4>2. CASE pos = ipos /\ Offset(pos) = 0
        <5>1. Start(pos) = pos /\ Start(newpos) <= newpos
          BY <1>0, <1>1, <4>2, StartFacts
        <5>2. newpos = pos
          BY <1>0, <1>1, <2>2, <5>1
        <5> QED
          BY <1>2, <2>1, <3>2, <4>2, <5>2
      <4> QED
        BY <3>1, <4>1, <4>2
    <3> QED
      BY <1>2, <2>1, <3>1, <3>2, <3>3, <3>4 DEF Settled
  <2> QED
    BY <1>4, <2>3, <2>4, <2>5 DEF IInv
<1> QED
  BY <1>6, <1>7

\* bf_unget_uint32_be overwrites the four bytes before pos, in the block and in
\* what the client will read, and moves back over them.
LEMMA UngetIInv == ASSUME IInv, UngetSwapped PROVE IInv'
<1> USE BlockAssumption, FileAssumption
<1> DEFINE bytes == Swapped(op.out)
           at == Offset(pos) - 4
<1>1. TypeOK /\ Filling /\ Settled /\ SeekOK /\ Unread /\ ~op.busy /\ halted = "no" /\ file
  BY DEF UngetSwapped, bf_unget, Idle, IInv
<1>2. pos \in Nat /\ pos <= Size /\ ipos \in Nat /\ ipos <= Size /\ fill = NotFilling
  <2>1. pos \in 0..Size /\ ipos \in 0..Size
    BY <1>1 DEF TypeOK
  <2> QED
    BY <1>1, <2>1 DEF Filling
<1>3. BufferSize \in Nat \ {0} /\ Offsets = 0..(BufferSize - 1)
  BY <1>1, BufferSizeFacts
<1>4. /\ Start(pos) \in Nat /\ Start(pos) <= pos /\ pos < Start(pos) + BufferSize
      /\ Offset(pos) = pos - Start(pos) /\ Offset(Start(pos)) = 0
  BY <1>1, <1>2, StartFacts
<1>5. bytes \in Seq(Byte) /\ \A i \in 1..4 : bytes[i] \in Byte
  <2>1. op.out \in Seq(Byte) /\ Len(op.out) = 4
    BY <1>1, OpFacts DEF UngetSwapped
  <2>2. op.out[1] \in Byte /\ op.out[2] \in Byte /\ op.out[3] \in Byte /\ op.out[4] \in Byte
    BY <2>1
  <2> QED
    BY <2>2 DEF Swapped
<1> HIDE DEF bytes
<1>6. UNCHANGED <<file, ipos, fpos, length, fill, base>>
  BY DEF UngetSwapped, bf_unget
<1>7. CASE at < 0
  <2>1. halted' = "unget assert" /\ UNCHANGED <<pos, buffer, op, view>>
    BY <1>7 DEF UngetSwapped, bf_unget
  <2>2. TypeOK'
    BY <1>1, <1>6, <2>1, SameFile DEF TypeOK
  <2>3. SeekOK' /\ Unread' /\ Settled' /\ Filling'
    BY <1>1, <1>6, <2>1 DEF SeekOK, Unread, Settled, Filling
  <2>4. Progress'
    BY <1>1, <2>1 DEF Progress
  <2> QED
    BY <2>2, <2>3, <2>4 DEF IInv
<1>8. CASE ~(at < 0)
  <2>1. /\ buffer' = [i \in Offsets |-> IF i \in at..(at + 3) THEN bytes[i - at + 1] ELSE buffer[i]]
        /\ view' = [i \in 0..(Size - 1) |-> IF i \in (pos - 4)..(pos - 1) THEN bytes[i - pos + 5] ELSE view[i]]
        /\ pos' = pos - 4 /\ halted' = halted
        /\ op' = [kind |-> "unget", busy |-> FALSE, n |-> 4, left |-> 0, from |-> pos, out |-> bytes]
    BY <1>8 DEF UngetSwapped, bf_unget, bytes
  <2>2. at \in Nat /\ at = pos - 4 - Start(pos) /\ pos - 4 \in Nat /\ Start(pos) <= pos - 4
    BY <1>2, <1>4, <1>8
  <2>3. Start(pos - 4) = Start(pos)
    <3>1. pos - 4 < Start(pos) + BufferSize
      BY <1>2, <1>3, <1>4
    <3> QED
      BY <1>1, <1>2, <1>4, <2>2, <3>1, StartIs
  <2> HIDE DEF at
  <2>4. TypeOK'
    <3>1. buffer' \in [Offsets -> Byte]
      <4>1. \A i \in at..(at + 3) : bytes[i - at + 1] \in Byte
        <5> SUFFICES ASSUME NEW i \in at..(at + 3) PROVE bytes[i - at + 1] \in Byte
          OBVIOUS
        <5>1. i - at + 1 \in 1..4
          BY SMTT(30), <2>2
        <5> QED
          BY <1>5, <5>1
      <4>2. \A i \in Offsets : buffer[i] \in Byte
        BY <1>1 DEF TypeOK
      <4> QED
        BY <2>1, <4>1, <4>2
    <3>2. view' \in [0..(Size - 1) -> Byte]
      <4>1. \A i \in (pos - 4)..(pos - 1) : bytes[i - pos + 5] \in Byte
        <5> SUFFICES ASSUME NEW i \in (pos - 4)..(pos - 1) PROVE bytes[i - pos + 5] \in Byte
          OBVIOUS
        <5>1. i - pos + 5 \in 1..4
          BY <1>2, <2>2
        <5> QED
          BY <1>5, <5>1
      <4>2. \A i \in 0..(Size - 1) : view[i] \in Byte
        BY <1>1 DEF TypeOK
      <4> QED
        BY <2>1, <4>1, <4>2
    <3>3. op' \in [kind : Kinds, busy : BOOLEAN, n : Nat, left : Nat, from : 0..Size, out : Seq(Byte)]
      <4>1. pos \in 0..Size
        BY <1>2
      <4> QED
        BY <1>5, <2>1, <4>1 DEF Kinds
    <3>4. pos' \in 0..Size
      BY <1>2, <2>1, <2>2
    <3> QED
      BY <1>1, <1>6, <2>1, <3>1, <3>2, <3>3, <3>4, SameFile DEF TypeOK
  <2>5. pos <= ipos
    BY <1>1, <1>2 DEF Settled
  <2>6. Unread'
    <3>1. ASSUME NEW p \in ipos..(Size - 1) PROVE view'[p] = Disk[p]
      <4>1. p \in 0..(Size - 1) /\ p \notin (pos - 4)..(pos - 1)
        BY <1>2, <2>5
      <4>2. view'[p] = view[p]
        BY <2>1, <4>1
      <4> QED
        BY <1>1, <4>2 DEF Unread
    <3> QED
      BY <1>6, <3>1 DEF Unread
  <2>7. Settled'
    <3>1. /\ BlockRead \/ (pos = ipos /\ Offset(pos) = 0)
          /\ \A p \in Start(pos)..(ipos - 1) : buffer[p - Start(pos)] = view[p]
      BY <1>1, <1>2 DEF Settled
    <3>2. BlockRead
      BY <1>2, <1>4, <2>2, <3>1
    <3>3. Start(pos)' = Start(pos) /\ BufferSize' = BufferSize
      BY <1>6, <2>1, <2>3, SameFile
    <3>4. BlockRead' /\ pos' <= ipos'
      BY <1>2, <1>6, <2>1, <2>5, <3>2, <3>3 DEF BlockRead
    <3>5. ASSUME NEW p \in Start(pos)..(ipos - 1) PROVE buffer'[p - Start(pos)] = view'[p]
      <4>0. p \in Nat /\ p \in 0..(Size - 1) /\ p < Start(pos) + BufferSize /\ p - Start(pos) \in Offsets
        BY SMTT(30), <1>2, <1>3, <1>4, <3>2 DEF BlockRead, Smaller
      <4>1. CASE p \in (pos - 4)..(pos - 1)
        <5>1. p - Start(pos) \in at..(at + 3) /\ p - Start(pos) - at + 1 = p - pos + 5
          BY <1>2, <1>4, <2>2, <4>0, <4>1
        <5>2. buffer'[p - Start(pos)] = bytes[p - Start(pos) - at + 1]
          BY <2>1, <4>0, <5>1
        <5>3. view'[p] = bytes[p - pos + 5]
          BY <2>1, <4>0, <4>1
        <5> QED
          BY <5>1, <5>2, <5>3
      <4>2. CASE p \notin (pos - 4)..(pos - 1)
        <5>1. p - Start(pos) \notin at..(at + 3)
          BY <1>2, <1>4, <2>2, <4>0, <4>2
        <5>2. buffer'[p - Start(pos)] = buffer[p - Start(pos)]
          BY <2>1, <4>0, <5>1
        <5>3. view'[p] = view[p]
          BY <2>1, <4>0, <4>2
        <5> QED
          BY <3>1, <5>2, <5>3
      <4> QED
        BY <4>1, <4>2
    <3> QED
      BY <1>6, <3>3, <3>4, <3>5 DEF Settled
  <2>8. SeekOK' /\ Filling'
    BY <1>1, <1>2, <1>6, <2>1 DEF SeekOK, Filling
  <2>9. Progress'
    BY <2>1 DEF Progress
  <2> QED
    BY <2>4, <2>6, <2>7, <2>8, <2>9 DEF IInv
<1> QED
  BY <1>7, <1>8

\* No call, no step of a call and no event outside the program disturbs the
\* inductive invariant.
LEMMA NextIInv == IInv /\ [Next]_vars => IInv'
<1> SUFFICES ASSUME IInv, [Next]_vars PROVE IInv'
  OBVIOUS
<1>1. ASSUME NEW n \in Requests, bf_get(n) \/ bf_read(n) \/ bf_rewind(n) PROVE IInv'
  BY <1>1, GetIInv, ReadIInv, RewindIInv
<1>2. CASE bf_peek \/ UngetSwapped
  BY <1>2, PeekIInv, UngetIInv
<1>3. ASSUME NEW b \in 1..Size, Fread(b) PROVE IInv'
  BY <1>3, FreadIInv
<1>4. CASE FillEnds \/ GetByte \/ ReadChunk
  BY <1>4, FillEndsIInv, GetByteIInv, ReadChunkIInv
<1>5. CASE Return \/ PeekReturn \/ Truncate \/ FreadNothing \/ UNCHANGED vars
  BY <1>5, ReturnIInv
<1> QED
  BY <1>1, <1>2, <1>3, <1>4, <1>5 DEF Next, Call, Step

\* Every reachable state satisfies the inductive invariant.
LEMMA Invariance == Spec => []IInv
  BY InitIInv, NextIInv, PTL DEF Spec
-----------------------------------------------------------------------------
\* The fields of a bfile_t open for reading, and the locals of the call that
\* runs, always have their types.
THEOREM ReaderTypeCorrect == Spec => []TypeOK
<1>1. IInv => TypeOK
  BY DEF IInv
<1> QED
  BY <1>1, Invariance, PTL

\* Outside bf_read_buffer, what the calls index after `pos % buffer_size' is
\* what stands in the file at pos, for every file, block size and sequence of
\* calls, whatever short counts fread returned and however far back bf_rewind
\* went.
THEOREM BlockHoldsTheFile == Spec => []WindowOK
<1>1. ASSUME IInv PROVE WindowOK
  <2> USE <1>1, FileAssumption
  <2>1. TypeOK /\ Settled
    BY DEF IInv
  <2>4. pos \in 0..Size /\ ipos \in 0..Size
    BY <2>1 DEF TypeOK
  <2>2. pos \in Nat /\ ipos \in Nat
    BY <2>4
  <2>3. ASSUME fill = NotFilling, halted = "no", NEW p \in 0..(Size - 1), Block(p) = Block(pos), p < ipos
        PROVE  buffer[Offset(p)] = view[p]
    <3>1. p \in Nat /\ Start(p) = Start(pos)
      BY <2>1, <2>2, <2>3, StartOfBlock
    <3>2. Start(p) \in Nat /\ Start(p) <= p /\ Offset(p) = p - Start(p)
      BY <2>1, <3>1, StartFacts
    <3>3. p \in Start(pos)..(ipos - 1)
      BY <2>2, <2>3, <3>1, <3>2
    <3> QED
      BY <2>1, <2>3, <3>1, <3>2, <3>3 DEF Settled
  <2> QED
    BY <2>1, <2>3 DEF WindowOK, Settled
<1> QED
  BY <1>1, Invariance, PTL

(***************************************************************************)
(* A bfile open for reading implements ByteStream.                         *)
(***************************************************************************)

\* The cursor and the call that ByteStream sees.
SeenCursor == IF op.busy THEN op.from ELSE pos
SeenCall == [kind |-> op.kind, busy |-> op.busy, n |-> op.n, out |-> IF op.busy THEN <<>> ELSE op.out]

\* A sequence is the function of its elements.
LEMMA SequenceIs ==
  ASSUME NEW s \in Seq(Byte), NEW n \in Nat, Len(s) = n, NEW f, f = [i \in 1..n |-> s[i]]
  PROVE  f = s
  OBVIOUS

\* The record of a call that returned, field by field.
LEMMA EndedCall ==
  ASSUME NEW k, NEW n, NEW o, NEW answer, NEW c, NEW d,
         c = [kind |-> k, busy |-> TRUE, n |-> n, out |-> o], d = [c EXCEPT !.busy = FALSE, !.out = answer]
  PROVE  d = [kind |-> k, busy |-> FALSE, n |-> n, out |-> answer]
  OBVIOUS

\* A call that returns ends the call that ByteStream sees.
LEMMA CallEnds ==
  ASSUME IInv, op.busy, NEW answer, op' = [op EXCEPT !.busy = FALSE, !.out = answer]
  PROVE  SeenCall' = [SeenCall EXCEPT !.busy = FALSE, !.out = answer] /\ SeenCursor' = pos'
<1>1. /\ op'.kind = op.kind /\ op'.busy = FALSE /\ op'.n = op.n /\ op'.out = answer
  BY OpFacts DEF IInv
<1>2. SeenCall' = [kind |-> op.kind, busy |-> FALSE, n |-> op.n, out |-> answer]
  BY <1>1 DEF SeenCall
<1>3. SeenCall = [kind |-> op.kind, busy |-> TRUE, n |-> op.n, out |-> <<>>]
  BY OpFacts DEF SeenCall, IInv
<1>4. SeenCursor' = pos'
  BY <1>1 DEF SeenCursor
<1> DEFINE d == [SeenCall EXCEPT !.busy = FALSE, !.out = answer]
<1>5. d = [SeenCall EXCEPT !.busy = FALSE, !.out = answer]
  OBVIOUS
<1> HIDE DEF d
<1>6. d = [kind |-> op.kind, busy |-> FALSE, n |-> op.n, out |-> answer]
  BY <1>3, <1>5, EndedCall
<1> QED
  BY <1>2, <1>4, <1>5, <1>6

\* bf_get_* returns what stands in the file from the cursor on, 0 beyond its end.
LEMMA GetRefines == ASSUME IInv, Return, op.kind = "get" PROVE Stream!GetEnds
<1> USE FileAssumption
<1>0. TypeOK /\ op.busy /\ op.left = 0 /\ op' = [op EXCEPT !.busy = FALSE] /\ UNCHANGED <<pos, view>>
  BY DEF Return, Running, IInv
<1>1. op.n \in Nat /\ op.from \in 0..Size /\ op.out \in Seq(Byte) /\ Len(op.out) \in Nat
  BY <1>0, OpFacts
<1>2. op.n = Len(op.out) /\ pos = Smaller(op.from + op.n, Size)
  BY <1>0, <1>1 DEF IInv, Progress, GetProgress
<1>3. \A i \in 1..op.n : op.out[i] = IF op.from + i - 1 < Size THEN view[op.from + i - 1] ELSE 0
  BY <1>0, <1>2 DEF IInv, Progress, GetProgress
<1> DEFINE answer == [i \in 1..op.n |-> IF op.from + i - 1 < Size THEN view[op.from + i - 1] ELSE 0]
<1>4. answer = [i \in 1..op.n |-> op.out[i]]
  BY <1>3
<1> HIDE DEF answer
<1>5. answer = op.out
  <2>1. Len(op.out) = op.n /\ op.n \in Nat /\ op.out \in Seq(Byte)
    BY <1>1, <1>2
  <2> QED
    BY <1>4, <2>1, SequenceIs
<1>6. op' = [op EXCEPT !.busy = FALSE, !.out = answer]
  BY <1>0, <1>5, OpFacts
<1>7. SeenCall' = [SeenCall EXCEPT !.busy = FALSE, !.out = answer] /\ SeenCursor' = pos /\ SeenCursor = op.from
  BY <1>0, <1>6, CallEnds DEF SeenCursor
<1>8. SeenCall.busy /\ SeenCall.kind = "get" /\ SeenCall.n = op.n
  BY <1>0 DEF SeenCall
<1>9. Stream!Smaller(op.from + op.n, Size) = pos
  BY <1>2 DEF Smaller, Stream!Smaller
<1> QED
  BY <1>0, <1>7, <1>8, <1>9 DEF Stream!GetEnds, Stream!End, SeenCall, SeenCursor, answer

\* bf_read returns what stands in the file from the cursor on, cropped at its end.
LEMMA ReadRefines == ASSUME IInv, Return, op.kind = "read" PROVE Stream!ReadEnds
<1> USE FileAssumption
<1>0. TypeOK /\ op.busy /\ op.left = 0 /\ op' = [op EXCEPT !.busy = FALSE] /\ UNCHANGED <<pos, view>>
  BY DEF Return, Running, IInv
<1>1. op.n \in Nat /\ op.from \in 0..Size /\ op.out \in Seq(Byte) /\ Len(op.out) \in Nat
  BY <1>0, OpFacts
<1> DEFINE n == Stream!Smaller(op.n, Size - op.from)
<1>2. n = Len(op.out) /\ pos = op.from + n /\ n \in Nat
  BY <1>0, <1>1 DEF IInv, Progress, ReadProgress, Smaller, Stream!Smaller
<1>3. \A i \in 1..n : op.out[i] = view[op.from + i - 1]
  BY <1>0, <1>2 DEF IInv, Progress, ReadProgress
<1> HIDE DEF n
<1> DEFINE answer == [i \in 1..n |-> view[op.from + i - 1]]
<1>4. answer = [i \in 1..n |-> op.out[i]]
  BY <1>3
<1> HIDE DEF answer
<1>5. answer = op.out
  BY <1>1, <1>2, <1>4, SequenceIs
<1>6. op' = [op EXCEPT !.busy = FALSE, !.out = answer]
  BY <1>0, <1>5, OpFacts
<1>7. SeenCall' = [SeenCall EXCEPT !.busy = FALSE, !.out = answer] /\ SeenCursor' = pos /\ SeenCursor = op.from
  BY <1>0, <1>6, CallEnds DEF SeenCursor
<1>8. SeenCall.busy /\ SeenCall.kind = "read" /\ SeenCall.n = op.n
  BY <1>0 DEF SeenCall
<1> QED
  BY <1>0, <1>2, <1>7, <1>8 DEF Stream!ReadEnds, Stream!End, SeenCall, SeenCursor, answer, n

\* bf_rewind ends n bytes before where it began, or at the start of the file.
LEMMA RewindRefines == ASSUME IInv, Return, op.kind = "rewind" PROVE Stream!RewindEnds
<1>0. TypeOK /\ op.busy /\ op' = [op EXCEPT !.busy = FALSE] /\ UNCHANGED <<pos, view>>
  BY DEF Return, Running, IInv
<1>1. op.out = <<>> /\ pos = op.from - Stream!Smaller(op.n, op.from)
  BY <1>0 DEF IInv, Progress, RewindProgress, Smaller, Stream!Smaller
<1>2. op' = [op EXCEPT !.busy = FALSE, !.out = <<>>]
  BY <1>0, <1>1, OpFacts
<1>3. SeenCall' = [SeenCall EXCEPT !.busy = FALSE, !.out = <<>>] /\ SeenCursor' = pos /\ SeenCursor = op.from
  BY <1>0, <1>2, CallEnds DEF SeenCursor
<1>4. SeenCall.busy /\ SeenCall.kind = "rewind" /\ SeenCall.n = op.n
  BY <1>0 DEF SeenCall
<1> QED
  BY <1>0, <1>1, <1>3, <1>4 DEF Stream!RewindEnds, Stream!End, SeenCall, SeenCursor

\* bf_peek_* on an even offset, with two bytes left, returns those two: neither
\* the end of the block nor the wrapping test of ipos - 2 gets in its way.
LEMMA PeekRefines == ASSUME IInv, PeekReturn PROVE Stream!PeekEnds
<1> USE FileAssumption
<1> DEFINE a == IF CannotPeek THEN 0 ELSE buffer[Offset(pos)]
           b == IF CannotPeek THEN 0 ELSE buffer[Offset(Offset(pos) + 1)]
<1>0. /\ TypeOK /\ op.busy /\ op.kind = "peek" /\ fill = NotFilling /\ halted = "no" /\ UNCHANGED <<pos, view>>
      /\ op' = [op EXCEPT !.busy = FALSE, !.out = <<a, b>>]
  BY DEF PeekReturn, Running, IInv
<1>1. op.from = pos /\ BlockRead
  BY <1>0 DEF IInv, Progress, PeekProgress
<1>2. pos \in Nat /\ pos <= Size /\ ipos \in Nat
  <2>1. pos \in 0..Size /\ ipos \in 0..Size
    BY <1>0 DEF TypeOK
  <2> QED
    BY <2>1
<1>3. BufferSize \in Nat \ {0} /\ Offsets = 0..(BufferSize - 1)
  BY <1>0, BufferSizeFacts
<1>4. /\ Start(pos) \in Nat /\ Start(pos) <= pos /\ pos < Start(pos) + BufferSize
      /\ Offset(pos) = pos - Start(pos) /\ Offset(Start(pos)) = 0 /\ Offset(pos) \in Offsets
  BY <1>0, <1>2, StartFacts
<1>5. a \in Byte /\ b \in Byte
  <2>1. Offset(pos) + 1 \in Nat
    BY <1>3, <1>4
  <2>2. Offset(Offset(pos) + 1) \in Offsets
    BY <1>0, <2>1, StartFacts
  <2>3. buffer[Offset(pos)] \in Byte /\ buffer[Offset(Offset(pos) + 1)] \in Byte
    BY <1>0, <1>4, <2>2 DEF TypeOK
  <2> QED
    BY <2>3
<1>6. ASSUME pos % 2 = 0, pos + 2 <= Size PROVE a = view[pos] /\ b = view[pos + 1]
  <2>1. pos + 2 <= Start(pos) + BufferSize
    <3>1. CASE file
      <4>1. BufferSize = BlockSize /\ BlockSize \in Nat \ {0} /\ BlockSize % 2 = 0
        BY <3>1, BlockAssumption DEF BufferSize
      <4>2. Start(pos) % BlockSize = 0
        BY <1>4, <4>1 DEF Offset
      <4>3. Start(pos) % 2 = 0
        BY <1>4, <4>1, <4>2, EvenBoundary
      <4> QED
        BY <1>2, <1>4, <1>6, <4>1, <4>3
    <3>2. CASE ~file
      BY <1>2, <1>4, <1>6, <3>2 DEF BufferSize
    <3> QED
      BY <3>1, <3>2
  <2>2. pos + 2 <= ipos
    BY <1>1, <1>6, <2>1 DEF BlockRead, Smaller
  <2>3. ~CannotPeek
    BY <1>2, <2>2 DEF CannotPeek
  <2>4. Offset(Offset(pos) + 1) = pos + 1 - Start(pos)
    <3>1. Offset(pos) + 1 \in Nat /\ Offset(pos) + 1 < BufferSize /\ Offset(pos) + 1 = pos + 1 - Start(pos)
      BY <1>2, <1>3, <1>4, <2>1
    <3>2. 0 \in Nat /\ 0 % BufferSize = 0 /\ 0 <= Offset(pos) + 1 /\ Offset(pos) + 1 < 0 + BufferSize
      BY <1>3, <3>1
    <3>3. (Offset(pos) + 1) % BufferSize = (Offset(pos) + 1) - 0
      BY <1>3, <3>1, <3>2, InBlock
    <3> QED
      BY <3>1, <3>3 DEF Offset
  <2>5. pos \in Start(pos)..(ipos - 1) /\ pos + 1 \in Start(pos)..(ipos - 1)
    BY <1>2, <1>4, <2>2
  <2>6. \A p \in Start(pos)..(ipos - 1) : buffer[p - Start(pos)] = view[p]
    BY <1>0 DEF IInv, Settled
  <2>7. buffer[pos - Start(pos)] = view[pos] /\ buffer[pos + 1 - Start(pos)] = view[pos + 1]
    <3>1. buffer[pos - Start(pos)] = view[pos]
      BY <2>5, <2>6
    <3>2. ASSUME NEW q \in Start(pos)..(ipos - 1), q = pos + 1 PROVE buffer[pos + 1 - Start(pos)] = view[pos + 1]
      BY <1>2, <1>4, <2>6, <3>2
    <3> QED
      BY <2>5, <3>1, <3>2
  <2> QED
    BY <1>4, <2>3, <2>4, <2>7
<1> HIDE DEF a, b
<1>7. SeenCall' = [SeenCall EXCEPT !.busy = FALSE, !.out = <<a, b>>] /\ SeenCursor' = pos /\ SeenCursor = pos
  BY <1>0, <1>1, CallEnds DEF SeenCursor
<1>8. SeenCall.busy /\ SeenCall.kind = "peek"
  BY <1>0 DEF SeenCall
<1>9. \E x, y \in Byte :
        /\ (SeenCursor % 2 = 0 /\ SeenCursor + 2 <= Size) => (x = view[SeenCursor] /\ y = view[SeenCursor + 1])
        /\ SeenCall' = [SeenCall EXCEPT !.busy = FALSE, !.out = <<x, y>>]
  <2>1. (SeenCursor % 2 = 0 /\ SeenCursor + 2 <= Size) => (a = view[SeenCursor] /\ b = view[SeenCursor + 1])
    BY <1>6, <1>7
  <2> QED
    BY <1>5, <1>7, <2>1
<1>10. SeenCursor' = SeenCursor /\ view' = view
  BY <1>0, <1>7
<1> QED
  BY <1>8, <1>9, <1>10 DEF Stream!PeekEnds, Stream!End, SeenCall, SeenCursor

\* A call begins: the client's cursor and the bytes it sees stay, except that
\* bf_rewind into an earlier block forgets what was pushed back.
LEMMA BeginRefines ==
  ASSUME IInv, ~op.busy, NEW kind, NEW n, NEW left, Begin(kind, n, left),
         view' = view \/ (kind = "rewind" /\ view' = Disk)
  PROVE  Stream!Begin(kind, n)
<1>1. op' = [kind |-> kind, busy |-> TRUE, n |-> n, left |-> left, from |-> pos, out |-> <<>>]
  BY DEF Begin
<1>2. SeenCall' = [kind |-> kind, busy |-> TRUE, n |-> n, out |-> <<>>] /\ SeenCursor' = pos /\ SeenCursor = pos
  BY <1>1 DEF SeenCall, SeenCursor
<1>3. ~SeenCall.busy
  BY DEF SeenCall
<1>4. view' \in IF kind = "rewind" THEN {view, Disk} ELSE {view}
  OBVIOUS
<1> QED
  BY <1>2, <1>3, <1>4 DEF Stream!Begin, SeenCall, SeenCursor

\* bf_unget_uint32_be pushes four bytes back, or stops the program.
LEMMA UngetRefines ==
  ASSUME IInv, UngetSwapped PROVE Stream!Unget \/ UNCHANGED <<pos, op, view>>
<1> DEFINE bytes == Swapped(op.out)
           at == Offset(pos) - 4
<1>1. TypeOK /\ ~op.busy
  BY DEF UngetSwapped, bf_unget, Idle, IInv
<1>2. pos \in 0..Size
  BY <1>1 DEF TypeOK
<1>3. pos \in Nat /\ Size \in Nat
  BY <1>2, FileAssumption
<1>4. CASE at < 0
  BY <1>4 DEF UngetSwapped, bf_unget
<1>5. CASE ~(at < 0)
  <2>1. /\ view' = [i \in 0..(Size - 1) |-> IF i \in (pos - 4)..(pos - 1) THEN bytes[i - pos + 5] ELSE view[i]]
        /\ pos' = pos - 4
        /\ op' = [kind |-> "unget", busy |-> FALSE, n |-> 4, left |-> 0, from |-> pos, out |-> bytes]
    BY <1>5 DEF UngetSwapped, bf_unget
  <2>2. bytes \in [1..4 -> Byte]
    <3>1. op.out \in Seq(Byte) /\ Len(op.out) = 4
      BY <1>1, OpFacts DEF UngetSwapped
    <3>2. op.out[1] \in Byte /\ op.out[2] \in Byte /\ op.out[3] \in Byte /\ op.out[4] \in Byte
      BY <3>1
    <3> QED
      BY <3>2 DEF Swapped
  <2>3. pos >= 4
    <3>1. Start(pos) \in Nat /\ Offset(pos) = pos - Start(pos)
      BY <1>1, <1>3, StartFacts
    <3> QED
      BY <1>3, <1>5, <3>1
  <2> HIDE DEF bytes
  <2>4. SeenCall' = [kind |-> "unget", busy |-> FALSE, n |-> 4, out |-> bytes] /\ SeenCall'.out = bytes
    BY <2>1 DEF SeenCall
  <2>5. SeenCursor = pos /\ SeenCursor' = pos - 4 /\ ~SeenCall.busy
    BY <1>1, <2>1 DEF SeenCall, SeenCursor
  <2>6. Stream!Unget
    BY <2>1, <2>2, <2>3, <2>4, <2>5 DEF Stream!Unget, SeenCall, SeenCursor
  <2> QED
    BY <2>6
<1> QED
  BY <1>4, <1>5

\* While a call runs, its steps move pos and collect bytes; the client sees none
\* of it.
LEMMA HiddenStep ==
  ASSUME IInv, view' = view,
         \/ UNCHANGED <<pos, op>>
         \/ op.busy /\ op'.busy = op.busy /\ op'.kind = op.kind /\ op'.n = op.n /\ op'.from = op.from
  PROVE  UNCHANGED Stream!vars
<1>1. SeenCall' = SeenCall /\ SeenCursor' = SeenCursor
  BY DEF SeenCall, SeenCursor
<1> QED
  BY <1>1 DEF Stream!vars, SeenCall, SeenCursor

\* Every step of the buffered reader is a step of the stream, or invisible.
LEMMA StepRefines == IInv /\ [Next]_vars => [Stream!Next]_(Stream!vars)
<1> SUFFICES ASSUME IInv, [Next]_vars PROVE [Stream!Next]_(Stream!vars)
  OBVIOUS
<1>1. ASSUME NEW n \in Requests, bf_get(n) \/ bf_read(n) \/ bf_rewind(n) PROVE Stream!Next
  <2>1. CASE bf_get(n)
    <3>1. Stream!Begin("get", n)
      BY <2>1, BeginRefines DEF bf_get, Idle
    <3> QED
      BY <3>1 DEF Stream!Next
  <2>2. CASE bf_read(n)
    <3>1. Stream!Begin("read", n)
      BY <2>2, BeginRefines DEF bf_read, Idle
    <3> QED
      BY <3>1 DEF Stream!Next
  <2>3. CASE bf_rewind(n)
    <3>1. ~op.busy /\ Begin("rewind", n, 0) /\ (view' = view \/ view' = Disk)
      BY <2>3 DEF bf_rewind, Idle
    <3>2. Stream!Begin("rewind", n)
      BY <3>1, BeginRefines
    <3> QED
      BY <3>2 DEF Stream!Next
  <2> QED
    BY <1>1, <2>1, <2>2, <2>3
<1>2. CASE bf_peek
  <2>1. Stream!Begin("peek", 2)
    BY <1>2, BeginRefines DEF bf_peek, Idle
  <2> QED
    BY <2>1 DEF Stream!Next
<1>3. CASE UngetSwapped
  <2>1. CASE Stream!Unget
    BY <2>1 DEF Stream!Next
  <2>2. CASE UNCHANGED <<pos, op, view>>
    BY <2>2, HiddenStep
  <2> QED
    BY <1>3, <2>1, <2>2, UngetRefines
<1>4. ASSUME NEW b \in 1..Size, Fread(b) PROVE UNCHANGED Stream!vars
  BY <1>4, HiddenStep DEF Fread
<1>5. CASE FillEnds \/ FreadNothing \/ Truncate \/ UNCHANGED vars
  BY <1>5, HiddenStep DEF FillEnds, FreadNothing, Truncate, vars
<1>6. CASE GetByte \/ ReadChunk
  <2>1. op.busy /\ view' = view
    BY <1>6 DEF GetByte, ReadChunk, Running
  <2>2. op'.busy = op.busy /\ op'.kind = op.kind /\ op'.n = op.n /\ op'.from = op.from
    BY <1>6, OpFacts DEF GetByte, ReadChunk, IInv
  <2> QED
    BY <2>1, <2>2, HiddenStep
<1>7. CASE Return
  <2>1. op.kind \in {"get", "read", "rewind"}
    BY <1>7 DEF Return, Running
  <2> QED
    BY <1>7, <2>1, GetRefines, ReadRefines, RewindRefines DEF Stream!Next
<1>8. CASE PeekReturn
  BY <1>8, PeekRefines DEF Stream!Next
<1> QED
  BY <1>1, <1>2, <1>3, <1>4, <1>5, <1>6, <1>7, <1>8 DEF Next, Call, Step

\* A client of bf_get_*, bf_read, bf_peek_*, bf_rewind and bf_unget_uint32_be
\* sees a plain stream of bytes with a cursor, for every file and block size.
THEOREM ReaderIsAStream == Spec => StreamSpec
<1>1. Init => Stream!Init
  <2> SUFFICES ASSUME Init PROVE Stream!Init
    OBVIOUS
  <2>1. /\ op = [kind |-> "none", busy |-> FALSE, n |-> 0, left |-> 0, from |-> 0, out |-> <<>>]
        /\ pos = 0 /\ view = Disk
    BY DEF Init
  <2>2. SeenCall = [kind |-> "none", busy |-> FALSE, n |-> 0, out |-> <<>>] /\ SeenCursor = 0
    BY <2>1 DEF SeenCall, SeenCursor
  <2> QED
    BY <2>1, <2>2 DEF Stream!Init, SeenCall, SeenCursor
<1>2. Spec => [][Stream!Next]_(Stream!vars)
  BY StepRefines, Invariance, PTL DEF Spec
<1> QED
  BY <1>1, <1>2, PTL DEF Spec, StreamSpec, Stream!Spec
=============================================================================
