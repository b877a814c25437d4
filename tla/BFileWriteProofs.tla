-------------------------- MODULE BFileWriteProofs --------------------------
(***************************************************************************)
(* Proofs about a bfile open for writing, for every block size and every   *)
(* sequence of calls.                                                      *)
(***************************************************************************)
EXTENDS BFileWrite, SequenceTheorems, TLAPS

-----------------------------------------------------------------------------
(* Quotients and remainders by a positive number b: the position x stands at
   offset x % b of block number x \div b. *)

\* A product with a positive factor is no smaller than the other factor.
LEMMA FactorBound ==
  ASSUME NEW b \in Nat \ {0}, NEW d \in Int, d >= 1
  PROVE  d * b >= b
  OBVIOUS

\* The quotient and the remainder by a block size, for any position.
LEMMA DivisionFacts ==
  ASSUME NEW b \in Nat \ {0}, NEW x \in Nat
  PROVE  /\ x \div b \in Nat
         /\ x % b \in 0..(b - 1)
         /\ x = (b * (x \div b)) + (x % b)
  OBVIOUS

\* Quotient and remainder are unique.
LEMMA DivisionUnique ==
  ASSUME NEW b \in Nat \ {0}, NEW k \in Nat, NEW r \in 0..(b - 1)
  PROVE  ((k * b) + r) % b = r /\ ((k * b) + r) \div b = k
<1> DEFINE x == (k * b) + r
           q == x \div b
           m == x % b
<1>0. x \in Nat
  OBVIOUS
<1>1. q \in Nat /\ m \in 0..(b - 1) /\ x = (b * q) + m
  BY <1>0, DivisionFacts
<1> HIDE DEF q, m
<1>2. (k - q) * b = m - r
  BY <1>1
<1>3. ~(k - q >= 1)
  BY <1>1, <1>2, FactorBound
<1>4. ~(q - k >= 1)
  <2>1. (q - k) * b = r - m
    BY <1>1
  <2> QED
    BY <1>1, <2>1, FactorBound
<1>5. k = q
  BY <1>1, <1>3, <1>4
<1>6. m = r
  BY <1>1, <1>2, <1>5
<1> QED
  BY <1>5, <1>6 DEF m, q

\* From a block boundary s on, up to the next one, the block is the one that
\* starts at s and the offset counts up from 0.
LEMMA InBlock ==
  ASSUME NEW b \in Nat \ {0}, NEW s \in Nat, s % b = 0, NEW x \in Nat, s <= x, x < s + b
  PROVE  x % b = x - s /\ x \div b = s \div b /\ s = (s \div b) * b
<1>1. s \div b \in Nat /\ s = b * (s \div b)
  BY DivisionFacts
<1> DEFINE k == s \div b
<1> HIDE DEF k
<1>2. k \in Nat /\ s = k * b
  BY <1>1 DEF k
<1>3. x - s \in 0..(b - 1) /\ x = (k * b) + (x - s)
  BY <1>2
<1>4. ((k * b) + (x - s)) % b = x - s /\ ((k * b) + (x - s)) \div b = k
  BY <1>2, <1>3, DivisionUnique
<1> QED
  BY <1>2, <1>3, <1>4 DEF k

\* One block beyond a block boundary is a block boundary.
LEMMA NextBoundary ==
  ASSUME NEW b \in Nat \ {0}, NEW s \in Nat, s % b = 0
  PROVE  (s + b) % b = 0
<1>1. s \div b \in Nat /\ s = b * (s \div b)
  BY DivisionFacts
<1> DEFINE k == s \div b
<1> HIDE DEF k
<1>2. k \in Nat /\ s = k * b
  BY <1>1 DEF k
<1>3. (((k + 1) * b) + 0) % b = 0
  BY <1>2, DivisionUnique
<1>4. s + b = ((k + 1) * b) + 0
  BY <1>2
<1> QED
  BY <1>3, <1>4

-----------------------------------------------------------------------------
(* Offsets of positions at most a block beyond a block boundary. *)

\* From a block boundary on, offsets count up to the end of the block.
LEMMA OffsetInBlock ==
  ASSUME NEW i \in Nat, Offset(i) = 0, NEW d \in Offsets
  PROVE  Offset(i + d) = d
<1>1. BufferSize \in Nat \ {0} /\ i % BufferSize = 0 /\ i + d \in Nat /\ i <= i + d /\ i + d < i + BufferSize
  BY SinkAssumption DEF Offset, Offsets
<1>2. (i + d) % BufferSize = (i + d) - i
  BY <1>1, InBlock
<1> QED
  BY <1>2 DEF Offset, Offsets

\* One block beyond a block boundary is a block boundary.
LEMMA OffsetNextBlock ==
  ASSUME NEW i \in Nat, Offset(i) = 0
  PROVE  Offset(i + BufferSize) = 0
  BY NextBoundary, SinkAssumption DEF Offset

\* Concatenation of byte sequences.
LEMMA ConcatBytes ==
  ASSUME NEW s \in Seq(Byte), NEW t \in Seq(Byte)
  PROVE  /\ s \o t \in Seq(Byte)
         /\ Len(s \o t) = Len(s) + Len(t)
         /\ \A i \in 1..(Len(s) + Len(t)) : (s \o t)[i] = IF i <= Len(s) THEN s[i] ELSE t[i - Len(s)]
  BY ConcatProperties
-----------------------------------------------------------------------------
(***************************************************************************)
(* The inductive invariant.  NothingLost alone is not inductive: that the  *)
(* bytes waiting in the block are at the right offsets needs the block to  *)
(* start at a multiple of its size, which holds until bf_destroy flushes a *)
(* block that is not full.                                                 *)
(***************************************************************************)
Ahead == ipos <= pos /\ pos - ipos <= BufferSize
Phases ==
  /\ towrite = NotFlushing => written = 0
  /\ towrite # NotFlushing => /\ towrite = pos - ipos /\ written <= towrite
                              /\ op.kind \in {"put", "write", "destroy"}
                              /\ op.kind # "destroy" => towrite = BufferSize
  /\ (op.kind = "destroy" /\ towrite = NotFlushing) => pos = ipos
  /\ op.kind = "closed" => pos = ipos
Aligned == Offset(ipos) = 0 \/ (op.kind \in {"destroy", "closed"} /\ towrite = NotFlushing)
DiskOK ==
  /\ Len(disk) = ipos + written /\ Len(sent) = pos
  /\ \A i \in 1..Len(disk) : disk[i] = sent[i]
BlockOK == \A d \in 0..(pos - ipos - 1) : buffer[d] = sent[ipos + d + 1]
IInv == TypeOK /\ Ahead /\ Phases /\ Aligned /\ DiskOK /\ BlockOK

\* bf_create_w starts with an empty block, no byte on disk and no call running.
LEMMA InitIInv == Init => IInv
<1> SUFFICES ASSUME Init PROVE IInv
  OBVIOUS
<1> USE SinkAssumption
<1>1. TypeOK
  <2>1. buffer \in [Offsets -> Byte]
    BY DEF Init
  <2>2. disk \in Seq(Byte) /\ sent \in Seq(Byte)
    BY EmptySeq DEF Init
  <2> QED
    BY <2>1, <2>2 DEF Init, TypeOK, Calls, NotFlushing
<1>2. Ahead /\ Phases
  BY DEF Init, Ahead, Phases, NotFlushing
<1>3. Aligned
  BY DEF Init, Aligned, Offset
<1>4. DiskOK /\ BlockOK
  BY DEF Init, DiskOK, BlockOK
<1> QED
  BY <1>1, <1>2, <1>3, <1>4 DEF IInv

\* A call stays a call when it has placed some of its bytes.
LEMMA OneLess ==
  ASSUME NEW c \in Calls, NEW n \in Nat, n <= c.left
  PROVE  [c EXCEPT !.left = @ - n] \in Calls
  BY DEF Calls

\* A step that leaves the block, the counters and the file alone keeps their parts.
LEMMA FrameFacts ==
  ASSUME IInv, UNCHANGED <<pos, ipos, buffer, disk, written, sent>>
  PROVE  Ahead' /\ DiskOK' /\ BlockOK'
  BY DEF IInv, Ahead, DiskOK, BlockOK

\* No step of bf_put_*, bf_write, bf_write_buffer or bf_destroy, and no file
\* system event, disturbs the inductive invariant.
LEMMA NextIInv == IInv /\ [Next]_vars => IInv'
<1> SUFFICES ASSUME IInv, [Next]_vars PROVE IInv'
  OBVIOUS
<1> USE SinkAssumption DEF IInv
<1>1. ASSUME NEW n \in Requests, bf_put(n) \/ bf_write(n) PROVE IInv'
  <2>1. TypeOK'
    BY <1>1 DEF bf_put, bf_write, TypeOK, Calls
  <2>2. Ahead' /\ DiskOK' /\ BlockOK'
    BY <1>1, FrameFacts DEF bf_put, bf_write
  <2>3. Phases'
    BY <1>1 DEF bf_put, bf_write, Idle, Phases
  <2>4. Aligned'
    BY <1>1 DEF bf_put, bf_write, Idle, Aligned
  <2> QED
    BY <2>1, <2>2, <2>3, <2>4
<1>2. CASE bf_destroy
  <2>0. written = 0 /\ towrite = NotFlushing
    BY <1>2 DEF bf_destroy, Idle, Phases
  <2>1. TypeOK'
    BY <1>2 DEF bf_destroy, bf_write_buffer, TypeOK, Calls, Ahead
  <2>2. Ahead' /\ DiskOK' /\ BlockOK'
    BY <1>2, <2>0, FrameFacts DEF bf_destroy, bf_write_buffer
  <2>3. Phases'
    BY <1>2 DEF bf_destroy, bf_write_buffer, Idle, Phases, Ahead, TypeOK, NotFlushing
  <2>4. Aligned'
    BY <1>2 DEF bf_destroy, Idle, Aligned
  <2> QED
    BY <2>1, <2>2, <2>3, <2>4
<1>3. ASSUME NEW res \in 1..BufferSize, Fwrite(res) PROVE IInv'
  <2> DEFINE chunk == [k \in 1..res |-> BufferAt(Offset(ipos) + written + k - 1)]
  <2>0. Offset(ipos) = 0 /\ towrite = pos - ipos /\ written < towrite /\ res <= towrite - written
    BY <1>3 DEF Fwrite, Aligned, Phases, TypeOK, NotFlushing
  <2>1. chunk \in Seq(Byte) /\ Len(chunk) = res
    BY DEF BufferAt, TypeOK
  <2>2. \A k \in 1..res : chunk[k] = sent[ipos + written + k]
    <3> SUFFICES ASSUME NEW k \in 1..res PROVE chunk[k] = sent[ipos + written + k]
      OBVIOUS
    <3>1. written + k - 1 \in 0..(pos - ipos - 1) /\ written + k - 1 \in Offsets
      BY <2>0 DEF Offsets, TypeOK, Ahead
    <3> QED
      BY <2>0, <3>1 DEF BufferAt, BlockOK, TypeOK
  <2> HIDE DEF chunk
  <2>3. disk' = disk \o chunk /\ written' = written + res
    BY <1>3 DEF Fwrite, chunk
  <2>9. /\ disk' \in Seq(Byte) /\ Len(disk') = Len(disk) + res
        /\ \A i \in 1..(Len(disk) + res) : disk'[i] = IF i <= Len(disk) THEN disk[i] ELSE chunk[i - Len(disk)]
    BY <2>1, <2>3, ConcatBytes DEF TypeOK
  <2>4. TypeOK'
    BY <1>3, <2>3, <2>9 DEF Fwrite, TypeOK
  <2>5. Ahead' /\ BlockOK'
    BY <1>3 DEF Fwrite, Ahead, BlockOK
  <2>6. Phases'
    BY <1>3, <2>0 DEF Fwrite, Phases, TypeOK
  <2>7. Aligned'
    BY <1>3 DEF Fwrite, Aligned
  <2>8. DiskOK'
    <3>1. Len(disk') = ipos + written'
      BY <2>3, <2>9 DEF TypeOK, DiskOK
    <3>2. \A i \in 1..Len(disk') : disk'[i] = sent[i]
      <4> SUFFICES ASSUME NEW i \in 1..Len(disk') PROVE disk'[i] = sent[i]
        OBVIOUS
      <4>1. i \in 1..(Len(disk) + res) /\ Len(disk) = ipos + written /\ Len(disk) \in Nat
        BY <2>9 DEF DiskOK, TypeOK
      <4>2. CASE i <= Len(disk)
        BY <2>9, <4>1, <4>2 DEF DiskOK
      <4>3. CASE i > Len(disk)
        <5>1. i - Len(disk) \in 1..res
          BY <4>1, <4>3
        <5>2. disk'[i] = chunk[i - Len(disk)]
          BY <2>9, <4>1, <4>3
        <5>3. chunk[i - Len(disk)] = sent[ipos + written + (i - Len(disk))]
          BY <2>2, <5>1
        <5> QED
          <6>1. ipos + written + (i - Len(disk)) = i
            BY <4>1 DEF TypeOK
          <6> QED
            BY <5>2, <5>3, <6>1
      <4> QED
        BY <4>1, <4>2, <4>3
    <3> QED
      BY <1>3, <3>1, <3>2 DEF Fwrite, DiskOK
  <2> QED
    BY <2>4, <2>5, <2>6, <2>7, <2>8
<1>4. ASSUME NEW b \in Byte, PutByte(b) PROVE IInv'
  <2>0. Offset(ipos) = 0 /\ pos - ipos < BufferSize /\ towrite = NotFlushing /\ written = 0
    BY <1>4 DEF PutByte, Running, Full, Aligned, Phases, TypeOK
  <2>1. Offset(pos) = pos - ipos /\ pos - ipos \in Offsets
    <3>1. pos - ipos \in Offsets
      BY <2>0 DEF Ahead, TypeOK, Offsets
    <3>2. Offset(ipos + (pos - ipos)) = pos - ipos
      BY <2>0, <3>1, OffsetInBlock DEF TypeOK
    <3> QED
      BY <3>1, <3>2 DEF TypeOK
  <2>2. TypeOK'
    <3>1. op' \in Calls
      <4>1. op \in Calls /\ 1 <= op.left
        BY <1>4 DEF PutByte, TypeOK, Calls
      <4> QED
        BY <1>4, <4>1, OneLess DEF PutByte
    <3>2. buffer' \in [Offsets -> Byte]
      BY <1>4, <2>1 DEF PutByte, TypeOK
    <3>3. sent' \in Seq(Byte)
      BY <1>4, AppendProperties DEF PutByte, TypeOK
    <3> QED
      BY <1>4, <3>1, <3>2, <3>3 DEF PutByte, TypeOK
  <2>3. Ahead' /\ Phases'
    BY <1>4, <2>0 DEF PutByte, Running, Ahead, Phases, TypeOK
  <2>4. Aligned'
    BY <1>4, <2>0 DEF PutByte, Aligned
  <2>7. /\ Len(sent') = Len(sent) + 1 /\ sent'[Len(sent) + 1] = b
        /\ \A i \in 1..Len(sent) : sent'[i] = sent[i]
    BY <1>4, AppendProperties DEF PutByte, TypeOK
  <2>5. DiskOK'
    BY <1>4, <2>0, <2>7 DEF PutByte, DiskOK, TypeOK, Ahead
  <2>6. BlockOK'
    <3> SUFFICES ASSUME NEW d \in 0..(pos' - ipos - 1) PROVE buffer'[d] = sent'[ipos + d + 1]
      BY <1>4 DEF PutByte, BlockOK
    <3>1. d \in Offsets /\ d <= pos - ipos
      BY <1>4, <2>0 DEF PutByte, Offsets, TypeOK, Ahead
    <3>2. CASE d < pos - ipos
      <4>1. buffer'[d] = buffer[d]
        BY <1>4, <2>1, <3>1, <3>2 DEF PutByte, TypeOK
      <4> QED
        BY <2>7, <3>2, <4>1 DEF BlockOK, DiskOK, TypeOK
    <3>3. CASE d = pos - ipos
      <4>1. buffer'[d] = b
        BY <1>4, <2>1, <3>1, <3>3 DEF PutByte, TypeOK
      <4> QED
        BY <2>7, <3>3, <4>1 DEF DiskOK, TypeOK
    <3> QED
      BY <3>1, <3>2, <3>3 DEF TypeOK, Offsets
  <2> QED
    BY <2>2, <2>3, <2>4, <2>5, <2>6
<1>5. ASSUME NEW bytes \in [1..CopyLength -> Byte], WriteChunk(bytes) PROVE IInv'
  <2>0. Offset(ipos) = 0 /\ pos - ipos < BufferSize /\ towrite = NotFlushing /\ written = 0
    BY <1>5 DEF WriteChunk, Running, Full, Aligned, Phases, TypeOK
  <2>1. Offset(pos) = pos - ipos /\ pos - ipos \in Offsets
    <3>1. pos - ipos \in Offsets
      BY <2>0 DEF Ahead, TypeOK, Offsets
    <3>2. Offset(ipos + (pos - ipos)) = pos - ipos
      BY <2>0, <3>1, OffsetInBlock DEF TypeOK
    <3> QED
      BY <3>1, <3>2 DEF TypeOK
  <2>2. CopyLength \in Nat /\ CopyLength <= BufferSize - (pos - ipos) /\ CopyLength <= op.left
    <3>1. op.left \in Nat
      BY DEF TypeOK, Calls
    <3> QED
      BY <2>0, <2>1, <3>1 DEF CopyLength, Smaller, TypeOK, Offsets
  <2>3. bytes \in Seq(Byte) /\ Len(bytes) = CopyLength
    BY <2>2
  <2>9. /\ sent' \in Seq(Byte) /\ Len(sent') = Len(sent) + CopyLength
        /\ \A i \in 1..(Len(sent) + CopyLength) :
             sent'[i] = IF i <= Len(sent) THEN sent[i] ELSE bytes[i - Len(sent)]
    BY <1>5, <2>3, ConcatBytes DEF TypeOK, WriteChunk
  <2>4. TypeOK'
    <3>1. buffer' \in [Offsets -> Byte]
      <4>1. \A i \in Offset(pos)..(Offset(pos) + CopyLength - 1) : bytes[i - Offset(pos) + 1] \in Byte
        BY <1>5, <2>1, <2>2 DEF TypeOK, Offsets
      <4> QED
        BY <1>5, <4>1 DEF WriteChunk, TypeOK
    <3>2. op' \in Calls
      BY <1>5, <2>2, OneLess DEF WriteChunk, TypeOK
    <3> QED
      BY <1>5, <2>2, <2>9, <3>1, <3>2 DEF WriteChunk, TypeOK
  <2>5. Ahead' /\ Phases'
    BY <1>5, <2>0, <2>2 DEF WriteChunk, Running, Ahead, Phases, TypeOK
  <2>6. Aligned'
    BY <1>5, <2>0 DEF WriteChunk, Aligned
  <2>7. DiskOK'
    BY <1>5, <2>0, <2>2, <2>9 DEF WriteChunk, DiskOK, TypeOK, Ahead
  <2>8. BlockOK'
    <3> SUFFICES ASSUME NEW d \in 0..(pos' - ipos - 1) PROVE buffer'[d] = sent'[ipos + d + 1]
      BY <1>5 DEF WriteChunk, BlockOK
    <3>1. d \in Offsets /\ pos' = pos + CopyLength
      BY <1>5, <2>0, <2>2 DEF WriteChunk, Offsets, TypeOK, Ahead
    <3>2. CASE d < pos - ipos
      <4>1. buffer'[d] = buffer[d]
        BY <1>5, <2>1, <3>1, <3>2 DEF WriteChunk, Offsets, TypeOK
      <4>3. Len(sent) = pos /\ ipos + d + 1 \in 1..(Len(sent) + CopyLength) /\ ipos + d + 1 <= Len(sent)
        BY <2>2, <3>1, <3>2 DEF TypeOK, DiskOK
      <4>2. sent'[ipos + d + 1] = sent[ipos + d + 1]
        BY <2>9, <4>3
      <4> QED
        BY <3>2, <4>1, <4>2 DEF BlockOK, TypeOK
    <3>3. CASE d >= pos - ipos
      <4>1. buffer'[d] = bytes[d - (pos - ipos) + 1]
        BY <1>5, <2>1, <2>2, <3>1, <3>3 DEF WriteChunk, Offsets, TypeOK
      <4>2. Len(sent) = pos /\ ipos + d + 1 \in 1..(Len(sent) + CopyLength) /\ ~(ipos + d + 1 <= Len(sent))
        BY <2>2, <3>1, <3>3 DEF TypeOK, DiskOK
      <4>3. \A i \in 1..(Len(sent) + CopyLength) : ~(i <= Len(sent)) => sent'[i] = bytes[i - Len(sent)]
        BY <2>9, Zenon
      <4>4. PICK i \in 1..(Len(sent) + CopyLength) : i = ipos + d + 1
        BY <4>2
      <4>5. sent'[i] = bytes[i - pos]
        BY <4>2, <4>3, <4>4
      <4>6. i - pos = d - (pos - ipos) + 1
        BY <3>1, <4>4 DEF TypeOK, Offsets
      <4> QED
        BY <4>1, <4>4, <4>5, <4>6
    <3> QED
      BY <3>2, <3>3 DEF TypeOK
  <2> QED
    BY <2>4, <2>5, <2>6, <2>7, <2>8
<1>6. CASE FlushEnds
  <2>0. Offset(ipos) = 0 /\ towrite = pos - ipos /\ written = towrite /\ ipos' = pos /\ written' = 0
    BY <1>6 DEF FlushEnds, Aligned, Phases, TypeOK, NotFlushing
  <2>1. TypeOK'
    BY <1>6, <2>0 DEF FlushEnds, TypeOK
  <2>2. Ahead' /\ Phases'
    BY <1>6, <2>0 DEF FlushEnds, Ahead, Phases, TypeOK
  <2>3. Aligned'
    <3>1. CASE op.kind = "destroy"
      BY <1>6, <2>0, <3>1 DEF FlushEnds, Aligned
    <3>2. CASE op.kind # "destroy"
      <4>1. pos = ipos + BufferSize
        BY <1>6, <2>0, <3>2 DEF FlushEnds, Phases, TypeOK
      <4>2. Offset(pos) = 0
        BY <2>0, <4>1, OffsetNextBlock DEF TypeOK
      <4> QED
        BY <2>0, <4>2 DEF Aligned
    <3> QED
      BY <3>1, <3>2
  <2>4. DiskOK' /\ BlockOK'
    BY <1>6, <2>0 DEF FlushEnds, DiskOK, BlockOK, TypeOK
  <2> QED
    BY <2>1, <2>2, <2>3, <2>4
<1>7. CASE FlushFull
  <2>0. written = 0 /\ towrite = NotFlushing
    BY <1>7 DEF FlushFull, Running, Phases
  <2>1. TypeOK'
    BY <1>7 DEF FlushFull, bf_write_buffer, TypeOK, Ahead
  <2>2. Ahead' /\ DiskOK' /\ BlockOK'
    BY <1>7, <2>0, FrameFacts DEF FlushFull, bf_write_buffer
  <2>3. Phases'
    BY <1>7 DEF FlushFull, Full, bf_write_buffer, Running, Phases, Ahead, TypeOK, NotFlushing
  <2>4. Aligned'
    BY <1>7 DEF FlushFull, Running, Aligned, Phases
  <2> QED
    BY <2>1, <2>2, <2>3, <2>4
<1>8. CASE Return \/ Fclose
  <2>1. TypeOK'
    <3>1. op' \in Calls
      BY <1>8 DEF Return, Fclose, Calls
    <3> QED
      BY <1>8, <3>1 DEF Return, Fclose, TypeOK
  <2>2. Ahead' /\ DiskOK' /\ BlockOK'
    BY <1>8, FrameFacts DEF Return, Fclose
  <2>3. Phases'
    BY <1>8 DEF Return, Fclose, Running, Phases
  <2>4. Aligned'
    BY <1>8 DEF Return, Fclose, Running, Aligned, Phases
  <2> QED
    BY <2>1, <2>2, <2>3, <2>4
<1>9. CASE FwriteNothing \/ DiskFills \/ UNCHANGED vars
  <2>1. TypeOK'
    BY <1>9 DEF FwriteNothing, DiskFills, vars, TypeOK
  <2>2. Ahead' /\ DiskOK' /\ BlockOK'
    BY <1>9, FrameFacts DEF FwriteNothing, DiskFills, vars
  <2>3. Phases'
    BY <1>9 DEF FwriteNothing, DiskFills, vars, Phases
  <2>4. Aligned'
    BY <1>9 DEF FwriteNothing, DiskFills, vars, Aligned
  <2> QED
    BY <2>1, <2>2, <2>3, <2>4
<1> QED
  BY <1>1, <1>2, <1>3, <1>4, <1>5, <1>6, <1>7, <1>8, <1>9 DEF Next, Call, Step

\* Every reachable state satisfies the inductive invariant.
LEMMA Invariance == Spec => []IInv
  BY InitIInv, NextIInv, PTL DEF Spec
-----------------------------------------------------------------------------
\* The fields of a bfile_t open for writing, and the locals of the call that
\* runs, always have their types.
THEOREM TypeCorrect == Spec => []TypeOK
<1>1. IInv => TypeOK
  BY DEF IInv
<1> QED
  BY <1>1, Invariance, PTL

\* bf_write_buffer never hands fwrite memory beyond the block, for any block
\* size and any sequence of bf_put_* and bf_write calls.
THEOREM FlushStaysInBlock == Spec => []FlushInBlock
<1>1. IInv => FlushInBlock
  BY SinkAssumption DEF IInv, FlushInBlock, Aligned, Phases, Ahead, TypeOK
<1> QED
  BY <1>1, Invariance, PTL

\* The file followed by the block is what the clients wrote: no byte is lost,
\* doubled or moved by bf_put_*, bf_write and the flushes between them.
THEOREM BytesArePreserved == Spec => []NothingLost
<1>1. ASSUME IInv PROVE NothingLost
  <2> USE <1>1, SinkAssumption DEF IInv
  <2>1. Len(disk) \in Nat /\ Len(disk) = ipos + written /\ Len(disk) <= pos
    BY DEF DiskOK, Ahead, Phases, TypeOK, NotFlushing
  <2>2. Pending \in Seq(Byte) /\ Len(Pending) = pos - Len(disk)
    <3>1. \A p \in Nat : Offset(p) \in Offsets
      BY DivisionFacts DEF Offset, Offsets
    <3>2. \A k \in 1..(pos - Len(disk)) : buffer[Offset(Len(disk) + k - 1)] \in Byte
      BY <2>1, <3>1 DEF TypeOK
    <3> QED
      BY <2>1, <3>2 DEF Pending, TypeOK
  <2>3. \A k \in 1..(pos - Len(disk)) : Pending[k] = sent[Len(disk) + k]
    <3> SUFFICES ASSUME NEW k \in 1..(pos - Len(disk)) PROVE Pending[k] = sent[Len(disk) + k]
      OBVIOUS
    <3>1. Offset(ipos) = 0 /\ written + k - 1 \in Offsets /\ written + k - 1 \in 0..(pos - ipos - 1)
      BY <2>1 DEF Aligned, Ahead, Phases, TypeOK, Offsets
    <3>2. Offset(ipos + (written + k - 1)) = written + k - 1
      BY <3>1, OffsetInBlock DEF TypeOK
    <3>3. buffer[written + k - 1] = sent[ipos + (written + k - 1) + 1]
      BY <3>1 DEF BlockOK
    <3>4. Len(disk) + k - 1 = ipos + (written + k - 1) /\ Len(disk) + k = ipos + (written + k - 1) + 1
      BY <2>1 DEF TypeOK
    <3> QED
      BY <3>2, <3>3, <3>4 DEF Pending
  <2>4. /\ disk \o Pending \in Seq(Byte) /\ Len(disk \o Pending) = pos
        /\ \A i \in 1..pos : (disk \o Pending)[i] = IF i <= Len(disk) THEN disk[i] ELSE Pending[i - Len(disk)]
    <3>1. disk \in Seq(Byte) /\ Len(disk) + Len(Pending) = pos
      BY <2>1, <2>2 DEF TypeOK
    <3> QED
      BY <2>1, <2>2, <3>1, ConcatBytes DEF TypeOK
  <2>5. \A i \in 1..pos : sent[i] = (disk \o Pending)[i]
    <3> SUFFICES ASSUME NEW i \in 1..pos PROVE sent[i] = (disk \o Pending)[i]
      OBVIOUS
    <3>0. i <= Len(disk) \/ i > Len(disk)
      BY <2>1
    <3>1. CASE i <= Len(disk)
      BY <2>1, <2>4, <3>1 DEF DiskOK, TypeOK
    <3>2. CASE i > Len(disk)
      <4>1. i - Len(disk) \in 1..(pos - Len(disk)) /\ Len(disk) + (i - Len(disk)) = i
        BY <2>1, <3>2 DEF TypeOK
      <4> QED
        BY <2>3, <2>4, <3>2, <4>1
    <3> QED
      BY <3>0, <3>1, <3>2, Zenon
  <2>6. sent = disk \o Pending
    BY <2>4, <2>5, SeqEqual DEF TypeOK, DiskOK
  <2> QED
    BY <2>1, <2>6 DEF NothingLost
<1> QED
  BY <1>1, Invariance, PTL

(***************************************************************************)
(* A bfile open for writing implements ByteSink.                           *)
(***************************************************************************)

\* A sequence is extended by another one appended to it.
LEMMA ExtendedByConcat ==
  ASSUME NEW s \in Seq(Byte), NEW t \in Seq(Byte)
  PROVE  s \o t \in Seq(Byte) /\ Sink!IsPrefixOf(s, s \o t)
<1>1. Len(s) \in Nat /\ Len(t) \in Nat
  OBVIOUS
<1> QED
  BY <1>1, ConcatBytes DEF Sink!IsPrefixOf

\* Every step of the buffered writer is a step of the sink, or invisible.
LEMMA StepRefines == IInv /\ IInv' /\ [Next]_vars => [Sink!Next]_(Sink!vars)
<1> SUFFICES ASSUME IInv, IInv', [Next]_vars PROVE [Sink!Next]_(Sink!vars)
  OBVIOUS
<1> USE SinkAssumption
<1>1. ASSUME NEW res \in 1..BufferSize, Fwrite(res) PROVE Sink!Store
  <2> DEFINE chunk == [k \in 1..res |-> BufferAt(Offset(ipos) + written + k - 1)]
  <2>1. chunk \in Seq(Byte)
    BY DEF BufferAt, IInv, TypeOK
  <2> HIDE DEF chunk
  <2>2. disk' = disk \o chunk
    BY <1>1 DEF Fwrite, chunk
  <2>3. disk' \in Seq(Byte) /\ Sink!IsPrefixOf(disk, disk')
    BY <2>1, <2>2, ExtendedByConcat DEF IInv, TypeOK
  <2>4. Sink!IsPrefixOf(disk', sent)
    <3>1. written' <= towrite' /\ towrite' = pos' - ipos' /\ sent' = sent
      BY <1>1 DEF Fwrite, IInv, Phases
    <3>2. Len(disk') <= Len(sent)
      BY <3>1 DEF IInv, DiskOK, TypeOK
    <3>3. \A i \in 1..Len(disk') : disk'[i] = sent[i]
      BY <3>1 DEF IInv, DiskOK
    <3> QED
      BY <3>2, <3>3 DEF Sink!IsPrefixOf
  <2>5. op.kind # "closed" /\ op' = op /\ sent' = sent
    BY <1>1 DEF Fwrite, IInv, Phases
  <2> QED
    BY <2>3, <2>4, <2>5 DEF Sink!Store
<1>2. ASSUME NEW b \in Byte, PutByte(b) PROVE Sink!Accept
  <2>1. sent' \in Seq(Byte) /\ Sink!IsPrefixOf(sent, sent')
    BY <1>2, AppendProperties DEF PutByte, IInv, TypeOK, Sink!IsPrefixOf
  <2>2. op.kind = "put" /\ op'.kind = "put" /\ disk' = disk
    BY <1>2 DEF PutByte, Running, IInv, TypeOK, Calls
  <2> QED
    BY <2>1, <2>2 DEF Sink!Accept
<1>3. ASSUME NEW bytes \in [1..CopyLength -> Byte], WriteChunk(bytes) PROVE Sink!Accept
  <2>0. CopyLength \in Nat
    <3>1. op.left \in Nat /\ Offset(pos) \in Offsets
      BY DivisionFacts DEF IInv, TypeOK, Calls, Offset, Offsets
    <3> QED
      BY <3>1 DEF CopyLength, Smaller, Offsets
  <2>1. sent' \in Seq(Byte) /\ Sink!IsPrefixOf(sent, sent')
    BY <1>3, <2>0, ExtendedByConcat DEF WriteChunk, IInv, TypeOK
  <2>2. op.kind = "write" /\ op'.kind = "write" /\ disk' = disk
    BY <1>3 DEF WriteChunk, Running, IInv, TypeOK, Calls
  <2> QED
    BY <2>1, <2>2 DEF Sink!Accept
<1>4. CASE Fclose
  <2>1. op.kind = "destroy" /\ op'.kind = "closed" /\ disk' = disk /\ sent' = sent
    BY <1>4 DEF Fclose, Running
  <2>2. disk = sent
    <3>1. Len(disk) = Len(sent)
      BY <1>4 DEF Fclose, Running, IInv, DiskOK, Phases, TypeOK
    <3> QED
      BY <3>1, SeqEqual DEF IInv, DiskOK, TypeOK
  <2> QED
    BY <2>1, <2>2 DEF Sink!Close, Sink!Next
<1>5. CASE \/ \E n \in Requests : bf_put(n) \/ bf_write(n)
           \/ bf_destroy \/ FlushEnds \/ FlushFull \/ Return
           \/ FwriteNothing \/ DiskFills \/ UNCHANGED vars
  <2>1. sent' = sent /\ disk' = disk
    BY <1>5 DEF bf_put, bf_write, bf_destroy, FlushEnds, FlushFull, Return, FwriteNothing, DiskFills, vars
  <2>2. op.kind = "closed" <=> op'.kind = "closed"
    BY <1>5 DEF bf_put, bf_write, bf_destroy, FlushEnds, FlushFull, Return, FwriteNothing, DiskFills, vars,
                Idle, Running
  <2> QED
    BY <2>1, <2>2 DEF Sink!vars
<1> QED
  BY <1>1, <1>2, <1>3, <1>4, <1>5 DEF Next, Call, Step, Sink!Next

\* A client of bf_put_*, bf_write and bf_destroy sees a plain byte sink: what
\* it wrote reaches the file in order, all of it by the time it is closed.
THEOREM WriterIsASink == Spec => SinkSpec
<1>1. Init => Sink!Init
  BY DEF Init, Sink!Init
<1>2. Spec => [][Sink!Next]_(Sink!vars)
  BY StepRefines, Invariance, PTL DEF Spec
<1> QED
  BY <1>1, <1>2, PTL DEF Spec, SinkSpec, Sink!Spec
=============================================================================
