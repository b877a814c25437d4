----------------------------- MODULE BFileWrite -----------------------------
(***************************************************************************)
(* A bfile open for writing (src/util/bfile.c).  Bytes are collected in    *)
(* one block; `pos' counts the bytes accepted and `ipos' those flushed.    *)
(* bf_write_buffer flushes with a loop around fwrite, one action per       *)
(* fwrite, so that short writes and a full disk are covered.               *)
(***************************************************************************)
EXTENDS Integers, Sequences

CONSTANTS
  BufferSize,  \* BFILE_BLOCK_SIZE
  Byte,        \* the values of a byte
  Junk,        \* what malloc'ed or foreign memory holds
  Requests,    \* the numbers of bytes a client writes in one call
  MaxBytes,    \* bound: how many bytes a client writes in all
  MayFillUp    \* TRUE when the disk may become full

ASSUME SinkAssumption ==
  /\ BufferSize \in Nat \ {0}
  /\ Junk \in Byte
  /\ Requests \subseteq Nat \ {0}
  /\ MaxBytes \in Nat
  /\ MayFillUp \in BOOLEAN

VARIABLES
  pos,      \* bytes accepted
  ipos,     \* bytes flushed by completed calls of bf_write_buffer
  buffer,   \* the block
  disk,     \* the bytes fwrite has taken
  towrite,  \* bf_write_buffer: pos - ipos when it was called, NotFlushing outside
  written,  \* bf_write_buffer: what fwrite has taken of that
  op,       \* the call under way: its kind and the bytes it still has to place
  full,     \* the disk is full: fwrite returns 0
  sent      \* auxiliary: every byte a client has handed over

vars == <<pos, ipos, buffer, disk, towrite, written, op, full, sent>>

NotFlushing == -1
Offsets == 0..(BufferSize - 1)
Smaller(a, b) == IF a <= b THEN a ELSE b
Offset(p) == p % BufferSize
\* The memory at buffer + i, also beyond the block.
BufferAt(i) == IF i \in Offsets THEN buffer[i] ELSE Junk
Idle == op.kind = "none"
Running(kind) == op.kind = kind /\ towrite = NotFlushing
\* Mutation of Full: off by one.
FullLate == pos - ipos > BufferSize

Full == pos - ipos >= BufferSize

\* bf_create_w
Init ==
  /\ pos = 0 /\ ipos = 0
  /\ buffer = [i \in Offsets |-> Junk]
  /\ disk = <<>> /\ sent = <<>>
  /\ towrite = NotFlushing /\ written = 0
  /\ op = [kind |-> "none", left |-> 0]
  /\ full = FALSE

-----------------------------------------------------------------------------
(* bf_write_buffer *)
bf_write_buffer ==
  /\ towrite' = pos - ipos
  /\ written' = 0

Fwrite(res) ==
  /\ towrite # NotFlushing /\ written < towrite /\ ~full
  /\ res \in 1..(towrite - written)
  /\ disk' = disk \o [k \in 1..res |-> BufferAt(Offset(ipos) + written + k - 1)]
  /\ written' = written + res
  /\ UNCHANGED <<pos, ipos, buffer, towrite, op, full, sent>>

\* fwrite returns 0, an error is printed, and the loop tries again.
FwriteNothing ==
  /\ towrite # NotFlushing /\ written < towrite /\ full
  /\ UNCHANGED vars

FlushEnds ==
  /\ towrite # NotFlushing /\ written >= towrite
  /\ ipos' = ipos + written
  /\ towrite' = NotFlushing
  /\ written' = 0
  /\ UNCHANGED <<pos, buffer, disk, op, full, sent>>

-----------------------------------------------------------------------------
(* bf_put_int8 .. bf_put_float64_le: n single-byte stores. *)
bf_put(n) ==
  /\ Idle /\ pos + n <= MaxBytes
  /\ op' = [kind |-> "put", left |-> n]
  /\ UNCHANGED <<pos, ipos, buffer, disk, towrite, written, full, sent>>

\* bf_put_uint8, bf_put_int8: flush a full block first, then store.
PutByte(b) ==
  /\ Running("put") /\ op.left > 0
  /\ ~Full
  /\ buffer' = [buffer EXCEPT ![Offset(pos)] = b]
  /\ pos' = pos + 1
  /\ sent' = Append(sent, b)
  /\ op' = [op EXCEPT !.left = @ - 1]
  /\ UNCHANGED <<ipos, disk, towrite, written, full>>

\* bf_write
bf_write(n) ==
  /\ Idle /\ pos + n <= MaxBytes
  /\ op' = [kind |-> "write", left |-> n]
  /\ UNCHANGED <<pos, ipos, buffer, disk, towrite, written, full, sent>>
\* Mutations of CopyLength: past the end of the block; one byte short of it.
CopyPastBlock == op.left
CopyOneShort == Smaller(BufferSize - Offset(pos) - 1, op.left)

\* One round of bf_write's loop: copy what fits before the end of the block.
CopyLength == Smaller(BufferSize - Offset(pos), op.left)
WriteChunk(bytes) ==
  /\ Running("write") /\ op.left > 0
  /\ ~Full
  /\ buffer' = [i \in Offsets |->
                  IF i \in Offset(pos)..(Offset(pos) + CopyLength - 1)
                  THEN bytes[i - Offset(pos) + 1] ELSE buffer[i]]
  /\ pos' = pos + CopyLength
  /\ sent' = sent \o bytes
  /\ op' = [op EXCEPT !.left = @ - CopyLength]
  /\ UNCHANGED <<ipos, disk, towrite, written, full>>

\* Either loop finds the block full.
FlushFull ==
  /\ Running("put") \/ Running("write")
  /\ op.left > 0 /\ Full
  /\ bf_write_buffer
  /\ UNCHANGED <<pos, ipos, buffer, disk, op, full, sent>>

Return ==
  /\ Running("put") \/ Running("write")
  /\ op.left = 0
  /\ op' = [kind |-> "none", left |-> 0]
  /\ UNCHANGED <<pos, ipos, buffer, disk, towrite, written, full, sent>>
\* Mutation of bf_destroy: no flush.
DestroyUnflushed ==
  /\ Idle
  /\ op' = [kind |-> "destroy", left |-> 0]
  /\ UNCHANGED <<pos, ipos, buffer, disk, towrite, written, full, sent>>

\* bf_destroy: flush what is left, then fclose.
bf_destroy ==
  /\ Idle
  /\ op' = [kind |-> "destroy", left |-> 0]
  /\ bf_write_buffer
  /\ UNCHANGED <<pos, ipos, buffer, disk, full, sent>>

Fclose ==
  /\ Running("destroy")
  /\ op' = [kind |-> "closed", left |-> 0]
  /\ UNCHANGED <<pos, ipos, buffer, disk, towrite, written, full, sent>>

DiskFills ==
  /\ MayFillUp /\ ~full
  /\ full' = TRUE
  /\ UNCHANGED <<pos, ipos, buffer, disk, towrite, written, op, sent>>

Call == (\E n \in Requests : bf_put(n) \/ bf_write(n)) \/ bf_destroy
Step ==
  \/ \E res \in 1..BufferSize : Fwrite(res)
  \/ \E b \in Byte : PutByte(b)
  \/ \E bytes \in [1..CopyLength -> Byte] : WriteChunk(bytes)
  \/ FlushEnds \/ FlushFull \/ Return \/ Fclose

Next == Call \/ Step \/ FwriteNothing \/ DiskFills

\* The thread that made a call keeps running it.
Spec == Init /\ [][Next]_vars /\ WF_vars(Step)
-----------------------------------------------------------------------------
Calls == [kind : {"none", "put", "write", "destroy", "closed"}, left : Nat]

\* The variables of bfile_t and of the running call have their types.
TypeOK ==
  /\ pos \in Nat /\ ipos \in Nat
  /\ buffer \in [Offsets -> Byte]
  /\ disk \in Seq(Byte) /\ sent \in Seq(Byte)
  /\ towrite \in Nat \cup {NotFlushing} /\ written \in Nat
  /\ op \in Calls
  /\ full \in BOOLEAN

\* bf_write_buffer takes `towrite' consecutive bytes from buffer + ipos % size:
\* they never run past the end of the block, although nothing in the code
\* checks it, because every flush but the last starts on a block boundary.
FlushInBlock == towrite # NotFlushing => Offset(ipos) + towrite <= BufferSize

\* What the clients handed over is, in order, what fwrite has taken followed
\* by what waits in the block: no byte is lost, doubled or moved when the
\* block fills up in the middle of a number or of a bf_write.
Pending == [k \in 1..(pos - Len(disk)) |-> buffer[Offset(Len(disk) + k - 1)]]
NothingLost == Len(disk) <= pos /\ sent = disk \o Pending

\* The client's view of a file being written.
Sink == INSTANCE ByteSink WITH
  log <- sent, stored <- disk, status <- IF op.kind = "closed" THEN "closed" ELSE "open"
SinkSpec == Sink!Spec

\* Every call returns unless the disk fills up, in which case
\* bf_write_buffer spins on fwrite() == 0.
CallsReturn ==
  op.kind \in {"put", "write", "destroy"} ~> (op.kind \in {"none", "closed"} \/ full)
=============================================================================
