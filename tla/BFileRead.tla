------------------------------ MODULE BFileRead ------------------------------
(***************************************************************************)
(* A bfile open for reading (src/util/bfile.c): the byte stream every      *)
(* loader reads its records from.  The client sees a position `pos'; the   *)
(* file is read block by block into one buffer, and `ipos' is the file     *)
(* offset up to which it has been read.  A call that needs bytes beyond    *)
(* `ipos' runs bf_read_buffer, whose loop around fread is one action per   *)
(* fread, so that short reads and a file that shrank are both covered.     *)
(*                                                                         *)
(* bf_create_m gives the same structure a buffer that is the caller's      *)
(* memory and no FILE; `buffer_size' is then the length of that memory.    *)
(***************************************************************************)
EXTENDS Integers, Sequences

CONSTANTS
  BlockSize,    \* BFILE_BLOCK_SIZE
  Size,         \* size: what stat() said when the file was opened
  Disk,         \* the bytes of the file
  Byte,         \* the values of a byte
  Junk,         \* a byte of malloc'ed memory nobody wrote
  MayTruncate,  \* TRUE when another program may shorten the open file
  Requests      \* the lengths asked for: 1, 2, 4, 8 for the typed reads, any for bf_read

ASSUME BlockAssumption ==
  /\ BlockSize \in Nat \ {0} /\ BlockSize % 2 = 0
  /\ MayTruncate \in BOOLEAN
ASSUME FileAssumption ==
  /\ Size \in Nat \ {0} /\ Byte \subseteq Nat /\ 0 \in Byte /\ Junk \in Byte
  /\ Disk \in [0..(Size - 1) -> Byte]
  /\ Requests \subseteq Nat

VARIABLES
  file,    \* TRUE with a FILE (bf_create_r), FALSE without one (bf_create_m)
  pos,     \* offset of the next byte handed to the client
  ipos,    \* offset of the next byte fread would be asked for
  buffer,  \* the block
  fpos,    \* the offset the FILE itself is at
  length,  \* the length of the file now (fread returns 0 beyond it)
  fill,    \* `bytes' of a running bf_read_buffer, NotFilling outside it
  op,      \* the call under way, or the last one and its answer
  halted,  \* "no", or how the program died inside a call
  base,    \* auxiliary: the file offset of buffer[0]
  view     \* auxiliary: the file with the bytes pushed back by bf_unget_uint32_be

vars == <<file, pos, ipos, buffer, fpos, length, fill, op, halted, base, view>>

NotFilling == -1
BufferSize == IF file THEN BlockSize ELSE Size
Offsets == 0..(BufferSize - 1)
Smaller(a, b) == IF a <= b THEN a ELSE b
Offset(p) == p % BufferSize
Block(p) == p \div BufferSize
Running(kind) == op.busy /\ op.kind = kind /\ fill = NotFilling /\ halted = "no"
Begin(kind, n, left) ==
  op' = [kind |-> kind, busy |-> TRUE, n |-> n, left |-> left, from |-> pos, out |-> <<>>]

\* bf_create_r, bf_create_m
Init ==
  /\ file \in BOOLEAN
  /\ pos = 0 /\ fpos = 0 /\ base = 0
  /\ length = Size
  /\ ipos = IF file THEN 0 ELSE Size
  /\ buffer = IF file THEN [i \in Offsets |-> Junk] ELSE Disk
  /\ fill = NotFilling /\ halted = "no"
  /\ op = [kind |-> "none", busy |-> FALSE, n |-> 0, left |-> 0, from |-> 0, out |-> <<>>]
  /\ view = Disk

-----------------------------------------------------------------------------
(* bf_read_buffer *)

bf_read_buffer == fill' = 0

\* One fread of at most what the block still lacks.  A short count is
\* possible; the loop goes on.
Fread(b) ==
  /\ halted = "no" /\ fill # NotFilling
  /\ fill < BufferSize /\ ipos < Size
  /\ b \in 1..Smaller(BufferSize - fill, length - fpos)
  /\ buffer' = [i \in Offsets |-> IF i \in fill..(fill + b - 1) THEN Disk[fpos + i - fill] ELSE buffer[i]]
  /\ base' = ipos - fill
  /\ fill' = fill + b
  /\ ipos' = ipos + b
  /\ fpos' = fpos + b
  /\ UNCHANGED <<file, pos, length, op, halted, view>>

\* fread at the end of a file that is shorter than stat() said returns 0;
\* the loop prints an error and tries again, for ever.
FreadNothing ==
  /\ halted = "no" /\ fill # NotFilling
  /\ fill < BufferSize /\ ipos < Size
  /\ fpos >= length
  /\ UNCHANGED vars

FillEnds ==
  /\ halted = "no" /\ fill # NotFilling
  /\ fill >= BufferSize \/ ipos >= Size
  /\ fill' = NotFilling
  /\ UNCHANGED <<file, pos, ipos, buffer, fpos, length, op, halted, base, view>>

-----------------------------------------------------------------------------
(* Calls.  Every call begins when the bfile is idle: one thread uses it. *)

Idle == ~op.busy /\ halted = "no"

\* bf_get_int8 .. bf_get_float64_be: n single-byte reads.
bf_get(n) ==
  /\ Idle
  /\ Begin("get", n, n)
  /\ UNCHANGED <<file, pos, ipos, buffer, fpos, length, fill, halted, base, view>>

\* bf_get_uint8, bf_get_int8
GetByte ==
  /\ Running("get") /\ op.left > 0
  /\ \/ /\ pos = Size                       \* bf_at_eof: 0, and pos stays
        /\ op' = [op EXCEPT !.left = @ - 1, !.out = Append(@, 0)]
        /\ UNCHANGED <<pos, fill>>
     \/ /\ pos # Size /\ ipos - pos < 1
        /\ bf_read_buffer
        /\ UNCHANGED <<op, pos>>
     \/ /\ pos # Size /\ ipos - pos >= 1
        /\ op' = [op EXCEPT !.left = @ - 1, !.out = Append(@, buffer[Offset(pos)])]
        /\ pos' = pos + 1
        /\ UNCHANGED fill
  /\ UNCHANGED <<file, ipos, buffer, fpos, length, halted, base, view>>
\* Mutation of bf_read: the length is not cropped.
ReadUncropped(n) ==
  /\ Idle
  /\ Begin("read", n, n)
  /\ UNCHANGED <<file, pos, ipos, buffer, fpos, length, fill, halted, base, view>>

\* bf_read: the length is cropped to what is left of the file.
bf_read(n) ==
  /\ Idle
  /\ Begin("read", n, Smaller(n, Size - pos))
  /\ UNCHANGED <<file, pos, ipos, buffer, fpos, length, fill, halted, base, view>>

\* One round of bf_read's loop: copy the rest of the block, or refill it.
CopyLength == Smaller(BufferSize - Offset(pos), op.left)
ReadChunk ==
  /\ Running("read") /\ op.left > 0
  /\ \/ /\ pos < ipos
        /\ op' = [op EXCEPT !.left = @ - CopyLength,
                            !.out = @ \o [i \in 1..CopyLength |-> buffer[Offset(pos) + i - 1]]]
        /\ pos' = pos + CopyLength
        /\ UNCHANGED fill
     \/ /\ pos >= ipos
        /\ bf_read_buffer
        /\ UNCHANGED <<op, pos>>
  /\ UNCHANGED <<file, ipos, buffer, fpos, length, halted, base, view>>

\* bf_get_*, bf_read and bf_rewind return.
Return ==
  /\ op.left = 0 /\ (Running("get") \/ Running("read") \/ Running("rewind"))
  /\ op' = [op EXCEPT !.busy = FALSE]
  /\ UNCHANGED <<file, pos, ipos, buffer, fpos, length, fill, halted, base, view>>

\* bf_peek_uint16_be and its three siblings
bf_peek ==
  /\ Idle
  /\ Begin("peek", 2, 0)
  /\ IF Offset(pos) = 0 /\ pos = ipos THEN bf_read_buffer ELSE UNCHANGED fill
  /\ UNCHANGED <<file, pos, ipos, buffer, fpos, length, halted, base, view>>

\* Mutation of CannotPeek: the last two bytes of a block count as missing.
CannotPeekLast == ipos >= 2 /\ pos >= ipos - 2
\* ipos - 2 is computed in size_t: below 2 it wraps and the test never holds.
CannotPeek == ipos >= 2 /\ pos > ipos - 2
PeekReturn ==
  /\ Running("peek")
  /\ op' = [op EXCEPT !.busy = FALSE,
                      !.out = IF CannotPeek THEN <<0, 0>>
                              ELSE <<buffer[Offset(pos)], buffer[Offset(Offset(pos) + 1)]>>]
  /\ UNCHANGED <<file, pos, ipos, buffer, fpos, length, fill, halted, base, view>>
\* Mutation of bf_rewind: without the refill.
RewindWithoutRefill(n) ==
  /\ Idle
  /\ pos' = pos - Smaller(n, pos)
  /\ Begin("rewind", n, 0)
  /\ UNCHANGED <<file, ipos, buffer, fpos, length, fill, halted, base, view>>

\* bf_rewind.  Into an earlier block: seek there and refill.  A bfile made
\* by bf_create_m has no FILE to seek in.
bf_rewind(n) ==
  LET newpos == pos - Smaller(n, pos)
  IN /\ Idle
     /\ pos' = newpos
     /\ Begin("rewind", n, 0)
     /\ IF Block(newpos) < Block(pos)
        THEN /\ ipos' = Block(newpos) * BufferSize
             /\ fpos' = ipos'
             /\ IF file THEN UNCHANGED halted ELSE halted' = "null seek"
             /\ bf_read_buffer
             /\ view' = Disk
        ELSE UNCHANGED <<ipos, fpos, halted, fill, view>>
     /\ UNCHANGED <<file, buffer, length, base>>

\* bf_unget_uint32_be, which prf_model_load_with_callback calls right after
\* bf_get_uint32_be to push the four bytes back with both halves swapped.
Swapped(bytes) == <<bytes[2], bytes[1], bytes[4], bytes[3]>>
bf_unget(bytes) ==
  LET at == Offset(pos) - 4
  IN /\ Idle
     /\ IF at < 0
        THEN halted' = "unget assert" /\ UNCHANGED <<pos, buffer, op, view>>
        ELSE /\ buffer' = [i \in Offsets |-> IF i \in at..(at + 3) THEN bytes[i - at + 1] ELSE buffer[i]]
             /\ view' = [i \in 0..(Size - 1) |->
                           IF i \in (pos - 4)..(pos - 1) THEN bytes[i - pos + 5] ELSE view[i]]
             /\ pos' = pos - 4
             /\ op' = [kind |-> "unget", busy |-> FALSE, n |-> 4, left |-> 0, from |-> pos, out |-> bytes]
             /\ UNCHANGED halted
     /\ UNCHANGED <<file, ipos, fpos, length, fill, base>>
UngetSwapped ==
  /\ file     \* every program of the repository loads its models from files
  /\ op.kind = "get" /\ op.n = 4 /\ op.from + 4 = pos /\ Len(op.out) = 4
  /\ bf_unget(Swapped(op.out))

\* Another program shortens the file.
Truncate ==
  /\ MayTruncate /\ file /\ length = Size
  /\ length' \in 0..(Size - 1)
  /\ UNCHANGED <<file, pos, ipos, buffer, fpos, fill, op, halted, base, view>>

Call ==
  \/ \E n \in Requests : bf_get(n) \/ bf_read(n) \/ bf_rewind(n)
  \/ bf_peek \/ UngetSwapped

\* What the running call does next.
Step ==
  \/ \E b \in 1..Size : Fread(b)
  \/ FillEnds \/ GetByte \/ ReadChunk \/ Return \/ PeekReturn

Next == Call \/ Step \/ FreadNothing \/ Truncate

\* The thread that made a call keeps running it.
Spec == Init /\ [][Next]_vars /\ WF_vars(Step)
-----------------------------------------------------------------------------
Kinds == {"none", "get", "read", "peek", "rewind", "unget"}

\* The variables of bfile_t and of the running call have their types.
TypeOK ==
  /\ file \in BOOLEAN
  /\ pos \in 0..Size /\ ipos \in 0..Size /\ fpos \in 0..Size /\ length \in 0..Size
  /\ base \in 0..Size
  /\ buffer \in [Offsets -> Byte]
  /\ view \in [0..(Size - 1) -> Byte]
  /\ fill \in NotFilling..BufferSize
  /\ op \in [kind : Kinds, busy : BOOLEAN, n : Nat, left : Nat, from : 0..Size, out : Seq(Byte)]
  /\ halted \in {"no", "null seek", "unget assert"}

\* Outside bf_read_buffer the buffer holds the part of the block around pos
\* that lies below ipos, each byte at its offset modulo buffer_size: what
\* bf_get_*, bf_read and bf_peek_* index after `pos % buffer_size' is what
\* stands in the file at that position (or was pushed back there).
WindowOK ==
  /\ TypeOK
  /\ (fill = NotFilling /\ halted = "no") =>
    /\ pos <= ipos
    /\ \A p \in 0..(Size - 1) :
         (Block(p) = Block(pos) /\ p < ipos) => buffer[Offset(p)] = view[p]

\* The client's view: a cursor over bytes, no blocks.  bf_get_*, bf_read,
\* bf_peek_*, bf_rewind and bf_unget_uint32_be answer as if there were no
\* buffer.
Stream == INSTANCE ByteStream WITH
  cursor  <- IF op.busy THEN op.from ELSE pos,
  content <- view,
  call    <- [kind |-> op.kind, busy |-> op.busy, n |-> op.n,
              out |-> IF op.busy THEN <<>> ELSE op.out]
StreamSpec == Stream!Spec

\* Every call returns, unless the file was shortened behind its back, in
\* which case bf_read_buffer spins on fread() == 0, or the program died.
CallsReturn == op.busy ~> (~op.busy \/ length < Size \/ halted # "no")
=============================================================================
