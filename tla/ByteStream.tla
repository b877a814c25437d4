----------------------------- MODULE ByteStream -----------------------------
(***************************************************************************)
(* What the reading half of bfile promises its clients: a file is a        *)
(* sequence of bytes with a cursor.  Nothing of the block buffer is        *)
(* visible here.  A call begins, and later returns with its answer; the    *)
(* cursor moves when the call returns.                                     *)
(***************************************************************************)
EXTENDS Integers, Sequences

CONSTANTS
  Disk,     \* the bytes of the file, a function on 0..(Size - 1)
  Size,     \* the length of the file when it was opened
  Byte,     \* the values a byte may have
  Requests  \* the lengths a client asks for

VARIABLES
  cursor,   \* the offset of the next byte
  content,  \* the bytes as the client sees them: Disk, and what was pushed back
  call      \* the call under way, or the last one with its answer

vars == <<cursor, content, call>>

Smaller(a, b) == IF a <= b THEN a ELSE b

Init ==
  /\ cursor = 0
  /\ content = Disk
  /\ call = [kind |-> "none", busy |-> FALSE, n |-> 0, out |-> <<>>]

(***************************************************************************)
(* A client asks for n bytes, for a look at the next two, or to go back n  *)
(* bytes.  Going back may forget bytes that were pushed back earlier.      *)
(***************************************************************************)
Begin(kind, n) ==
  /\ ~call.busy
  /\ call' = [kind |-> kind, busy |-> TRUE, n |-> n, out |-> <<>>]
  /\ content' \in IF kind = "rewind" THEN {content, Disk} ELSE {content}
  /\ UNCHANGED cursor

End(out) == call' = [call EXCEPT !.busy = FALSE, !.out = out]

\* Fixed-width reads: past the end of the file every byte is 0.
GetEnds ==
  /\ call.busy /\ call.kind = "get"
  /\ End([i \in 1..call.n |-> IF cursor + i - 1 < Size THEN content[cursor + i - 1] ELSE 0])
  /\ cursor' = Smaller(cursor + call.n, Size)
  /\ UNCHANGED content

\* Block reads: cropped at the end of the file.
ReadEnds ==
  /\ call.busy /\ call.kind = "read"
  /\ End([i \in 1..Smaller(call.n, Size - cursor) |-> content[cursor + i - 1]])
  /\ cursor' = cursor + Smaller(call.n, Size - cursor)
  /\ UNCHANGED content

\* A look at the next two bytes is exact on an even offset, the only
\* offsets at which OpenFlight records start; elsewhere it may be wrong.
PeekEnds ==
  /\ call.busy /\ call.kind = "peek"
  /\ \E a, b \in Byte :
       /\ (cursor % 2 = 0 /\ cursor + 2 <= Size) => (a = content[cursor] /\ b = content[cursor + 1])
       /\ End(<<a, b>>)
  /\ UNCHANGED <<cursor, content>>

RewindEnds ==
  /\ call.busy /\ call.kind = "rewind"
  /\ End(<<>>)
  /\ cursor' = cursor - Smaller(call.n, cursor)
  /\ UNCHANGED content

\* Four bytes just read are pushed back, with other values: the answer
\* records them, and they are what the next read returns.
Unget ==
  /\ ~call.busy /\ cursor >= 4
  /\ call'.out \in [1..4 -> Byte]
  /\ call' = [kind |-> "unget", busy |-> FALSE, n |-> 4, out |-> call'.out]
  /\ cursor' = cursor - 4
  /\ content' = [i \in 0..(Size - 1) |->
                   IF i \in (cursor - 4)..(cursor - 1) THEN call'.out[i - cursor + 5] ELSE content[i]]

Next ==
  \/ \E kind \in {"get", "read", "rewind"}, n \in Requests : Begin(kind, n)
  \/ Begin("peek", 2)
  \/ GetEnds \/ ReadEnds \/ PeekEnds \/ RewindEnds
  \/ Unget

Spec == Init /\ [][Next]_vars
=============================================================================
