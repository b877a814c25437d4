------------------------------ MODULE ByteSink ------------------------------
(***************************************************************************)
(* What the writing half of bfile promises: bytes are accepted in order,   *)
(* the file holds a prefix of them at any time, and all of them once the   *)
(* bfile is closed.                                                        *)
(***************************************************************************)
EXTENDS Integers, Sequences

CONSTANT Byte

VARIABLES
  log,     \* every byte accepted so far
  stored,  \* the bytes that are in the file
  status   \* "open" or "closed"

vars == <<log, stored, status>>

IsPrefixOf(s, t) == Len(s) <= Len(t) /\ \A i \in 1..Len(s) : s[i] = t[i]

Init == log = <<>> /\ stored = <<>> /\ status = "open"

\* The client hands over some bytes.
Accept ==
  /\ status = "open"
  /\ log' \in Seq(Byte) /\ IsPrefixOf(log, log')
  /\ UNCHANGED <<stored, status>>

\* Some of what was accepted reaches the file.
Store ==
  /\ status = "open"
  /\ stored' \in Seq(Byte) /\ IsPrefixOf(stored, stored') /\ IsPrefixOf(stored', log)
  /\ UNCHANGED <<log, status>>

\* Nothing accepted is missing from the file when it is closed.
Close ==
  /\ status = "open" /\ stored = log
  /\ status' = "closed"
  /\ UNCHANGED <<log, stored>>

Next == Accept \/ Store \/ Close
Spec == Init /\ [][Next]_vars
=============================================================================
