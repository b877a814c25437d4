---------------------------- MODULE MCBFileRead ----------------------------
(* Small files: every byte differs from every other and from Junk, so a byte *)
(* taken from the wrong place shows.                                         *)
EXTENDS BFileRead

MCDisk == [i \in 0..(Size - 1) |-> i + 1]
MCByte == 0..(Size + 1)
MCJunk == Size + 1
=============================================================================
