---------------------------- MODULE MCConverter -----------------------------
(***************************************************************************)
(* Instances of the converter and its tree: points on a small grid, and    *)
(* looks of which two are rounded to one point.                            *)
(***************************************************************************)
EXTENDS Converter

Grid == {<<x, y>> : x \in 6..8, y \in 0..1}

\* Floats of three bits: integers up to 8, then every second one, halves to even.
ThreeBits(x) == IF x <= 8 \/ x % 2 = 0 THEN x ELSE 4 * ((x + 2) \div 4)

Look(color, lightmode) == [packed_color |-> color, lightmode |-> lightmode, subface_level |-> 0]
ThreeLooks == {Look(9, 1), Look(8, 1), Look(8, 0)}
=============================================================================
