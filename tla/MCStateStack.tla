---------------------------- MODULE MCStateStack ----------------------------
\* Matrix = 0..n: the first n multiply like rotations by an n-th of a turn, the
\* last one is singular.
EXTENDS StateStack, FiniteSets, TLC
Singular == Cardinality(Matrix) - 1
MCMult(a, b) == IF Singular \in {a, b} THEN Singular ELSE (a + b) % Singular
MCInverse(a) == IF a = Singular THEN None ELSE (Singular - a) % Singular
Interchange == Permutations(Handle)
=============================================================================
