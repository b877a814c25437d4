------------------------------- MODULE Arrays -------------------------------
(***************************************************************************)
(* Growable arrays (src/util/array.c) as values: the header's fields, the  *)
(* elements, and how many bytes malloc or realloc gave them.  elemsize is  *)
(* a field of four bits, so an array of larger elements grows by a part of *)
(* what it was made with; the library's arrays all hold pointers or ints.  *)
(***************************************************************************)
EXTENDS Integers, Sequences

CONSTANT PointerSize  \* bytes of an element (8)
ASSUME PointerAssumption == PointerSize \in 1..15

NULL == 0

\* Mutation of Elemsize: a field of three bits.
ElemsizeNarrow(n) == n % 8
\* unsigned int elemsize : 4
Elemsize(n) == n % 16

prf_array_init(initsize, elemsize) ==
  [size |-> initsize, elemsize |-> Elemsize(elemsize), bytes |-> initsize * elemsize, elems |-> <<>>]
prf_array_set_size(a, newsize) ==
  [a EXCEPT !.size = newsize, !.bytes = newsize * a.elemsize]
\* A full array doubles first.
prf_array_append(a, elem) ==
  LET room == IF Len(a.elems) >= a.size THEN prf_array_set_size(a, 2 * a.size) ELSE a
  IN [room EXCEPT !.elems = Append(@, elem)]
prf_array_count(a) == Len(a.elems)

\* Every element lies in the memory the array has.
InBounds(a) == Len(a.elems) * PointerSize <= a.bytes
=============================================================================
