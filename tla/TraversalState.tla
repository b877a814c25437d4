--------------------------- MODULE TraversalState ---------------------------
(***************************************************************************)
(* The state a traversal hands to its callback (src/state.c), as a value,  *)
(* and what the entry and exit functions of the node types do with it      *)
(* (src/nodes/*.c).                                                        *)
(*                                                                         *)
(* The sorts of nodes are those of ModelLoad, coarser than the node types. *)
(* The parts of the state that node types change are disjoint, and what a  *)
(* part holds depends on the nodes of its own type alone.  So one sort     *)
(* stands for all its types at once: an ancillary node is a matrix, a      *)
(* palette, a material and a texture, a primary node is an object and an   *)
(* instance definition, and a push counts in the counter of its own sort.  *)
(* The matrices are those of TransformStack, which StateStack implements;  *)
(* a matrix is the nodes multiplied into it, in order.                     *)
(***************************************************************************)
EXTENDS Integers, Sequences

\* prf_state_create, prf_state_reset
NewState ==
  [matrix |-> <<<<>>>>,       \* matrix[0..state_push_level]
   push_level |-> 0,         \* uint16_t, as subface_, attribute_ and extension_level
   header |-> 0,
   materials |-> <<>>,
   found |-> <<>>,           \* textures, instances
   palette |-> 0,            \* color_palette, material_palette: the first one stays
   object |-> 0,             \* the object object_transparency was taken from
   physical_level |-> 0]

Contains(s, n) == \E i \in DOMAIN s : s[i] = n


prf_matrix_entry_f(n, s) == [s EXCEPT !.matrix[Len(s.matrix)] = Append(@, n)]
\* Mutation of prf_header_entry_f: the materials stay.
HeaderKeepsMaterials(n, s) ==
  IF s.header \in {0, n} THEN [s EXCEPT !.header = n] ELSE s
\* The first header clears the materials, and so do further visits of it.
prf_header_entry_f(n, s) ==
  IF s.header \in {0, n} THEN [s EXCEPT !.header = n, !.materials = <<>>] ELSE s
prf_material_entry_f(n, s) == [s EXCEPT !.materials = Append(@, n)]
prf_texture_entry_f(n, s) == [s EXCEPT !.found = Append(@, n)]
\* A second definition of the same node, on a second visit, is left out.
prf_instance_definition_entry_f(n, s) ==
  IF Contains(s.found, n) THEN s ELSE [s EXCEPT !.found = Append(@, n)]
\* prf_color_palette_entry_f and prf_material_palette_entry_f.
prf_material_palette_entry_f(n, s) == [s EXCEPT !.palette = IF @ = 0 THEN n ELSE @]
prf_object_entry_f(n, s) == [s EXCEPT !.object = n]
prf_object_exit_f(n, s) == [s EXCEPT !.object = 0]
prf_push_level_entry_f(n, s) == [s EXCEPT !.push_level = (@ + 1) % 65536]
\* Mutation of prf_pop_level_exit_f: a pop has no exit function.
PopStaysOpen(n, s) == s
prf_pop_level_exit_f(n, s) == [s EXCEPT !.push_level = (@ - 1) % 65536]

\* info->entry_f and info->exit_f.
entry_f(k, n, s) ==
  CASE k = "header" -> prf_header_entry_f(n, s)
    [] k = "anc" ->
         prf_material_palette_entry_f(n,
           prf_texture_entry_f(n, prf_material_entry_f(n, prf_matrix_entry_f(n, s))))
    [] k = "plain" -> prf_instance_definition_entry_f(n, prf_object_entry_f(n, s))
    [] k = "push" -> prf_push_level_entry_f(n, s)
    [] OTHER -> s
exit_f(k, n, s) ==
  CASE k = "plain" -> prf_object_exit_f(n, s)
    [] k = "pop" -> prf_pop_level_exit_f(n, s)
    [] OTHER -> s

\* prf_state_push and prf_state_pop, with physical_level, which the traversals
\* keep in step.  Only the matrices are pushed and popped.
\* Mutation of Pushed: the new level starts from the identity.
PushedIdentity(s) ==
  [s EXCEPT !.matrix = Append(@, <<>>), !.physical_level = @ + 1]
Pushed(s) ==
  [s EXCEPT !.matrix = Append(@, @[Len(@)]), !.physical_level = @ + 1]
Popped(s) ==
  [s EXCEPT !.matrix = SubSeq(@, 1, Len(@) - 1), !.physical_level = @ - 1]

Matrix(s) == s.matrix[Len(s.matrix)]

\* prf_state_material_lookup, prf_state_texture_lookup, prf_state_get_instance:
\* the first node in their array registered under a number, 0 for none.
Lookup(array, number, i) ==
  LET hits == {j \in DOMAIN array : number[array[j]] = i}
  IN IF hits = {} THEN 0 ELSE array[CHOOSE j \in hits : \A h \in hits : j <= h]
=============================================================================
