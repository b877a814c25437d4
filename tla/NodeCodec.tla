----------------------------- MODULE NodeCodec -----------------------------
(***************************************************************************)
(* How one record of an Open Flight file becomes the data of a node, and   *)
(* is written again: the load and save methods of src/nodes, and the copy  *)
(* prf_node_clone makes in between.                                        *)
(*                                                                         *)
(* A record is its opcode and length (4 bytes) and length - 4 bytes of     *)
(* data, each known by its place in the record.  A load method reads       *)
(* fields in file order into the members of a C struct, the later ones     *)
(* only while the record is long enough, and reads what is left as it is   *)
(* behind the struct.  The save method walks the same members with checks  *)
(* of its own.  All numbers are swapped to the host's byte order and back  *)
(* bit by bit, so a field travels as one piece.                            *)
(***************************************************************************)
EXTENDS Integers, Sequences, SequencesExt, FiniteSetsExt, Functions

CONSTANTS
  Records,  \* the records tried: pairs of a node type and a length
  Cloned,   \* node types the application clones
  Colors,   \* colors in a color palette (1024)
  Names     \* lengths of the color name entries of a color palette

ASSUME CodecAssumption ==
  /\ Colors \in Nat
  /\ Names \in Seq(Nat) /\ \A i \in DOMAIN Names : Names[i] > 8

VARIABLES
  at,       \* "file", "loaded", "refused", "aborted", "cloned", "saved"
  type,
  length,   \* node->length
  pos,      \* bytes of the file consumed, counted from the record's start
  data,     \* node->data: the pieces of the record stored in it
  size,     \* bytes allocated for node->data
  touched,  \* the places of node->data the last method read or wrote
  out       \* the pieces written to the file after opcode and length

vars == <<at, type, length, pos, data, size, touched, out>>

-----------------------------------------------------------------------------
(* C structs: members with a width and an alignment, in memory order. *)
Num(n) == [w |-> n, a |-> n]
Char(n) == [w |-> n, a |-> 1]
Rep(n, members) == FlattenSeq([i \in 1..n |-> members])

Align(n, a) == ((n + a - 1) \div a) * a
End(placed) == IF placed = <<>> THEN 0 ELSE Last(placed).off + Last(placed).w
\* The compiler places the members of a struct.
Place(members) ==
  FoldLeft(LAMBDA placed, m :
             Append(placed, [w |-> m.w, off |-> Align(End(placed), m.a)]),
           <<>>, members)
SizeOf(members) ==
  Align(End(Place(members)),
        FoldLeft(LAMBDA most, m : IF m.a > most THEN m.a ELSE most, 1, members))

\* "if ( node->length < (pos + need) ) break;" before each member from the k-th.
From(k, members) == [i \in DOMAIN members |-> IF i < k THEN 0 ELSE members[i].w]
Unchecked(members) == From(Len(members) + 1, members)
InOrder(members) == [i \in DOMAIN members |-> i]

\* A node type: the shortest record it takes and what it does with a shorter
\* one, the struct and the order its members have in the file, the checks of
\* the load and of the save method, NODE_DATA_PAD, and whether they go on
\* with the rest of the record.  "upto" is "pos" before each member.
Layout(min, short, members, order, load, save, pad, tail) ==
  [min |-> min, short |-> short, struct |-> Place(members), order |-> order,
   upto |-> FoldLeft(LAMBDA p, i : Append(p, Last(p) + members[i].w), <<4>>, order),
   load |-> load, save |-> save, pad |-> pad, tail |-> tail]

\* The common case: both methods check from the k-th member on.
Plain(min, k, members, datasize) ==
  Layout(min, "refuse", members, InOrder(members), From(k, members), From(k, members),
         IF datasize = 0 THEN 0 ELSE SizeOf(members) - datasize, TRUE)

-----------------------------------------------------------------------------
(* The structs of include/profit/nodes, each with its node type. *)

prf_header_data ==
  <<Char(8), Num(4), Num(4), Char(32)>> \o Rep(5, <<Num(2)>>)
  \o <<Num(1), Num(1)>> \o Rep(15, <<Num(4)>>) \o <<Num(2), Num(2), Num(4)>>
  \o Rep(4, <<Num(8)>>) \o <<Num(2), Num(2), Num(4), Num(4)>> \o Rep(4, <<Num(2)>>)
  \o <<Num(4)>> \o Rep(8, <<Num(8)>>) \o Rep(8, <<Num(2)>>)
  \o <<Num(4), Num(2), Num(2), Num(2)>>
prf_header == Plain(4, 1, prf_header_data, 274)

prf_group_data ==
  <<Char(8), Num(2), Num(2), Num(4)>> \o Rep(3, <<Num(2)>>) \o <<Num(1), Num(1), Num(4)>>
\* Mutation of prf_group: save wants 8 bytes for the last member.
GroupSavesLess ==
  Layout(28, "refuse", prf_group_data, InOrder(prf_group_data), From(10, prf_group_data),
         [From(10, prf_group_data) EXCEPT ![10] = 8], 0, TRUE)

prf_group == Plain(28, 10, prf_group_data, 28)

prf_object_data == <<Char(8), Num(4)>> \o Rep(6, <<Num(2)>>)
prf_object == Plain(28, 8, prf_object_data, 24)

prf_face_data ==
  <<Char(8), Num(4), Num(2), Num(1), Num(1), Num(2), Num(2), Num(1), Num(1)>>
  \o Rep(5, <<Num(2)>>) \o <<Num(4), Num(2), Num(1), Num(1)>>
  \o <<Num(4), Num(1), Num(1), Num(2), Num(4), Num(4), Num(4), Num(2), Num(2)>>
  \o <<Num(4), Num(4), Num(2), Num(2)>>
prf_face == Plain(44, 19, prf_face_data, 76)

prf_matrix == Plain(68, 17, Rep(16, <<Num(4)>>), 64)

prf_level_of_detail_data ==
  <<Char(8), Num(4), Num(8), Num(8), Num(2), Num(2), Num(4)>> \o Rep(4, <<Num(8)>>)
prf_level_of_detail == Plain(72, 12, prf_level_of_detail_data, 68)

prf_external_reference_data == <<Char(200), Num(1), Num(1), Num(2), Num(2), Num(4)>>
prf_external_reference == Plain(212, 7, prf_external_reference_data, 208)

prf_texture_data == <<Char(200)>> \o Rep(3, <<Num(4)>>)
\* Mutation of prf_texture: the rest of the record is forgotten.
TextureWithoutRest ==
  LET t == prf_texture_data
  IN Layout(4, "refuse", t, InOrder(t), From(1, t), From(1, t), 0, FALSE)

prf_texture == Plain(4, 1, prf_texture_data, 0)

prf_material_data == <<Num(4), Char(12)>> \o Rep(16, <<Num(4)>>)
prf_material == Plain(4, 1, prf_material_data, 0)

prf_material_palette_data == Rep(15, <<Num(4)>>) \o <<Char(12)>> \o Rep(28, <<Num(4)>>)
\* Materials follow each other; two of them show the repetition.  The save
\* method checks for 4 bytes before the 12 of the name.
prf_material_palette ==
  LET one == prf_material_palette_data
      members == one \o one
  IN Layout(4, "refuse", members, InOrder(members), From(1, members),
            [From(1, members) EXCEPT ![16] = 4, ![16 + Len(one)] = 4], 0, TRUE)

\* The entries of the color names are packed; load reads an entry unchecked,
\* save checks an entry as a whole first.
prf_color_palette ==
  LET colors == <<Char(128)>> \o Rep(Colors + 1, <<Num(4)>>)
      entry(n) == Rep(4, <<Char(2)>>) \o <<Char(n - 8)>>
      members == colors \o FlattenSeq([i \in DOMAIN Names |-> entry(Names[i])])
      load == From(1, colors) \o Rep(5 * Len(Names), <<0>>)
      save == From(1, colors)
              \o FlattenSeq([i \in DOMAIN Names |-> <<Names[i], 0, 0, 0, 0>>])
  IN Layout(4, "refuse", members, InOrder(members), load, save, 0, TRUE)

\* assert( node->length >= 8 )
prf_instance_definition ==
  LET members == <<Num(2), Num(2)>>
  IN Layout(8, "abort", members, InOrder(members), Unchecked(members),
            Unchecked(members), 0, TRUE)
prf_instance_reference == prf_instance_definition

\* Vertex lists and morph vertex lists: words, and no tail.
prf_vertex_list ==
  LET members == Rep(4, <<Num(4)>>)
  IN Layout(4, "refuse", members, InOrder(members), From(1, members), From(1, members),
            0, FALSE)
prf_morph_vertex_list == prf_vertex_list

\* Vertices: color index and flags come first in the file, and after the
\* coordinates in memory.
Coordinates == Rep(3, <<Num(8)>>) \o <<Num(2), Num(2)>>
VertexOrder(members) == <<4, 5, 1, 2, 3>> \o [i \in 1..(Len(members) - 5) |-> i + 5]
Vertex(short, rest) ==
  LET members == Coordinates \o Rep(rest, <<Num(4)>>)
  IN Layout(32, short, members, VertexOrder(members), From(6, members),
            From(6, members), 0, TRUE)
prf_vertex_with_color == Vertex("refuse", 2)
\* After bf_rewind( bfile, 4 ) there is no return.
prf_vertex_with_normal == Vertex("go on", 5)
\* These return without bf_rewind.
prf_vertex_with_normal_and_texture == Vertex("leave", 7)
prf_vertex_with_texture == Vertex("leave", 4)

\* The save methods do not check.
prf_obsolete_vertex_with_color ==
  LET members == Rep(3, <<Num(4)>>)
  IN Layout(4, "refuse", members, InOrder(members), From(1, members),
            Unchecked(members), 0, TRUE)
prf_obsolete_vertex_with_normal == prf_obsolete_vertex_with_color

\* Nodes without methods: the data is kept as it is.
raw == Plain(4, 1, <<>>, 0)

LayoutOf(t) ==
  CASE t = "header" -> prf_header
    [] t = "group" -> prf_group
    [] t = "object" -> prf_object
    [] t = "face" -> prf_face
    [] t = "matrix" -> prf_matrix
    [] t = "level of detail" -> prf_level_of_detail
    [] t = "external reference" -> prf_external_reference
    [] t = "texture" -> prf_texture
    [] t = "material" -> prf_material
    [] t = "material palette" -> prf_material_palette
    [] t = "color palette" -> prf_color_palette
    [] t = "instance definition" -> prf_instance_definition
    [] t = "instance reference" -> prf_instance_reference
    [] t = "vertex list" -> prf_vertex_list
    [] t = "morph vertex list" -> prf_morph_vertex_list
    [] t = "vertex with color" -> prf_vertex_with_color
    [] t = "vertex with normal" -> prf_vertex_with_normal
    [] t = "vertex with normal and texture" -> prf_vertex_with_normal_and_texture
    [] t = "vertex with texture" -> prf_vertex_with_texture
    [] t = "obsolete vertex with color" -> prf_obsolete_vertex_with_color
    [] t = "obsolete vertex with normal" -> prf_obsolete_vertex_with_normal
    [] t = "raw" -> raw

-----------------------------------------------------------------------------
(* The two methods. *)

\* The members a method gets through, as places of node->data, with the part
\* of the record that belongs there; the last one is the rest of the record.
\* The first byte read is byte "first" of the record.
Pieces(lay, checks, first) ==
  LET upto == lay.upto
      all == Len(lay.order)
      need(i) == checks[lay.order[i]]
      breaks == {i \in 1..all : need(i) > 0 /\ length < upto[i] + need(i)}
      n == IF breaks = {} THEN all ELSE Min(breaks) - 1
      rest == [off |-> upto[n + 1] - 4 + lay.pad, w |-> length - upto[n + 1],
               src |-> first + upto[n + 1] - 4]
  IN [i \in 1..n |-> [off |-> lay.struct[lay.order[i]].off,
                      w |-> lay.struct[lay.order[i]].w, src |-> first + upto[i] - 4]]
     \o IF lay.tail /\ rest.w > 0 THEN <<rest>> ELSE <<>>

PlaceOf(p) == [off |-> p.off, w |-> p.w]
Places(pieces) == {PlaceOf(pieces[i]) : i \in DOMAIN pieces}
Apart(p, q) == p.off + p.w <= q.off \/ q.off + q.w <= p.off
FileEnd(pieces, first) ==
  IF pieces = <<>> THEN first ELSE Last(pieces).src + Last(pieces).w

\* What each place holds.  The members of a struct are apart; the rest of the
\* record, read last, may have been stored over some of them.
Stored(pieces) ==
  LET n == Len(pieces)
      kept == {i \in 1..n : i = n \/ Apart(pieces[i], pieces[n])}
  IN [p \in {PlaceOf(pieces[i]) : i \in kept} |->
        pieces[CHOOSE i \in kept : PlaceOf(pieces[i]) = p].src]

Init ==
  /\ \E r \in Records : type = r[1] /\ length = r[2]
  /\ at = "file" /\ pos = 0 /\ size = 0
  /\ data = << >> /\ touched = {} /\ out = <<>>
\* Mutation of load_f: NODE_DATA_PAD is not allocated.
LoadWithoutPad ==
  LET lay == LayoutOf(type)
      first == IF length < lay.min THEN 0 ELSE 4
      pieces == Pieces(lay, lay.load, first)
  IN /\ at = "file"
     /\ length >= lay.min \/ lay.short = "go on"
     /\ at' = "loaded"
     /\ size' = length - 4
     /\ data' = Stored(pieces)
     /\ touched' = Places(pieces)
     /\ pos' = FileEnd(pieces, first)
     /\ UNCHANGED <<type, length, out>>

\* load_f, with node->data allocated here or, for a vertex, part of the palette.
load_f ==
  LET lay == LayoutOf(type)
      first == IF length < lay.min THEN 0 ELSE 4
      pieces == Pieces(lay, lay.load, first)
  IN /\ at = "file"
     /\ length >= lay.min \/ lay.short = "go on"
     /\ at' = "loaded"
     /\ size' = length - 4 + lay.pad
     /\ data' = Stored(pieces)
     /\ touched' = Places(pieces)
     /\ pos' = FileEnd(pieces, first)
     /\ UNCHANGED <<type, length, out>>

\* Opcode and length have been read; most methods go back before them.
load_f_short ==
  /\ at = "file"
  /\ length < LayoutOf(type).min
  /\ \/ LayoutOf(type).short = "refuse" /\ at' = "refused" /\ pos' = 0
     \/ LayoutOf(type).short = "leave" /\ at' = "refused" /\ pos' = 4
     \/ LayoutOf(type).short = "abort" /\ at' = "aborted" /\ pos' = 4
  /\ UNCHANGED <<type, length, data, size, touched, out>>

\* prf_node_clone copies length - 4 bytes; prf_header_clone_f the padding too.
CloneSize == length - 4 + IF type = "header" THEN prf_header.pad ELSE 0
prf_node_clone ==
  /\ at = "loaded"
  /\ type \in Cloned
  /\ at' = "cloned"
  /\ size' = CloneSize
  /\ touched' = {[off |-> 0, w |-> CloneSize]}
  /\ data' = Restrict(data, {p \in DOMAIN data : p.off + p.w <= CloneSize})
  /\ UNCHANGED <<type, length, pos, out>>

Junk == -1
Found(p) == IF PlaceOf(p) \in DOMAIN data THEN data[PlaceOf(p)] ELSE Junk
save_f ==
  LET lay == LayoutOf(type)
      pieces == Pieces(lay, lay.save, 4)
  IN /\ at \in {"loaded", "cloned"}
     /\ at' = "saved"
     /\ touched' = Places(pieces)
     /\ out' = [i \in DOMAIN pieces |-> [src |-> Found(pieces[i]), w |-> pieces[i].w]]
     /\ UNCHANGED <<type, length, pos, data, size>>

Next == load_f \/ load_f_short \/ prf_node_clone \/ save_f

Spec == Init /\ [][Next]_vars

-----------------------------------------------------------------------------
\* A method never reads or writes outside the memory allocated for node->data:
\* the struct's padding is allowed for by NODE_DATA_PAD, and a member the
\* record is too short for is left alone.  And a record that is taken is read to
\* its last byte and no further, so that the next record is read from its start
\* (the assertion newpos - oldpos == subnode.length of vertex_palette.c, for all
\* types).
InBounds ==
  /\ \A p \in touched : p.off + p.w <= size
  /\ at \in {"loaded", "cloned", "saved"} => pos = length

\* The record written is the record read, byte for byte, also after a clone.
BitwiseCopy ==
  at = "saved" =>
    /\ FileEnd(out, 4) = length
    /\ \A i \in DOMAIN out :
         out[i].src = IF i = 1 THEN 4 ELSE out[i - 1].src + out[i - 1].w
=============================================================================
