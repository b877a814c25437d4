--------------------------- MODULE VertexPalette ---------------------------
(***************************************************************************)
(* The vertex palette of a model and the vertex lists that point into it   *)
(* (src/model.c, src/nodes/vertex_palette.c, src/nodes/vertex_list.c).     *)
(*                                                                         *)
(* A vertex is named by its byte offset.  The loaded vertices follow the   *)
(* 8 byte head of the palette node; vertices added later live in a chain   *)
(* of fixed-size blocks (model->vertextras), and their offsets go on where *)
(* the palette ends.  The same offsets stand in the vertex list nodes, and *)
(* have to survive more additions, a save, a clone, and the compaction of  *)
(* the palette, which moves the vertices and rewrites the lists.           *)
(***************************************************************************)
EXTENDS Integers, Sequences, FiniteSets

CONSTANTS
  Opcodes,      \* vertex kinds the application adds
  BlockSize,    \* PRF_POOL_BLOCK_SIZE
  List,         \* the vertex list nodes of the model
  MaxLoaded,    \* bound: vertices in the file first loaded
  MaxVertices,  \* bound: vertices ever made
  MinEntries,   \* vertices a list must be set to (3)
  MaxEntries    \* bound: vertices of one list

\* The length of a vertex record, by opcode (model.c, prf_model_add_vertex).
VertexLength(opcode) ==
  CASE opcode = 68 -> 4 + 3 * 8 + 4 + 4 + 4
    [] opcode = 69 -> 4 + 3 * 8 + 4 + 3 * 4 + 4 + 4
    [] opcode = 70 -> 4 + 3 * 8 + 4 + 5 * 4 + 4 + 4
    [] opcode = 71 -> 4 + 3 * 8 + 4 + 2 * 4 + 4 + 4

ASSUME PaletteAssumption ==
  /\ Opcodes \subseteq 68..71
  /\ \A opcode \in Opcodes : VertexLength(opcode) <= BlockSize
  /\ BlockSize \in Nat
  /\ MaxLoaded \in Nat /\ MaxVertices \in Nat /\ MaxLoaded <= MaxVertices
  /\ MinEntries \in Nat /\ MaxEntries \in Nat

VARIABLES
  palette,     \* the records after the head of model->vertex_palette->data
  length,      \* the first word of that data
  known,       \* model->vertex_palette is set: the palette was traversed
  vertextras,  \* the blocks: their records and their "position"
  offsets,     \* the data of the vertex lists
  deleted,     \* lists flagged PRF_NODE_DELETED
  handed,      \* auxiliary: offsets the application was given, with the vertex
  meant,       \* auxiliary: the vertices a list was made of
  made,        \* auxiliary: number of vertices made; names the next one
  file         \* the saved model: length word, records and lists

palettevars == <<palette, length, known, vertextras, offsets, deleted,
          handed, meant, made, file>>

HeadSize == 8
Empty == 0                     \* NULL: no vertex has this name

\* sum[n] is the sum of the first n members of w.
Sums(w) ==
  LET sum[n \in 0..Len(w)] == IF n = 0 THEN 0 ELSE sum[n - 1] + w[n]
  IN sum
Lengths(s) == [i \in 1..Len(s) |-> s[i].length]
Bytes(s) == Sums(Lengths(s))[Len(s)]
Start(s, i) == Sums(Lengths(s))[i - 1]
Counts(pools) == [k \in 1..Len(pools) |-> pools[k].position]
Positions(pools) == Sums(Counts(pools))[Len(pools)]
Skipped(pools, k) == Sums(Counts(pools))[k - 1]

\* The records found by walking from the first one until n bytes are passed.
Passed(s, n) == Cardinality({i \in 1..Len(s) : Start(s, i) < n})
Walk(s, n) == SubSeq(s, 1, Passed(s, n))

\* What the walks of save, clone and optimize see: the palette, then the blocks.
Joined(pools) ==
  LET join[k \in 0..Len(pools)] ==
        IF k = 0 THEN <<>> ELSE join[k - 1] \o Walk(pools[k].data, pools[k].position)
  IN join[Len(pools)]
Stored == Walk(palette, length - HeadSize) \o Joined(vertextras)

\* The record that starts n bytes into s.
RecordAt(s, n) ==
  IF \E i \in DOMAIN s : Start(s, i) = n
  THEN s[CHOOSE i \in DOMAIN s : Start(s, i) = n].name ELSE Empty

\* prf_model_vertex_palette_lookup: past the palette, blocks are skipped while
\* the rest of the offset is not below their position.
prf_model_vertex_palette_lookup(offset) ==
  IF ~ known THEN Empty
  ELSE IF offset < length
  THEN IF offset < HeadSize THEN Empty ELSE RecordAt(palette, offset - HeadSize)
  ELSE LET rest == offset - length
           fits == {k \in DOMAIN vertextras :
                      rest < Skipped(vertextras, k) + vertextras[k].position}
       IN IF fits = {} THEN Empty
          ELSE LET k == CHOOSE j \in fits : \A i \in fits : j <= i
               IN RecordAt(vertextras[k].data, rest - Skipped(vertextras, k))

-----------------------------------------------------------------------------
Vertex(opcode, name) == [name |-> name, length |-> VertexLength(opcode)]

NoFile == [length |-> HeadSize, records |-> <<>>, lists |-> <<>>]

\* A model that was loaded: some vertices, and lists of them.
PaletteInit ==
  \E n \in 0..MaxLoaded :
    /\ \E kinds \in [1..n -> Opcodes] :
         palette = [i \in 1..n |-> Vertex(kinds[i], i)]
    /\ length = HeadSize + Bytes(palette)
    /\ known = FALSE /\ vertextras = <<>>
    /\ deleted = {} /\ handed = {} /\ made = n
    /\ meant \in [List -> UNION {[1..k -> 1..n] : k \in 0..MaxEntries}]
    /\ offsets = [l \in List |->
                    [i \in DOMAIN meant[l] |-> HeadSize + Start(palette, meant[l][i])]]
    /\ file = NoFile

\* Any traversal runs prf_vertex_palette_entry_f on the palette node.
prf_vertex_palette_entry_f ==
  /\ ~ known
  /\ known' = TRUE
  /\ UNCHANGED <<palette, length, vertextras, offsets, deleted, handed, meant, made, file>>

NewPool == [data |-> <<>>, position |-> 0]
\* Mutations of prf_model_add_vertex: earlier blocks are not counted in the
\* offset; a full block is not noticed.
AddVertexTo(opcode, pools, chain, offset) ==
  LET v == Vertex(opcode, made + 1)
      last == chain[Len(chain)]
  IN /\ known /\ made < MaxVertices
     /\ vertextras' = [chain EXCEPT ![Len(chain)] =
                         [data |-> Append(last.data, v),
                          position |-> last.position + v.length]]
     /\ handed' = handed \cup {<<offset, v.name>>}
     /\ made' = made + 1
     /\ UNCHANGED <<palette, length, known, offsets, deleted, meant, file>>
Pools == IF vertextras = <<>> THEN <<NewPool>> ELSE vertextras
AddVertexInBlock(opcode) ==
  LET full == BlockSize - Pools[Len(Pools)].position < VertexLength(opcode)
  IN AddVertexTo(opcode, Pools, IF full THEN Append(Pools, NewPool) ELSE Pools,
                 length + (IF full THEN 0 ELSE Pools[Len(Pools)].position))
AddVertexOverrun(opcode) ==
  AddVertexTo(opcode, Pools, Pools, length + Positions(Pools))

prf_model_add_vertex(opcode) ==
  LET v == Vertex(opcode, made + 1)
      pools == IF vertextras = <<>> THEN <<NewPool>> ELSE vertextras
      chain == IF BlockSize - pools[Len(pools)].position < v.length
               THEN Append(pools, NewPool) ELSE pools
      last == chain[Len(chain)]
  IN /\ known                       \* assert( model->vertex_palette != NULL )
     /\ made < MaxVertices
     /\ vertextras' = [chain EXCEPT ![Len(chain)] =
                         [data |-> Append(last.data, v),
                          position |-> last.position + v.length]]
     /\ handed' = handed \cup {<<length + Positions(pools), v.name>>}
     /\ made' = made + 1
     /\ UNCHANGED <<palette, length, known, offsets, deleted, meant, file>>
\* get_first_index and get_next_index: the application walks the palette, and
\* looks up what it finds.
get_next_index ==
  \E i \in DOMAIN palette :
    /\ known /\ HeadSize + Start(palette, i) < length
    /\ handed' = handed \cup
         {<<HeadSize + Start(palette, i), prf_model_vertex_palette_lookup(HeadSize + Start(palette, i))>>}
    /\ handed' # handed
    /\ UNCHANGED <<palette, length, known, vertextras, offsets, deleted, meant, made, file>>

\* The application replaces the vertices of a list, by no more than it had
\* (the assertion on count), with offsets it was given.
prf_vertex_list_set_list(l) ==
  /\ l \notin deleted
  /\ \E count \in MinEntries..Len(offsets[l]) : \E new \in [1..count -> handed] :
       /\ offsets' = [offsets EXCEPT ![l] = [i \in 1..count |-> new[i][1]]]
       /\ meant' = [meant EXCEPT ![l] = [i \in 1..count |-> new[i][2]]]
  /\ UNCHANGED <<palette, length, known, vertextras, deleted, handed, made, file>>

DeleteList(l) ==
  /\ l \notin deleted
  /\ deleted' = deleted \cup {l}
  /\ UNCHANGED <<palette, length, known, vertextras, offsets, handed, meant, made, file>>

-----------------------------------------------------------------------------

Tags(ls) == UNION {{offsets[l][i] : i \in DOMAIN offsets[l]} : l \in ls}
\* Mutation of vt_tag_cb: deleted lists are not left out.
TagAll == Tags(List)

\* vt_tag_cb: the offsets some list that is not deleted mentions.
vt_tag_cb == Tags(List \ deleted)

\* The compaction, record by record: `buffer' gets the tagged ones, `offset' counts the
\* bytes of the others.
Compact(s, tags) ==
  LET done[n \in 0..Len(s)] ==
        IF n = 0 THEN [buffer |-> <<>>, offset |-> 0]
        ELSE IF HeadSize + Start(s, n) \in tags
        THEN [done[n - 1] EXCEPT !.buffer = Append(@, s[n])]
        ELSE [done[n - 1] EXCEPT !.offset = @ + s[n].length]
  IN done
Moved(s, tags, n) == n - Compact(s, tags)[Passed(s, n - HeadSize)].offset
\* Mutation of vt_fix_cb: the lists are not rewritten.
FixNothing(s, tags) == offsets

\* vt_fix_cb: lists that are deleted keep what they had.
vt_fix_cb(s, tags) ==
  [l \in List |-> IF l \in deleted THEN offsets[l]
                  ELSE [i \in DOMAIN offsets[l] |-> Moved(s, tags, offsets[l][i])]]

prf_model_vertex_palette_optimize ==
  LET tags == vt_tag_cb
      done == Compact(Stored, tags)[Len(Stored)]
  IN /\ known                       \* assert( model->vertex_palette != NULL )
     /\ palette' = done.buffer
     /\ length' = length + Positions(vertextras) - done.offset
     /\ vertextras' = <<>>
     /\ offsets' = vt_fix_cb(Stored, tags)
     /\ handed' = {}                \* the application's offsets are void
     /\ UNCHANGED <<known, deleted, meant, made, file>>

\* prf_model_save: the traversal enters the palette; deleted lists are left out.
prf_vertex_palette_save_f ==
  /\ known' = TRUE
  /\ file' = [length |-> length + Positions(vertextras),
              records |-> Stored,
              lists |-> [l \in List \ deleted |-> [offset |-> offsets[l], of |-> meant[l]]]]
  /\ UNCHANGED <<palette, length, vertextras, offsets, deleted, handed, meant, made>>

\* The saved model is loaded again, once: records are read until curptr reaches the
\* length word.
prf_vertex_palette_load_f ==
  /\ file.lists # <<>>
  /\ palette' = Walk(file.records, file.length - HeadSize)
  /\ length' = file.length
  /\ known' = FALSE /\ vertextras' = <<>>
  /\ deleted' = List \ DOMAIN file.lists
  /\ offsets' = [l \in List |-> IF l \in deleted' THEN <<>> ELSE file.lists[l].offset]
  /\ meant' = [l \in List |-> IF l \in deleted' THEN <<>> ELSE file.lists[l].of]
  /\ handed' = {}
  /\ file' = NoFile
  /\ UNCHANGED made

\* prf_model_clone, after which the application goes on with the clone: the
\* blocks have become part of the palette, and the clone was never traversed.
prf_vertex_palette_clone_f ==
  /\ palette' = Stored
  /\ length' = length + Positions(vertextras)
  /\ known' = FALSE /\ vertextras' = <<>>
  /\ offsets' = [l \in List |-> IF l \in deleted THEN <<>> ELSE offsets[l]]
  /\ meant' = [l \in List |-> IF l \in deleted THEN <<>> ELSE meant[l]]
  /\ UNCHANGED <<deleted, handed, made, file>>

PaletteNext ==
  \/ prf_vertex_palette_entry_f
  \/ \E opcode \in Opcodes : prf_model_add_vertex(opcode)
  \/ get_next_index
  \/ \E l \in List : prf_vertex_list_set_list(l)
  \/ \E l \in List : DeleteList(l)
  \/ prf_model_vertex_palette_optimize
  \/ prf_vertex_palette_save_f
  \/ prf_vertex_palette_load_f
  \/ prf_vertex_palette_clone_f

PaletteSpec == PaletteInit /\ [][PaletteNext]_palettevars

-----------------------------------------------------------------------------
Record == [name : 1..MaxVertices, length : Nat]

\* Types of the palette, the blocks, the lists and the saved model.
PaletteTypeOK ==
  /\ palette \in Seq(Record) /\ length \in Nat /\ known \in BOOLEAN
  /\ vertextras \in Seq([data : Seq(Record), position : Nat])
  /\ offsets \in [List -> Seq(Nat)] /\ meant \in [List -> Seq(1..MaxVertices)]
  /\ deleted \subseteq List /\ made \in 0..MaxVertices
  /\ file.length \in Nat /\ file.records \in Seq(Record)

\* Every list of the model still names the vertices it was made of, whatever
\* was added, compacted, saved and loaded, or cloned since
\* (prf_model_vertex_palette_lookup on the offsets in its data).
ListsKeepTheirVertices ==
  known => \A l \in List \ deleted :
             /\ Len(offsets[l]) = Len(meant[l])
             /\ \A i \in DOMAIN meant[l] :
                  prf_model_vertex_palette_lookup(offsets[l][i]) = meant[l][i]

\* An offset prf_model_add_vertex has returned, or that was found walking the
\* palette, names the same vertex until the palette is compacted or replaced.
OffsetsStayValid ==
  known => \A h \in handed : prf_model_vertex_palette_lookup(h[1]) = h[2]

\* The length word, and the position of every block, count the bytes of the
\* records stored, no block is overrun and every block but the first is in use:
\* what the walks of save, clone and optimize rely on to stop at a record's end.
BytesAccounted ==
  /\ PaletteTypeOK
  /\ length = HeadSize + Bytes(palette)
  /\ \A k \in DOMAIN vertextras :
       /\ vertextras[k].position = Bytes(vertextras[k].data)
       /\ vertextras[k].position <= BlockSize
       /\ vertextras[k].data # <<>>

\* prf_model_vertex_palette_optimize keeps the vertices in use, once each and in
\* their order, and nothing else.
OptimizeKeepsUsed ==
  [][prf_model_vertex_palette_optimize =>
       LET used == {m \in 1..MaxVertices :
                      \E l \in List \ deleted : \E i \in DOMAIN meant[l] : meant[l][i] = m}
       IN /\ {palette'[q].name : q \in DOMAIN palette'} = used
          /\ \A q, r \in DOMAIN palette' :
               q < r => \E i, j \in DOMAIN Stored :
                          i < j /\ palette'[q] = Stored[i] /\ palette'[r] = Stored[j]]_palettevars
=============================================================================
