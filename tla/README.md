# A verification development for Profit

Profit is a C library that reads, traverses, edits and writes OpenFlight (`.flt`)
scene files. A file is a sequence of records; the library turns it into a tree of
nodes, lets an application walk over it with callbacks and a traversal state, and
writes it back. This directory models that path from file to tree and back, the tables
the library keeps for itself, and the one client with logic of its own, the converter
`flt2vrml`.

The library is sequential: nothing runs concurrently inside it, but message handlers
call back into it while a message is being delivered. What makes it hard is memory (arrays that move while they grow and are pointed to, trees freed while they
are walked), caches (a block buffer, a cached inverse), byte offsets that must survive
compaction, records of every length, and calls that fail half-way.

## Inventory

| Component | State | Operations | Correct when |
|---|---|---|---|
| byte streams `src/util/bfile.c` | position, block buffer, `ipos`, FILE | typed reads and writes, `bf_read`, `bf_write`, `bf_peek`, `bf_rewind`, `bf_unget`, `bf_destroy` | the block buffer cannot be noticed; no byte is lost; calls return |
| loading `src/model.c` 199-430 | stack of growing arrays, level | one step per record | the tree is the one the records describe; no pointer to an array that moved |
| in-order traversal, save, clone `src/model.c` 434-482, 755-905, 1030-1106 | stacks of lists, indices, limits; the state | callback answers, flags | records are visited in file order, once; matrices have their scope; a clone is equal |
| depth-first traversal, destroy `src/model.c` 137-182, 909-1026 | the same | callback answers, `destroy_cb` | children first; nothing used after it is freed; nothing leaks |
| breadth-first traversal `src/cruft.c` | two pairs of rotating arrays, clones of the state | callback answers | level by level; every node sees the state of its own path; every clone is destroyed once |
| traversal state `src/state.c`: transforms | matrix array, push level, cached inverse | push, pop, multiply, inverse, clone, copy, reset | a stack of scopes with exact inverses |
| traversal state: the rest, and `entry_f`, `exit_f` of `src/nodes/*.c` | counters, palettes, materials, textures, instances, the object | what a node type does on entry and exit, lookup by number | matrices, counters and definitions have their scope at every callback |
| vertex palette `src/model.c` 559-751, 1110-1399, `src/nodes/vertex_palette.c`, `vertex_list.c` | palette bytes, chain of blocks, lists of offsets | add, look up, walk, compact, save, load, clone | a list names the same vertices for ever |
| node types `src/nodes/*.c` | struct behind `node->data` | `load_f`, `save_f`, `clone_f` | load then save is the identity on the record; no access outside `node->data` |
| growable arrays `src/util/array.c` | count, capacity and element size before the elements | init, append, set size | no element beyond the memory of its array |
| memory pools `src/util/mempool.c` | table of pools, blocks | create, malloc, destroy | pieces are aligned and apart; a slot has one owner |
| messages `src/messages.c`, `debug.c` | a table of handlers per type | add, delete, post, also from inside a handler | every handler is told once; none after it was deleted |
| node registry `src/nodeinfo.c` | table of entries by opcode | set, get | a lookup finds the entry registered last |
| start and stop `src/profit.c` | | `prf_init`, `prf_exit` | nothing is left allocated; a new session starts afresh |
| `examples/flt2vrml/bsptree.c` | a tree of leaves with indices, arrays of coordinates | add, remove, four searches | a point keeps its index; searches are exact |
| `examples/flt2vrml/flt2vrml.c` | static variables of a callback, sets of faces | faces, subfaces, vertex lists, ends of lists | each polygon is drawn once, with its own vertices and colours, in a set of its look |

The components call each other downwards: the loader, save and the node types use a
byte stream; save, clone and destroy are callbacks of the traversals; the traversals
push and pop the state; the palette's compaction is two traversals over the vertex
lists; the nodes of a model live in a pool of its own; everything asks the registry. The
converter is a callback of the in-order traversal and calls it again for subfaces. `PROJECT.json` lists for each component what is modelled, and under `hazards`
what is hard to test, at its line.

## Modules

* `ByteStream` is the abstract reader: a cursor over bytes. `BFileRead` is the block
  buffer of `bfile.c`. A call begins (`bf_get`, `bf_read`, `bf_peek`, `bf_rewind`),
  takes steps (`GetByte`, `ReadChunk`, `Fread`, `FillEnds`) and returns (`Return`,
  `PeekReturn`). Every `fread` is a step and may be short; another program may shorten
  the file (`Truncate`), after which `FreadNothing` is the loop of `bf_read_buffer`
  that never ends. `file = FALSE` is a bfile over memory. `MCBFileRead` gives every
  byte of a small file another value; `BFileReadProofs` holds the proofs.
* `ByteSink` is the abstract writer, `BFileWrite` the block buffer for writing, with
  short writes and a full disk; `BFileWriteProofs` holds the proofs about it.
* `ModelLoad` is `prf_model_load_with_callback`, one action per sort of record. Arrays
  live in `heap`, and a pointer is an index into it: `AppendMoved` is a `realloc` that
  moves, and leaves the old array dead. Assertions that fail and reads before an array
  are outcomes (`LoadDies`). `ModelLoadProofs` holds the proofs.
* `TraversalState` is the state as a value: what each `entry_f` and `exit_f` does with
  it, push, pop and lookup. The parts of the state that node types change are disjoint, so
  one sort of node stands for all its types at once (an ancillary node is a matrix, a
  material, a texture and a palette; a primary node an object and an instance
  definition). The first header met clears the materials, wherever it stands; textures and
  instances, which stay, are `found`.
* `ModelTraverse` extends both with `prf_model_traverse_io_` and its three users: an
  application's callback (any answer), `save_cb` and `clone_cb`. The traversal's own
  arrays live in the same heap, so that freeing too much shows. `seen` keeps the state of
  every callback.
* `ModelBreadth` extends it with `prf_model_traverse_bf`: `NextList` copies a clone into the
  working state, `VisitBreadth` is one node, `Rotate` the end of a level.
  `ModelTraverseProofs` holds the proofs about all traversals but the depth-first one.
* `ModelDestroy` extends `ModelLoad` and `TraversalState` with `prf_model_traverse_df` and
  `prf_model_destroy`, for malloc'ed and pooled nodes; `ModelDestroyProofs` holds the proofs.
* `TransformStack` is the abstract traversal state: nested scopes, products, inverses.
  `StateStack` is `state.c`: an array that only grows, a 16 bit level, the cached
  inverse and its dirty mark, and failing allocations. `MCStateStack` instantiates
  matrices by rotations of a finite turn and one singular matrix;
  `StateProofs` holds the proofs.
* `VertexPalette` is the palette with its chain of blocks and the lists of offsets.
  Record lengths are the real ones. `StateProofs` holds its proofs too.
* `NodeCodec` describes 21 node types by what their methods do: the struct with its
  alignment, the order in the file, the length check before each member in load and in
  save, and the rest of the record. `load_f`, `save_f` and `prf_node_clone` are generic
  in this description. `MCNodeCodec` tries every length of every type.

* `Arrays` is `array.c` as values with the number of bytes allocated, for the tables of
  `MemPool` (pools, first free slot, first block with room), `Messages` (a post is a loop in
  progress, innermost last, so that handlers can call back) and `NodeInfo` (the registry).
  `Library` composes the three with `prf_init` and `prf_exit`. No part reads another's
  tables; a session of the model uses one of them. `LibraryProofs` holds the proofs about
  all four.
* `PointTree` is `bsptree.c`. An addition is a call in progress, one step per recursion.
  Coordinates are integers that stand for neighbouring floats; a mean may be rounded to
  either side (`Means`), a root too (`Roots`), and equal factors may come out unequal
  (`SplitDims`).
* `Converter` extends it with the callback of `flt2vrml`, fed with the records of any
  model: `Face`, `HiddenFace`, `VertexList`, `PopLevel`, the two passes over the children of a
  face (`walk`), and `do_convert`. Faces are met anywhere; subfaces are left to the second
  pass. A face in the list of another cuts that list, because the code keeps one set of
  static variables. The index of a face's look in the tree is the index of
  its set, so `Face` begins `bsp_add_point` and `FaceAdded` takes its answer. The point of a
  look is its cast to float (`MaterialPoint`): `Float` rounds colours, so that different
  ones may be one point. Texture and material make a coordinate of the same kind and are
  left out. Light mode (8 bits) and level of subfaces (16) share a coordinate, whose 24
  bits a float keeps; the transparency in it is 0, as `prf_object_exit_f` has reset it when
  a face is met. Faces of two vertices become lines, which the code collects and never
  writes. `Users` says who uses the tree, the converter or any other client. `MCConverter`
  gives points and looks. `ConverterProofs` holds the proofs about both.

Definitions keep the names of the C functions. An operator announced as a mutation in
its comment is a plausible bug of the definition below it; no specification uses it,
and `PROJECT.json` says which property notices it.

## Runs

`tlc -workers 2 -config <run>.cfg <module>`

| Run | Module | What it shows |
|---|---|---|
| `bfile_read` | MCBFileRead | `StreamSpec`: the buffered reader implements the byte stream, peeks at even offsets included. `WindowOK`: what the calls index is what stands in the file there. `CallsReturn`. |
| `bfile_write` | BFileWrite | `NothingLost`, `FlushInBlock`, `SinkSpec`: the disk plus the block is what was written, whatever fwrite accepts. `CallsReturn` unless the disk is full. |
| `model_destroy` | ModelDestroy | Loading: `TreeAsRecorded` (the tree is what nesting and ancillary records say), `LoadKeepsLists` (no stale array). The depth-first walk: `ChildrenFirst`, `ScopeOfDescent`. Destruction: `DestroyIsSafe`, `NothingLeaks`, `DestroyEnds`. |
| `model_traverse` | ModelBreadth | In order: `NoBadAccess`, `VisitsInFileOrder` (for save: the records come out as they went in), `StateInScope` (matrices and definitions, and what a header that is not first does to materials), `LevelsInStep` (counters), `CloneIsEqual`. By levels: `BreadthInOrder`, `BreadthReleases`. `TraversalEnds` for both. |
| `traverse_exit` | ModelTraverse | violation: `PRF_TRAV_EXIT` below the root frees child arrays that belong to the model. |
| `traverse_up` | ModelTraverse | violation: after `PRF_TRAV_UP` the rest of the siblings are visited (MANUAL:192-193: they are skipped). |
| `state_stack` | MCStateStack | `StackUntilFailure`: until an allocation fails the state implements the stack of scopes. `LevelInStep`, `CleanInverse`: a failing allocation for one state does not make another one wrong. |
| `vertex_palette` | VertexPalette | `ListsKeepTheirVertices`, `OffsetsStayValid`, `BytesAccounted`, `OptimizeKeepsUsed`. |
| `node_codec` | MCNodeCodec | `BitwiseCopy`: what is saved is what was loaded, clones included. `InBounds`: a record is read to its last byte, into the memory the node has. The lengths the library fails for are left out (`Sound`). |
| `codec_clone` | MCNodeCodec | violation: the clone of a level of detail loses its last member, which lies in the padding `prf_node_clone` does not copy. |
| `library` | Library | `PoolsSeparate`, `DeliveredOnce`, `LatestIsFound`; for all tables `TablesInBounds`, after `prf_exit` `NothingLeft`. |
| `point_tree` | MCConverter | The tree: `PresentIsFound`, also while `flt2vrml` uses it, and `ClientSearchesAreExact`. The conversion, where two looks are rounded to one point: `FacesAreDrawn`, `ColoursInStep`. |

The type invariants are part of what is checked: `WindowOK`, `BytesAccounted` and
`LoadKeepsLists` contain their module's.

### Disagreements that have no run

The models have these behaviours; the properties above exclude them by a stated
condition, and the notes of the hazards say which.

* `bf_unget_uint32_be` fails its assertion when the byteswapped record lies across a
  block boundary or ends at one (`halted = "unget assert"` in `BFileRead`).
* A record of an unregistered type fails `assert(info != NULL)` (model.c:327), while
  MANUAL:289-291 says that it is kept as raw data (kind "unknown" of `ModelLoad`).
* A file that ends inside a push loads, and saves without the nodes of the open
  levels; MANUAL:36-38 promises a bitwise copy (`Whole` in `ModelTraverse` asks for
  `level = 0`).
* External references of 212 or 213 bytes are read to byte 214; material palettes
  that end inside a name are saved too long; a vertex with normal below 32 bytes is
  read from its own opcode on; obsolete vertices are saved without length checks
  (`Sound` in `MCNodeCodec` leaves these records out).
* A bfile over memory that rewinds from its very end seeks in a FILE it does not have
  (`halted = "null seek"` in `BFileRead`).
* The in-order traversal calls an object's `exit_f` before it visits the children, so
  `object_transparency` is back at 0 when a face is reached, and `flt2vrml`, which
  multiplies with it, sees 0. The breadth-first one clones the state before `exit_f`.
* A deleted push or pop leaves the counters of the state one off (`Balanced`).
* The breadth-first traversal visits deleted nodes, and leaks the array it makes for the
  root.
* `bsp_find_closest` reads `idxarray[-1]` in an empty leaf, and answers -1 when the square of
  the root is below the distance it came from; nothing calls it.
* `flt2vrml` draws as a polygon what it collects after a face whose list is missing or cut
  short; faces whose colours the cast to float makes equal are written with the colour of
  the first; lines are never written, and their colours shift those of later polygons in
  their set.
* A header that is not the first node makes the materials before it unknown behind it.
* After a failed allocation `prf_state_push` leaves the level ahead of the matrices, and
  `prf_state_copy` the cache of the copy wrong; `LevelInStep` and `CleanInverse` are about
  the states no allocation failed for.
* A callback that answers `PRF_TRAV_POP` outside a push makes the scan overrun the list
  (`MayPop`).

### Bounds

* `bfile_read`: 13 bytes in blocks of 6, so that there are full blocks, a short last
  block and reads (1, 4, 7 bytes) that lie in a block, end at a boundary, cross one or
  span more than one. The real block size is even as well, which peeking needs.
* `bfile_write`: 7 bytes in blocks of 3, requests of 1, 2 and 4.
* `model_destroy`: 6 records of all sorts, arrays of initial size 1 so that they grow and
  move; this holds a push section with an ancillary node before it, a second section under
  the same node, and nested sections that the file leaves open. One answer other than CONTINUE.
* `model_traverse`: 5 records, two answers other than CONTINUE, one flagged node, and
  traversals of both kinds one after the other. Five records are a root, a section with
  a node in it, and an ancillary node before, in or after it. `Roots` restricts the first
  record to a header or another primary node: with anything else first nothing can be
  loaded.
* `state_stack`: two states, two levels of pushes: three levels of matrices are where a
  reused slot, an equal neighbour and an unequal one can differ.
* `library`: tables of 2 or 4 slots, so that each doubles; two models with three pools and
  three blocks; requests of zero bytes, of a part of a block and of more than one; four
  handlers on two levels with posts two deep, which is a handler that posts while it is
  being told; opcodes below, inside and beyond the table.
* `point_tree`: a grid of six points in leaves of two, with depth 3, where splits at every
  rounding, an empty half and the failing depth all happen. For the converter three looks,
  of which two are rounded to one point and one has no colours of vertices, and three faces,
  so that a subface and a face of its point follow a face, or a face stands in the list of
  another. Vertices come by one and three; lines are two singles.
* `vertex_palette`: two loaded and one added vertex, or more added ones, blocks of 100
  bytes that hold one or two vertices of 40 and 60 bytes, two lists of one entry.
  `MinEntries` is 3 in the code; entries are independent of each other, so 1 keeps
  the run small.
* `node_codec`: every length from 4 to three bytes behind the last member; 3 colors for
  1024, two color names, two materials.

### Fairness

Weak fairness is asked only of the steps of a call that has begun (`Step` of the
streams, `Traverse` and `Breadth` of the traversals): they run on the caller's thread, which has
nothing else to do. `FreadNothing` and `FwriteNothing`, the loops that make no progress,
are not among them, and no client is assumed to make calls.

## Proofs

The proof modules show their theorems for every value of the constants that the named
assumptions of the modules they extend allow. In each of them the properties the runs
check are not inductive as they stand; the strengthening is defined in the
module, TLC was made to check it on the run's instance before it was proved, and the proof
has a lemma per action.

`BFileWriteProofs`, from `SinkAssumption`: `TypeCorrect`, `FlushStaysInBlock`,
`BytesArePreserved`, and `WriterIsASink` (the refinement `SinkSpec`). `NothingLost`
is not inductive. `IInv` adds that the block is at most full (`Ahead`), what
`towrite` and `written` are in each phase of a call (`Phases`), that `ipos` is a
multiple of the block size until `bf_destroy` flushes a block that is not full
(`Aligned`), and the content of disk and block (`DiskOK`, `BlockOK`). `Aligned` is the
heart: only then does `pos % buffer_size` index the block from its start.

`BFileReadProofs`, from `BlockAssumption` and `FileAssumption`: `ReaderTypeCorrect`,
`BlockHoldsTheFile` (`WindowOK`) and `ReaderIsAStream` (the refinement `StreamSpec`). What
the block holds after `bf_read_buffer` depends on where the FILE stood, so `IInv` says that
the FILE stands at `ipos` (`SeekOK`), that between fills the block around `pos` has been
read as far as the file goes, or `pos` stands at its start and none of it has (`Settled`),
how much has been read inside one (`Filling`), and what the running call has collected so
far (`Progress`). The last one is what the refinement needs: the abstract stream answers
in one step what the buffered reader collects in rounds. Reading a short file, a
file that another program shortens, and pushing back (`UngetSwapped`) are all included. A reader
that has failed an assertion (`halted`) takes no further step, which is why most
conjuncts ask for `halted = "no"`.

`StateProofs`, from `MatrixAssumption`: `TypeCorrect`, `LevelStaysInStep`,
`CacheIsNeverStale`, `StackBetweenFailures` (`StackUntilFailure`: the steps between failing
allocations are steps of the stack) and, when allocations do not fail, `StateIsAStack` (the
refinement `StackSpec`). The conjunction of the three invariants is inductive: the cache of a state
stays right because the current matrix is the one the level indexes, which needs the
level to be in step. For the refinement, every action is mapped to the action of the
abstract stack with the same name, with the part of the array beyond the level
forgotten.

`StateProofs` also proves, from `PaletteAssumption` and for any number of vertices, blocks
and lists, `ListsKeepTheirVerticesHolds`, `OffsetsStayValidHolds`, `BytesAccountedHolds` and
`OptimizeKeepsUsedHolds`. The invariant `PInv` says that the offsets in every list, in the
saved lists, and those handed out name their vertices (`Named`: a record with that name
starts there, in the palette or in a block past everything before it), and that the length
word and the positions end where a record ends. Records have a length of at least one byte,
so the sums of the lengths rise and at most one record starts at an offset (`StartsRise`,
`AtIs`), which is why a lookup finds no other one. That a lookup skips the right blocks is
`LookupIs`; that the blocks lie behind the palette in the order their offsets say, once they
are saved or cloned, is `StoredIs`; that the walk over the saved records stops at the last
one is `WalkIsWhole`. In the compaction a record that is kept moves by the bytes dropped
before it (`CompactPacks`), which is what the list is rewritten by (`CompactMoves`); an
offset is only mentioned if its vertex is tagged, and a tag leads to no other vertex
(`TaggedIs`).

`LibraryProofs`, from the assumptions of `Arrays`, `MemPool`, `Messages`, `NodeInfo` and
`Library`: `PoolsStaySeparate`, `MessagesAreDeliveredOnce`, `LatestTypeIsFound`,
`TablesStayInBounds` and `NothingIsLeft`, each about `LSpec`. The three parts have an
invariant each. Pools: a slot of the table belongs to one pool, a block to one pool, and
every piece lies between the block's start and its `data_pos`. Messages: for every post in
progress, the handlers told are those in the slots it has passed, and the
handlers still due stand in a slot ahead of it; deleting a handler empties its slot without moving
others, which is why a post that a handler interrupts goes on at the right place. Node
types: the table holds exactly the allocated entries, each at its opcode. `Roomy` (an array's
capacity has room for its elements in the bytes that were allocated) carries
`TablesInBounds` through every append, and the session invariants say what `prf_exit`
leaves.

`ModelLoadProofs`, from `LoadAssumption`: `ListsAreKept` (`LoadKeepsLists`) and
`TreeIsAsRecorded` (`TreeAsRecorded`), for files of any length and depth and every way
`realloc` may move an array. The invariant relates the depths of the records read so far,
the lists on the stack, and the pointers in the nodes: an open list holds the nodes of its
depth that came after its owner (`ListsOK`); no two pointers go to one array but that of an
open list and of its owner (`Apart`); a node whose list is not open has exactly its
logical children, and they know it (`AllClosed`); and if the last node of the deepest list
has children already, the stack still has their list above it (`Reopens`), which is what a second
section under one node relies on. It is stated about values, so that a record is a
composition of three steps proved once: a node joins a list (`JoinStep`), a list is
begun or opened again (`NewListStep`, `ReopenStep`), a list is attached to its owner
(`AttachStep`). The level is a difference of two counts of records (`CountNext`).

A second invariant of the load, `MoreInv`, is about what the traversals rely on and the
loader never checks: a pop or an ancillary node has no children (`Childless`) and owns no
open list (`Openers`), so a closed list ends with a node without children and has a pop
behind every push (`ClosedEnds`); and an allocated array is an open list or somebody's
children (`Claimed`). What it leaves is `LoadLeavesTree`: the shape of the tree (`Shape`),
and that the allocated arrays are exactly the nodes' lists (`Allocated`).

`ModelDestroyProofs`, from `LoadAssumption` and `DestroyAssumption`: `DestroyIsAlwaysSafe`
(`DestroyIsSafe`), `DestroyLeaksNothing` (`NothingLeaks`) and `ParentsComeLast`
(`ChildrenFirst`), for trees of any size. None of the three is inductive: whether the next
list may be read depends on which nodes have been called. `WalkInv` says that the stacks are
a path from the root (`Walked`); that in the lists on this path the nodes before the walk's
place are the called ones (`Ahead`), every other called node lies below a called one
(`Behind`), and a called node's children were called before it (`Below`, `Once`, `After`);
that exactly the called nodes' lists and, without a pool, these nodes are freed (`Memory`);
and where in its list the walk stands in each phase (`Position`). The last part needs
`Shape`: the code goes up one level without looking at that level's limit, which is right
only because the last node of a list has no children, and the scan of `PRF_TRAV_POP` has no
limit at all, which is right only between a push and its pop.

The fourth theorem, `MatricesAreInScope` (`ScopeOfDescent`), says which matrices the
callback of such a walk is shown. `ScopeInv`, on top of `WalkInv`, says that there is one
matrix for each list of the path and which product it is (`PathScope`): in the lists
entered before, the matrices of the ancillary nodes up to the place at which the walk
stands. In each phase this is said of the node about to be entered (`Entering`), of the one
entered (`Entered`), or of the level left (`Outer`). Entering a node multiplies at most
itself into the last matrix (`EnterMultiplies`), also in the scan of `PRF_TRAV_POP`, which
enters every node up to the pop and calls none of them (`ScanEnters`); going down copies the
last matrix (`OnToChild`); going up drops it, whatever the children multiplied into it
(`BackUp`); and between a place of a list and the next one stands nothing (`OnToSibling`).
What the path holds is what the property says of the node and its ancestors (`Lineage`,
`PathIsLine`), and the level a callback sees is the number of nodes on the path above its
own (`StopsCount`). What was shown stays right, because the walk changes no kind and no
parent (`SeenStays`).

`ModelTraverseProofs`, from `LoadAssumption` and `TraverseAssumption`, about `BSpec`, in
which traversals of both kinds, saves and clones follow each other: `TraversalIsSafe`
(`NoBadAccess`), `BreadthIsClean` (`BreadthReleases`) and `ModelOutlivesTraversals`. An
in-order traversal keeps the same path as the depth-first one (`Walked`), above an array
of its own that is the last of the heap (`Storage`); what `Position` says of it in each
phase is enough for every answer, because a list ends with a node without children
(`Shape`) and an application answers `POP` only between a push and its pop (`MayPop`).
`prf_model_clone` does not die in its assertions when the header is the first node and
the only one (`HeaderFirst`). The clones of a breadth-first traversal are numbered one
after the other; those in use are the last ones, in the order of the arrays of the two
levels (`InUseAfter`), so that each clone the end of a list destroys is used by no list
after it. Between traversals all that is left is the model (`AtRest`), and that is the
third theorem: the children of every node are still allocated, unless a traversal was left
with `PRF_TRAV_EXIT` below the root (`broken`), the case `traverse_exit` exhibits.

The fourth theorem of that module, `VisitsAreInFileOrder` (`VisitsInFileOrder`), says which
nodes an in-order traversal calls and in which order. The property leaves open whether
the nodes behind an `UP` are among them (`AfterUp`), since the manual says that they are
skipped; in the code they are, and the proof shows it on the way. A second invariant, `OrderInv`,
carries it. Subtrees of a loaded model do not cross (`NoCross`), because a record is at
most one level deeper than the one before it. A node is `Passed` when all that is still
ahead on the path, the rest of each list, comes after it in the file. Then (`CallInv`) the
calls ascend and all are of passed nodes, a passed node has been called exactly if the
answers so far and the flags ask for it (`Right`), the nodes of the path answered
`CONTINUE`, and behind a node that answered `POP` the walk has reached a pop. Where the
walk stands the passed nodes are exactly those before it in the file (`PassedBefore`); what
it passes on its next step is the node it stands at and the nodes below it or up to the
next pop, which the answer leaves out (`GoesOn`); when it is behind the root every node is
passed. `Visible`, which the property builds by recursion in the order of the file, is then
the set of the nodes called (`VisibleIsCalled`).

The fifth, `ClonesAreEqual` (`CloneIsEqual`), says what `prf_model_clone` makes, from a
third invariant, `CopyInv`, on top of `OrderInv`. The clone so far has a header exactly if
something was called, and below each node the clones of the called nodes whose parent it is,
rising in the order of the file (`CopyOK`). The stack of clones follows the path of the
walk: at each level at which the walk is inside a list it holds the node the list belongs
to (`Follows`, `StackOK`), whatever was cut off when the walk came back up. That is why
`stack[physical_level - 1]`, where `clone_cb` puts the next node, is the clone of the node's
parent, and why the entry is never one left over from a deeper branch. A second header
ends the program in an assertion of `clone_cb`. When the walk is over the called nodes are
the visible ones, as for `VisitsAreInFileOrder`.

The sixth, `StateIsInScope` (`StateInScope`), is about the state a callback is shown. Its
invariant `ScopeInv`, also on top of `OrderInv`, says that there is one matrix for each
level of the path, and that the one of level `l` is the product of the called ancillary
nodes in the lists of the first `l` levels, rising in the order of the file (`Matrices`,
`LevelScope`). A call multiplies at most itself into the last one (`CallMultiplies`); going
down copies the last one, because nothing below the node has been called yet
(`MatricesPushed`, `Opens`); going up drops it (`MatricesPopped`); along a list nothing
changes (`MatricesStay`). What the path holds is what the property says of a node and its
ancestors, again because subtrees do not cross (`ScopeOfPath`), and later calls add nothing
to it (`ScopeStays`), so every state once shown stays right (`SeenRight`). The object is
reset before the children are looked at (`CallLeaves`). `Ancestors`, which is recursive,
is replaced by what its recursion determines (`Lineage`). That a lookup keeps finding what
it found needs none of this: textures and instances are only added behind
the others (`Extends`, `DefinitionInv`), and the first hit stays the first (`FoundAgain`).
So are materials, but at a call of the header that the state registers, after which there
are none (`Renewed`).

The seventh, `CountersAreInStep` (`LevelsInStep`), is about the counters. Every list of a
loaded model begins with a push or an ancillary node and ends with a pop or another one, and
what follows a pop or an ancillary node is again a push or an ancillary node (`Alternates`,
from the levels of the records, `Recorded`); pops and ancillary nodes have no children. So a list above the walk is always between a push and its pop, and
`push_level` is the number of lists below the root's, less one if the node at which the walk
stands has its push still before it, or its pop behind it (`CounterHere`); an answer that
leaves out a subtree leaves out a balanced part, `POP` goes on behind a pop of the same
section. The sections of the property are the ancestors without the root and without an
ancillary node itself (`Outer`). The proof corrected the property, which had been stated
for every file and for any depth: a section may end with the pop of another sort (the
loader closes the level for any of them, the counter of the push stays up), and the counter
has 16 bits. `LevelsInStep` and `BreadthInOrder` now say so (`OwnPops`, `% 65536`).

`ConverterProofs`, from `TreeAssumption` and `ConverterAssumption`:
`PresentIsFoundHolds`, `FacesAreDrawnHolds` and `ColoursInStepHolds`, all from one invariant
`CInv`, because a face's addition to the tree takes several steps and its answer is the
number of the face's set.

* The tree (`TreeInv`). `PresentIsFound` speaks of a search from the root, which a split or
  a removal may change anywhere. The search of a point is a route: at each node it goes on
  on the side of the point, and nodes stand before the nodes below them (`Links`), so there
  is one route and it ends in a leaf (`RouteIs`, `RouteEnds`). Every index stands in the
  leaf at which the route of its point ends, and no other index of that point is there
  (`Placed`); the points added and not removed are those whose indices stand somewhere
  (`Agrees`); the node at which an addition stands is on the route of its point (`CallOK`).
  A split makes only the routes longer that ended in that leaf, by the side their point is
  on (`SplitRoute`), and the loop of the code sends each index of the leaf to that side
  (`ChosenIs`, `HeldSplit`): so nothing is asked of the plane, and one that leaves a side
  empty does no harm. A removal puts the last index in the place of the one it forgets;
  that this one is no other point's follows from `Placed` (`HeldRemoved`).
* The conversion (`Core`, `Statics`). A polygon is a face whose list has ended, or made of
  vertices that are loose: of no list, or of lists that were cut (`ShapesOK`, `Loose`); a
  face of three vertices or more whose list has ended stands in one place of one set, and
  that has its point (`EndedOK`). For this the static variables must belong to the face whose
  list is read: only the innermost face of the walk can be in its list (`WalkOK`), its
  vertices are those collected, and `current_index` is a set of its point (`OwnOK`); two
  faces cannot be mixed up since a face's first vertex names it. What was drawn
  before stays right, since no step changes a face whose list is over (`Later`,
  `LaterDrawn`). While the tree looks for a look the arrays are empty and the answer will
  be the set of its point, or the next one to be made (`LooksOK`, `MeetOK`). The colours
  collected are those of the vertices in the mode of the set (`InFaceOK`), because looks of
  one point have one light mode whatever the rounding of colours does (`SameBinding`), and
  a set for colours of vertices has some as soon as it has a polygon or a line
  (`ColourOK`): this gives `ColoursInStep`.

Ten recursive functions are within reach, although the library's induction theorems are
not: `Padded` (the padding of the registry's table), the registration loop of
`prf_nodeinfo_init`, `Visible` and `Ancestors`, the scan `Scanned` of `PRF_TRAV_POP`, the
search `LeafOf`, the loop `Chosen`, and `Sums`, `Joined` and `Compact` of the palette. A function defined by recursion on `0..m` exists, and what it has at every `n` holds, by the
least counterexample (`LeastExists`, which each module that needs it proves, as the two
about byte streams do with the facts about quotients and remainders).

Only model-checked:
* liveness (`CallsReturn`, `TraversalEnds`, `DestroyEnds`), which the prover does not do
  under fairness;
* what folds compute for all inputs, which takes induction over data with an operator as a
  parameter: `NodeCodec` (the place of a member is a sum over the members before), and
  `SearchesAreExact` of `PointTree` (the searches recurse into both sides and join lists of
  distances that are sums);
* the order of a breadth-first traversal (`BreadthInOrder`).

## Not modelled

* Numbers: conversion between bytes and floats, the elimination inside
  `prf_state_get_inverse_matrix` (the inverse is a constant operator).
* The byteswap heuristics of the loader, its progress callback, hex dumps, the text of
  messages.
* The values a material or texture lookup copies out of a node, colour arithmetic.
* Array insertion and removal, `bsp_clear` and user data of the tree: nothing calls them.
* `prf_model_append_node`, macro repair after cloning, `prf_model_dump`, and the flag that
  says whether a cloned header is pooled.
* In `flt2vrml`, which children of animated groups and instances are traversed, textures and
  materials of faces, texture coordinates, and the text of the VRML file. The other
  programs under `src/examples` print or filter records and keep no state.

## Plan

Done: the modules above, in the order byte streams, loading, traversals, state,
palette, node types, then the state's other attributes, breadth-first traversal, the
library's tables and the converter; the proofs of both byte streams, of the state and
the palette, of the library's tables, of loading, of the depth-first walk and destruction, of the memory
of the other traversals, the order of those in file order, the clones they make, the
matrices and definitions they and the depth-first walk show, the counters, and of the tree
of points and the conversion.

What could be proved next is `BreadthInOrder` of `ModelBreadth`. The rest of the list above
stays with TLC for the reasons given there.
