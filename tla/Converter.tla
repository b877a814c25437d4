----------------------------- MODULE Converter ------------------------------
(***************************************************************************)
(* The conversion of a model to VRML (examples/flt2vrml/flt2vrml.c): the   *)
(* callback profitCB collects the vertices of a face in static variables   *)
(* and moves them, when the list of the face ends, to the set of the faces *)
(* that look alike.  Which set that is, the index says that the look has   *)
(* in the tree materialLookup.                                             *)
(*                                                                         *)
(* The callback is given the records of any model, one step for each that  *)
(* it looks at.  Of a look the colour, the light mode and the level of     *)
(* subfaces are kept: texture and material make a coordinate that is       *)
(* rounded as the colour is, and the transparency is 0, since the object   *)
(* above a face has taken its own back (prf_object_exit_f).  A vertex is   *)
(* known by the face whose list it is in and its place there (<<0, i>>:    *)
(* in none).                                                               *)
(* The trees of vertices and colours give equal ones one index; here they  *)
(* are themselves.  Texture coordinates, two for every vertex, go the way  *)
(* of the vertices.                                                        *)
(*                                                                         *)
(* With `using' "client" the tree alone is used, by any of its functions.  *)
(***************************************************************************)
EXTENDS PointTree

CONSTANTS
  Users,     \* who uses the tree: "client", "flt2vrml"
  Looks,     \* the looks of faces in the model
  Float(_),  \* (float): the coordinate of the float a colour is rounded to
  MaxFaces,  \* bound: faces met
  MaxShape   \* bound: vertices in vertexarray

\* tmp in profitCB: looks of different colours may be one point.  The last sum,
\* here in units of 65536, has the 24 bits that a float keeps.
MaterialPoint(look) == << Float(look.packed_color), look.lightmode + 256 * look.subface_level >>

ASSUME ConverterAssumption ==
  /\ Dims = 2
  /\ \A look \in Looks :
       /\ look.lightmode \in 0..255 /\ look.subface_level \in 0..(2^16 - 1)
       /\ MaterialPoint(look) \in Point
  /\ MaxFaces \in Nat /\ MaxShape \in Nat
  /\ Users \subseteq {"client", "flt2vrml"}

VARIABLES
  using,             \* who uses the tree
  is_in_face,        \* the statics of profitCB ...
  current_index,
  color_per_vertex,
  vertexarray,       \* ... and the globals
  colorarray,
  facesets,
  walk,              \* the faces whose children are traversed, outermost first
  faces,             \* auxiliary: the faces met: look, vertices, list
  outcome            \* "none", "written", "asserted" (an assertion on the colours failed)

statics == <<is_in_face, current_index, color_per_vertex>>
cvars == <<statics, vertexarray, colorarray, facesets, walk, faces, outcome>>

\* main and flt2vrml
CInit ==
  /\ TreeInit
  /\ using \in Users
  /\ is_in_face = FALSE /\ current_index = 0 /\ color_per_vertex = FALSE
  /\ vertexarray = <<>> /\ colorarray = <<>> /\ facesets = <<>>
  /\ walk = <<>> /\ faces = <<>> /\ outcome = "none"

Top == walk[Len(walk)]
\* The first pass over the children of a face has met no end of a list yet.
InList == walk # <<>> /\ faces[Top].list = "open"
Called == using = "flt2vrml" /\ call.op = "none" /\ ~dead /\ outcome = "none"
PerVertex(look) == look.lightmode \in {1, 3}

-----------------------------------------------------------------------------
\* Mutation of MayMeetFace: subfaces in the first pass, where they stand.
OnePass(subface) == subface => walk # <<>>
\* Subfaces wait for the second pass; other faces are met anywhere.
MayMeetFace(subface) == subface => walk # <<>> /\ ~InList

\* A face that is in the list of another, and no subface of it, cuts that list.
FaceMet(look, list, subface) ==
  /\ Called /\ MayMeetFace(subface) /\ Len(faces) < MaxFaces
  /\ LET before == IF InList /\ ~subface THEN [faces EXCEPT ![Top].list = "cut"] ELSE faces
     IN faces' = Append(before, [look |-> look, vertices |-> <<>>, list |-> list])
  /\ vertexarray' = <<>> /\ colorarray' = <<>>
HiddenFace(subface) ==
  /\ FaceMet(<<>>, "hidden", subface)
  /\ UNCHANGED <<treevars, statics, facesets, walk, outcome>>
\* Mutation of Face: vertices keep the colours of the face before.
FaceForgetsBinding(look, subface) ==
  /\ FaceMet(look, "open", subface)
  /\ bsp_add_point(MaterialPoint(look))
  /\ is_in_face' = TRUE /\ color_per_vertex' = (color_per_vertex \/ PerVertex(look))
  /\ UNCHANGED <<current_index, facesets, walk, outcome>>
Face(look, subface) ==
  /\ FaceMet(look, "open", subface)
  /\ bsp_add_point(MaterialPoint(look))
  /\ is_in_face' = TRUE /\ color_per_vertex' = PerVertex(look)
  /\ UNCHANGED <<current_index, facesets, walk, outcome>>

faceset_create(look) == [look |-> look, indices |-> <<>>, lineIndices |-> <<>>, colorIdx |-> <<>>]
\* The rest of the step that met the face, when bsp_add_point returns.  A face
\* without children has no list to end it.
FaceAdded ==
  /\ using = "flt2vrml" /\ call.op = "returned"
  /\ call' = NoCall /\ current_index' = call.idx
  /\ facesets' = IF call.idx > Len(facesets)
                 THEN Append(facesets, faceset_create(faces[Len(faces)].look)) ELSE facesets
  /\ \/ walk' = Append(walk, Len(faces)) /\ UNCHANGED faces
     \/ UNCHANGED walk /\ faces' = [faces EXCEPT ![Len(faces)].list = "cut"]
  /\ UNCHANGED <<points, node, present, dead, is_in_face, color_per_vertex,
                 vertexarray, colorarray, outcome>>

\* A vertex list, a morph vertex list or a vertex, in a face or elsewhere: one
\* vertex or three, so that a line and a polygon are both within bounds.
VertexList(n) ==
  /\ Called /\ Len(vertexarray) + n <= MaxShape
  /\ LET vertices == [i \in 1..n |-> IF InList THEN <<Top, Len(faces[Top].vertices) + i>> ELSE <<0, i>>]
     IN /\ faces' = IF InList THEN [faces EXCEPT ![Top].vertices = @ \o vertices] ELSE faces
        /\ vertexarray' = IF is_in_face THEN vertexarray \o vertices ELSE vertexarray
        /\ colorarray' = IF is_in_face /\ color_per_vertex THEN colorarray \o vertices ELSE colorarray
  /\ UNCHANGED <<treevars, statics, facesets, walk, outcome>>

\* What the vertices collected add to a set.
Flushed(set) ==
  LET colored(s) == IF color_per_vertex THEN [s EXCEPT !.colorIdx = Append(@, colorarray)] ELSE s
  IN IF Len(vertexarray) < 2 THEN set
     ELSE IF Len(vertexarray) = 2 THEN colored([set EXCEPT !.lineIndices = Append(@, vertexarray)])
     ELSE colored([set EXCEPT !.indices = Append(@, vertexarray)])
ColoursMissing ==
  color_per_vertex /\ Len(vertexarray) >= 3 /\ Len(colorarray) # Len(vertexarray)

\* The end of a list: of the face under way, of other nodes, or of a node in the
\* list of the face, which the code takes for the end of that list.
PopLevel(nested) ==
  /\ Called
  /\ faces' = IF InList THEN [faces EXCEPT ![Top].list = IF nested THEN "cut" ELSE "ended"] ELSE faces
  /\ is_in_face' = FALSE
  /\ facesets' = IF is_in_face /\ ~ColoursMissing
                 THEN [facesets EXCEPT ![current_index] = Flushed(@)] ELSE facesets
  /\ outcome' = IF is_in_face /\ ColoursMissing THEN "asserted" ELSE outcome
  /\ UNCHANGED <<treevars, current_index, color_per_vertex, vertexarray, colorarray, walk>>
\* The first pass is over and no list has ended: there was none, or the file
\* ends in it.
NoListEnded ==
  /\ Called /\ InList
  /\ faces' = [faces EXCEPT ![Top].list = "cut"]
  /\ UNCHANGED <<treevars, statics, vertexarray, colorarray, facesets, walk, outcome>>
\* After the second pass.
FaceDone ==
  /\ Called /\ walk # <<>> /\ ~InList
  /\ walk' = SubSeq(walk, 1, Len(walk) - 1)
  /\ UNCHANGED <<treevars, statics, vertexarray, colorarray, facesets, faces, outcome>>

\* do_convert after the traversal, convertFaceset: with a lightmode for colours
\* of vertices, a set with vertices has a first colour.
Uncoloured(set) ==
  /\ set.indices # <<>> \/ set.lineIndices # <<>>
  /\ PerVertex(set.look) /\ set.colorIdx = <<>>
do_convert ==
  /\ Called /\ walk = <<>>
  /\ outcome' = IF \E i \in DOMAIN facesets : Uncoloured(facesets[i]) THEN "asserted" ELSE "written"
  /\ UNCHANGED <<treevars, statics, vertexarray, colorarray, facesets, walk, faces>>

profitCB ==
  \/ \E subface \in BOOLEAN : HiddenFace(subface) \/ \E look \in Looks : Face(look, subface)
  \/ FaceAdded \/ NoListEnded \/ FaceDone
  \/ \E nested \in BOOLEAN : PopLevel(nested)
  \/ \E n \in {1, 3} : VertexList(n)
CNext ==
  /\ UNCHANGED using
  /\ \/ using = "client" /\ TreeNext /\ UNCHANGED cvars
     \/ using = "flt2vrml" /\ AddSteps /\ UNCHANGED cvars
     \/ profitCB
     \/ do_convert
CSpec == CInit /\ [][CNext]_<<treevars, cvars, using>>

-----------------------------------------------------------------------------
\* Searches look at a part of the tree and answer as if they looked at all of it.
\* flt2vrml itself only adds points.
ClientSearchesAreExact == using = "client" => SearchesAreExact

Places == UNION {{<<i, k>> : k \in DOMAIN facesets[i].indices} : i \in DOMAIN facesets}
ShapeAt(place) == facesets[place[1]].indices[place[2]]

\* Each face whose list has ended is drawn as one polygon, with all of its
\* vertices in order and in a set whose look is the same point as its own,
\* whatever other faces, subfaces and hidden faces came before, between its lists
\* or after it.  Faces of two vertices are not: lines are collected and never
\* written.  Any other polygon is made of vertices of no list and of lists that
\* were cut, by a face or a list inside them or by the end of the file.
FacesAreDrawn ==
  /\ \A f \in DOMAIN faces :
       faces[f].list = "ended" /\ Len(faces[f].vertices) >= 3 =>
         \E place \in Places :
           /\ ShapeAt(place) = faces[f].vertices
           /\ MaterialPoint(facesets[place[1]].look) = MaterialPoint(faces[f].look)
           /\ \A other \in Places : <<f, 1>> \in Range(ShapeAt(other)) => other = place
  /\ \A place \in Places :
       \/ \E f \in DOMAIN faces : faces[f].list = "ended" /\ ShapeAt(place) = faces[f].vertices
       \/ /\ \E f \in DOMAIN faces : faces[f].list = "cut"
          /\ \A v \in Range(ShapeAt(place)) : v[1] = 0 \/ faces[v[1]].list = "cut"

\* The material indices written for a set of faces go with its coordinate
\* indices, one for one, until a line was put into the set: its colours are
\* written with those of the polygons, its coordinates are not.
MaterialsInStep ==
  \A i \in DOMAIN facesets :
    facesets[i].lineIndices = <<>> =>
      facesets[i].colorIdx = IF PerVertex(facesets[i].look) THEN facesets[i].indices ELSE <<>>

\* The colours are those of the vertices: no assertion on them fails, neither
\* when a list ends nor when the sets are written.
ColoursInStep == MaterialsInStep /\ outcome # "asserted"
=============================================================================
