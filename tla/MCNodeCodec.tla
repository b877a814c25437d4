---------------------------- MODULE MCNodeCodec ----------------------------
(***************************************************************************)
(* The records NodeCodec is checked with: for every type, all lengths from *)
(* the shortest record to one with three bytes behind the last member.     *)
(***************************************************************************)
EXTENDS NodeCodec

MCNames == <<9, 12>>
Types == {"header", "group", "object", "face", "matrix", "level of detail",
          "external reference", "texture", "material", "material palette",
          "color palette", "instance definition", "instance reference",
          "vertex list", "morph vertex list", "vertex with color",
          "vertex with normal", "vertex with normal and texture",
          "vertex with texture", "obsolete vertex with color",
          "obsolete vertex with normal", "raw"}

Whole(t) == Last(LayoutOf(t).upto)
Lengths(t) == 4..(Whole(t) + 3)

\* A color palette announces its names only if it holds them; vertex lists are
\* words.  Left out are the records with which the library breaks the
\* properties: external references of 212 and 213 bytes (external_reference.c
\* line 85 takes them, its members need 214), material palettes cut inside a
\* name (material_palette.c line 219 checks for 4 of its 12 bytes), vertices
\* with normal below 32 bytes (vertex_with_normal.c line 155 goes on) and
\* obsolete vertices below 16 (saved without checks).
NamesFit(n) == n >= Whole("color palette") \/ n < 4 + 128 + 4 * Colors + 4
NameCut(n) == \E k \in {0, 184} : n - (4 + k + 60) \in 4..11
Sound(t, n) ==
  /\ t = "color palette" => NamesFit(n)
  /\ t \in {"vertex list", "morph vertex list"} => n % 4 = 0
  /\ t = "external reference" => n \notin 212..213
  /\ t = "material palette" => ~ NameCut(n)
  /\ t = "vertex with normal" => n >= 32
  /\ t \in {"obsolete vertex with color", "obsolete vertex with normal"} => n >= 16

AllRecords == UNION {{<<t, n>> : n \in Lengths(t)} : t \in Types}
SoundRecords == {r \in AllRecords : Sound(r[1], r[2])}
OnlyOf(t) == {r \in AllRecords : r[1] = t}
\* Clones of padded structs lose their end: the run codec_clone.
Clonable == Types \ {"level of detail", "external reference"}

LevelsOfDetail == OnlyOf("level of detail")
OnlyLevelsOfDetail == {"level of detail"}
=============================================================================
