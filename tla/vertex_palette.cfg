SPECIFICATION PaletteSpec
CONSTANTS
  Opcodes = {68, 70}
  BlockSize = 100
  List = {l1, l2}
  MaxLoaded = 2
  MaxVertices = 3
  MinEntries = 1
  MaxEntries = 1
INVARIANTS ListsKeepTheirVertices OffsetsStayValid BytesAccounted
PROPERTIES OptimizeKeepsUsed
