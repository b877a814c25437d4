\* The tree with any four calls of its functions and more removals; and the
\* conversion of models with up to three faces, two of whose looks are rounded to
\* one point.
SPECIFICATION CSpec
CONSTANTS
  Point <- Grid
  Dims = 2
  Radius = {1, 2}
  MaxNodePoints = 2
  MaxDepth = 3
  MaxPoints = 4
  Users = {"client", "flt2vrml"}
  Looks <- ThreeLooks
  Float <- ThreeBits
  MaxFaces = 3
  MaxShape = 3
INVARIANTS PresentIsFound ClientSearchesAreExact FacesAreDrawn ColoursInStep
\* The bound on the points that are added is reached, a conversion that is written
\* has ended, and so has a program whose assertion failed.
CHECK_DEADLOCK FALSE
