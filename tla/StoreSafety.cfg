CONSTANTS
  c1 = c1
  c2 = c2
  n1 = n1
  n2 = n2
  i1 = i1
  i2 = i2
  i3 = i3
  i4 = i4
  s1 = s1
  s2 = s2
  s3 = s3
  NoIno = noino
  Hole = hole
  Sources <- ThreeSources
  Size <- Sizes
  Children <- TwoChildren
  Names <- OneName
  Inodes <- ThreeInodes
SPECIFICATION Spec
SYMMETRY Symmetry
CHECK_DEADLOCK FALSE
INVARIANTS
  TypeOK
  UndisturbedGet
  UndisturbedPut
