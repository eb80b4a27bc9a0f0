SPECIFICATION Spec
CONSTANTS
  f = f
  g = g
  Fd = {f, g}
  MaxFirst = 4
  MaxSecond = 2
  Contents <- MCContents
  BUFFER_SIZE = 3
INVARIANTS
  TypeOK
  ReadInOrder
  LinesWhole
  OwnText
