CONSTANTS
  c1 = c1
  c2 = c2
  p1 = p1
  p2 = p2
  a = a
  Channels <- TwoChannels
  First = c1
  Posts <- TwoPosts
  Texts <- OneText
  MaxLoads = 3
SPECIFICATION Spec
SYMMETRY Symmetry
INVARIANTS
  OwnOnce
CHECK_DEADLOCK FALSE
