CONSTANTS
  u1 = u1
  u2 = u2
  a = a
  b = b
  r1 = r1
  r2 = r2
  r3 = r3
  Users <- TwoUsers
  Texts <- TwoTexts
  Reqs <- ThreeReqs
  MaxMsgs = 2
  None = None
SPECIFICATION BothSpec
SYMMETRY Symmetry
INVARIANTS
  TypeOK
  ClientsConverge
PROPERTIES
  DeletedStaysAway
