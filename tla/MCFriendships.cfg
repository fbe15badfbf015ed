CONSTANTS
  u1 = u1
  u2 = u2
  u3 = u3
  r1 = r1
  r2 = r2
  r3 = r3
  Users <- TwoUsers
  Reqs <- ThreeReqs
  MaxRows = 3
SPECIFICATION BothSpec
SYMMETRY Symmetry
INVARIANTS
  TypeOK
  EverWanted
PROPERTIES
  AcceptedByOther
CHECK_DEADLOCK FALSE
