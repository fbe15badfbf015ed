CONSTANTS
  u1 = u1
  u2 = u2
  u3 = u3
  r1 = r1
  r2 = r2
  r3 = r3
  Users <- TwoUsers
  Reqs <- TwoReqs
  MaxRows = 2
SPECIFICATION Spec
INVARIANTS
  AcceptsTheirRequest
CHECK_DEADLOCK FALSE
