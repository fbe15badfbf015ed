CONSTANTS
  u1 = u1
  u2 = u2
  r1 = r1
  r2 = r2
  i1 = i1
  i2 = i2
  i3 = i3
  Users <- TwoUsers
  Strangers <- TwoUsers
  Reqs <- TwoReqs
  Ids <- ThreeIds
SPECIFICATION Spec
INVARIANTS
  OneDmPerPair
