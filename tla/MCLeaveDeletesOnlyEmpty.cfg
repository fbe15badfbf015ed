CONSTANTS
  owner = owner
  u1 = u1
  u2 = u2
  k1 = k1
  k2 = k2
  r1 = r1
  r2 = r2
  r3 = r3
  Owner = owner
  Default = FALSE
  NoReq = NoReq
  NoCode = NoCode
  Users <- ThreeUsers
  Codes <- OneCode
  Reqs <- TwoReqs
  MaxMax = 0
  MaxUses = 2
SPECIFICATION Spec
PROPERTIES
  LeaveDeletesOnlyEmpty
