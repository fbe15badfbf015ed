CONSTANTS
  owner = owner
  u1 = u1
  u2 = u2
  k1 = k1
  k2 = k2
  r1 = r1
  r2 = r2
  r3 = r3
  Owner = owner
  Default = TRUE
  NoReq = NoReq
  NoCode = NoCode
  Users <- TwoUsers
  Codes <- OneCode
  Reqs <- TwoReqs
  MaxMax = 1
  MaxUses = 2
SPECIFICATION FairSpec
INVARIANTS
  TypeOK
  UsesWithinMax
  BansHold
PROPERTIES
  NoBannedJoin
  RequestsEnd
