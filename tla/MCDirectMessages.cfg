CONSTANTS
  u1 = u1
  u2 = u2
  printed = printed
  other = other
  r1 = r1
  r2 = r2
  r3 = r3
  i1 = i1
  i2 = i2
  i3 = i3
  Users <- TwoUsers
  Texts <- ThreeTexts
  Printed = printed
  Reqs <- ThreeReqs
  Ids <- ThreeIds
  PoolSize = 2
SPECIFICATION FairSpec
INVARIANTS
  TypeOK
  OneDmPerPair
  AnswersCommitted
  NothingLeaked
PROPERTIES
  ImplementsDirectory
  CallsEnd
