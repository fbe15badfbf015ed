CONSTANTS
  a1 = a1
  a2 = a2
  b1 = b1
  b2 = b2
  owner = owner
  user = user
  ro = ro
  rm = rm
  r1 = r1
  r2 = r2
  manage = manage
  other = other
  f1 = f1
  x1 = x1
  x2 = x2
  nm1 = nm1
  nm2 = nm2
  e1 = e1
  Sockets <- TwoAs
  Channels <- TwoBs
  NoChannel = NoChannel
  MaxPub = 1
  Parts <- AllParts
  rUsers <- OwnerAndUser
  rOwner = owner
  rRoleIds <- ServerRoles
  rOwnerRole = ro
  rMemberRole = rm
  rFlags <- TwoFlags
  rManageRoles = manage
  rReqs <- TwoAs
  rMaxPos = 2
  rMaxServed = 3
  aUsers <- OwnerAndUser
  aOwner = owner
  aRoleIds <- ChannelRoles
  aAdmins <- AdminRoles
  aReqs <- TwoAs
  aMaxServed = 2
  nIds <- TwoAs
  nFetches <- OneFetch
  nMaxCalls = 1
  uRows <- TwoRows
  uNames <- TwoNames
  uEmails <- OneEmail
  uSubs <- TwoBs
  uNoEmail = noEmail
  uNoSub = noSub
  uReqs <- TwoAs
  oKeys <- TwoAs
  oColumns = 2
  oCleanups <- TwoBs
  sUsers <- TwoAs
  sNobody = nobody
  sChecks <- OneFetch
  sUpdates <- OneFetch
  sFetches <- OneFetch
  gCalls <- FourCalls
  gArgs <- OneFetch
  gRequestIds <- TwoAs
  gWriters <- TwoBs
  gMaxVersion = 2
  gNobody = noRequest
  mBackends <- TwoAs
  mUsers <- OwnerAndUser
  mOwner = owner
  mRoleIds <- MigratedRoles
  mMaxStarts = 2
  mMaxServed = 2
  mNone = noRole
  mAbsent = noMember
SPECIFICATION MCSpec
SYMMETRY Symmetry
INVARIANTS
  PartsTypeOK
  IndexesHold
  NoEscalation
  RolesOfMembers
  AccessAsSaved
  NothingElseMissed
  SignIns
  UsedIsStored
  ClientHolds
  MigrationHolds
PROPERTIES
  ImplementsFanout
  ReadStays
