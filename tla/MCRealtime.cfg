CONSTANTS
  w1 = w1
  w2 = w2
  c1 = c1
  c2 = c2
  Sockets <- TwoSockets
  Channels <- TwoChannels
  NoScope = NoScope
  MaxPub = 2
SPECIFICATION FairSpec
INVARIANTS
  TypeOK
  Subscriptions
  Lingers
  InboxInOrder
PROPERTIES
  ImplementsFanout
  SilentClientDropped
  EmptyChannelForgotten
  ShutdownEnds
CHECK_DEADLOCK FALSE
