\* Two connections of two clients on two paths, and two threads that broadcast, to some or to all.
CONSTANTS
  Conns = {c1, c2}
  Senders = {s1, s2}
  Paths = {p, q}
  Ids = {k1, k2}
  DestIds <- AllOrOne
  MaxPosted = 1
  NoOwner = NoOwner
SPECIFICATION RegistryFairSpec
INVARIANTS LiveStaysRegistered BroadcastFinds
PROPERTIES ExpiredPurged BroadcastReturns
CHECK_DEADLOCK FALSE
