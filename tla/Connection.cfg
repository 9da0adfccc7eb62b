\* One client and one slot, which its own old session may still hold, or two programs of
\* which the daemon knows nothing.  The daemon is started twice, two requests outlive a
\* session, the inbound queue is full with two messages.
CONSTANTS
  Conns = {k1, k2}
  NoConn = NoConn
  NoPeer = NoPeer
  Clients = {c1}
  Strangers = {s1, s2}
  MaxClients = 1
  MaxSaid = 4
  MaxTroubles = 2
  InboundCapacity = 2
  OutboundCapacity = 1
  AttemptCap = 1
  MaxRequests = 2
SPECIFICATION FairSpec
INVARIANTS HandledOnceInOrder SlotsAreExact
PROPERTIES NothingMissingInside ConnectionIsRestored SlotsComeBack
CHECK_DEADLOCK FALSE
