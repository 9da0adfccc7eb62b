\* One client, a ring of two and a broadcast buffer of two under five
\* anomalies: the ring turns over, the receiver lags, and every anomaly can
\* fall before, into or after the window between list and receiver.
CONSTANTS
  Clients = {c1}
  RecentCapacity = 2
  FeedCapacity = 2
  MaxAnomalies = 5
SPECIFICATION FairSpec
INVARIANTS LiveAccounting LossIsConfined
PROPERTY CatchesUp
CHECK_DEADLOCK FALSE
