\* Two handle slots, a queue of two, four elements: overflow, a clone that
\* outlives the first handle, and a close() with a send behind it all happen.
CONSTANTS
  Senders = {s1, s2}
  First = s1
  Capacity = 2
  MaxSends = 4
SPECIFICATION FairSpec
INVARIANT NoLostWakeup
PROPERTY ImplementsFifo
CHECK_DEADLOCK FALSE
