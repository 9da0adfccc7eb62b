\* A channel of one, three lines and three passes, so that lines are skipped,
\* dropped, cut and drained, in live mode and in replay, with and without a file.
CONSTANTS
  Capacity = 1
  Base = 1
  MaxBackoff = 3
  MaxLines = 3
  MaxPasses = 3
SPECIFICATION FairSpec
INVARIANTS EveryLineAccountedFor LeavesNothingBehind
PROPERTIES ShutdownCompletes
CHECK_DEADLOCK FALSE
