\* Buckets of two ticks, a history of two buckets, a window of three ticks and
\* three events, room for two templates and bins, for one histogram and profile when saved.
CONSTANTS
  Wild = "*"
  MaxTemplates = 2
  Threshold = 50
  WindowLength = 3
  MaxEntries = 3
  HistoryLength = 2
  MaxTracked = 2
  IdleBuckets = 3
  One = 1048576
  Negligible = 1
  MaxBins = 2
  MaxProfile = 2
  MaxBaselines = 1
  MinWeight = 1572864
  ProfileMinWeight = 3145728
  SlotLength = 4
  Slots = 2
  BucketLength = 2
  LearningTime = 1
  Cooldown = 2
  Enter <- MCEnter
  Exit <- MCExit
  Traffics <- MCTraffics
SPECIFICATION Spec
INVARIANTS IdsAreUnique WindowIsExact RatesAreExact HistogramsAreExact SeriousIsHeard SuppressedAreReported
CHECK_DEADLOCK FALSE
