\* Two days of one tick; the first day allows one call that costs something, or more that fail.
CONSTANTS
  Names <- MCNames
  Roots <- MCRoots
  Extensions <- MCExtensions
  Bodies <- MCBodies
  Normal <- MCNormal
  MinTermLen = 2
  MaxLinks = 2
  MaxTerms = 2
  MaxTermDocs = 2
  MinScore = 2
  MaxInferred = 1
  MaxEdges = 2
  MaxRuns = 2
  MaxUsd = 2
  MinInterval = 0
  Backoff = 1
  MinStable = 0
  MaxFilesPerRun = 1
  MaxKnown = 2
  MaxEdgesPerRun = 2
  MaxEdgesPerFile = 1
  MaxFiles = 2
  MaxFileBytes = 5
  DayLength = 1
  Modes <- MCModes
  Disks <- MCDisks
  Editable = {1}
  Children <- MCChildren
  MaxTime = 1
  MaxEdits = 1
  MaxTrouble = 1
  TicksAt = {"call", "rest"}
  EditsAt = {"read", "rest"}
SPECIFICATION FairSpec
INVARIANTS BudgetHeld MarkedWasSent OutputMatches StrongestFirst
PROPERTIES Converges
CHECK_DEADLOCK FALSE
