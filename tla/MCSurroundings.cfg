CONSTANTS
  Parts = {"signals", "blocking", "auditing", "mutes", "context", "lan", "monitor", "export", "lines"}
  PidBits = 3  OwnPid = 2  AskedPids = {0, 1, 2, 3, 5, 7}  AskedGraces = {0, 3}  MaxGrace = 2
  MinBlock = 1  MaxBlock = 2  AskedBlocks = {0, 3}  Families = {"ip", "ip6"}
  LogLimit = 2  MaxTerms = 2  MaxBlocks = 2  MaxEntries = 6  MaxTicks = 3  MaxSpawns = 2  MaxFaults = 1
  Templates = {1}  UnitNames = {"u", "v"}  AnyUnit = "any"  Scopes = {1, 2, 99}  Forever = 99
  MaxMutes = 2  Stamps = {1, 4}  RingSize = 3  AskedLines = {0, 2}  ContextMax = 1
  MaxTurns = 4  MaxNow = 2
  Macs = {1, 2}  Leases = {1, 2}  Retention = 1  MaxDevices = 1
  Watched = {"w"}  Unwatched = {"o"}
  MaxHours = 3  MaxScans = 3  MaxPolls = 3  MaxExports = 3  MaxBreakdowns = 2
  Messages <- MCMessages  StampTexts <- MCStampTexts  StampRange <- MCStampRange
  PidTexts <- MCPidTexts  PidRange <- MCPidRange  PriorityTexts <- MCPriorityTexts
  PriorityRange <- MCPriorityRange  LineUnits <- MCLineUnits
  Forms <- MCForms  QuietRules <- MCQuietRules  Compiling = {"dhcp"}
  AnomalyLevels = {"warn"}  SampleMax = 10  MarkerBytes = 3
SPECIFICATION SurroundingsSpec
INVARIANTS SignalsHitOne KeptWhileDue ReadersSeeWhole
CHECK_DEADLOCK FALSE
