CONSTANTS
  Parts = {"dashboard", "terminal", "fleet", "services", "map", "graph"}
  AnomalyCap = 2  TableCap = 3  LogCap = 1  OutboundRoom = 1  Levels = {1, 2}  LevelOf <- MCLevelOf
  Kinds = {"restart"}  HandsOnHello = TRUE
  MaxRaised = 2  MaxDaemons = 2  MaxClicks = 3  MaxTroubles = 1
  Hosts = {1}  Fleets <- MCFleets  BasePort = 17870  RecentCap = 1  BackoffCap = 1
  MaxHostRaised = 1  MaxBreaks = 2
  Units = {1, 2}  Autostarts = {3}  UnitStates <- MCUnitStates  HiddenUnits = {2}  MaxChanges = 2
  Addresses = {1, 2}  Sockets <- MCSockets  Countries <- MCCountries  Cities <- MCCities  Hints <- MCHints
  Centred = {"DE"}  Traces <- MCTraces  Hold = 2  MaxCachedRoutes = 2
  BaseGraphs <- MCBaseGraphs  Overlays <- MCOverlays  Matching <- MCMatching  Titles <- MCTitles
  MaxAddedNodes = 2  MaxWrites = 3
SPECIFICATION DesktopSpec
INVARIANTS ContextFitsSelection RoutesAreShown MergeIsSound SelectionStays
PROPERTIES ReachableIsShown MapFollows ViewsFollow
CHECK_DEADLOCK FALSE
