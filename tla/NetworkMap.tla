----------------------------- MODULE NetworkMap -----------------------------
(***************************************************************************)
(* The world map of the GUI (gui/src/network_map): a thread that polls the *)
(* established connections and places each far end (spawn_watcher), a      *)
(* thread that measures the way to one far end after the other             *)
(* (spawn_route_watcher), and the points and routes they share under a     *)
(* mutex.  An action is what one of them does while it holds the mutex.    *)
(*                                                                         *)
(* A position is the city it belongs to, or none for the middle of a       *)
(* country.  Coordinates are left out, and so is the drawing: the map asks *)
(* for a frame all the time.                                               *)
(***************************************************************************)
EXTENDS Integers, SequencesExt, Maps, Screen

CONSTANTS
  Addresses,        \* public far ends, numbers
  Sockets,          \* rows the table of the kernel may have: [socket, far, state,
                    \* holder], the holder a program whose /proc/<pid>/fd can be read, or Nobody
  Countries, Cities,\* what the two databases know of an address: a country; [country, city]
                    \* or Unknown
  Hints,            \* what its name may tell: [country, city], or Unknown
  Centred,          \* the countries with a known middle
  Traces,           \* what mtr may report on the way to an address, 0 for silence
  Hold,             \* CONNECTION_HOLD, in polls
  MaxCachedRoutes

Unknown == <<>>
Nowhere == ""   \* no country, no city
Nobody == ""    \* no program, or one of another user

ASSUME NetworkMapAssumption ==
  Addresses \subseteq Nat /\ Hold \in Nat \ {0} /\ MaxCachedRoutes \in Nat

VARIABLES
  table,       \* /proc/net/tcp
  countryDb,   \* the instance of each thread: unread, ready, failed
  cityDb,      \* SharedCityDb: unread, absent, failed, ready
  points, unresolved, errors, routes,   \* Shared
  watcher,     \* where the polling thread is
  found,       \* the far ends that were new to it, with the number of their sockets and a program
  target       \* what the other thread measures, or Unknown

mapOfTable == <<countryDb, cityDb, points, unresolved, errors, routes, watcher, found, target>>
map == <<table, mapOfTable>>

MapInit ==
  /\ table = {}
  /\ countryDb = [thread \in {"watcher", "router"} |-> "unread"] /\ cityDb = "unread"
  /\ points = Unknown /\ unresolved = 0 /\ errors = {} /\ routes = Unknown
  /\ watcher = "load" /\ found = <<>> /\ target = Unknown

-----------------------------------------------------------------------------
\* Where an address is.

\* Each thread reads the country database, and the first to ask the city database for both.
LoadCountryDb(thread) ==
  \E state \in {"ready", "failed"} :
    countryDb' = [countryDb EXCEPT ![thread] = IF @ = "unread" THEN state ELSE @]

GetCityDb == IF cityDb = "unread" THEN cityDb' \in {"absent", "failed", "ready"} ELSE UNCHANGED cityDb

CountryOf(thread, a) == IF countryDb[thread] = "ready" THEN Countries[a] ELSE Nowhere
CityOf(db, a) == IF db = "ready" THEN Cities[a] ELSE Unknown

\* combine_location: the name, then the city database, then the middle of the country.
Locate(country, city, name) ==
  LET home == IF city # Unknown THEN city.country ELSE country IN
  CASE home = Nowhere -> Unknown
    [] name # Unknown -> [country |-> name.country, city |-> name.city, source |-> "name"]
    [] city # Unknown /\ city.city # Nowhere -> [country |-> home, city |-> city.city, source |-> "database"]
    [] home \in Centred -> [country |-> home, city |-> Nowhere, source |-> "country"]
    [] OTHER -> Unknown

\* The hops that tell more of a point: routers of its country with a telling name.
Refining(point) ==
  {i \in DOMAIN point.route :
     /\ point.route[i].ip # point.ip /\ point.route[i].country = point.country
     /\ point.route[i].name # Unknown}
RefinedCity(point) == point.route[Max(Refining(point))].name.city

\* refine_from_route: a point of which only the country is known is put where the last router
\* of its country with a telling name is.
Refine(point) ==
  IF point.source # "country" \/ Refining(point) = {} THEN point
  ELSE [point EXCEPT !.city = RefinedCity(point), !.source = "route"]

WithRoute(point, route) == Refine([point EXCEPT !.route = route])

\* resolve_route_hops: routers of the own network and silent ones keep their place in the row.
RouteHop(a, db, heard) ==
  LET name  == IF a \in heard THEN Hints[a] ELSE Unknown
      place == IF a \notin DOMAIN Countries THEN Unknown
               ELSE Locate(CountryOf("router", a), CityOf(db, a), name)
  IN  [ip |-> a, country |-> IF place = Unknown THEN Nowhere ELSE place.country,
       name |-> IF place = Unknown THEN Unknown ELSE name]

Telling(as) == {a \in as \cap DOMAIN Hints : Hints[a] # Unknown}

-----------------------------------------------------------------------------
\* The polling thread.

\* A connection stands, a program opens it, it is about to go, is gone.
Connect(row) ==
  /\ row.state = "established" /\ \A other \in table : other.socket # row.socket
  /\ table' = table \cup {row} /\ UNCHANGED mapOfTable
Open(row, taken) ==
  /\ row \in table /\ row.holder = Nobody
  /\ taken = [row EXCEPT !.holder = taken.holder] /\ taken # row
  /\ table' = (table \ {row}) \cup {taken} /\ UNCHANGED mapOfTable
Disconnect(row) ==
  /\ row \in table
  /\ table' \in {table \ {row}} \cup ({(table \ {row}) \cup {[row EXCEPT !.state = "closing"]}} \cap SUBSET Sockets)
  /\ table' # table /\ UNCHANGED mapOfTable

\* read_established_remote_ipv4: other states and private far ends are left out.
SocketsTo(a) == {row \in table : row.far = a /\ row.state = "established"}
Established == {a \in Addresses : SocketsTo(a) # {}}

\* resolve_program_names, from the table as it is a moment later: of the programs that hold
\* a connection to the far end the one that was looked at last.
Holders(a) == {row.holder : row \in SocketsTo(a)} \ {Nobody}
NamesOf(a) == IF Holders(a) = {} THEN {Nobody} ELSE Holders(a)
ProgramNames == {names \in [Established -> UNION {NamesOf(a) : a \in Established}] :
                   \A a \in Established : names[a] \in NamesOf(a)}

LoadMap ==
  /\ watcher = "load" /\ LoadCountryDb("watcher") /\ GetCityDb
  /\ errors' = (IF countryDb'["watcher"] = "failed" THEN {"country"} ELSE {})
               \cup (IF cityDb' = "failed" THEN {"city"} ELSE {})
  /\ watcher' = "scan"
  /\ UNCHANGED <<table, points, unresolved, routes, found, target>>

\* What is known is refreshed, with what has become known of it since.
\* Mutant: a program is named when the point is new, or never.
RefreshedNameless(a, names) ==
  LET point == [points[a] EXCEPT !.age = 0] IN
  CASE a \notin Established -> points[a]
    [] point.route = <<>> /\ a \in DOMAIN routes -> WithRoute(point, routes[a])
    [] OTHER -> point
Refreshed(a, names) ==
  LET point == [points[a] EXCEPT !.age = 0, !.program = IF @ = Nobody THEN names[a] ELSE @] IN
  CASE a \notin Established -> points[a]
    [] point.route = <<>> /\ a \in DOMAIN routes -> WithRoute(point, routes[a])
    [] OTHER -> point

\* One look under the lock; before it, what was not seen for long goes.
Scan ==
  LET kept == {a \in DOMAIN points : points[a].age < Hold}
  IN  /\ watcher = "scan" /\ watcher' = "resolve"
      /\ \E names \in ProgramNames :
           /\ points' = [a \in kept |-> Refreshed(a, names)]
           /\ found' = [a \in Established \ kept |->
                          [sockets |-> Cardinality(SocketsTo(a)), program |-> names[a]]]
      /\ UNCHANGED <<table, countryDb, cityDb, unresolved, errors, routes, target>>

\* What the lookups make of a new far end, with the names that were heard.
Placed(a, heard) ==
  Locate(CountryOf("watcher", a), CityOf(cityDb, a), IF a \in heard THEN Hints[a] ELSE Unknown)
NewPoint(a, heard) ==
  LET place == Placed(a, heard)
  IN  [ip |-> a, country |-> place.country, city |-> place.city, source |-> place.source,
       program |-> found[a].program, route |-> <<>>, age |-> 0]
SocketsOf(as) == MapThenSumSet(LAMBDA a : found[a].sockets, as)

\* Mutant: a point comes back without the route measured before.
PublishBare ==
  /\ watcher = "resolve" /\ watcher' = "sleep"
  /\ \E heard \in SUBSET Telling(DOMAIN found) :
       LET new == {a \in DOMAIN found : Placed(a, heard) # Unknown}
       IN  /\ points' = [a \in new \cup DOMAIN points |->
                           IF a \in new THEN NewPoint(a, heard) ELSE points[a]]
           /\ unresolved' = SocketsOf(DOMAIN found \ new)
  /\ UNCHANGED <<table, countryDb, cityDb, errors, routes, found, target>>

\* The new ones are looked up without the lock; then they are shown, with the route that was
\* measured for them before or meanwhile.  What is counted as nowhere is sockets.
Publish ==
  /\ watcher = "resolve" /\ watcher' = "sleep"
  /\ \E heard \in SUBSET Telling(DOMAIN found) :
       LET new == {a \in DOMAIN found : Placed(a, heard) # Unknown}
       IN  /\ points' = [a \in new \cup DOMAIN points |->
                           IF a \notin new THEN points[a]
                           ELSE IF a \in DOMAIN routes THEN WithRoute(NewPoint(a, heard), routes[a])
                           ELSE NewPoint(a, heard)]
           /\ unresolved' = SocketsOf(DOMAIN found \ new)
  /\ UNCHANGED <<table, countryDb, cityDb, errors, routes, found, target>>

\* A poll lasts as long as its sleep and its lookups: each new name may cost seconds.
Wake ==
  /\ watcher = "sleep" /\ watcher' = "scan"
  /\ \E took \in {1} \cup IF found = <<>> THEN {} ELSE {Hold} :
       points' = [a \in DOMAIN points |-> [points[a] EXCEPT !.age = IF @ + took > Hold THEN Hold ELSE @ + took]]
  /\ found' = <<>>
  /\ UNCHANGED <<table, countryDb, cityDb, unresolved, errors, routes, target>>

-----------------------------------------------------------------------------
\* The measuring thread.

Unmeasured == {a \in DOMAIN points : a \notin DOMAIN routes}

\* Mutant: the smallest address is looked for before the measured ones are left out.
PickSmallestPoint ==
  /\ target = Unknown /\ Cardinality(DOMAIN routes) < MaxCachedRoutes /\ DOMAIN points # {}
  /\ LET a == CHOOSE x \in DOMAIN points : \A y \in DOMAIN points : x <= y
     IN  a \notin DOMAIN routes /\ target' = <<a>>
  /\ LoadCountryDb("router")
  /\ UNCHANGED <<table, cityDb, points, unresolved, errors, routes, watcher, found>>

PickTarget ==
  /\ target = Unknown /\ Cardinality(DOMAIN routes) < MaxCachedRoutes /\ Unmeasured # {}
  /\ \E a \in Unmeasured : (\A b \in Unmeasured : a <= b) /\ target' = <<a>>
  /\ LoadCountryDb("router")
  /\ UNCHANGED <<table, cityDb, points, unresolved, errors, routes, watcher, found>>

\* parse_report: a router that answers for more than one hop is one, silent ones stay apart.
Report(trace) ==
  FoldLeft(LAMBDA hops, a : IF a # 0 /\ hops # <<>> /\ Last(hops) = a THEN hops ELSE Append(hops, a),
           <<>>, trace)
Reports == [a \in Addresses |-> {Report(trace) : trace \in Traces[a]}]

\* Also an empty route is kept: it was measured.
Measured ==
  /\ target # Unknown /\ target' = Unknown /\ GetCityDb /\ UNCHANGED countryDb
  /\ \E trace \in Reports[target[1]] :
     \E heard \in SUBSET Telling(Range(trace)) :
       LET a == target[1]
           route == [i \in DOMAIN trace |-> RouteHop(trace[i], cityDb', heard)]
       IN  /\ routes' = With(routes, a, route)
           /\ points' = IF a \in DOMAIN points THEN [points EXCEPT ![a] = WithRoute(@, route)] ELSE points
  /\ UNCHANGED <<table, unresolved, errors, watcher, found>>

MapNext ==
  \/ \E row \in Sockets : Connect(row) \/ Disconnect(row) \/ \E taken \in Sockets : Open(row, taken)
  \/ LoadMap \/ Scan \/ Publish \/ Wake
  \/ PickTarget \/ Measured

\* Lookups, measurements and sleeps end.  The polling thread can always go on, the measuring
\* one when it has a target or finds one.
AfterStage(stage) ==
  CASE stage = "scan" -> "resolve" [] stage = "resolve" -> "sleep" [] OTHER -> "scan"
MapFairness ==
  /\ WF_watcher(focus = "map" /\ watcher' = AfterStage(watcher))
  /\ WF_target(focus = "map" /\ target # Unknown /\ target' = Unknown)
  /\ WF_target(focus = "map" /\ PickTarget)

-----------------------------------------------------------------------------
(* Properties                                                              *)

\* Whenever the lock is free a point has the route that was measured for it, also one that
\* went and came back while it was being measured, and is where the last telling router of
\* its country is unless its own place is known better (spawn_watcher, spawn_route_watcher).
RoutesAreShown ==
  \A a \in DOMAIN points :
    /\ points[a].route = IF a \in DOMAIN routes THEN routes[a] ELSE <<>>
    /\ points[a].source = "country" => Refining(points[a]) = {}
    /\ points[a].source = "route" => points[a].city = RefinedCity(points[a])

\* A far end that stays on the map is measured unless the cache is full, and the program that
\* holds its connection is named in the end, also if it had not opened it at first; and one
\* whose connection is gone for good leaves the map for good.
MapFollows ==
  \A a \in Addresses :
    /\ <>[](a \in DOMAIN points) =>
         <>(/\ a \in DOMAIN routes \/ Cardinality(DOMAIN routes) = MaxCachedRoutes
            /\ Holders(a) = {} \/ (a \in DOMAIN points /\ points[a].program # Nobody))
    /\ <>[](a \notin Established) => <>[](a \notin DOMAIN points)

=============================================================================
