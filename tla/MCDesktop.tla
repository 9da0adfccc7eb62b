----------------------------- MODULE MCDesktop -----------------------------
(* Desktop on small instances.                                             *)
EXTENDS Desktop

MCLevelOf(daemon, id) == (id % 2) + 1

MCFleets == {<<0>>}

MCUnitStates ==
  LET Unit(active, sub) == [load |-> "loaded", active |-> active, sub |-> sub,
                            enabled |-> TRUE, oneshot |-> FALSE]
  IN  {Unit("failed", "failed"), Unit("inactive", "dead"), Unit("active", "running")}

\* Two far ends; on the way to them a silent router, and two whose names tell where they are.
MCCountries == (1 :> "DE") @@ (2 :> "DE") @@ (8 :> "DE") @@ (9 :> "DE")
MCCities == [a \in {1, 2, 8, 9} |-> IF a = 2 THEN [country |-> "DE", city |-> "Ulm"] ELSE Unknown]
MCHints == [a \in {1, 2, 8, 9} |-> CASE a = 8 -> [country |-> "DE", city |-> "Bonn"]
                                     [] a = 9 -> [country |-> "DE", city |-> "Frankfurt"]
                                     [] OTHER -> Unknown]
MCSockets ==
  {[socket |-> "s", far |-> 1, state |-> "established", holder |-> Nobody],
   [socket |-> "s", far |-> 1, state |-> "established", holder |-> "ssh"],
   [socket |-> "t", far |-> 2, state |-> "established", holder |-> Nobody],
   [socket |-> "t", far |-> 2, state |-> "closing", holder |-> Nobody],
   [socket |-> "t", far |-> 100, state |-> "established", holder |-> Nobody]}
MCTraces == [a \in {1, 2} |-> {<<>>, <<0, 8, 8, 9, a>>}]

\* A base with two nodes for one note and an edge to nowhere, a smaller one; an overlay with
\* a node of that note, a poorly connected one before a well connected one, and an edge in
\* both directions.
Node(id, file, label, community) == [id |-> id, file |-> file, label |-> label, community |-> community]
Edge(from, to) == [source |-> from, target |-> to]
MCBaseGraphs ==
  {[nodes |-> <<Node("a", "a.md", "idea", 0), Node("b", "a.md", "a", 1)>>,
    edges |-> <<Edge("a", "b"), Edge("a", "gone")>>],
   [nodes |-> <<Node("x", "", "x", 3)>>, edges |-> <<>>]}
MCOverlays ==
  {[nodes |-> <<Node("p", "a.md", "A", 0), Node("q", "q.md", "Q", 0),
                Node("r", "r.md", "R", 1), Node("x", "x.md", "x", 1)>>,
    edges |-> <<Edge("p", "r"), Edge("r", "p"), Edge("r", "x"), Edge("q", "p"), Edge("x", "p")>>]}
MCMatching == {<<"a.md", "a.md">>, <<"q.md", "q.md">>}
MCTitles == [p \in {"a.md", "q.md", "r.md", "x.md"} |-> {"a"}]
=============================================================================
