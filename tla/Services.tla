------------------------------ MODULE Services ------------------------------
(***************************************************************************)
(* The services card of the GUI (gui/src/services.rs): a thread lists the  *)
(* units of the user, asks for the properties of those it listed, looks    *)
(* for the programs that start with the session, and replaces the snapshot *)
(* the card is drawn from.  The system may change between the two calls of *)
(* systemctl.                                                              *)
(***************************************************************************)
EXTENDS Integers, SequencesExt, Screen

CONSTANTS
  Units,        \* units, numbered in the order of their names
  Autostarts,   \* programs with a .desktop file, numbered after the units
  UnitStates,   \* what systemctl may show of a unit: [load, active, sub, enabled, oneshot]
  HiddenUnits,  \* those with a prefix of hide_prefixes
  MaxChanges    \* a bound of the model

ASSUME ServicesAssumption == Units \cup Autostarts \subseteq Nat /\ HiddenUnits \subseteq Units

VARIABLES
  unitState, runningPrograms, systemctl,  \* the system
  listed,        \* the units list-units gave, or none asked
  services,      \* Snapshot: [entries, error]
  showAll,       \* services_show_all
  shownServices, changes

system == <<unitState, runningPrograms, systemctl, changes>>
serviceCard == <<system, listed, services, showAll, shownServices>>

Gone == [load |-> "not-found", active |-> "inactive", sub |-> "dead", enabled |-> FALSE, oneshot |-> FALSE]
NotAsked == [asked |-> FALSE, units |-> {}, error |-> FALSE]
NoServices == [entries |-> <<>>, error |-> FALSE]

ServicesInit ==
  /\ unitState \in [Units -> UnitStates \cup {Gone}] /\ runningPrograms = {} /\ systemctl = TRUE
  /\ listed = NotAsked /\ services = NoServices /\ showAll = FALSE
  /\ shownServices = <<>> /\ changes = 0

Changed == /\ changes < MaxChanges /\ changes' = changes + 1
           /\ UNCHANGED <<listed, services, showAll, shownServices, repaint>>

UnitChanges(u) ==
  /\ Changed
  /\ \E s \in UnitStates \cup {Gone} : s # unitState[u] /\ unitState' = [unitState EXCEPT ![u] = s]
  /\ UNCHANGED <<runningPrograms, systemctl>>
ProgramChanges(p) ==
  /\ Changed /\ runningPrograms' = (runningPrograms \cup {p}) \ (runningPrograms \cap {p})
  /\ UNCHANGED <<unitState, systemctl>>
SystemctlChanges == Changed /\ systemctl' = ~systemctl /\ UNCHANGED <<unitState, runningPrograms>>

-----------------------------------------------------------------------------
\* collect

Installed(s) == s.load \notin {"not-found", "masked", "error"}

\* parse_show: only what is enabled for good and not running is a finding besides failures.
UnitStatus(s) ==
  CASE s.active = "failed" -> "failed"
    [] s.active = "active" /\ s.sub = "exited" -> "idle"
    [] s.active \in {"active", "activating", "reloading"} -> "running"
    [] s.oneshot \/ ~s.enabled -> "idle"
    [] OTHER -> "not running"

AutostartEntry(p) == [name |-> p, status |-> IF p \in runningPrograms THEN "running" ELSE "idle"]

Rank(status) == CASE status = "failed" -> 0 [] status = "not running" -> 1
                  [] status = "running" -> 2 [] status = "idle" -> 3

\* Problems first, then by name.
Sorted(entries) ==
  LET Before(d, e) == Rank(d.status) < Rank(e.status) \/ (Rank(d.status) = Rank(e.status) /\ d.name < e.name)
  IN  SetToSortSeq(entries, Before)

Entries(units) ==
  Sorted({[name |-> u, status |-> UnitStatus(unitState[u])] : u \in {v \in units : Installed(unitState[v])}}
         \cup {AutostartEntry(p) : p \in Autostarts})

ListUnits ==
  /\ ~listed.asked
  /\ listed' = [asked |-> TRUE, error |-> ~systemctl,
                units |-> IF systemctl THEN {u \in Units : unitState[u] # Gone} ELSE {}]
  /\ UNCHANGED <<system, services, showAll, shownServices, repaint>>

\* Without systemctl the card has the programs and the error.
ShowUnits ==
  /\ listed.asked /\ listed' = NotAsked
  /\ LET failed == listed.error \/ ~systemctl
     IN  services' = [entries |-> Entries(IF failed THEN {} ELSE listed.units), error |-> failed]
  /\ RequestRepaint
  /\ UNCHANGED <<system, showAll, shownServices>>

-----------------------------------------------------------------------------
\* The card.

Visible(all) == SelectSeq(services.entries, LAMBDA e : all \/ e.name \notin HiddenUnits)

ShowServices == Drawn /\ shownServices' = Visible(showAll) /\ UNCHANGED <<system, listed, services, showAll>>
ToggleShowAll ==
  /\ Clicked /\ showAll' = ~showAll /\ shownServices' = Visible(showAll')
  /\ UNCHANGED <<system, listed, services>>

ServicesNext ==
  \/ (\E u \in Units : UnitChanges(u)) \/ (\E p \in Autostarts : ProgramChanges(p)) \/ SystemctlChanges
  \/ ListUnits \/ ShowUnits \/ ShowServices \/ ToggleShowAll

\* Polls and frames go on.
ServicesFairness ==
  /\ WF_<<serviceCard, repaint>>(focus = "services" /\ (ListUnits \/ ShowUnits))
  /\ WF_<<serviceCard, repaint>>(focus = "services" /\ ShowServices)

-----------------------------------------------------------------------------
(* Properties                                                              *)

\* When the system rests and systemctl works, the card shows every failed unit that is not
\* hidden, before everything that has not failed, and nothing else as failed (collect, visible).
FailuresAreShown ==
  LET failed == {u \in Units \ HiddenUnits : Installed(unitState[u]) /\ unitState[u].active = "failed"}
      shown == {i \in DOMAIN shownServices : shownServices[i].status = "failed"}
  IN  <>[](systemctl /\ ~showAll) =>
        <>[](shown = 1..Cardinality(failed) /\ {shownServices[i].name : i \in shown} = failed)
=============================================================================
