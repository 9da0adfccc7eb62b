------------------------------- MODULE Desktop -------------------------------
(***************************************************************************)
(* The GUI as a whole (gui/src/main.rs, app.rs): the dashboard, the fleet, *)
(* the services card, the network map and a graph tab, drawn by the one    *)
(* thread of egui, each fed by threads of its own.                         *)
(*                                                                         *)
(* The parts have nothing in common but the frame, so a behaviour has one  *)
(* part at work and the others as they are at the start: all behaviours of *)
(* each part are there, without their product.                             *)
(***************************************************************************)
EXTENDS Dashboard, Terminal, Fleet, Services, NetworkMap, KnowledgeGraph

CONSTANT Parts   \* the parts at work: of dashboard, terminal, fleet, services, map, graph

desktop == <<focus, dashboard, terminal, fleet, serviceCard, map, graphTab, repaint>>

\* A part that is not at work has nothing to work on.
Idle(part) ==
  CASE part = "fleet" -> remote = [h \in Hosts |-> "away"]
    [] part = "services" -> unitState = [u \in Units |-> Gone]
    [] part = "graph" -> baseFile = Missing /\ overlayFile = Missing /\ ~addsNodes
    [] OTHER -> TRUE

DesktopInit ==
  /\ focus \in Parts /\ repaint = TRUE
  /\ DashboardInit /\ TerminalInit /\ FleetInit /\ ServicesInit /\ MapInit /\ GraphTabInit
  /\ \A part \in {"fleet", "services", "graph"} \ {focus} : Idle(part)

OnlyDashboard == focus = "dashboard" /\ UNCHANGED <<focus, terminal, fleet, serviceCard, map, graphTab>>
OnlyTerminal == focus = "terminal" /\ UNCHANGED <<focus, fleet, serviceCard, map, graphTab>>
OnlyFleet == focus = "fleet" /\ UNCHANGED <<focus, dashboard, terminal, serviceCard, map, graphTab>>
OnlyServices == focus = "services" /\ UNCHANGED <<focus, dashboard, terminal, fleet, map, graphTab>>
OnlyMap == focus = "map" /\ UNCHANGED <<focus, dashboard, terminal, fleet, serviceCard, graphTab, repaint>>
OnlyGraph == focus = "graph" /\ UNCHANGED <<focus, dashboard, terminal, fleet, serviceCard, map, repaint>>

DesktopNext ==
  \/ OnlyDashboard /\ DashboardNext
  \/ OnlyTerminal /\ TerminalNext
  \/ OnlyFleet /\ FleetNext
  \/ OnlyServices /\ ServicesNext
  \/ OnlyMap /\ MapNext
  \/ OnlyGraph /\ GraphTabNext

DesktopSpec ==
  /\ DesktopInit /\ [][DesktopNext]_desktop
  /\ FleetFairness /\ ServicesFairness
  /\ MapFairness /\ GraphTabFairness

-----------------------------------------------------------------------------
(* Properties                                                              *)

\* A tab that is open follows its files, and the services card the failures of the system.
ViewsFollow ==
  /\ focus = "graph" => GraphFollows
  /\ focus = "services" => FailuresAreShown
=============================================================================
