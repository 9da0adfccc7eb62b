---------------------------- MODULE Surroundings ----------------------------
(***************************************************************************)
(* What surrounds the path of a line through the daemon: the effects of    *)
(* actions, the state sessions and pipeline share, the tasks that watch    *)
(* machine and network, and the text of the line itself.                   *)
(*                                                                         *)
(* These have no state in common, so a behaviour has one of them at work   *)
(* and the others as they are at the start: all behaviours of each are     *)
(* there, without their product.                                           *)
(***************************************************************************)
EXTENDS Effects, SharedState, Watchers, Lines

CONSTANT Parts   \* of signals, blocking, auditing, mutes, context, lan, monitor, export, lines
VARIABLE focus   \* which is at work

surroundings == <<focus, effectVars, sharedState, watchers, journey>>

SurroundingsInit == focus \in Parts /\ EffectsInit /\ SharedStateInit /\ WatchersInit /\ LinesInit

EffectsNext ==
  \/ LifeNext
  \/ focus = "signals" /\ SignalsNext
  \/ focus = "blocking" /\ (BlockingNext \/ Tick)
  \/ focus = "auditing" /\ AuditingNext

WatchersNext ==
  \/ Hour
  \/ focus = "lan" /\ LanNext
  \/ focus = "monitor" /\ MonitorNext
  \/ focus = "export" /\ ExportNext

SurroundingsNext ==
  \/ focus \in {"signals", "blocking", "auditing"} /\ EffectsNext
       /\ UNCHANGED <<focus, sharedState, watchers, journey>>
  \/ focus = "mutes" /\ MutesNext /\ UNCHANGED <<focus, effectVars, watchers, journey>>
  \/ focus = "context" /\ ContextNext /\ UNCHANGED <<focus, effectVars, watchers, journey>>
  \/ focus \in {"lan", "monitor", "export"} /\ WatchersNext
       /\ UNCHANGED <<focus, effectVars, sharedState, journey>>
  \/ focus = "lines" /\ LinesNext /\ UNCHANGED <<focus, effectVars, sharedState, watchers>>

SurroundingsSpec == SurroundingsInit /\ [][SurroundingsNext]_surroundings

-----------------------------------------------------------------------------
(* Properties                                                              *)

\* What the daemon was told, did and saw it keeps as long as it is due: a mute until its time,
\* an attempt in the audit log, a device of the LAN for its retention.
KeptWhileDue == MutesAreKept /\ AttemptsAreKept /\ DevicesAreKept

\* Whoever reads what it hands out finds it whole: the surroundings of an anomaly, its message
\* and what it is the message of, and the file for Prometheus.
ReadersSeeWhole == ContextFits /\ SampleIsWhole /\ MasksKeepKindsApart /\ ExportIsWhole
=============================================================================
