-------------------------------- MODULE Fleet --------------------------------
(***************************************************************************)
(* The fleet tab of the GUI (gui/src/fleet): for every host a supervisor   *)
(* that keeps an ssh with a forwarded port running (tunnel.rs), a client   *)
(* that connects to that port, and a task that makes the card of the host  *)
(* of both (mod.rs).                                                       *)
(*                                                                         *)
(* A port belongs to the first ssh that binds it; two hosts may be         *)
(* configured with one port.  Of the client library only the states it     *)
(* shows and the order of its messages are here (module Client has it).    *)
(***************************************************************************)
EXTENDS Integers, SequencesExt, Screen

CONSTANTS
  Hosts,           \* the hosts of the configuration, by index: 1..n
  Fleets,          \* what their local_port may be, 0 for none
  BasePort,        \* FLEET_BASE_LOCAL_PORT
  RecentCap,       \* RECENT_ANOMALIES_CAP
  BackoffCap,      \* the attempt from which on the wait is the longest
  MaxHostRaised, MaxBreaks  \* bounds of the model

ASSUME FleetAssumption ==
  /\ Hosts = 1..Cardinality(Hosts)
  /\ RecentCap \in Nat \ {0} /\ BackoffCap \in Nat
  /\ Fleets \subseteq [Hosts -> Nat]

VARIABLES
  given,     \* local_port of each host
  remote,    \* the host: away, there but without a daemon, serving
  hostRaised,\* the anomalies of its daemon
  child,     \* its ssh: none, new, bound
  stable,    \* the ssh has run for STABLE_TUNNEL
  tunnel,    \* TunnelState
  attempt,
  conn,      \* ConnectionState of the client, and the host at the other end: 0 when there is
             \* none, or none any more
  connNews,  \* a state the bridge has not seen
  hostInbox, \* messages it has not taken
  card,      \* HostSummary
  shownCards, breaks

network == <<given, remote, hostRaised, breaks>>
tunnels == <<child, stable, tunnel, attempt>>
clients == <<conn, connNews, hostInbox>>
fleet == <<network, tunnels, clients, card, shownCards>>

Disconnected == [state |-> "disconnected", via |-> 0]
PendingCard == [state |-> "tunnel connecting", counts |-> 0, recent |-> <<>>]

FleetInit ==
  /\ given \in Fleets
  /\ remote \in [Hosts -> {"away", "serving"}] /\ hostRaised = [h \in Hosts |-> 0]
  /\ child = [h \in Hosts |-> "none"] /\ stable = [h \in Hosts |-> FALSE]
  /\ tunnel = [h \in Hosts |-> "starting"] /\ attempt = [h \in Hosts |-> 0]
  /\ conn = [h \in Hosts |-> [state |-> "connecting", via |-> 0]]
  /\ connNews = [h \in Hosts |-> TRUE] /\ hostInbox = [h \in Hosts |-> <<>>]
  /\ card = [h \in Hosts |-> PendingCard] /\ shownCards = card /\ breaks = 0

ResolveLocalPort(h) == IF given[h] # 0 THEN given[h] ELSE BasePort + h - 1

Forwarding(port) == {h \in Hosts : child[h] = "bound" /\ ResolveLocalPort(h) = port}

\* What ran through the ssh of h is cut off.
CutOff(h) == conn' = [c \in Hosts |-> IF conn[c].via = h THEN [conn[c] EXCEPT !.via = 0] ELSE conn[c]]

-----------------------------------------------------------------------------
\* The hosts.

HostChange(h, to) ==
  /\ breaks < MaxBreaks /\ to # remote[h] /\ breaks' = breaks + 1
  /\ remote' = [remote EXCEPT ![h] = to]
  /\ hostRaised' = [hostRaised EXCEPT ![h] = IF to = "there" THEN 0 ELSE @]
  /\ CutOff(h)
  /\ UNCHANGED <<given, tunnels, connNews, hostInbox, card, shownCards, repaint>>

HostRaise(h) ==
  /\ remote[h] = "serving" /\ hostRaised[h] < MaxHostRaised
  /\ hostRaised' = [hostRaised EXCEPT ![h] = @ + 1]
  /\ hostInbox' = [c \in Hosts |-> IF conn[c].via = h THEN Append(hostInbox[c], <<hostRaised[h] + 1>>)
                                  ELSE hostInbox[c]]
  /\ UNCHANGED <<given, remote, breaks, tunnels, conn, connNews, card, shownCards, repaint>>

-----------------------------------------------------------------------------
\* supervise_tunnel.

Fails(h) ==
  /\ tunnel' = [tunnel EXCEPT ![h] = "failed"]
  /\ attempt' = [attempt EXCEPT ![h] = LET a == IF stable[h] THEN 0 ELSE @
                                      IN  IF a < BackoffCap THEN a + 1 ELSE a]
  /\ stable' = [stable EXCEPT ![h] = FALSE]
  /\ RequestRepaint

SpawnSsh(h) ==
  /\ tunnel[h] = "starting"
  /\ \/ tunnel' = [tunnel EXCEPT ![h] = "up"] /\ child' = [child EXCEPT ![h] = "new"]
        /\ RequestRepaint /\ UNCHANGED <<attempt, stable, breaks>>
     \/ breaks < MaxBreaks /\ breaks' = breaks + 1 /\ Fails(h) /\ UNCHANGED child
  /\ UNCHANGED <<given, remote, hostRaised, clients, card, shownCards>>

\* ssh itself: it binds the port once it is connected, runs, and ends.
Bind(h) ==
  /\ child[h] = "new" /\ remote[h] # "away" /\ Forwarding(ResolveLocalPort(h)) = {}
  /\ child' = [child EXCEPT ![h] = "bound"]
  /\ UNCHANGED <<network, stable, tunnel, attempt, clients, card, shownCards, repaint>>
RunOn(h) ==
  /\ child[h] = "bound" /\ ~stable[h]
  /\ stable' = [stable EXCEPT ![h] = TRUE]
  /\ UNCHANGED <<network, child, tunnel, attempt, clients, card, shownCards, repaint>>
SshEnds(h) ==
  /\ child[h] # "none"
  /\ \/ remote[h] = "away" /\ UNCHANGED breaks
     \/ child[h] = "new" /\ Forwarding(ResolveLocalPort(h)) # {} /\ UNCHANGED breaks
     \/ breaks < MaxBreaks /\ breaks' = breaks + 1
  /\ child' = [child EXCEPT ![h] = "none"] /\ CutOff(h)
  /\ UNCHANGED <<given, remote, hostRaised, stable, tunnel, attempt, connNews, hostInbox,
                 card, shownCards, repaint>>

\* The end of ssh is seen, with the last of what it had to say.
TunnelEnded(h) ==
  /\ tunnel[h] = "up" /\ child[h] = "none" /\ Fails(h)
  /\ UNCHANGED <<network, child, clients, card, shownCards>>

\* Mutant: after the longest wait the supervisor gives up.
TryTunnelAgainTillCap(h) ==
  /\ tunnel[h] = "failed" /\ attempt[h] < BackoffCap
  /\ tunnel' = [tunnel EXCEPT ![h] = "starting"] /\ RequestRepaint
  /\ UNCHANGED <<network, child, stable, attempt, clients, card, shownCards>>

\* The wait of backoff_delay is over.
TryTunnelAgain(h) ==
  /\ tunnel[h] = "failed"
  /\ tunnel' = [tunnel EXCEPT ![h] = "starting"] /\ RequestRepaint
  /\ UNCHANGED <<network, child, stable, attempt, clients, card, shownCards>>

-----------------------------------------------------------------------------
\* The client library.

Through(h) == {g \in Forwarding(ResolveLocalPort(h)) : remote[g] = "serving"}

NowIs(h, state) == conn' = [conn EXCEPT ![h] = state] /\ connNews' = [connNews EXCEPT ![h] = TRUE]

ClientDials(h) ==
  /\ conn[h].state = "connecting"
  /\ IF Through(h) = {} THEN NowIs(h, Disconnected) /\ UNCHANGED hostInbox
     ELSE \E g \in Through(h) :
            /\ NowIs(h, [state |-> "connected", via |-> g])
            /\ hostInbox' = [hostInbox EXCEPT ![h] = Append(@, [i \in 1..hostRaised[g] |-> i])]
  /\ UNCHANGED <<network, tunnels, card, shownCards, repaint>>
ClientLoses(h) ==
  /\ conn[h].state = "connected" /\ conn[h].via = 0
  /\ NowIs(h, Disconnected)
  /\ UNCHANGED <<network, tunnels, hostInbox, card, shownCards, repaint>>
ClientRetries(h) ==
  /\ conn[h].state = "disconnected"
  /\ NowIs(h, [state |-> "connecting", via |-> 0])
  /\ UNCHANGED <<network, tunnels, hostInbox, card, shownCards, repaint>>

-----------------------------------------------------------------------------
\* The bridge of a host, and the tab.

DeriveState(t, c) == IF t = "failed" THEN "tunnel failed" ELSE c.state

BridgeHostState(h) ==
  /\ connNews[h] /\ connNews' = [connNews EXCEPT ![h] = FALSE]
  /\ card' = [card EXCEPT ![h].state = DeriveState(tunnel[h], conn[h])]
  /\ RequestRepaint
  /\ UNCHANGED <<network, tunnels, conn, hostInbox, shownCards>>

\* An anomaly counts whenever it is told; of the latest the oldest goes.
PushHostAnomaly(summary, a) ==
  [summary EXCEPT !.counts = @ + 1,
                  !.recent = Append(IF Len(@) >= RecentCap THEN Tail(@) ELSE @, a)]

BridgeHostMessage(h) ==
  /\ hostInbox[h] # <<>> /\ hostInbox' = [hostInbox EXCEPT ![h] = Tail(@)]
  /\ card' = [card EXCEPT ![h] = FoldLeft(PushHostAnomaly, @, Head(hostInbox[h]))]
  /\ RequestRepaint
  /\ UNCHANGED <<network, tunnels, conn, connNews, shownCards>>

ShowFleet ==
  /\ Drawn /\ shownCards' = card
  /\ UNCHANGED <<network, tunnels, clients, card>>

Supervise(h) == SpawnSsh(h) \/ TunnelEnded(h) \/ TryTunnelAgain(h)
Ssh(h) == Bind(h) \/ SshEnds(h)
ConnectHost(h) == ClientDials(h) \/ ClientLoses(h) \/ ClientRetries(h)
Bridge(h) == BridgeHostState(h) \/ BridgeHostMessage(h)

FleetNext ==
  \/ ShowFleet
  \/ \E h \in Hosts :
       \/ (\E to \in {"away", "there", "serving"} : HostChange(h, to)) \/ HostRaise(h)
       \/ Supervise(h) \/ Ssh(h) \/ RunOn(h) \/ ConnectHost(h) \/ Bridge(h)

\* Waits end, tasks that can take a step take it, ssh connects where it can and ends where
\* it cannot, a client notices that its connection is gone.
FleetFairness ==
  /\ WF_<<fleet, repaint>>(focus = "fleet" /\ ShowFleet)
  /\ \A h \in Hosts :
       /\ WF_<<fleet, repaint>>(focus = "fleet" /\ Supervise(h))
       /\ WF_<<fleet, repaint>>(focus = "fleet" /\ Ssh(h))
       /\ WF_<<fleet, repaint>>(focus = "fleet" /\ ConnectHost(h))
       /\ WF_<<fleet, repaint>>(focus = "fleet" /\ Bridge(h))

-----------------------------------------------------------------------------
(* Properties                                                              *)

\* A host that stays reachable and serving is shown as connected before long and stays so,
\* whatever happened to its tunnel and its daemon before: every wait of supervisor and client
\* ends, and no state of the connection is missed (supervise_tunnel, spawn_host_bridge).
ReachableIsShown ==
  \A h \in Hosts : <>[](remote[h] = "serving") => <>[](shownCards[h].state = "connected")
=============================================================================
