---------------------------- MODULE AnomalyFeed ----------------------------
(***************************************************************************)
(* How anomalies travel from the pipeline to the connected clients         *)
(* (daemon/src/state.rs, daemon/src/client_task.rs).                       *)
(*                                                                         *)
(* The pipeline is the only publisher.  It gives each anomaly the next id, *)
(* puts it into the `recent` ring under a mutex and then sends it on a     *)
(* tokio broadcast channel.  A client task answers the handshake with      *)
(* Hello, then with RecentAnomalies (the ring at that moment), and creates *)
(* its broadcast receiver only afterwards, at the start of run_session.    *)
(* A receiver that falls more than the broadcast capacity behind is told   *)
(* how many anomalies it missed (Error(Lagged)) and goes on with the       *)
(* oldest one still held.                                                  *)
(*                                                                         *)
(* Ids are given out by the one publisher in the order of publication, so  *)
(* the anomaly at position i of the broadcast has id i.                    *)
(***************************************************************************)
EXTENDS Integers, Sequences, FiniteSets

CONSTANTS
  Clients,        \* slots for client connections
  RecentCapacity, \* socket.recent_anomalies
  FeedCapacity,   \* ANOMALY_BROADCAST_CAPACITY
  MaxAnomalies    \* bound of the model: how many anomalies are ever raised

\* SharedState::new raises a recent_capacity of 0 to 1; broadcast::channel
\* panics for capacity 0.
ASSUME FeedAssumption ==
  /\ RecentCapacity \in Nat \ {0}
  /\ FeedCapacity \in Nat \ {0}
  /\ MaxAnomalies \in Nat

VARIABLES
  raised,     \* ids given out, which is how many entered the ring
  sent,       \* how many were sent on the broadcast channel
  recent,     \* the ring: ids, oldest first
  stage,      \* per client: how far its connection is
  wants,      \* per client: subscription.anomalies
  cursor,     \* per client: position of its broadcast receiver
  listed,     \* per client: ids it got in RecentAnomalies
  listedUpTo, \* history: raised when its RecentAnomalies was read
  joinedAt,   \* history: sent when its receiver was created
  got,        \* per client: ids it got as Anomaly messages
  withheld,   \* per client: ids received while wants was FALSE
  lagged,     \* per client: ids covered by its Lagged errors
  missed      \* per client: the sum of the counts in its Lagged errors

pubVars    == <<raised, sent, recent>>
clientVars == <<stage, wants, cursor, listed, listedUpTo, joinedAt, got,
                withheld, lagged, missed>>
vars == <<pubVars, clientVars>>

Ids == 1..MaxAnomalies
Stages == {"off", "welcomed", "listed", "live"}

Init ==
  /\ raised = 0 /\ sent = 0 /\ recent = <<>>
  /\ stage = [c \in Clients |-> "off"]
  /\ wants = [c \in Clients |-> FALSE]
  /\ cursor = [c \in Clients |-> 0]
  /\ listed = [c \in Clients |-> {}]
  /\ listedUpTo = [c \in Clients |-> 0]
  /\ joinedAt = [c \in Clients |-> 0]
  /\ got = [c \in Clients |-> {}]
  /\ withheld = [c \in Clients |-> {}]
  /\ lagged = [c \in Clients |-> {}]
  /\ missed = [c \in Clients |-> 0]

-----------------------------------------------------------------------------
(* The publisher                                                           *)

\* next_anomaly_id and the ring's critical section in publish_anomaly.
Raise ==
  /\ raised = sent /\ raised < MaxAnomalies
  /\ raised' = raised + 1
  /\ recent' = Append(IF Len(recent) >= RecentCapacity THEN Tail(recent) ELSE recent,
                      raised + 1)
  /\ UNCHANGED <<sent, clientVars>>

\* The broadcast send at the end of publish_anomaly.
Broadcast ==
  /\ sent < raised
  /\ sent' = sent + 1
  /\ UNCHANGED <<raised, recent, clientVars>>

-----------------------------------------------------------------------------
(* One client connection                                                   *)

\* The handshake succeeded and Hello went out.
Welcome(c, w) ==
  /\ stage[c] = "off"
  /\ stage' = [stage EXCEPT ![c] = "welcomed"]
  /\ wants' = [wants EXCEPT ![c] = w]
  /\ UNCHANGED <<pubVars, cursor, listed, listedUpTo, joinedAt, got, withheld,
                 lagged, missed>>

\* Mutant: the list only goes to clients that subscribed to anomalies.
SendRecentIfWanted(c) ==
  /\ stage[c] = "welcomed"
  /\ stage' = [stage EXCEPT ![c] = "listed"]
  /\ listed' = [listed EXCEPT ![c] = IF wants[c] THEN {recent[i] : i \in 1..Len(recent)} ELSE {}]
  /\ listedUpTo' = [listedUpTo EXCEPT ![c] = raised]
  /\ UNCHANGED <<pubVars, wants, cursor, joinedAt, got, withheld, lagged, missed>>

\* RecentAnomalies: sent whatever the subscription says, even when empty.
SendRecent(c) ==
  /\ stage[c] = "welcomed"
  /\ stage' = [stage EXCEPT ![c] = "listed"]
  /\ listed' = [listed EXCEPT ![c] = {recent[i] : i \in 1..Len(recent)}]
  /\ listedUpTo' = [listedUpTo EXCEPT ![c] = raised]
  /\ UNCHANGED <<pubVars, wants, cursor, joinedAt, got, withheld, lagged, missed>>

\* subscribe_anomalies, first thing in run_session: a new receiver starts
\* behind everything sent so far.
Subscribe(c) ==
  /\ stage[c] = "listed"
  /\ stage' = [stage EXCEPT ![c] = "live"]
  /\ cursor' = [cursor EXCEPT ![c] = sent]
  /\ joinedAt' = [joinedAt EXCEPT ![c] = sent]
  /\ UNCHANGED <<pubVars, wants, listed, listedUpTo, got, withheld, lagged, missed>>

\* The positions the broadcast channel no longer holds.
Overwritten == sent - FeedCapacity

\* Mutant: the receiver is only polled while the client subscribes.
ReceiveIfWanted(c) ==
  /\ stage[c] = "live" /\ cursor[c] < sent /\ cursor[c] >= Overwritten
  /\ wants[c]
  /\ cursor' = [cursor EXCEPT ![c] = @ + 1]
  /\ got' = [got EXCEPT ![c] = @ \cup {cursor[c] + 1}]
  /\ UNCHANGED <<pubVars, stage, wants, listed, listedUpTo, joinedAt, withheld, lagged, missed>>

\* recv yields the next anomaly; it is forwarded if the client subscribed.
Receive(c) ==
  /\ stage[c] = "live" /\ cursor[c] < sent /\ cursor[c] >= Overwritten
  /\ cursor' = [cursor EXCEPT ![c] = @ + 1]
  /\ IF wants[c]
     THEN got' = [got EXCEPT ![c] = @ \cup {cursor[c] + 1}] /\ UNCHANGED withheld
     ELSE withheld' = [withheld EXCEPT ![c] = @ \cup {cursor[c] + 1}] /\ UNCHANGED got
  /\ UNCHANGED <<pubVars, stage, wants, listed, listedUpTo, joinedAt, lagged, missed>>

LagTooFar(c) ==
  /\ stage[c] = "live" /\ cursor[c] < Overwritten
  /\ cursor' = [cursor EXCEPT ![c] = Overwritten + 1]
  /\ missed' = [missed EXCEPT ![c] = @ + (Overwritten - cursor[c])]
  /\ lagged' = [lagged EXCEPT ![c] = @ \cup (cursor[c] + 1)..Overwritten]
  /\ UNCHANGED <<pubVars, stage, wants, listed, listedUpTo, joinedAt, got, withheld>>

\* recv yields Lagged(missed) and moves on to the oldest anomaly still held.
Lag(c) ==
  /\ stage[c] = "live" /\ cursor[c] < Overwritten
  /\ cursor' = [cursor EXCEPT ![c] = Overwritten]
  /\ missed' = [missed EXCEPT ![c] = @ + (Overwritten - cursor[c])]
  /\ lagged' = [lagged EXCEPT ![c] = @ \cup (cursor[c] + 1)..Overwritten]
  /\ UNCHANGED <<pubVars, stage, wants, listed, listedUpTo, joinedAt, got, withheld>>

\* ClientMessage::Subscribe replaces the subscription.
Resubscribe(c) ==
  /\ stage[c] = "live"
  /\ wants' = [wants EXCEPT ![c] = ~@]
  /\ UNCHANGED <<pubVars, stage, cursor, listed, listedUpTo, joinedAt, got,
                 withheld, lagged, missed>>

\* EOF or a fatal error; a later connection in this slot starts afresh.
Disconnect(c) ==
  /\ stage[c] # "off"
  /\ stage' = [stage EXCEPT ![c] = "off"]
  /\ wants' = [wants EXCEPT ![c] = FALSE]
  /\ cursor' = [cursor EXCEPT ![c] = 0]
  /\ listed' = [listed EXCEPT ![c] = {}]
  /\ listedUpTo' = [listedUpTo EXCEPT ![c] = 0]
  /\ joinedAt' = [joinedAt EXCEPT ![c] = 0]
  /\ got' = [got EXCEPT ![c] = {}]
  /\ withheld' = [withheld EXCEPT ![c] = {}]
  /\ lagged' = [lagged EXCEPT ![c] = {}]
  /\ missed' = [missed EXCEPT ![c] = 0]
  /\ UNCHANGED pubVars

Next ==
  \/ Raise \/ Broadcast
  \/ \E c \in Clients :
       \/ \E w \in BOOLEAN : Welcome(c, w)
       \/ SendRecent(c) \/ Subscribe(c)
       \/ Receive(c) \/ Lag(c) \/ Resubscribe(c) \/ Disconnect(c)

\* The pipeline finishes a publication it began, and the session loop comes
\* round to its broadcast receiver (select! is fair, and the client is taken
\* to read what is sent to it).
Fairness ==
  /\ WF_vars(Broadcast)
  /\ \A c \in Clients : WF_vars(SendRecent(c)) /\ WF_vars(Subscribe(c))
                        /\ WF_vars(Receive(c) \/ Lag(c))

Spec == Init /\ [][Next]_vars
FairSpec == Spec /\ Fairness

-----------------------------------------------------------------------------
(* Properties                                                              *)

\* Every variable stays in its domain.
TypeOK ==
  /\ raised \in Nat /\ sent \in Nat /\ recent \in Seq(Nat)
  /\ stage \in [Clients -> Stages] /\ wants \in [Clients -> BOOLEAN]
  /\ cursor \in [Clients -> Nat] /\ missed \in [Clients -> Nat]
  /\ listedUpTo \in [Clients -> Nat] /\ joinedAt \in [Clients -> Nat]
  /\ listed \in [Clients -> SUBSET Nat] /\ got \in [Clients -> SUBSET Nat]
  /\ withheld \in [Clients -> SUBSET Nat] /\ lagged \in [Clients -> SUBSET Nat]

\* RecentAnomalies offers the newest anomalies of the session in order, as
\* many of them as the ring holds.
RecentIsNewest ==
  /\ Len(recent) = IF raised < RecentCapacity THEN raised ELSE RecentCapacity
  /\ \A i \in 1..Len(recent) : recent[i] = raised - Len(recent) + i

\* From the moment a client's receiver exists, every anomaly it has passed was
\* forwarded, withheld because the client did not subscribe, or counted in a
\* Lagged error, and each in exactly one of these ways.
LiveAccounting ==
  \A c \in Clients : stage[c] = "live" =>
    /\ got[c] \cup withheld[c] \cup lagged[c] = (joinedAt[c] + 1)..cursor[c]
    /\ got[c] \cap lagged[c] = {} /\ withheld[c] \cap lagged[c] = {}
    /\ got[c] \cap withheld[c] = {}
    /\ missed[c] = Cardinality(lagged[c])

\* What a session never tells its client about is bounded: anomalies that
\* had left the ring before the client came, and those sent between the read
\* of the ring and the creation of the receiver.
LossIsConfined ==
  \A c \in Clients : stage[c] = "live" =>
    \A i \in 1..cursor[c] :
      \/ i \in listed[c] \cup got[c] \cup withheld[c] \cup lagged[c]
      \/ i <= listedUpTo[c] - RecentCapacity
      \/ i > listedUpTo[c] /\ i <= joinedAt[c]

\* At most the one anomaly that is between ring and broadcast while the list
\* is read comes twice, once in the list and once as a push.
RepeatsOnlyInFlight ==
  \A c \in Clients : \A i \in listed[c] \cap got[c] : i = listedUpTo[c]

\* A live session catches up with every anomaly that was sent, unless it ends.
CatchesUp ==
  \A c \in Clients : \A n \in Ids :
    (stage[c] = "live" /\ sent >= n) ~> (stage[c] # "live" \/ cursor[c] >= n)

=============================================================================
