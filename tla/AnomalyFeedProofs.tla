-------------------------- MODULE AnomalyFeedProofs --------------------------
(***************************************************************************)
(* What AnomalyFeed promises a session, for any number of clients, any     *)
(* capacity of the recent ring and of the broadcast, and any bound on the  *)
(* anomalies.                                                              *)
(*                                                                         *)
(* The properties follow from three facts that hold at every step: the     *)
(* publisher is never more than one anomaly ahead of its own broadcast; a  *)
(* list is an interval of ids that ends where the ring ended when it was   *)
(* read; and what the receiver has passed is an interval that starts where *)
(* the receiver was created.  The one anomaly in flight is all that the    *)
(* two intervals can share.                                                *)
(***************************************************************************)
EXTENDS AnomalyFeed, FiniteSetTheorems, TLAPS

\* publish_anomaly is called by one task: at most one anomaly is between the
\* ring and the broadcast.
OneInFlight == sent <= raised /\ raised <= sent + 1

\* Before its receiver exists a session was pushed nothing.
NothingBefore(c) ==
  stage[c] # "live" =>
    got[c] = {} /\ withheld[c] = {} /\ lagged[c] = {} /\ missed[c] = 0

\* The list is the newest RecentCapacity ids of the time it was read.
ListIsInterval(c) ==
  /\ listedUpTo[c] <= raised
  /\ listed[c] = {i \in 1..listedUpTo[c] : i > listedUpTo[c] - RecentCapacity}

\* The receiver was created behind all that was sent, one less than raised at
\* the most, and what it passed begins there.
ReceiverIsInterval(c) ==
  stage[c] = "live" =>
    /\ joinedAt[c] <= cursor[c] /\ cursor[c] <= sent
    /\ listedUpTo[c] <= joinedAt[c] + 1
    /\ got[c] \cup withheld[c] \cup lagged[c] = (joinedAt[c] + 1)..cursor[c]
    /\ got[c] \cap lagged[c] = {} /\ withheld[c] \cap lagged[c] = {}
    /\ got[c] \cap withheld[c] = {}
    /\ missed[c] = Cardinality(lagged[c])

IInv ==
  /\ TypeOK /\ OneInFlight /\ RecentIsNewest
  /\ \A c \in Clients : NothingBefore(c) /\ ListIsInterval(c) /\ ReceiverIsInterval(c)

-----------------------------------------------------------------------------
(* The inductive invariant                                                 *)

\* The count in a Lagged error is the number of ids it covers.
LEMMA LagCounts ==
  ASSUME NEW S, IsFiniteSet(S), NEW a \in Nat, NEW b \in Nat, a <= b,
         S \cap ((a + 1)..b) = {}
  PROVE  /\ IsFiniteSet(S \cup (a + 1)..b)
         /\ Cardinality(S \cup (a + 1)..b) = Cardinality(S) + (b - a)
<1> DEFINE T == (a + 1)..b
<1>1. IsFiniteSet(T) /\ Cardinality(T) = b - a
  <2>1. a + 1 \in Int /\ b \in Int
    OBVIOUS
  <2>2. IsFiniteSet(T) /\ Cardinality(T) = IF a + 1 > b THEN 0 ELSE b - (a + 1) + 1
    BY <2>1, FS_Interval
  <2> QED
    BY <2>2
<1>2. Cardinality(S \cap T) = 0
  BY FS_EmptySet
<1>3. Cardinality(S) \in Nat
  BY FS_CardinalityType
<1> HIDE DEF T
<1>4. IsFiniteSet(S \cup T)
      /\ Cardinality(S \cup T) = Cardinality(S) + Cardinality(T) - Cardinality(S \cap T)
  BY <1>1, FS_Union
<1>5. Cardinality(S \cup T) = Cardinality(S) + (b - a)
  BY <1>1, <1>2, <1>3, <1>4
<1> QED
  BY <1>4, <1>5 DEF T

LEMMA InitInv == Init => IInv
<1> SUFFICES ASSUME Init PROVE IInv
  OBVIOUS
<1> USE FeedAssumption DEF Init
<1>1. TypeOK
  BY DEF TypeOK, Stages
<1>2. OneInFlight /\ RecentIsNewest
  BY DEF OneInFlight, RecentIsNewest
<1>3. ASSUME NEW c \in Clients
      PROVE  NothingBefore(c) /\ ListIsInterval(c) /\ ReceiverIsInterval(c)
  BY DEF NothingBefore, ListIsInterval, ReceiverIsInterval
<1> QED
  BY <1>1, <1>2, <1>3 DEF IInv

\* The publisher: sessions keep what they have, and raised and sent only grow.
LEMMA PublisherInv == IInv /\ (Raise \/ Broadcast) => IInv'
<1> SUFFICES ASSUME IInv, Raise \/ Broadcast PROVE IInv'
  OBVIOUS
<1> USE FeedAssumption DEF IInv
<1>1. TypeOK'
  <2>1. CASE Raise
    <3>1. recent \in Seq(Nat) /\ raised + 1 \in Nat
      BY DEF TypeOK
    <3>2. (IF Len(recent) >= RecentCapacity THEN Tail(recent) ELSE recent) \in Seq(Nat)
      BY <3>1
    <3>3. recent' \in Seq(Nat) /\ raised' \in Nat
      BY <2>1, <3>1, <3>2 DEF Raise
    <3> QED
      BY <2>1, <3>3 DEF TypeOK, Raise, clientVars
  <2>2. CASE Broadcast
    BY <2>2 DEF TypeOK, Broadcast, clientVars
  <2> QED
    BY <2>1, <2>2
<1>2. OneInFlight'
  BY DEF TypeOK, OneInFlight, Raise, Broadcast
<1>3. RecentIsNewest'
  <2>1. CASE Raise
    <3>1. CASE Len(recent) >= RecentCapacity
      <4>1. recent' = Append(Tail(recent), raised + 1) /\ recent # <<>>
        BY <2>1, <3>1 DEF Raise, TypeOK
      <4>2. Len(recent) = RecentCapacity /\ Len(recent') = Len(recent)
        BY <3>1, <4>1 DEF TypeOK, RecentIsNewest
      <4>3. \A i \in 1..Len(recent') :
              recent'[i] = IF i < Len(recent) THEN recent[i + 1] ELSE raised + 1
        BY <4>1, <4>2 DEF TypeOK
      <4> QED
        <5>1. \A i \in 1..Len(recent) : recent[i] = raised - Len(recent) + i
          BY DEF RecentIsNewest
        <5>2. raised' = raised + 1 /\ raised \in Nat /\ Len(recent) \in Nat
          BY <2>1 DEF Raise, TypeOK
        <5>3. raised >= RecentCapacity
          BY <4>2, <5>2 DEF RecentIsNewest
        <5>4. \A i \in 1..Len(recent') : recent'[i] = raised' - Len(recent') + i
          <6> SUFFICES ASSUME NEW i \in 1..Len(recent)
                       PROVE  recent'[i] = raised + 1 - Len(recent) + i
            BY <4>2, <5>2
          <6>1. recent'[i] = IF i < Len(recent) THEN recent[i + 1] ELSE raised + 1
            BY <4>2, <4>3
          <6>2. CASE i < Len(recent)
            <7>1. i + 1 \in 1..Len(recent)
              BY <5>2, <6>2
            <7>2. recent[i + 1] = raised - Len(recent) + (i + 1)
              BY <5>1, <7>1
            <7> QED
              BY <5>2, <6>1, <6>2, <7>2
          <6>3. CASE i = Len(recent)
            BY <5>2, <6>1, <6>3
          <6> QED
            BY <5>2, <6>2, <6>3
        <5> QED
          BY <4>2, <5>2, <5>3, <5>4 DEF RecentIsNewest
    <3>2. CASE ~(Len(recent) >= RecentCapacity)
      <4>1. recent' = Append(recent, raised + 1) /\ raised' = raised + 1
        BY <2>1, <3>2 DEF Raise
      <4>2. raised \in Nat /\ recent \in Seq(Nat) /\ Len(recent) = raised
            /\ raised < RecentCapacity
        BY <3>2 DEF TypeOK, RecentIsNewest
      <4>3. Len(recent') = raised + 1
            /\ \A i \in 1..(raised + 1) :
                 recent'[i] = IF i <= raised THEN recent[i] ELSE raised + 1
        BY <4>1, <4>2
      <4>4. \A i \in 1..raised : recent[i] = i
        BY <4>2 DEF RecentIsNewest
      <4> QED
        BY <4>1, <4>2, <4>3, <4>4 DEF RecentIsNewest
    <3> QED
      BY <3>1, <3>2
  <2>2. CASE Broadcast
    BY <2>2 DEF Broadcast, RecentIsNewest
  <2> QED
    BY <2>1, <2>2
<1>4. ASSUME NEW c \in Clients
      PROVE  (NothingBefore(c) /\ ListIsInterval(c) /\ ReceiverIsInterval(c))'
  <2>1. UNCHANGED clientVars /\ raised' >= raised /\ sent' >= sent
        /\ raised' \in Nat /\ sent' \in Nat
    BY DEF Raise, Broadcast, TypeOK, clientVars
  <2>2. listedUpTo[c] \in Nat /\ cursor[c] \in Nat /\ raised \in Nat /\ sent \in Nat
    BY DEF TypeOK
  <2>3. NothingBefore(c)' /\ ListIsInterval(c)'
    BY <2>1, <2>2 DEF clientVars, NothingBefore, ListIsInterval
  <2>4. ReceiverIsInterval(c)'
    BY <2>1, <2>2 DEF clientVars, ReceiverIsInterval
  <2> QED
    BY <2>3, <2>4
<1> QED
  BY <1>1, <1>2, <1>3, <1>4

\* A step of one session.
SessionStep(c) ==
  \/ \E w \in BOOLEAN : Welcome(c, w)
  \/ SendRecent(c) \/ Subscribe(c)
  \/ Receive(c) \/ Lag(c) \/ Resubscribe(c) \/ Disconnect(c)

LEMMA SessionTypes == ASSUME IInv, NEW c \in Clients, SessionStep(c) PROVE TypeOK'
<1> USE FeedAssumption DEF IInv, TypeOK, Stages, pubVars
<1>1. ASSUME NEW w \in BOOLEAN, Welcome(c, w) PROVE TypeOK'
  BY <1>1 DEF Welcome
<1>2. CASE SendRecent(c)
  BY <1>2 DEF SendRecent
<1>3. CASE Subscribe(c)
  BY <1>3 DEF Subscribe
<1>4. CASE Receive(c)
  <2>1. cursor' \in [Clients -> Nat]
    BY <1>4 DEF Receive
  <2>2. /\ got[c] \cup {cursor[c] + 1} \in SUBSET Nat
        /\ withheld[c] \cup {cursor[c] + 1} \in SUBSET Nat
    <3>1. cursor[c] + 1 \in Nat /\ got[c] \subseteq Nat /\ withheld[c] \subseteq Nat
      OBVIOUS
    <3> QED
      BY <3>1
  <2>3. got' \in [Clients -> SUBSET Nat] /\ withheld' \in [Clients -> SUBSET Nat]
    <3>1. CASE wants[c]
      BY <1>4, <2>2, <3>1 DEF Receive
    <3>2. CASE ~wants[c]
      BY <1>4, <2>2, <3>2 DEF Receive
    <3> QED
      BY <3>1, <3>2
  <2> QED
    BY <1>4, <2>1, <2>3 DEF Receive
<1>5. CASE Lag(c)
  <2>1. /\ Overwritten \in Nat /\ cursor' = [cursor EXCEPT ![c] = Overwritten]
        /\ Overwritten - cursor[c] \in Nat
    BY <1>5 DEF Lag, Overwritten
  <2>2. missed' = [missed EXCEPT ![c] = @ + (Overwritten - cursor[c])]
    BY <1>5 DEF Lag
  <2>3. missed' \in [Clients -> Nat]
    BY <2>1, <2>2
  <2>4. lagged' \in [Clients -> SUBSET Nat]
    <3>1. (cursor[c] + 1)..Overwritten \in SUBSET Nat
      BY <2>1
    <3> QED
      BY <1>5, <3>1 DEF Lag
  <2>5. UNCHANGED <<pubVars, stage, wants, listed, listedUpTo, joinedAt, got, withheld>>
    BY <1>5 DEF Lag
  <2>6. cursor' \in [Clients -> Nat]
    BY <2>1
  <2> QED
    BY <2>3, <2>4, <2>5, <2>6
<1>6. CASE Resubscribe(c)
  BY <1>6 DEF Resubscribe
<1>7. CASE Disconnect(c)
  BY <1>7 DEF Disconnect
<1> QED
  BY <1>1, <1>2, <1>3, <1>4, <1>5, <1>6, <1>7 DEF SessionStep

\* The session that steps.
LEMMA OwnSession ==
  ASSUME IInv, NEW c \in Clients, SessionStep(c)
  PROVE  (NothingBefore(c) /\ ListIsInterval(c) /\ ReceiverIsInterval(c))'
<1> USE FeedAssumption DEF IInv, TypeOK, OneInFlight, pubVars
<1> DEFINE Goal == (NothingBefore(c) /\ ListIsInterval(c) /\ ReceiverIsInterval(c))'
<1>1. ASSUME NEW w \in BOOLEAN, Welcome(c, w) PROVE Goal
  BY <1>1 DEF Welcome, NothingBefore, ListIsInterval, ReceiverIsInterval
<1>2. CASE SendRecent(c)
  <2>1. {recent[i] : i \in 1..Len(recent)} = {i \in 1..raised : i > raised - RecentCapacity}
    <3> DEFINE n == Len(recent)
    <3>1. n \in Nat /\ n <= raised /\ n <= RecentCapacity
          /\ \A i \in 1..n : recent[i] = raised - n + i
      <4>1. n \in Nat /\ n = IF raised < RecentCapacity THEN raised ELSE RecentCapacity
        BY DEF RecentIsNewest
      <4> QED
        BY <4>1 DEF RecentIsNewest
    <3>2. \A j \in 1..raised : j > raised - RecentCapacity =>
            j - (raised - n) \in 1..n /\ recent[j - (raised - n)] = j
      BY <3>1 DEF RecentIsNewest
    <3>3. ASSUME NEW i \in 1..n
          PROVE  recent[i] \in 1..raised /\ recent[i] > raised - RecentCapacity
      <4>1. recent[i] = raised - n + i
        BY <3>1
      <4> HIDE DEF n
      <4> QED
        BY <3>1, <4>1
    <3> QED
      BY <3>2, <3>3
  <2>2. listed'[c] = {i \in 1..raised : i > raised - RecentCapacity}
        /\ listedUpTo'[c] = raised /\ raised' = raised
    BY <1>2, <2>1 DEF SendRecent
  <2>3. ListIsInterval(c)'
    BY <2>2 DEF ListIsInterval
  <2> QED
    BY <1>2, <2>3 DEF SendRecent, NothingBefore, ReceiverIsInterval
<1>3. CASE Subscribe(c)
  <2>1. got[c] = {} /\ withheld[c] = {} /\ lagged[c] = {} /\ missed[c] = 0
    BY <1>3 DEF Subscribe, NothingBefore
  <2>2. Cardinality(lagged[c]) = 0
    BY <2>1, FS_EmptySet
  <2>3. NothingBefore(c)' /\ ListIsInterval(c)'
    BY <1>3 DEF Subscribe, NothingBefore, ListIsInterval
  <2> QED
    BY <1>3, <2>1, <2>2, <2>3 DEF Subscribe, ListIsInterval, ReceiverIsInterval
<1>4. CASE Receive(c)
  <2>1. NothingBefore(c)' /\ ListIsInterval(c)'
    BY <1>4 DEF Receive, NothingBefore, ListIsInterval
  <2>2. (joinedAt[c] + 1)..(cursor[c] + 1) = (joinedAt[c] + 1)..cursor[c] \cup {cursor[c] + 1}
    BY <1>4 DEF Receive, ReceiverIsInterval
  <2>3. cursor[c] + 1 \notin (joinedAt[c] + 1)..cursor[c]
    OBVIOUS
  <2>4. CASE wants[c]
    BY <1>4, <2>1, <2>2, <2>3, <2>4 DEF Receive, ReceiverIsInterval
  <2>5. CASE ~wants[c]
    BY <1>4, <2>1, <2>2, <2>3, <2>5 DEF Receive, ReceiverIsInterval
  <2> QED
    BY <2>4, <2>5
<1>5. CASE Lag(c)
  <2> DEFINE new == (cursor[c] + 1)..Overwritten
  <2>1. NothingBefore(c)' /\ ListIsInterval(c)'
    BY <1>5 DEF Lag, NothingBefore, ListIsInterval
  <2>2. /\ Overwritten \in Nat /\ cursor[c] <= Overwritten /\ Overwritten <= sent
        /\ joinedAt[c] <= cursor[c]
    BY <1>5 DEF Lag, Overwritten, ReceiverIsInterval
  <2>3. (joinedAt[c] + 1)..Overwritten = (joinedAt[c] + 1)..cursor[c] \cup new
    BY <2>2
  <2>4. new \cap ((joinedAt[c] + 1)..cursor[c]) = {}
    OBVIOUS
  <2>5. /\ got[c] \cap new = {} /\ withheld[c] \cap new = {} /\ lagged[c] \cap new = {}
    BY <1>5, <2>4 DEF Lag, ReceiverIsInterval
  <2>6. IsFiniteSet(lagged[c])
    <3>1. lagged[c] \subseteq (joinedAt[c] + 1)..cursor[c]
      BY <1>5 DEF Lag, ReceiverIsInterval
    <3>2. joinedAt[c] + 1 \in Int /\ cursor[c] \in Int
      OBVIOUS
    <3>3. IsFiniteSet((joinedAt[c] + 1)..cursor[c])
      BY <3>2, FS_Interval
    <3> QED
      BY <3>1, <3>3, FS_Subset
  <2>7. Cardinality(lagged[c] \cup new) = Cardinality(lagged[c]) + (Overwritten - cursor[c])
    BY <2>2, <2>5, <2>6, LagCounts
  <2>8. /\ stage'[c] = "live" /\ cursor'[c] = Overwritten /\ lagged'[c] = lagged[c] \cup new
        /\ missed'[c] = Cardinality(lagged[c]) + (Overwritten - cursor[c])
        /\ UNCHANGED <<pubVars, got, withheld, joinedAt, listedUpTo>>
    BY <1>5 DEF Lag, ReceiverIsInterval
  <2> QED
    BY <1>5, <2>1, <2>2, <2>3, <2>5, <2>7, <2>8 DEF Lag, ReceiverIsInterval
<1>6. CASE Resubscribe(c)
  BY <1>6 DEF Resubscribe, NothingBefore, ListIsInterval, ReceiverIsInterval
<1>7. CASE Disconnect(c)
  BY <1>7 DEF Disconnect, NothingBefore, ListIsInterval, ReceiverIsInterval
<1> QED
  BY <1>1, <1>2, <1>3, <1>4, <1>5, <1>6, <1>7 DEF SessionStep

\* The others: a session writes to no variable of another.
LEMMA OtherSessions ==
  ASSUME IInv, NEW c \in Clients, SessionStep(c), NEW d \in Clients, d # c
  PROVE  (NothingBefore(d) /\ ListIsInterval(d) /\ ReceiverIsInterval(d))'
<1>1. /\ stage'[d] = stage[d] /\ listed'[d] = listed[d] /\ listedUpTo'[d] = listedUpTo[d]
      /\ joinedAt'[d] = joinedAt[d] /\ cursor'[d] = cursor[d] /\ got'[d] = got[d]
      /\ withheld'[d] = withheld[d] /\ lagged'[d] = lagged[d] /\ missed'[d] = missed[d]
      /\ UNCHANGED pubVars
  BY DEF IInv, TypeOK, SessionStep, Welcome, SendRecent, Subscribe, Receive, Lag,
         Resubscribe, Disconnect
<1> QED
  BY <1>1 DEF IInv, pubVars, NothingBefore, ListIsInterval, ReceiverIsInterval

LEMMA NextInv == IInv /\ [Next]_vars => IInv'
<1> SUFFICES ASSUME IInv, [Next]_vars PROVE IInv'
  OBVIOUS
<1>1. CASE Raise \/ Broadcast
  BY <1>1, PublisherInv
<1>2. ASSUME NEW c \in Clients, SessionStep(c) PROVE IInv'
  <2>1. UNCHANGED pubVars
    BY <1>2 DEF SessionStep, Welcome, SendRecent, Subscribe, Receive, Lag, Resubscribe,
                Disconnect
  <2>2. OneInFlight' /\ RecentIsNewest'
    BY <2>1 DEF IInv, OneInFlight, RecentIsNewest, pubVars
  <2> QED
    BY <1>2, <2>2, SessionTypes, OwnSession, OtherSessions DEF IInv
<1>3. CASE UNCHANGED vars
  BY <1>3 DEF IInv, vars, pubVars, clientVars, TypeOK, OneInFlight, RecentIsNewest,
              NothingBefore, ListIsInterval, ReceiverIsInterval
<1> QED
  BY <1>1, <1>2, <1>3 DEF Next, SessionStep

LEMMA Invariance == Spec => []IInv
BY InitInv, NextInv, PTL DEF Spec

-----------------------------------------------------------------------------
(* The theorems                                                            *)

\* Every variable of publisher and sessions stays in its domain.
THEOREM FeedTypes == Spec => []TypeOK
<1>1. IInv => TypeOK
  BY DEF IInv
<1> QED
  BY <1>1, Invariance, PTL

\* publish_anomaly: the recent ring holds the newest anomalies in order.
THEOREM RingIsNewest == Spec => []RecentIsNewest
<1>1. IInv => RecentIsNewest
  BY DEF IInv
<1> QED
  BY <1>1, Invariance, PTL

\* run_session: what the receiver has passed was forwarded, withheld or
\* reported as missed, each in one of these ways, and the counts are right.
THEOREM EachAccounted == Spec => []LiveAccounting
<1>1. IInv => LiveAccounting
  BY DEF IInv, LiveAccounting, ReceiverIsInterval
<1> QED
  BY <1>1, Invariance, PTL

\* An anomaly that a session is not told of had left the ring before the list
\* was read, or was sent between the list and the creation of the receiver.
THEOREM LossConfined == Spec => []LossIsConfined
<1>1. ASSUME IInv PROVE LossIsConfined
  <2> SUFFICES ASSUME NEW c \in Clients, stage[c] = "live", NEW i \in 1..cursor[c]
               PROVE  \/ i \in listed[c] \cup got[c] \cup withheld[c] \cup lagged[c]
                      \/ i <= listedUpTo[c] - RecentCapacity
                      \/ i > listedUpTo[c] /\ i <= joinedAt[c]
    BY DEF LossIsConfined
  <2>1. CASE i > joinedAt[c]
    <3>1. i \in (joinedAt[c] + 1)..cursor[c]
      BY <1>1, <2>1 DEF IInv, TypeOK
    <3> QED
      BY <1>1, <3>1 DEF IInv, ReceiverIsInterval
  <2>2. CASE i <= listedUpTo[c]
    <3>1. listedUpTo[c] \in Nat /\ cursor[c] \in Nat /\ i \in 1..listedUpTo[c]
      BY <1>1, <2>2 DEF IInv, TypeOK
    <3>2. i > listedUpTo[c] - RecentCapacity \/ i <= listedUpTo[c] - RecentCapacity
      BY <3>1, FeedAssumption
    <3> QED
      BY <1>1, <3>1, <3>2 DEF IInv, ListIsInterval
  <2> QED
    BY <1>1, <2>1, <2>2 DEF IInv, TypeOK
<1> QED
  BY <1>1, Invariance, PTL

\* Of the anomalies in a session's list only the one that was in flight when
\* the list was read can be pushed to it again.
THEOREM RepeatsConfined == Spec => []RepeatsOnlyInFlight
<1>1. ASSUME IInv PROVE RepeatsOnlyInFlight
  <2> SUFFICES ASSUME NEW c \in Clients, NEW i \in listed[c] \cap got[c]
               PROVE  i = listedUpTo[c]
    BY DEF RepeatsOnlyInFlight
  <2>1. stage[c] = "live"
    BY <1>1 DEF IInv, NothingBefore
  <2>2. i \in Nat /\ i <= listedUpTo[c]
    BY <1>1 DEF IInv, TypeOK, ListIsInterval
  <2>3. i > joinedAt[c] /\ listedUpTo[c] <= joinedAt[c] + 1
    BY <1>1, <2>1 DEF IInv, TypeOK, ReceiverIsInterval
  <2> QED
    BY <1>1, <2>2, <2>3 DEF IInv, TypeOK
<1> QED
  BY <1>1, Invariance, PTL
=============================================================================
