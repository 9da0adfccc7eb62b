---------------------------- MODULE RingChannel ----------------------------
(***************************************************************************)
(* The ring channel between ingestion and pipeline (core/src/channel.rs):  *)
(* any number of cloned RingSender handles, one RingReceiver, a VecDeque   *)
(* under a mutex, and a tokio Notify that wakes the receiver.              *)
(*                                                                         *)
(* A step is what runs between two points where another task can get in:   *)
(* a critical section of the queue's mutex, one atomic operation, or one   *)
(* call of the Notify.  `send` is therefore Send then Notify, the drop of  *)
(* the last handle DropHandle, StoreClosed, WakeAll, and one round of      *)
(* `recv` RecvBegin (create the Notified future), RecvCheck (the critical  *)
(* section), RecvPoll (the first poll of `notified.await`), RecvWake.      *)
(* The pipeline polls `recv` inside tokio::select!, so an unfinished       *)
(* `recv` may be dropped at each of its await points (RecvCancel).         *)
(*                                                                         *)
(* Notify, as the code uses it: notify_one wakes the future that is queued *)
(* or leaves one permit; notify_waiters wakes every future created before  *)
(* it, polled or not, and leaves no permit; a future dropped after it got  *)
(* the wakeup of a notify_one passes it on, which here leaves a permit.    *)
(*                                                                         *)
(* Elements are named by their position in the order of the pushes.        *)
(***************************************************************************)
EXTENDS Integers, Sequences, FiniteSets

CONSTANTS
  Senders,    \* slots for RingSender handles
  First,      \* the handle ring_channel returns
  Capacity,   \* capacity given to ring_channel
  MaxSends    \* bound of the model: how many elements are ever sent

\* ring_channel panics for capacity 0.
ASSUME ChannelAssumption ==
  /\ IsFiniteSet(Senders) /\ First \in Senders
  /\ Capacity \in Nat \ {0}
  /\ MaxSends \in Nat

VARIABLES
  queue,       \* Shared::queue
  dropped,     \* Shared::dropped
  closed,      \* Shared::closed
  senderCount, \* Shared::sender_count
  permit,      \* the permit stored in Shared::notify
  notified,    \* the receiver's Notified future
  tx,          \* where each sender handle is
  rx,          \* where the receiver is
  pushed,      \* history: how many elements were pushed
  delivered,   \* history: the elements recv returned, in order
  closedAt     \* history: pushed at the moment closed was first set

vars == <<queue, dropped, closed, senderCount, permit, notified, tx, rx,
          pushed, delivered, closedAt>>
queueVars   == <<queue, dropped, pushed>>
notifyVars  == <<permit, notified>>
closeVars   == <<closed, closedAt>>
handleVars  == <<senderCount, tx>>
receiveVars == <<rx, delivered>>

\* "pushed": out of the critical section of send, notify_one still to come;
\* "last": fetch_sub returned 1; "dropping", "closing": closed is stored, the
\* notify_waiters of drop resp. of close() still to come.
TxStates == {"gone", "idle", "pushed", "last", "dropping", "closing"}

\* "armed": Notified future created, lock not yet taken; "empty": found
\* nothing and not closed, future not yet polled; "asleep": future polled.
RxStates == {"idle", "armed", "empty", "asleep", "ended"}

\* "none": no future; "fresh": created, not polled; "queued": in the list of
\* waiters; "one", "all": woken by notify_one resp. notify_waiters.
NotifiedStates == {"none", "fresh", "queued", "one", "all"}

Init ==
  /\ queue = <<>> /\ dropped = 0 /\ pushed = 0
  /\ closed = FALSE /\ closedAt = 0
  /\ senderCount = 1
  /\ permit = FALSE /\ notified = "none"
  /\ tx = [s \in Senders |-> IF s = First THEN "idle" ELSE "gone"]
  /\ rx = "idle" /\ delivered = <<>>

-----------------------------------------------------------------------------
(* Notify                                                                  *)

NotifyOne ==
  IF notified = "queued"
  THEN notified' = "one" /\ UNCHANGED permit
  ELSE permit' = TRUE /\ UNCHANGED notified

NotifyWaiters ==
  /\ notified' = IF notified \in {"fresh", "queued"} THEN "all" ELSE notified
  /\ UNCHANGED permit

-----------------------------------------------------------------------------
(* Sender handles                                                          *)

Clone(s, t) ==
  /\ tx[s] = "idle" /\ tx[t] = "gone"
  /\ senderCount' = senderCount + 1
  /\ tx' = [tx EXCEPT ![t] = "idle"]
  /\ UNCHANGED <<queueVars, closeVars, notifyVars, receiveVars>>

\* The critical section of send: a full queue loses its oldest element.
Send(s) ==
  /\ tx[s] = "idle" /\ pushed < MaxSends
  /\ LET full == Len(queue) >= Capacity IN
       /\ queue' = Append(IF full THEN Tail(queue) ELSE queue, pushed + 1)
       /\ dropped' = IF full THEN dropped + 1 ELSE dropped
  /\ pushed' = pushed + 1
  /\ tx' = [tx EXCEPT ![s] = "pushed"]
  /\ UNCHANGED <<senderCount, closeVars, notifyVars, receiveVars>>

\* The notify_one of send, after the unlock.
Notify(s) ==
  /\ tx[s] = "pushed"
  /\ NotifyOne
  /\ tx' = [tx EXCEPT ![s] = "idle"]
  /\ UNCHANGED <<senderCount, queueVars, closeVars, receiveVars>>

\* fetch_sub of Drop for RingSender.
DropHandle(s) ==
  /\ tx[s] = "idle"
  /\ senderCount' = senderCount - 1
  /\ tx' = [tx EXCEPT ![s] = IF senderCount = 1 THEN "last" ELSE "gone"]
  /\ UNCHANGED <<queueVars, closeVars, notifyVars, receiveVars>>

\* The store of closed, by the last drop or by an explicit close().
StoreClosed(s) ==
  /\ tx[s] \in {"idle", "last"}
  /\ closed' = TRUE
  /\ closedAt' = IF closed THEN closedAt ELSE pushed
  /\ tx' = [tx EXCEPT ![s] = IF tx[s] = "last" THEN "dropping" ELSE "closing"]
  /\ UNCHANGED <<senderCount, queueVars, notifyVars, receiveVars>>

\* notify_waiters, after the store.
WakeAll(s) ==
  /\ tx[s] \in {"dropping", "closing"}
  /\ NotifyWaiters
  /\ tx' = [tx EXCEPT ![s] = IF tx[s] = "dropping" THEN "gone" ELSE "idle"]
  /\ UNCHANGED <<senderCount, queueVars, closeVars, receiveVars>>

-----------------------------------------------------------------------------
(* The receiver                                                            *)

\* Mutant: the Notified future is created only when it is awaited.
RecvBeginUnregistered ==
  /\ rx = "idle"
  /\ rx' = "armed"
  /\ UNCHANGED <<queueVars, closeVars, handleVars, notifyVars, delivered>>

\* The Notified future is created before the queue is looked at.
RecvBegin ==
  /\ rx = "idle"
  /\ rx' = "armed" /\ notified' = "fresh"
  /\ UNCHANGED <<queueVars, closeVars, handleVars, permit, delivered>>

\* Mutant: the end is announced before the queue is looked at.
RecvCheckClosedFirst ==
  /\ rx = "armed"
  /\ IF closed \/ queue = <<>>
     THEN /\ rx' = IF closed THEN "ended" ELSE "empty"
          /\ notified' = IF closed THEN "none" ELSE notified
          /\ UNCHANGED <<queue, delivered>>
     ELSE /\ queue' = Tail(queue)
          /\ delivered' = Append(delivered, Head(queue))
          /\ rx' = "idle" /\ notified' = "none"
  /\ UNCHANGED <<dropped, pushed, closeVars, handleVars, permit>>

\* The critical section of recv: an element, the end, or nothing yet.  The
\* first two return, which drops the future.
RecvCheck ==
  /\ rx = "armed"
  /\ \/ /\ queue # <<>>
        /\ queue' = Tail(queue)
        /\ delivered' = Append(delivered, Head(queue))
        /\ rx' = "idle" /\ notified' = "none"
     \/ /\ queue = <<>> /\ closed
        /\ rx' = "ended" /\ notified' = "none"
        /\ UNCHANGED <<queue, delivered>>
     \/ /\ queue = <<>> /\ ~closed
        /\ rx' = "empty"
        /\ UNCHANGED <<queue, delivered, notified>>
  /\ UNCHANGED <<dropped, pushed, closeVars, handleVars, permit>>

\* The first poll of the future: a stored permit or an earlier
\* notify_waiters completes it (the loop starts over), else it is queued.
RecvPoll ==
  /\ rx = "empty"
  /\ IF permit \/ notified = "all"
     THEN rx' = "idle" /\ notified' = "none" /\ permit' = FALSE
     ELSE rx' = "asleep" /\ notified' = "queued" /\ UNCHANGED permit
  /\ UNCHANGED <<queueVars, closeVars, handleVars, delivered>>

RecvWake ==
  /\ rx = "asleep" /\ notified \in {"one", "all"}
  /\ rx' = "idle" /\ notified' = "none"
  /\ UNCHANGED <<queueVars, closeVars, handleVars, permit, delivered>>

\* Another branch of the pipeline's select! won: recv is dropped.
RecvCancel ==
  /\ rx \in {"armed", "asleep"}
  /\ rx' = "idle" /\ notified' = "none"
  /\ permit' = (permit \/ notified = "one")
  /\ UNCHANGED <<queueVars, closeVars, handleVars, delivered>>

-----------------------------------------------------------------------------
Receive == RecvBegin \/ RecvCheck \/ RecvPoll \/ RecvWake

Next ==
  \/ \E s \in Senders :
       \/ \E t \in Senders : Clone(s, t)
       \/ Send(s) \/ Notify(s)
       \/ DropHandle(s) \/ StoreClosed(s) \/ WakeAll(s)
  \/ RecvBegin \/ RecvCheck \/ RecvPoll \/ RecvWake \/ RecvCancel

\* Senders finish what they began.  The pipeline calls recv over and over;
\* select! starts polling at a random branch, so a recv that can proceed
\* again and again is not passed over for ever (strong fairness).
Fairness ==
  /\ \A s \in Senders :
       /\ WF_vars(Notify(s))
       /\ WF_vars(tx[s] = "last" /\ StoreClosed(s))
       /\ WF_vars(WakeAll(s))
  /\ WF_vars(RecvBegin) /\ SF_vars(RecvCheck)
  /\ WF_vars(RecvPoll) /\ WF_vars(RecvWake)

Spec == Init /\ [][Next]_vars
FairSpec == Spec /\ Fairness

-----------------------------------------------------------------------------
(* Properties                                                              *)

\* Every variable stays in its domain.
TypeOK ==
  /\ queue \in Seq(Nat) /\ dropped \in Nat /\ pushed \in Nat
  /\ closed \in BOOLEAN /\ closedAt \in Nat
  /\ senderCount \in Int
  /\ permit \in BOOLEAN /\ notified \in NotifiedStates
  /\ tx \in [Senders -> TxStates]
  /\ rx \in RxStates /\ delivered \in Seq(Nat)

\* Rule 17 and 18 of the channel: the queue never outgrows its capacity, it
\* always holds the newest elements in the order of their pushes, and every
\* element pushed was delivered, counted as dropped, or is still queued.
KeepsNewest ==
  /\ Len(queue) <= Capacity
  /\ \A i \in 1..Len(queue) : queue[i] = pushed - Len(queue) + i
  /\ pushed = Len(delivered) + dropped + Len(queue)

\* recv returns elements in the order of their pushes, each at most once.
DeliveredInOrder ==
  /\ \A i, j \in 1..Len(delivered) : i < j => delivered[i] < delivered[j]
  /\ \A i \in 1..Len(delivered) : delivered[i] <= pushed - Len(queue)

\* A receiver that sleeps with no wakeup under way has nothing to wake for:
\* an element in the queue or the end of the channel is about to be signalled
\* by a handle that is still inside send, drop or close.
NoLostWakeup ==
  rx = "asleep" /\ notified = "queued" =>
    /\ queue # <<>> => \E s \in Senders : tx[s] = "pushed"
    /\ closed => \E s \in Senders : tx[s] \in {"dropping", "closing"}

\* sender_count counts the handles that can still send, so the channel closes
\* itself with the last of them and not before.
Live == {s \in Senders : tx[s] \in {"idle", "pushed", "closing"}}
CountsHandles ==
  /\ senderCount = Cardinality(Live)
  /\ \A s \in Senders : tx[s] \in {"last", "dropping"} => Live = {}

\* recv announces the end only when everything pushed before the close was
\* handed over or counted as dropped: shutdown loses no event silently.
EndMeansDrained ==
  rx = "ended" => closed /\ \A i \in 1..Len(queue) : queue[i] > closedAt

\* The channel implements the lossy FIFO hand-over, with its liveness.
Fifo == INSTANCE LossyFifo WITH
  buf <- queue, put <- pushed, out <- delivered, lost <- dropped,
  open <- ~closed, over <- rx = "ended"
ImplementsFifo == Fifo!Spec
=============================================================================
