------------------------------ MODULE TasksProofs -----------------------------
(***************************************************************************)
(* Proofs about the tasks of the daemon: the queue that the ingestion and  *)
(* the pipeline share (RingChannel), and what works beside the pipeline    *)
(* (Surroundings).  The two have no name in common.                        *)
(*                                                                         *)
(* The ring channel, for every set of handles, every capacity and every    *)
(* number of sends: its type invariant, the accounting and order of        *)
(* elements, the absence of lost wakeups, and the refinement of the lossy  *)
(* FIFO hand-over.                                                         *)
(*                                                                         *)
(* Signals: a process is known by its number, and a pid by the process     *)
(* that was born last under it (AttemptKept).  A signal keeps the process  *)
(* it went to, no older than the start time read before (HitKept): the     *)
(* same start time at the end is the same process.                         *)
(*                                                                         *)
(* Mutes: an entry was made when it is due to be there, with the longest   *)
(* of its ends (MutesInv).  Devices: an address is shown as it was last    *)
(* seen (LanInv).  Export: what is written is one state of the snapshot    *)
(* (ExportInv).                                                            *)
(*                                                                         *)
(* Lines: the ring has them in their order (RingInv), so what lies between *)
(* two lines of an answer is counted by their places; the bytes of the     *)
(* first characters add up; the masked tokens are those of the record      *)
(* (MaskInv), and a core passes for the mask that is put in its place.     *)
(***************************************************************************)
EXTENDS RingChannel, Surroundings, FiniteSetTheorems, SequenceTheorems, NaturalsInduction,
        WellFoundedInduction, TLAPS

USE DEF queueVars, notifyVars, closeVars, handleVars, receiveVars

-----------------------------------------------------------------------------
(* The type invariant is inductive on its own.                             *)

LEMMA TypeInit == Init => TypeOK
<1> SUFFICES ASSUME Init PROVE TypeOK
  OBVIOUS
<1> USE ChannelAssumption DEF Init
<1>1. queue \in Seq(Nat) /\ dropped \in Nat /\ pushed \in Nat /\ delivered \in Seq(Nat)
  OBVIOUS
<1>2. closedAt \in Nat /\ senderCount \in Int
  OBVIOUS
<1>4. closed \in BOOLEAN /\ permit \in BOOLEAN
  BY Zenon
<1>3. tx \in [Senders -> TxStates] /\ rx \in RxStates /\ notified \in NotifiedStates
  BY DEF TxStates, RxStates, NotifiedStates
<1> QED BY <1>1, <1>2, <1>3, <1>4 DEF TypeOK

LEMMA TypeStep == TypeOK /\ [Next]_vars => TypeOK'
<1> SUFFICES ASSUME TypeOK, [Next]_vars PROVE TypeOK'
  OBVIOUS
<1> USE DEF TypeOK, TxStates, RxStates, NotifiedStates
<1>1. ASSUME NEW s \in Senders, NEW t \in Senders, Clone(s, t) PROVE TypeOK'
  BY <1>1 DEF Clone
<1>2. ASSUME NEW s \in Senders, Send(s) PROVE TypeOK'
  <2>1. Tail(queue) \in Seq(Nat) \/ queue = <<>>
    OBVIOUS
  <2>2. CASE Len(queue) >= Capacity
    <3>1. queue # <<>>
      BY <2>2, ChannelAssumption
    <3>2. queue' = Append(Tail(queue), pushed + 1) /\ dropped' = dropped + 1
      BY <1>2, <2>2 DEF Send
    <3>3. queue' \in Seq(Nat)
      BY <3>1, <3>2, <2>1
    <3> QED BY <1>2, <3>2, <3>3 DEF Send
  <2>3. CASE ~(Len(queue) >= Capacity)
    <3>1. queue' = Append(queue, pushed + 1) /\ dropped' = dropped
      BY <1>2, <2>3 DEF Send
    <3> QED BY <1>2, <3>1 DEF Send
  <2> QED BY <2>2, <2>3
<1>3. ASSUME NEW s \in Senders, Notify(s) PROVE TypeOK'
  BY <1>3 DEF Notify, NotifyOne
<1>4. ASSUME NEW s \in Senders, DropHandle(s) PROVE TypeOK'
  BY <1>4 DEF DropHandle
<1>5. ASSUME NEW s \in Senders, StoreClosed(s) PROVE TypeOK'
  BY <1>5 DEF StoreClosed
<1>6. ASSUME NEW s \in Senders, WakeAll(s) PROVE TypeOK'
  BY <1>6 DEF WakeAll, NotifyWaiters
<1>7. CASE RecvBegin
  BY <1>7 DEF RecvBegin
<1>8. CASE RecvCheck
  <2>1. CASE queue # <<>>
    <3>1. Head(queue) \in Nat /\ Tail(queue) \in Seq(Nat)
      BY <2>1, HeadTailProperties
    <3>2. Append(delivered, Head(queue)) \in Seq(Nat)
      BY <3>1, AppendProperties
    <3> QED BY <1>8, <2>1, <3>1, <3>2 DEF RecvCheck
  <2>2. CASE queue = <<>>
    BY <1>8, <2>2 DEF RecvCheck
  <2> QED BY <2>1, <2>2
<1>9. CASE RecvPoll
  BY <1>9 DEF RecvPoll
<1>10. CASE RecvWake
  BY <1>10 DEF RecvWake
<1>11. CASE RecvCancel
  BY <1>11 DEF RecvCancel
<1>12. CASE UNCHANGED vars
  BY <1>12 DEF vars
<1> QED
  BY <1>1, <1>2, <1>3, <1>4, <1>5, <1>6, <1>7, <1>8, <1>9, <1>10, <1>11, <1>12
  DEF Next

\* Every variable of the channel stays in its domain.
THEOREM TypeCorrect == Spec => []TypeOK
<1>1. Init => TypeOK
  BY TypeInit
<1>2. TypeOK /\ [Next]_vars => TypeOK'
  BY TypeStep
<1> QED BY <1>1, <1>2, PTL DEF Spec

-----------------------------------------------------------------------------
(* Accounting and order.  The conjuncts of KeepsNewest and of              *)
(* DeliveredInOrder are inductive together: the order of a hand-over rests *)
(* on what the queue holds.                                                *)

Accounting == KeepsNewest /\ DeliveredInOrder

LEMMA AccountingInit == Init => Accounting
<1> SUFFICES ASSUME Init PROVE Accounting
  OBVIOUS
<1>1. queue = <<>> /\ delivered = <<>> /\ dropped = 0 /\ pushed = 0
  BY DEF Init
<1>2. Len(queue) = 0 /\ Len(delivered) = 0
  BY <1>1
<1> QED BY <1>1, <1>2, ChannelAssumption DEF Accounting, KeepsNewest, DeliveredInOrder

\* The facts about numbers and domains the three steps below rest on.
LEMMA AccountingFacts ==
  ASSUME TypeOK, Accounting
  PROVE  /\ Len(queue) \in Nat /\ Len(delivered) \in Nat
         /\ pushed \in Nat /\ dropped \in Nat /\ Capacity \in Nat \ {0}
         /\ Len(queue) <= Capacity
         /\ pushed = Len(delivered) + dropped + Len(queue)
         /\ \A i \in 1..Len(queue) : queue[i] = pushed - Len(queue) + i
         /\ \A i \in 1..Len(delivered) :
              delivered[i] \in Nat /\ delivered[i] <= pushed - Len(queue)
         /\ \A i, j \in 1..Len(delivered) : i < j => delivered[i] < delivered[j]
BY ChannelAssumption DEF TypeOK, Accounting, KeepsNewest, DeliveredInOrder

\* A send that finds room.
LEMMA SendWithRoom ==
  ASSUME TypeOK, Accounting, NEW s \in Senders, Send(s), Len(queue) < Capacity
  PROVE  Accounting'
<1>0. /\ Len(queue) \in Nat /\ Len(delivered) \in Nat
      /\ pushed \in Nat /\ dropped \in Nat /\ Capacity \in Nat \ {0}
      /\ Len(queue) <= Capacity
      /\ pushed = Len(delivered) + dropped + Len(queue)
  BY AccountingFacts
<1>q. \A i \in 1..Len(queue) : queue[i] = pushed - Len(queue) + i
  BY AccountingFacts
<1>d. \A i \in 1..Len(delivered) :
        delivered[i] \in Nat /\ delivered[i] <= pushed - Len(queue)
  BY AccountingFacts
<1>1. /\ Len(queue') = Len(queue) + 1
      /\ \A i \in 1..Len(queue) : queue'[i] = queue[i]
      /\ queue'[Len(queue) + 1] = pushed + 1
  <2>1. queue' = Append(queue, pushed + 1)
    BY ChannelAssumption DEF Send, TypeOK
  <2> QED BY <2>1, AppendProperties DEF TypeOK
<1>2. dropped' = dropped /\ pushed' = pushed + 1 /\ delivered' = delivered
  BY ChannelAssumption DEF Send, TypeOK
<1>3. \A i \in 1..Len(queue') : queue'[i] = pushed' - Len(queue') + i
  <2> SUFFICES ASSUME NEW i \in 1..Len(queue')
               PROVE  queue'[i] = pushed' - Len(queue') + i
    OBVIOUS
  <2>1. CASE i \in 1..Len(queue)
    <3>1. queue'[i] = queue[i] /\ queue[i] = pushed - Len(queue) + i
      BY <1>1, <1>q, <2>1
    <3> QED BY <1>0, <1>1, <1>2, <2>1, <3>1
  <2>2. CASE i = Len(queue) + 1
    BY <1>0, <1>1, <1>2, <2>2
  <2> QED BY <1>0, <1>1, <2>1, <2>2
<1>4. Len(queue') <= Capacity /\ pushed' = Len(delivered') + dropped' + Len(queue')
  BY <1>1, <1>2, AccountingFacts
<1>5. pushed' - Len(queue') = pushed - Len(queue)
  BY <1>1, <1>2, AccountingFacts
<1> QED BY <1>2, <1>3, <1>4, <1>5, AccountingFacts
  DEF Accounting, KeepsNewest, DeliveredInOrder

\* A send into a full queue: the oldest element goes, the rest moves up.
LEMMA SendWhenFull ==
  ASSUME TypeOK, Accounting, NEW s \in Senders, Send(s), Len(queue) >= Capacity
  PROVE  Accounting'
<1>0. /\ Len(queue) \in Nat /\ Len(delivered) \in Nat
      /\ pushed \in Nat /\ dropped \in Nat /\ Capacity \in Nat \ {0}
      /\ Len(queue) <= Capacity
      /\ pushed = Len(delivered) + dropped + Len(queue)
  BY AccountingFacts
<1>q. \A i \in 1..Len(queue) : queue[i] = pushed - Len(queue) + i
  BY AccountingFacts
<1>d. \A i \in 1..Len(delivered) :
        delivered[i] \in Nat /\ delivered[i] <= pushed - Len(queue)
  BY AccountingFacts
<1>1. /\ Len(queue') = Len(queue)
      /\ \A i \in 1..Len(queue) - 1 : queue'[i] = queue[i + 1]
      /\ queue'[Len(queue)] = pushed + 1
  <2>1. queue' = Append(Tail(queue), pushed + 1)
    BY ChannelAssumption DEF Send, TypeOK
  <2>2. queue # <<>>
    BY ChannelAssumption DEF TypeOK
  <2>3. /\ Tail(queue) \in Seq(Nat) /\ Len(Tail(queue)) = Len(queue) - 1
        /\ \A i \in 1..Len(queue) - 1 : Tail(queue)[i] = queue[i + 1]
    BY <2>2, HeadTailProperties DEF TypeOK
  <2> QED BY <2>1, <2>3, AppendProperties DEF TypeOK
<1>2. dropped' = dropped + 1 /\ pushed' = pushed + 1 /\ delivered' = delivered
  BY ChannelAssumption DEF Send, TypeOK
<1>3. \A i \in 1..Len(queue') : queue'[i] = pushed' - Len(queue') + i
  <2> SUFFICES ASSUME NEW i \in 1..Len(queue')
               PROVE  queue'[i] = pushed' - Len(queue') + i
    OBVIOUS
  <2>1. CASE i \in 1..Len(queue) - 1 /\ i + 1 \in 1..Len(queue)
    <3>1. queue'[i] = queue[i + 1] /\ queue[i + 1] = pushed - Len(queue) + (i + 1)
      BY <1>1, <1>q, <2>1
    <3> QED BY <1>0, <1>1, <1>2, <2>1, <3>1
  <2>2. CASE i = Len(queue)
    BY <1>0, <1>1, <1>2, <2>2
  <2> QED BY <1>0, <1>1, <2>1, <2>2
<1>4. Len(queue') <= Capacity /\ pushed' = Len(delivered') + dropped' + Len(queue')
  BY <1>1, <1>2, AccountingFacts
<1>5. pushed' - Len(queue') = pushed - Len(queue) + 1
  BY <1>1, <1>2, AccountingFacts
<1>6. \A i \in 1..Len(delivered) : delivered[i] <= pushed' - Len(queue')
  <2>1. /\ pushed - Len(queue) \in Int
        /\ \A i \in 1..Len(delivered) :
             delivered[i] \in Nat /\ delivered[i] <= pushed - Len(queue)
    BY AccountingFacts
  <2> QED BY <1>5, <2>1
<1> QED BY <1>2, <1>3, <1>4, <1>6, AccountingFacts
  DEF Accounting, KeepsNewest, DeliveredInOrder

\* recv returns the oldest element of the queue.
LEMMA CheckDelivers ==
  ASSUME TypeOK, Accounting, RecvCheck, queue # <<>>
  PROVE  Accounting'
<1>0. /\ Len(queue) \in Nat /\ Len(delivered) \in Nat
      /\ pushed \in Nat /\ dropped \in Nat /\ Capacity \in Nat \ {0}
      /\ Len(queue) <= Capacity
      /\ pushed = Len(delivered) + dropped + Len(queue)
  BY AccountingFacts
<1>q. \A i \in 1..Len(queue) : queue[i] = pushed - Len(queue) + i
  BY AccountingFacts
<1>d. \A i \in 1..Len(delivered) :
        delivered[i] \in Nat /\ delivered[i] <= pushed - Len(queue)
  BY AccountingFacts
<1>1. /\ Len(queue') = Len(queue) - 1 /\ Len(queue) > 0
      /\ \A i \in 1..Len(queue) - 1 : queue'[i] = queue[i + 1]
  <2>1. queue' = Tail(queue)
    BY DEF RecvCheck
  <2>2. Len(queue) > 0
    BY EmptySeq DEF TypeOK
  <2> QED BY <2>1, <2>2, HeadTailProperties DEF TypeOK
<1>2. dropped' = dropped /\ pushed' = pushed
  BY DEF RecvCheck
<1>3. /\ Len(delivered') = Len(delivered) + 1
      /\ \A i \in 1..Len(delivered) : delivered'[i] = delivered[i]
      /\ delivered'[Len(delivered) + 1] = pushed - Len(queue) + 1
  <2>1. Head(queue) = queue[1] /\ Head(queue) \in Nat
    BY HeadTailProperties DEF TypeOK
  <2>2. queue[1] = pushed - Len(queue) + 1
    BY <1>1, AccountingFacts
  <2>3. delivered' = Append(delivered, Head(queue))
    BY DEF RecvCheck
  <2> QED BY <2>1, <2>2, <2>3, AppendProperties DEF TypeOK
<1>4. \A i \in 1..Len(queue') : queue'[i] = pushed' - Len(queue') + i
  <2> SUFFICES ASSUME NEW i \in 1..Len(queue')
               PROVE  queue'[i] = pushed' - Len(queue') + i
    OBVIOUS
  <2>1. i \in 1..Len(queue) - 1 /\ i + 1 \in 1..Len(queue)
    BY <1>0, <1>1
  <2>2. queue'[i] = queue[i + 1] /\ queue[i + 1] = pushed - Len(queue) + (i + 1)
    BY <1>1, <1>q, <2>1
  <2> QED BY <1>0, <1>1, <1>2, <2>1, <2>2
<1>5. Len(queue') <= Capacity /\ pushed' = Len(delivered') + dropped' + Len(queue')
  BY <1>0, <1>1, <1>2, <1>3
<1>6. pushed' - Len(queue') = pushed - Len(queue) + 1
  BY <1>1, <1>2, AccountingFacts
<1>7. \A i \in 1..Len(delivered') : delivered'[i] <= pushed' - Len(queue')
  <2> SUFFICES ASSUME NEW i \in 1..Len(delivered')
               PROVE  delivered'[i] <= pushed - Len(queue) + 1
    BY <1>6
  <2>1. CASE i \in 1..Len(delivered)
    <3>1. delivered'[i] = delivered[i] /\ delivered[i] \in Nat
          /\ delivered[i] <= pushed - Len(queue)
      BY <1>3, <1>d, <2>1
    <3> QED BY <1>0, <3>1
  <2>2. CASE i = Len(delivered) + 1
    BY <1>0, <1>3, <2>2
  <2> QED BY <1>0, <1>3, <2>1, <2>2
<1>8. \A i, j \in 1..Len(delivered') : i < j => delivered'[i] < delivered'[j]
  <2> SUFFICES ASSUME NEW i \in 1..Len(delivered'), NEW j \in 1..Len(delivered'), i < j
               PROVE  delivered'[i] < delivered'[j]
    OBVIOUS
  <2>1. i \in 1..Len(delivered)
    BY <1>0, <1>3
  <2>2. delivered'[i] = delivered[i] /\ delivered[i] \in Nat
        /\ delivered[i] <= pushed - Len(queue)
    BY <1>3, <1>d, <2>1
  <2>3. CASE j = Len(delivered) + 1
    BY <1>0, <1>3, <2>2, <2>3
  <2>4. CASE j \in 1..Len(delivered)
    BY <1>3, <2>1, <2>2, <2>4, AccountingFacts
  <2> QED BY <1>0, <1>3, <2>3, <2>4
<1> QED BY <1>4, <1>5, <1>7, <1>8 DEF Accounting, KeepsNewest, DeliveredInOrder

LEMMA AccountingStep == TypeOK /\ Accounting /\ [Next]_vars => Accounting'
<1> SUFFICES ASSUME TypeOK, Accounting, [Next]_vars PROVE Accounting'
  OBVIOUS
<1>1. ASSUME NEW s \in Senders, Send(s) PROVE Accounting'
  <2>1. Len(queue) < Capacity \/ Len(queue) >= Capacity
    BY ChannelAssumption DEF TypeOK
  <2> QED BY <1>1, <2>1, SendWithRoom, SendWhenFull
<1>2. CASE RecvCheck /\ queue # <<>>
  BY <1>2, CheckDelivers
<1>3. CASE UNCHANGED <<queue, delivered, dropped, pushed>>
  BY <1>3 DEF Accounting, KeepsNewest, DeliveredInOrder
<1>4. ASSUME NEW s \in Senders, NEW t \in Senders,
             \/ Clone(s, t) \/ Notify(s) \/ DropHandle(s)
             \/ StoreClosed(s) \/ WakeAll(s)
      PROVE  UNCHANGED <<queue, delivered, dropped, pushed>>
  BY <1>4 DEF Clone, Notify, DropHandle, StoreClosed, WakeAll
<1>5. CASE RecvCheck /\ queue = <<>>
  BY <1>3, <1>5 DEF RecvCheck
<1>6. CASE RecvBegin \/ RecvPoll \/ RecvWake \/ RecvCancel \/ UNCHANGED vars
  BY <1>3, <1>6 DEF RecvBegin, RecvPoll, RecvWake, RecvCancel, vars
<1> QED BY <1>1, <1>2, <1>3, <1>4, <1>5, <1>6 DEF Next

\* The queue keeps the newest elements within its capacity, and every element
\* is delivered, counted as dropped, or queued.
THEOREM QueueKeepsNewest == Spec => []KeepsNewest
<1>1. Init => TypeOK /\ Accounting
  BY TypeInit, AccountingInit
<1>2. TypeOK /\ Accounting /\ [Next]_vars => TypeOK' /\ Accounting'
  BY TypeStep, AccountingStep
<1>3. Accounting => KeepsNewest
  BY DEF Accounting
<1> QED BY <1>1, <1>2, <1>3, PTL DEF Spec

\* recv returns elements in the order of their pushes, each at most once.
THEOREM DeliveryIsInOrder == Spec => []DeliveredInOrder
<1>1. Init => TypeOK /\ Accounting
  BY TypeInit, AccountingInit
<1>2. TypeOK /\ Accounting /\ [Next]_vars => TypeOK' /\ Accounting'
  BY TypeStep, AccountingStep
<1>3. Accounting => DeliveredInOrder
  BY DEF Accounting
<1> QED BY <1>1, <1>2, <1>3, PTL DEF Spec

-----------------------------------------------------------------------------
(* No lost wakeup.  NoLostWakeup alone is not inductive: it must also cover *)
(* the receiver between its check and the first poll of its future, when a  *)
(* wakeup shows as a stored permit or as the future being marked.           *)

\* How far recv is determines what state its Notified future can be in.
FutureMatches ==
  /\ rx \in {"idle", "ended"} => notified = "none"
  /\ rx \in {"armed", "empty"} => notified \in {"fresh", "all"}
  /\ rx = "asleep" => notified \in {"queued", "one", "all"}

\* No notify_one has reached the future and no notify_waiters has marked it
\* since the receiver found the queue empty.
Unmarked ==
  \/ rx = "empty" /\ notified = "fresh"
  \/ rx = "asleep" /\ notified = "queued"

WakeInv ==
  /\ FutureMatches
  /\ notified = "queued" => ~permit
  /\ Unmarked /\ ~permit /\ queue # <<>> => \E s \in Senders : tx[s] = "pushed"
  /\ Unmarked /\ closed => \E s \in Senders : tx[s] \in {"dropping", "closing"}

LEMMA WakeInit == Init => WakeInv
BY DEF Init, WakeInv, FutureMatches, Unmarked

LEMMA WakeStep == TypeOK /\ WakeInv /\ [Next]_vars => WakeInv'
<1> SUFFICES ASSUME TypeOK, WakeInv, [Next]_vars PROVE WakeInv'
  OBVIOUS
<1> USE DEF WakeInv, FutureMatches, Unmarked
<1>t. tx \in [Senders -> TxStates] /\ rx \in RxStates /\ notified \in NotifiedStates
  BY DEF TypeOK
<1> USE DEF TxStates, RxStates, NotifiedStates
<1>1. ASSUME NEW s \in Senders, NEW t \in Senders, Clone(s, t) PROVE WakeInv'
  BY <1>t, <1>1 DEF Clone
<1>2. ASSUME NEW s \in Senders, Send(s) PROVE WakeInv'
  \* The element is there, and so is the handle that will signal it.
  <2>1. tx'[s] = "pushed"
    BY <1>t, <1>2 DEF Send
  <2>2. UNCHANGED <<closed, permit, notified, rx>>
        /\ \A r \in Senders : r # s => tx'[r] = tx[r]
    BY <1>t, <1>2 DEF Send
  <2>3. tx[s] = "idle"
    BY <1>2 DEF Send
  <2> QED BY <2>1, <2>2, <2>3
<1>3. ASSUME NEW s \in Senders, Notify(s) PROVE WakeInv'
  <2>1. UNCHANGED <<queue, closed, rx>> /\ tx[s] = "pushed"
        /\ \A r \in Senders : r # s => tx'[r] = tx[r]
    BY <1>t, <1>3 DEF Notify
  <2>2. CASE notified = "queued"
    <3>1. notified' = "one" /\ permit' = permit
      BY <1>3, <2>2 DEF Notify, NotifyOne
    <3> QED BY <1>t, <2>1, <2>2, <3>1
  <2>3. CASE notified # "queued"
    <3>1. permit' /\ notified' = notified
      BY <1>3, <2>3 DEF Notify, NotifyOne
    <3> QED BY <1>t, <2>1, <2>3, <3>1
  <2> QED BY <2>2, <2>3
<1>4. ASSUME NEW s \in Senders, DropHandle(s) PROVE WakeInv'
  BY <1>t, <1>4 DEF DropHandle
<1>5. ASSUME NEW s \in Senders, StoreClosed(s) PROVE WakeInv'
  \* The end is there, and so is the handle that will signal it.
  <2>1. tx'[s] \in {"dropping", "closing"}
    BY <1>t, <1>5 DEF StoreClosed
  <2>2. UNCHANGED <<queue, permit, notified, rx>>
        /\ \A r \in Senders : r # s => tx'[r] = tx[r]
    BY <1>t, <1>5 DEF StoreClosed
  <2>3. tx[s] \in {"idle", "last"}
    BY <1>5 DEF StoreClosed
  <2> QED BY <2>1, <2>2, <2>3
<1>6. ASSUME NEW s \in Senders, WakeAll(s) PROVE WakeInv'
  <2>1. UNCHANGED <<queue, closed, rx, permit>>
    BY <1>6 DEF WakeAll, NotifyWaiters
  <2>2. ~Unmarked' /\ FutureMatches' /\ notified' # "queued"
    BY <1>t, <1>6, <2>1 DEF WakeAll, NotifyWaiters
  <2> QED BY <2>1, <2>2
<1>7. CASE RecvBegin
  BY <1>7 DEF RecvBegin
<1>8. CASE RecvCheck
  \* Falling asleep starts from a queue found empty and not closed.
  <2>1. CASE queue # <<>>
    BY <1>8, <2>1 DEF RecvCheck
  <2>2. CASE queue = <<>> /\ closed
    BY <1>8, <2>2 DEF RecvCheck
  <2>3. CASE queue = <<>> /\ ~closed
    <3>1. queue' = <<>> /\ rx' = "empty" /\ UNCHANGED <<closed, notified, permit>>
      BY <1>8, <2>3 DEF RecvCheck
    <3> QED BY <1>8, <2>3, <3>1 DEF RecvCheck
  <2> QED BY <2>1, <2>2, <2>3
<1>9. CASE RecvPoll
  BY <1>9 DEF RecvPoll
<1>10. CASE RecvWake
  BY <1>10 DEF RecvWake
<1>11. CASE RecvCancel
  BY <1>11 DEF RecvCancel
<1>12. CASE UNCHANGED vars
  BY <1>12 DEF vars
<1> QED
  BY <1>1, <1>2, <1>3, <1>4, <1>5, <1>6, <1>7, <1>8, <1>9, <1>10, <1>11, <1>12
  DEF Next

\* A receiver never sleeps through an element or through the close.
THEOREM NoWakeupIsLost == Spec => []NoLostWakeup
<1>1. Init => TypeOK /\ WakeInv
  BY TypeInit, WakeInit
<1>2. TypeOK /\ WakeInv /\ [Next]_vars => TypeOK' /\ WakeInv'
  BY TypeStep, WakeStep
<1>3. WakeInv => NoLostWakeup
  BY DEF WakeInv, Unmarked, NoLostWakeup
<1> QED BY <1>1, <1>2, <1>3, PTL DEF Spec

-----------------------------------------------------------------------------
(* The end of the channel.                                                 *)

\* Where the queue begins tells what is left in it after the end.
DrainInv ==
  /\ closedAt <= pushed
  /\ rx = "ended" => closed /\ closedAt <= pushed - Len(queue)

LEMMA DrainInit == Init => DrainInv
BY DEF Init, DrainInv

LEMMA SendGrowsByOne ==
  ASSUME TypeOK, NEW s \in Senders, Send(s)
  PROVE  Len(queue') \in Nat /\ Len(queue') <= Len(queue) + 1
<1>1. Len(queue) \in Nat
  BY DEF TypeOK
<1>2. CASE Len(queue) < Capacity
  <2>1. queue' = Append(queue, pushed + 1)
    BY <1>1, <1>2, ChannelAssumption DEF Send
  <2> QED BY <1>1, <2>1, AppendProperties DEF TypeOK
<1>3. CASE Len(queue) >= Capacity
  <2>1. queue' = Append(Tail(queue), pushed + 1) /\ queue # <<>>
    BY <1>1, <1>3, ChannelAssumption DEF Send
  <2> QED BY <1>1, <2>1, AppendProperties, HeadTailProperties DEF TypeOK
<1> QED BY <1>1, <1>2, <1>3, ChannelAssumption

LEMMA DrainStep == TypeOK /\ DrainInv /\ [Next]_vars => DrainInv'
<1> SUFFICES ASSUME TypeOK, DrainInv, [Next]_vars PROVE DrainInv'
  OBVIOUS
<1>0. pushed \in Nat /\ closedAt \in Nat /\ Len(queue) \in Nat /\ rx \in RxStates
  BY DEF TypeOK
<1> USE DEF DrainInv
<1>1. ASSUME NEW s \in Senders, Send(s) PROVE DrainInv'
  <2>1. pushed' = pushed + 1 /\ UNCHANGED <<closed, closedAt, rx>>
    BY <1>1 DEF Send
  <2> QED BY <1>0, <1>1, <2>1, SendGrowsByOne
<1>2. ASSUME NEW s \in Senders, StoreClosed(s) PROVE DrainInv'
  <2>1. UNCHANGED <<queue, pushed, rx>> /\ closed' = TRUE
        /\ closedAt' = IF closed THEN closedAt ELSE pushed
    BY <1>2 DEF StoreClosed
  <2> QED BY <1>0, <2>1
<1>3. CASE RecvCheck
  <2>1. UNCHANGED <<pushed, closed, closedAt>>
    BY <1>3 DEF RecvCheck
  <2>2. CASE queue # <<>>
    BY <1>0, <1>3, <2>1, <2>2 DEF RecvCheck
  <2>3. CASE queue = <<>>
    <3>1. Len(queue) = 0 /\ queue' = queue /\ (rx' = "ended" => closed)
      BY <1>3, <2>3 DEF RecvCheck
    <3> QED BY <1>0, <2>1, <3>1
  <2> QED BY <2>2, <2>3
<1>4. CASE UNCHANGED <<queue, pushed, closed, closedAt, rx>>
  BY <1>4
<1>5. ASSUME NEW s \in Senders, NEW t \in Senders,
             Clone(s, t) \/ Notify(s) \/ DropHandle(s) \/ WakeAll(s)
      PROVE  UNCHANGED <<queue, pushed, closed, closedAt, rx>>
  BY <1>5 DEF Clone, Notify, DropHandle, WakeAll
<1>6. CASE RecvBegin \/ RecvPoll \/ RecvWake \/ RecvCancel
  <2>1. UNCHANGED <<queue, pushed, closed, closedAt>> /\ rx' # "ended"
    BY <1>6 DEF RecvBegin, RecvPoll, RecvWake, RecvCancel
  <2> QED BY <2>1
<1> QED BY <1>1, <1>2, <1>3, <1>4, <1>5, <1>6 DEF Next, vars

\* The end is announced only when all that was pushed before the close has
\* left the queue.
THEOREM EndIsDrained == Spec => []EndMeansDrained
<1>1. Init => TypeOK /\ Accounting /\ DrainInv
  BY TypeInit, AccountingInit, DrainInit
<1>2. TypeOK /\ Accounting /\ DrainInv /\ [Next]_vars =>
        TypeOK' /\ Accounting' /\ DrainInv'
  BY TypeStep, AccountingStep, DrainStep
<1>3. TypeOK /\ Accounting /\ DrainInv => EndMeansDrained
  <2> SUFFICES ASSUME TypeOK, Accounting, DrainInv, rx = "ended",
                      NEW i \in 1..Len(queue)
               PROVE  closed /\ queue[i] > closedAt
    BY DEF EndMeansDrained, DrainInv
  <2>1. queue[i] = pushed - Len(queue) + i
    BY DEF Accounting, KeepsNewest
  <2>2. closed /\ closedAt <= pushed - Len(queue)
    BY DEF DrainInv
  <2>3. pushed \in Nat /\ closedAt \in Nat /\ Len(queue) \in Nat
    BY DEF TypeOK
  <2> QED BY <2>1, <2>2, <2>3
<1> QED BY <1>1, <1>2, <1>3, PTL DEF Spec

-----------------------------------------------------------------------------
(* The count of handles.                                                   *)

LEMMA LiveIsFinite == IsFiniteSet(Live) /\ Live \subseteq Senders
BY ChannelAssumption, FS_Subset DEF Live

LEMMA CountsInit == Init => CountsHandles
<1> SUFFICES ASSUME Init PROVE CountsHandles
  OBVIOUS
<1>1. Live = {First}
  BY ChannelAssumption DEF Init, Live
<1>2. Cardinality(Live) = 1
  BY <1>1, FS_Singleton
<1> QED BY <1>2 DEF Init, CountsHandles

LEMMA CountsStep == TypeOK /\ CountsHandles /\ [Next]_vars => CountsHandles'
<1> SUFFICES ASSUME TypeOK, CountsHandles, [Next]_vars PROVE CountsHandles'
  OBVIOUS
<1>t. tx \in [Senders -> TxStates] /\ senderCount \in Int
  BY DEF TypeOK
<1>f. IsFiniteSet(Live) /\ Cardinality(Live) \in Nat
  BY LiveIsFinite, FS_CardinalityType
<1>1. ASSUME NEW s \in Senders, NEW t \in Senders, Clone(s, t) PROVE CountsHandles'
  <2>1. s \in Live /\ t \notin Live /\ Live' = Live \cup {t}
    BY <1>t, <1>1 DEF Clone, Live, TxStates
  <2>2. Cardinality(Live') = Cardinality(Live) + 1
    BY <1>f, <2>1, FS_AddElement
  <2>3. \A r \in Senders : tx'[r] \notin {"last", "dropping"}
    BY <1>t, <1>1, <2>1 DEF Clone, CountsHandles
  <2> QED BY <1>f, <1>1, <2>2, <2>3 DEF CountsHandles, Clone
<1>2. ASSUME NEW s \in Senders, DropHandle(s) PROVE CountsHandles'
  <2>1. s \in Live /\ Live' = Live \ {s}
    BY <1>t, <1>2 DEF DropHandle, Live, TxStates
  <2>2. Cardinality(Live') = Cardinality(Live) - 1
    BY <1>f, <2>1, FS_RemoveElement
  <2>3. senderCount' = Cardinality(Live')
    BY <1>f, <1>2, <2>2 DEF CountsHandles, DropHandle
  <2>4. ASSUME NEW r \in Senders, tx'[r] \in {"last", "dropping"} PROVE Live' = {}
    <3>1. r = s
      BY <1>t, <1>2, <2>1, <2>4 DEF DropHandle, CountsHandles
    <3>2. senderCount = 1
      BY <1>t, <1>2, <2>4, <3>1 DEF DropHandle
    <3>3. Cardinality(Live') = 0
      BY <1>f, <2>2, <3>2 DEF CountsHandles
    <3> QED BY <1>f, <2>1, <3>3, FS_RemoveElement, FS_EmptySet
  <2> QED BY <2>3, <2>4 DEF CountsHandles
<1>3. ASSUME NEW s \in Senders, Send(s) \/ Notify(s) PROVE CountsHandles'
  <2>1. s \in Live /\ Live' = Live /\ senderCount' = senderCount
    BY <1>t, <1>3 DEF Send, Notify, Live, TxStates
  <2>2. \A r \in Senders : tx'[r] \notin {"last", "dropping"}
    BY <1>t, <1>3, <2>1 DEF Send, Notify, CountsHandles
  <2> QED BY <2>1, <2>2 DEF CountsHandles
<1>4. ASSUME NEW s \in Senders, StoreClosed(s) \/ WakeAll(s) PROVE CountsHandles'
  <2>1. Live' = Live /\ senderCount' = senderCount
    BY <1>t, <1>4 DEF StoreClosed, WakeAll, Live, TxStates
  <2>2. \A r \in Senders : tx'[r] \in {"last", "dropping"} =>
                             tx[r] \in {"last", "dropping"}
    BY <1>t, <1>4 DEF StoreClosed, WakeAll, TxStates
  <2> QED BY <2>1, <2>2 DEF CountsHandles
<1>5. CASE UNCHANGED <<tx, senderCount>>
  BY <1>5 DEF CountsHandles, Live
<1>6. CASE RecvBegin \/ RecvCheck \/ RecvPoll \/ RecvWake \/ RecvCancel
  BY <1>5, <1>6 DEF RecvBegin, RecvCheck, RecvPoll, RecvWake, RecvCancel
<1> QED BY <1>1, <1>2, <1>3, <1>4, <1>5, <1>6 DEF Next, vars

\* sender_count is the number of handles that can still send, and the channel
\* closes itself with the last of them and not before.
THEOREM CountIsExact == Spec => []CountsHandles
<1>1. Init => TypeOK /\ CountsHandles
  BY TypeInit, CountsInit
<1>2. TypeOK /\ CountsHandles /\ [Next]_vars => TypeOK' /\ CountsHandles'
  BY TypeStep, CountsStep
<1> QED BY <1>1, <1>2, PTL DEF Spec

-----------------------------------------------------------------------------
(* Refinement: every step of the channel is a step of the lossy FIFO       *)
(* hand-over or leaves it alone.                                           *)

LEMMA FifoInit == Init => Fifo!Init
BY DEF Init, Fifo!Init

LEMMA FifoStep == TypeOK /\ [Next]_vars => [Fifo!Next]_(Fifo!vars)
<1> SUFFICES ASSUME TypeOK, [Next]_vars PROVE [Fifo!Next]_(Fifo!vars)
  OBVIOUS
<1> USE DEF Fifo!Next, Fifo!vars
<1>1. ASSUME NEW s \in Senders, Send(s) PROVE Fifo!Put
  BY <1>1 DEF Send, Fifo!Put
<1>2. ASSUME NEW s \in Senders, StoreClosed(s) PROVE Fifo!Close
  BY <1>2 DEF StoreClosed, Fifo!Close
<1>3. CASE RecvCheck
  <2>1. CASE queue # <<>>
    <3>1. Fifo!Take
      BY <1>3, <2>1 DEF RecvCheck, Fifo!Take
    <3> QED BY <3>1
  <2>2. CASE queue = <<>> /\ closed
    <3>1. Fifo!End
      BY <1>3, <2>2 DEF RecvCheck, Fifo!End
    <3> QED BY <3>1
  <2>3. CASE queue = <<>> /\ ~closed
    BY <1>3, <2>3 DEF RecvCheck
  <2> QED BY <2>1, <2>2, <2>3
<1>4. ASSUME NEW s \in Senders, NEW t \in Senders,
             Clone(s, t) \/ Notify(s) \/ DropHandle(s) \/ WakeAll(s)
      PROVE  UNCHANGED Fifo!vars
  BY <1>4 DEF Clone, Notify, DropHandle, WakeAll
<1>5. CASE RecvBegin \/ RecvPoll \/ RecvWake \/ RecvCancel
  BY <1>5 DEF RecvBegin, RecvPoll, RecvWake, RecvCancel
<1>6. CASE UNCHANGED vars
  BY <1>6 DEF vars
<1> QED BY <1>1, <1>2, <1>3, <1>4, <1>5, <1>6 DEF Next

\* Up to liveness, the channel is the lossy FIFO hand-over.
THEOREM RefinesFifo == Spec => Fifo!Init /\ [][Fifo!Next]_(Fifo!vars)
<1>1. Init => TypeOK /\ Fifo!Init
  BY TypeInit, FifoInit
<1>2. TypeOK /\ [Next]_vars => TypeOK' /\ [Fifo!Next]_(Fifo!vars)
  BY TypeStep, FifoStep
<1> QED BY <1>1, <1>2, PTL DEF Spec

-----------------------------------------------------------------------------
(* Signals.                                                                *)

Processes == [number : Nat, born : Nat]
Stages == {"denied", "asked", "read", "sleep", "failed", "found", "same", "spared", "over", "lost"}
Attempts == [pid : AskedPids, stage : Stages, wait : Nat, start : Nat \cup {Unread},
             raced : BOOLEAN, blind : BOOLEAN, lastBorn : Nat]
Hits == [attempt : Nat, signal : {"term", "kill"}, pid : Nat, process : Processes]

SignalTypes ==
  /\ tick \in Nat /\ spawned \in Nat
  /\ \A p \in DOMAIN living :
       living[p] \in Processes /\ living[p].number <= spawned /\ living[p].born <= tick
  /\ \A p, q \in DOMAIN living : living[p].number = living[q].number => p = q
  /\ terms \in Seq(Attempts) /\ hits \subseteq Hits

\* The last holder of the pid is the one that lives, and the first kill was after the start
\* time was read.
AttemptKept(t) ==
  /\ t.stage # "denied" => ~InvalidPid(t.pid)
  /\ t.lastBorn <= tick
  /\ t.pid \in DOMAIN living => living[t.pid].born = t.lastBorn
  /\ t.start = Unread \/ t.start <= t.lastBorn
  /\ t.stage = "spared" /\ ~t.blind /\ t.pid \in DOMAIN living => living[t.pid].born # t.start

Spoken(k) == \E h \in hits : h.attempt = k /\ h.signal = "term"
Aimed(k) ==
  \E h \in hits : h.attempt = k /\ h.signal = "term"
    /\ (terms[k].pid \in DOMAIN living => living[terms[k].pid] = h.process)

HitKept(h) ==
  LET t == terms[h.attempt] IN
  /\ h.attempt \in DOMAIN terms /\ h.pid = t.pid
  /\ t.stage \notin {"denied", "asked", "read"}
  /\ h.process.number <= spawned /\ h.process.born <= t.lastBorn
  /\ t.start = Unread \/ t.start <= h.process.born
  /\ h.pid \in DOMAIN living /\ h.process.born = t.lastBorn => living[h.pid] = h.process
  /\ \A q \in DOMAIN living : living[q].number = h.process.number => q = h.pid

KillKept(h) ==
  h.signal = "kill" =>
    /\ terms[h.attempt].stage = "over"
    /\ \/ terms[h.attempt].start = Unread \/ terms[h.attempt].raced
       \/ \E t \in hits : t.attempt = h.attempt /\ t.signal = "term" /\ t.process = h.process

SignalsInv ==
  /\ SignalTypes
  /\ \A k \in DOMAIN terms :
       /\ AttemptKept(terms[k])
       /\ terms[k].stage \in {"sleep", "found"} => Spoken(k)
       /\ terms[k].stage = "same" /\ ~terms[k].raced /\ terms[k].start # Unread => Aimed(k)
  /\ \A h \in hits : HitKept(h) /\ KillKept(h)

LEMMA SignalsInitially == SurroundingsInit => SignalsInv
<1> SUFFICES ASSUME SurroundingsInit PROVE SignalsInv
  OBVIOUS
<1>1. SignalsInit
  BY DEF SurroundingsInit, EffectsInit
<1>2. /\ terms = <<>> /\ hits = {} /\ tick = 1 /\ spawned = 2
      /\ \A p \in DOMAIN living : living[p] = [number |-> IF p = 1 THEN 1 ELSE 2, born |-> 0]
      /\ DOMAIN living = {1, OwnPid}
  BY <1>1 DEF SignalsInit
<1>3. SignalTypes
  BY <1>2 DEF SignalTypes, Processes
<1> QED BY <1>2, <1>3 DEF SignalsInv

\* A pid the guard let through is that of one process, if of any.
LEMMA ValidPid ==
  ASSUME NEW pid \in AskedPids, ~InvalidPid(pid)
  PROVE  /\ pid \in Nat /\ pid > 1 /\ pid # OwnPid /\ Signed(pid) = pid
         /\ Receivers(Signed(pid)) = {pid} \cap DOMAIN living
<1>1. 2^(PidBits - 1) \in Int /\ 2^PidBits \in Int
  BY EffectsAssumption
<1>2. pid \in Nat /\ pid # 0 /\ pid # 1 /\ pid # OwnPid /\ ~(pid > 2^(PidBits - 1) - 1)
  BY <1>1, EffectsAssumption DEF InvalidPid
<1>3. Signed(pid) = pid
  BY <1>1, <1>2 DEF Signed
<1> QED BY <1>2, <1>3 DEF Receivers

LEMMA SignalTypesAttempt ==
  ASSUME SignalTypes, NEW k \in DOMAIN terms
  PROVE  terms[k] \in Attempts /\ k \in 1..Len(terms) /\ Len(terms) \in Nat
BY DEF SignalTypes

\* Time passes; what is written of an attempt is bounded by it.
LEMMA SignalsTick ==
  ASSUME SignalsInv, tick' = tick + 1, UNCHANGED <<living, spawned, terms, hits>>
  PROVE  SignalsInv'
<1>1. SignalTypes'
  BY DEF SignalsInv, SignalTypes, Processes
<1>2. ASSUME NEW k \in DOMAIN terms PROVE AttemptKept(terms[k])'
  BY <1>2, SignalTypesAttempt DEF SignalsInv, SignalTypes, AttemptKept, Attempts
<1>3. ASSUME NEW h \in hits PROVE HitKept(h)' /\ KillKept(h)'
  BY <1>3 DEF SignalsInv, HitKept, KillKept
<1> QED BY <1>1, <1>2, <1>3 DEF SignalsInv, Spoken, Aimed

LEMMA SignalsUnchanged ==
  ASSUME SignalsInv, UNCHANGED signals
  PROVE  SignalsInv'
<1>1. SignalTypes'
  BY DEF SignalsInv, SignalTypes, signals
<1>2. ASSUME NEW k \in DOMAIN terms PROVE AttemptKept(terms[k])'
  BY <1>2 DEF SignalsInv, AttemptKept, signals
<1>3. ASSUME NEW h \in hits PROVE HitKept(h)' /\ KillKept(h)'
  BY <1>3 DEF SignalsInv, HitKept, KillKept, signals
<1> QED BY <1>1, <1>2, <1>3 DEF SignalsInv, Spoken, Aimed, signals

\* A process begins, under a pid that may have been another's.
LEMMA SignalsSpawn ==
  ASSUME SignalsInv, NEW p \in Positive, Spawn(p)
  PROVE  SignalsInv'
<1> DEFINE new == [number |-> spawned + 1, born |-> tick]
<1> DEFINE After1(t) == IF t.pid = p THEN [t EXCEPT !.lastBorn = tick, !.raced = t.raced \/ t.stage = "same"] ELSE t
<1>0. SignalTypes /\ p \notin DOMAIN living /\ tick \in Nat /\ spawned \in Nat
  BY DEF SignalsInv, SignalTypes, Spawn
<1>1. /\ DOMAIN living' = DOMAIN living \cup {p} /\ living'[p] = new
      /\ \A q \in DOMAIN living : q # p /\ living'[q] = living[q]
      /\ spawned' = spawned + 1 /\ tick' = tick /\ hits' = hits
  BY <1>0 DEF Spawn, With, signals
<1>2. /\ terms' = [k \in DOMAIN terms |-> After1(terms[k])] /\ DOMAIN terms' = DOMAIN terms
      /\ \A k \in DOMAIN terms : terms'[k] = After1(terms[k])
      /\ \A k \in DOMAIN terms : terms[k].pid = p => terms[k].lastBorn < tick
  BY DEF Spawn
<1>3. ASSUME NEW k \in DOMAIN terms
      PROVE  /\ terms'[k] \in Attempts /\ terms'[k].pid = terms[k].pid /\ terms'[k].stage = terms[k].stage
             /\ terms'[k].start = terms[k].start /\ terms'[k].blind = terms[k].blind
             /\ terms'[k].pid # p => terms'[k] = terms[k]
             /\ terms'[k].pid = p => terms'[k].lastBorn = tick
             /\ terms[k].raced => terms'[k].raced
             /\ terms[k].pid = p /\ terms[k].stage = "same" => terms'[k].raced
  <2>1. terms[k] \in Attempts /\ terms'[k] = After1(terms[k])
    BY <1>0, <1>2, SignalTypesAttempt
  <2>2. CASE terms[k].pid = p
    <3> DEFINE raced == terms[k].raced \/ terms[k].stage = "same"
    <3>1. terms'[k] = [terms[k] EXCEPT !.lastBorn = tick, !.raced = raced]
      BY <2>1, <2>2
    <3>2. raced \in BOOLEAN
      OBVIOUS
    <3>4. (terms[k].raced => raced) /\ (terms[k].stage = "same" => raced)
      OBVIOUS
    <3> HIDE DEF raced
    <3>3. terms'[k] = [pid |-> terms[k].pid, stage |-> terms[k].stage, wait |-> terms[k].wait,
                       start |-> terms[k].start, raced |-> raced, blind |-> terms[k].blind,
                       lastBorn |-> tick]
      BY <3>1, <2>1 DEF Attempts
    <3>5. terms'[k] \in Attempts /\ terms'[k].raced = raced
      BY <3>2, <3>3, <2>1, <1>0 DEF Attempts
    <3> QED BY <3>3, <3>4, <3>5, <2>2
  <2>3. CASE terms[k].pid # p
    BY <2>1, <2>3
  <2> QED BY <2>2, <2>3
<1> HIDE DEF After1
<1>4. SignalTypes'
  <2>1. terms' \in Seq(Attempts)
    <3>1. terms' = [k \in DOMAIN terms |-> terms'[k]]
      BY <1>2
    <3>2. DOMAIN terms = 1..Len(terms) /\ Len(terms) \in Nat
      BY <1>0 DEF SignalTypes
    <3> QED BY <1>3, <3>1, <3>2
  <2>2. new \in Processes
    BY <1>0 DEF Processes
  <2>3. \A q \in DOMAIN living : living[q].number # new.number /\ living[q] \in Processes
    BY <1>0 DEF SignalTypes, Processes
  <2>4. ASSUME NEW q \in DOMAIN living'
        PROVE  living'[q] \in Processes /\ living'[q].number <= spawned' /\ living'[q].born <= tick'
    <3>1. CASE q = p
      BY <3>1, <1>0, <1>1, <2>2
    <3>2. CASE q \in DOMAIN living
      BY <3>2, <1>0, <1>1 DEF SignalTypes, Processes
    <3> QED BY <3>1, <3>2, <1>1
  <2>5. ASSUME NEW q \in DOMAIN living', NEW r \in DOMAIN living', living'[q].number = living'[r].number
        PROVE  q = r
    BY <2>5, <1>0, <1>1, <2>3 DEF SignalTypes
  <2> QED BY <1>0, <1>1, <2>1, <2>4, <2>5 DEF SignalTypes
<1>5. ASSUME NEW k \in DOMAIN terms' 
      PROVE  /\ AttemptKept(terms[k])'
             /\ terms'[k].stage \in {"sleep", "found"} => Spoken(k)'
             /\ terms'[k].stage = "same" /\ ~terms'[k].raced /\ terms'[k].start # Unread => Aimed(k)'
  <2>1. AttemptKept(terms[k]) /\ terms[k] \in Attempts
    BY <1>0, <1>2, SignalTypesAttempt DEF SignalsInv
  <2>2. AttemptKept(terms[k])'
    <3>1. CASE terms[k].pid = p
      BY <3>1, <2>1, <1>0, <1>1, <1>2, <1>3 DEF AttemptKept, Attempts, Unread
    <3>2. CASE terms[k].pid # p
      BY <3>2, <2>1, <1>0, <1>1, <1>2, <1>3 DEF AttemptKept
    <3> QED BY <3>1, <3>2
  <2>3. terms'[k].stage \in {"sleep", "found"} => Spoken(k)'
    BY <1>1, <1>2, <1>3 DEF SignalsInv, Spoken
  <2>4. terms'[k].stage = "same" /\ ~terms'[k].raced /\ terms'[k].start # Unread => Aimed(k)'
    <3>1. CASE terms[k].pid = p
      BY <3>1, <1>2, <1>3
    <3>2. CASE terms[k].pid # p
      BY <3>2, <1>1, <1>2, <1>3 DEF SignalsInv, Aimed
    <3> QED BY <3>1, <3>2
  <2> QED BY <2>2, <2>3, <2>4
<1>6. ASSUME NEW h \in hits PROVE HitKept(h)' /\ KillKept(h)'
  <2> DEFINE k == h.attempt
  <2>1. HitKept(h) /\ KillKept(h) /\ h \in Hits /\ k \in DOMAIN terms /\ terms[k] \in Attempts
    BY <1>0, SignalTypesAttempt DEF SignalsInv, SignalTypes, HitKept
  <2>2. h.process.number # new.number
    BY <2>1, <1>0 DEF HitKept, Hits, Processes
  <2>3. HitKept(h)'
    <3>1. CASE terms[k].pid = p
      BY <3>1, <2>1, <2>2, <1>0, <1>1, <1>2, <1>3 DEF HitKept, Attempts, Hits, Processes
    <3>2. CASE terms[k].pid # p
      BY <3>2, <2>1, <2>2, <1>0, <1>1, <1>2, <1>3 DEF HitKept, Hits, Processes
    <3> QED BY <3>1, <3>2
  <2>4. KillKept(h)'
    BY <2>1, <1>1, <1>2, <1>3 DEF KillKept
  <2> QED BY <2>3, <2>4
<1> QED BY <1>1, <1>2, <1>4, <1>5, <1>6 DEF SignalsInv

\* One attempt goes on, without a signal.
LEMMA OneAttempt ==
  ASSUME SignalsInv, UNCHANGED <<tick, living, spawned, hits>>,
         NEW k \in DOMAIN terms, NEW t \in Attempts, terms' = [terms EXCEPT ![k] = t],
         t.pid = terms[k].pid, t.lastBorn = terms[k].lastBorn, t.raced = terms[k].raced,
         AttemptKept(t),
         t.stage \in {"sleep", "found"} => Spoken(k),
         t.stage = "same" /\ ~t.raced /\ t.start # Unread => Aimed(k),
         \A h \in hits : h.attempt = k =>
           /\ t.start = terms[k].start /\ t.stage \notin {"denied", "asked", "read"}
           /\ terms[k].stage = "over" => t.stage = "over"
  PROVE  SignalsInv'
<1>1. /\ DOMAIN terms' = DOMAIN terms /\ terms'[k] = t
      /\ \A j \in DOMAIN terms : j # k => terms'[j] = terms[j]
      /\ \A j \in DOMAIN terms : terms'[j].pid = terms[j].pid /\ terms'[j].lastBorn = terms[j].lastBorn
                                 /\ terms'[j].raced = terms[j].raced
  OBVIOUS
<1>2. SignalTypes'
  BY DEF SignalsInv, SignalTypes
<1>3. ASSUME NEW j \in DOMAIN terms'
      PROVE  /\ AttemptKept(terms[j])'
             /\ terms'[j].stage \in {"sleep", "found"} => Spoken(j)'
             /\ terms'[j].stage = "same" /\ ~terms'[j].raced /\ terms'[j].start # Unread => Aimed(j)'
  <2>1. CASE j = k
    BY <2>1, <1>1 DEF AttemptKept, Spoken, Aimed
  <2>2. CASE j # k
    BY <2>2, <1>1 DEF SignalsInv, AttemptKept, Spoken, Aimed
  <2> QED BY <2>1, <2>2
<1>4. ASSUME NEW h \in hits PROVE HitKept(h)' /\ KillKept(h)'
  <2>1. HitKept(h) /\ KillKept(h) /\ h.attempt \in DOMAIN terms
    BY DEF SignalsInv, HitKept
  <2>2. CASE h.attempt = k
    <3>1. HitKept(h)'
      BY <2>1, <2>2, <1>1 DEF HitKept
    <3>2. KillKept(h)'
      BY <2>1, <2>2, <1>1 DEF KillKept
    <3> QED BY <3>1, <3>2
  <2>3. CASE h.attempt # k
    BY <2>1, <2>3, <1>1 DEF HitKept, KillKept
  <2> QED BY <2>2, <2>3
<1> QED BY <1>1, <1>2, <1>3, <1>4 DEF SignalsInv

LEMMA SignalsAsk ==
  ASSUME SignalsInv, NEW pid \in AskedPids, NEW asked_ \in AskedGraces, AskTerminate(pid, asked_)
  PROVE  SignalsInv'
<1> DEFINE t == [pid |-> pid, stage |-> IF InvalidPid(pid) THEN "denied" ELSE "asked",
                 wait |-> Grace(asked_), start |-> Unread, raced |-> FALSE, blind |-> FALSE,
                 lastBorn |-> IF pid \in DOMAIN living THEN living[pid].born ELSE 0]
<1>1. terms' = Append(terms, t) /\ UNCHANGED <<tick, living, spawned, hits>>
  BY DEF AskTerminate
<1>2. SignalTypes /\ tick \in Nat /\ spawned \in Nat /\ terms \in Seq(Attempts)
  BY DEF SignalsInv, SignalTypes
<1>3. t \in Attempts
  <2>1. Grace(asked_) \in Nat
    BY EffectsAssumption DEF Grace, Clamp, Larger
  <2>2. pid \in DOMAIN living => living[pid].born \in Nat
    BY <1>2 DEF SignalTypes, Processes
  <2> QED BY <2>1, <2>2 DEF Attempts, Stages
<1>4. AttemptKept(t) /\ t.stage \in {"denied", "asked"}
  BY <1>2, EffectsAssumption DEF AttemptKept, Unread, SignalTypes, Processes
<1> HIDE DEF t
<1>5. /\ terms' \in Seq(Attempts) /\ DOMAIN terms' = DOMAIN terms \cup {Len(terms) + 1}
      /\ Len(terms) + 1 \notin DOMAIN terms /\ terms'[Len(terms) + 1] = t
      /\ \A j \in DOMAIN terms : terms'[j] = terms[j]
  BY <1>1, <1>2, <1>3
<1>6. SignalTypes'
  BY <1>1, <1>2, <1>5 DEF SignalTypes
<1>7. ASSUME NEW j \in DOMAIN terms'
      PROVE  /\ AttemptKept(terms[j])'
             /\ terms'[j].stage \in {"sleep", "found"} => Spoken(j)'
             /\ terms'[j].stage = "same" /\ ~terms'[j].raced /\ terms'[j].start # Unread => Aimed(j)'
  <2>1. CASE j = Len(terms) + 1
    BY <2>1, <1>1, <1>4, <1>5 DEF AttemptKept
  <2>2. CASE j \in DOMAIN terms
    BY <2>2, <1>1, <1>5 DEF SignalsInv, AttemptKept, Spoken, Aimed
  <2> QED BY <2>1, <2>2, <1>5
<1>8. ASSUME NEW h \in hits PROVE HitKept(h)' /\ KillKept(h)'
  <2>1. HitKept(h) /\ KillKept(h) /\ h.attempt \in DOMAIN terms
    BY DEF SignalsInv, HitKept
  <2> QED BY <2>1, <1>1, <1>5 DEF HitKept, KillKept
<1> QED BY <1>1, <1>6, <1>7, <1>8 DEF SignalsInv

\* What an attempt that is under way knows.
LEMMA UnderWay ==
  ASSUME SignalsInv, NEW k \in DOMAIN terms, terms[k].stage # "denied"
  PROVE  /\ terms[k] \in Attempts /\ AttemptKept(terms[k]) /\ ~InvalidPid(terms[k].pid)
         /\ Receivers(Signed(terms[k].pid)) = {terms[k].pid} \cap DOMAIN living
         /\ Signed(terms[k].pid) = terms[k].pid
         /\ terms[k].pid \in Nat
<1>1. terms[k] \in Attempts /\ AttemptKept(terms[k])
  BY SignalTypesAttempt DEF SignalsInv
<1>2. ~InvalidPid(terms[k].pid) /\ terms[k].pid \in AskedPids
  BY <1>1 DEF AttemptKept, Attempts
<1> QED BY <1>1, <1>2, ValidPid

LEMMA SignalsRead ==
  ASSUME SignalsInv, NEW k \in DOMAIN terms, ReadStart(k)
  PROVE  SignalsInv'
<1>1. PICK start \in StartTime(terms[k].pid) :
        terms' = [terms EXCEPT ![k].stage = "read", ![k].start = start]
  BY DEF ReadStart
<1> DEFINE t == [terms[k] EXCEPT !.stage = "read", !.start = start]
<1>2. terms[k].stage = "asked" /\ UNCHANGED <<tick, living, spawned, hits>>
  BY DEF ReadStart
<1>3. /\ terms[k] \in Attempts /\ AttemptKept(terms[k]) /\ Signed(terms[k].pid) = terms[k].pid
      /\ terms[k].pid \in Nat
  BY <1>2, UnderWay
<1>4. start = Unread \/ (terms[k].pid \in DOMAIN living /\ start = living[terms[k].pid].born)
  BY <1>1, <1>3 DEF StartTime
<1>5. start = Unread \/ (start \in Nat /\ start <= terms[k].lastBorn)
  BY <1>3, <1>4 DEF AttemptKept, SignalsInv, SignalTypes, Processes, Attempts
<1>6. t \in Attempts
  BY <1>3, <1>5 DEF Attempts, Stages
<1>7. \A h \in hits : h.attempt # k
  BY <1>2 DEF SignalsInv, HitKept
<1>8. terms' = [terms EXCEPT ![k] = t]
  BY <1>1, <1>3
<1>9. /\ t.pid = terms[k].pid /\ t.lastBorn = terms[k].lastBorn /\ t.raced = terms[k].raced
      /\ t.stage = "read" /\ t.start = start
  BY <1>3 DEF Attempts
<1> HIDE DEF t
<1>10. AttemptKept(t)
  BY <1>2, <1>3, <1>5, <1>9 DEF AttemptKept
<1> QED BY <1>2, <1>6, <1>7, <1>8, <1>9, <1>10, OneAttempt

LEMMA SignalsLook ==
  ASSUME SignalsInv, NEW k \in DOMAIN terms, LookAgain(k)
  PROVE  SignalsInv'
<1> DEFINE stage == IF Receivers(Signed(terms[k].pid)) = {} THEN "over" ELSE "found"
<1> DEFINE t == [terms[k] EXCEPT !.stage = stage]
<1>1. terms' = [terms EXCEPT ![k].stage = stage] /\ terms[k].stage = "sleep"
      /\ UNCHANGED <<tick, living, spawned, hits>> /\ stage \in {"over", "found"}
  BY DEF LookAgain
<1> HIDE DEF stage
<1>2. terms[k] \in Attempts /\ AttemptKept(terms[k])
  BY <1>1, UnderWay
<1>3. /\ t.pid = terms[k].pid /\ t.lastBorn = terms[k].lastBorn /\ t.raced = terms[k].raced
      /\ t.stage = stage /\ t.start = terms[k].start /\ t.blind = terms[k].blind
      /\ t \in Attempts /\ terms' = [terms EXCEPT ![k] = t]
  BY <1>1, <1>2 DEF Attempts, Stages
<1> HIDE DEF t
<1>4. AttemptKept(t)
  BY <1>1, <1>2, <1>3 DEF AttemptKept
<1>5. Spoken(k)
  BY <1>1 DEF SignalsInv
<1> QED BY <1>1, <1>3, <1>4, <1>5, OneAttempt

LEMMA SignalsCompare ==
  ASSUME SignalsInv, NEW k \in DOMAIN terms, Compare(k)
  PROVE  SignalsInv'
<1>1. PICK current \in StartTime(terms[k].pid) :
        terms' = [terms EXCEPT ![k].stage = IF terms[k].start \in {Unread, current} THEN "same" ELSE "spared",
                               ![k].blind = current = Unread]
  BY DEF Compare
<1> DEFINE stage == IF terms[k].start \in {Unread, current} THEN "same" ELSE "spared"
<1> DEFINE blind == current = Unread
<1> DEFINE t == [terms[k] EXCEPT !.stage = stage, !.blind = blind]
<1>2. terms[k].stage = "found" /\ UNCHANGED <<tick, living, spawned, hits>>
  BY DEF Compare
<1>3. terms[k] \in Attempts /\ AttemptKept(terms[k]) /\ Signed(terms[k].pid) = terms[k].pid
      /\ terms[k].pid \in Nat
  BY <1>2, UnderWay
<1>4. current = Unread \/ (terms[k].pid \in DOMAIN living /\ current = living[terms[k].pid].born)
  BY <1>1, <1>3 DEF StartTime
<1>5. blind \in BOOLEAN /\ (blind <=> current = Unread) /\ stage \in {"same", "spared"}
      /\ (stage = "same" <=> terms[k].start \in {Unread, current})
      /\ terms' = [terms EXCEPT ![k].stage = stage, ![k].blind = blind]
  BY <1>1
<1> HIDE DEF stage, blind
<1>6. /\ t.pid = terms[k].pid /\ t.lastBorn = terms[k].lastBorn /\ t.raced = terms[k].raced
      /\ t.stage = stage /\ t.start = terms[k].start /\ (t.blind <=> blind)
      /\ t \in Attempts /\ terms' = [terms EXCEPT ![k] = t]
  BY <1>3, <1>5 DEF Attempts, Stages
<1> HIDE DEF t
<1>7. AttemptKept(t)
  <2>1. stage = "spared" /\ ~blind => terms[k].pid \in DOMAIN living /\ living[terms[k].pid].born # terms[k].start
    BY <1>4, <1>5
  <2> QED BY <2>1, <1>2, <1>3, <1>6 DEF AttemptKept
<1>8. ASSUME t.stage = "same", ~t.raced, t.start # Unread PROVE Aimed(k)
  <2>1. current # Unread /\ terms[k].start = current /\ current = living[terms[k].pid].born
        /\ terms[k].pid \in DOMAIN living
    BY <1>8, <1>4, <1>5, <1>6
  <2>2. PICK h \in hits : h.attempt = k /\ h.signal = "term"
    BY <1>2 DEF SignalsInv, Spoken
  <2>3. HitKept(h) /\ h \in Hits
    BY DEF SignalsInv, SignalTypes
  <2>4. h.process.born <= terms[k].lastBorn /\ terms[k].start <= h.process.born
        /\ terms[k].lastBorn = current
    BY <2>1, <2>2, <2>3, <1>3 DEF HitKept, AttemptKept
  <2>5. h.process.born = terms[k].lastBorn
    BY <2>1, <2>3, <2>4, <1>3 DEF Hits, Processes, Attempts, Unread
  <2>6. living[terms[k].pid] = h.process
    BY <2>1, <2>2, <2>3, <2>5 DEF HitKept
  <2> QED BY <2>2, <2>6 DEF Aimed
<1>9. t.stage \notin {"sleep", "found", "over", "denied", "asked", "read"} /\ terms[k].stage # "over"
  BY <1>2, <1>5, <1>6
<1> QED BY <1>2, <1>6, <1>7, <1>8, <1>9, OneAttempt

\* SIGTERM reaches the process that has the pid, or nobody.
LEMMA SignalsTerm ==
  ASSUME SignalsInv, NEW k \in DOMAIN terms, SendTerm(k)
  PROVE  SignalsInv'
<1>1. terms[k].stage = "read" /\ UNCHANGED <<tick, living, spawned>>
  BY DEF SendTerm
<1> DEFINE pid == terms[k].pid
<1>2. /\ terms[k] \in Attempts /\ AttemptKept(terms[k]) /\ ~InvalidPid(pid)
      /\ Receivers(Signed(pid)) = {pid} \cap DOMAIN living /\ pid \in Nat
  BY <1>1, UnderWay
<1>3. \A h \in hits : h.attempt # k
  BY <1>1 DEF SignalsInv, HitKept
<1>4. SignalTypes /\ tick \in Nat /\ k \in Nat /\ DOMAIN terms' = DOMAIN terms
  BY SignalTypesAttempt DEF SignalsInv, SignalTypes, SendTerm
<1>5. CASE terms' = [terms EXCEPT ![k].stage = "failed"] /\ UNCHANGED hits
  <2> DEFINE t == [terms[k] EXCEPT !.stage = "failed"]
  <2>1. /\ t.pid = terms[k].pid /\ t.lastBorn = terms[k].lastBorn /\ t.raced = terms[k].raced
        /\ t.stage = "failed" /\ t.start = terms[k].start
        /\ t \in Attempts /\ terms' = [terms EXCEPT ![k] = t]
    BY <1>2, <1>5 DEF Attempts, Stages
  <2> HIDE DEF t
  <2>2. AttemptKept(t)
    BY <1>1, <1>2, <2>1 DEF AttemptKept
  <2> QED BY <1>1, <1>3, <1>5, <2>1, <2>2, OneAttempt
<1>6. CASE /\ Receivers(Signed(pid)) # {} /\ hits' = hits \cup Reached(k, "term")
           /\ terms' = [terms EXCEPT ![k].stage = "sleep", ![k].wait = tick + @]
  <2>a. PICK hit : hit = [attempt |-> k, signal |-> "term", pid |-> pid, process |-> living[pid]]
    OBVIOUS
  <2>b. PICK t : t = [terms[k] EXCEPT !.stage = "sleep", !.wait = tick + terms[k].wait]
    OBVIOUS
  <2>1. pid \in DOMAIN living /\ hits' = hits \cup {hit}
    BY <1>2, <1>6, <2>a DEF Reached
  <2>2. /\ t.pid = pid /\ t.lastBorn = terms[k].lastBorn /\ t.raced = terms[k].raced
        /\ t.stage = "sleep" /\ t.start = terms[k].start
        /\ t \in Attempts
    <3>1. terms[k].wait \in Nat /\ tick + terms[k].wait \in Nat
      BY <1>2, <1>4 DEF Attempts
    <3> QED BY <1>2, <2>b, <3>1 DEF Attempts, Stages
  <2>2a. terms' = [terms EXCEPT ![k] = t]
    BY <1>6, <2>b
  <2>3. hit \in Hits /\ hit.attempt = k /\ hit.signal = "term" /\ hit.pid = pid /\ hit.process = living[pid]
        /\ living[pid] \in Processes
    BY <1>2, <1>4, <2>1, <2>a DEF Hits, SignalTypes
  <2>4. SignalTypes'
    BY <1>1, <1>4, <2>1, <2>2, <2>2a, <2>3 DEF SignalTypes
  <2>5. AttemptKept(t)'
    BY <1>1, <1>2, <2>2 DEF AttemptKept
  <2>6. /\ terms'[k] = t /\ \A j \in DOMAIN terms : j # k => terms'[j] = terms[j]
    BY <2>2a
  <2>7. Spoken(k)'
    BY <2>1, <2>3 DEF Spoken
  <2>8. ASSUME NEW j \in DOMAIN terms'
        PROVE  /\ AttemptKept(terms[j])'
               /\ terms'[j].stage \in {"sleep", "found"} => Spoken(j)'
               /\ terms'[j].stage = "same" /\ ~terms'[j].raced /\ terms'[j].start # Unread => Aimed(j)'
    <3>1. CASE j = k
      BY <3>1, <1>1, <2>2, <2>5, <2>6, <2>7 DEF AttemptKept
    <3>2. CASE j # k
      BY <3>2, <1>1, <1>4, <2>1, <2>6 DEF SignalsInv, AttemptKept, Spoken, Aimed
    <3> QED BY <3>1, <3>2
  <2>9. HitKept(hit)' /\ KillKept(hit)'
    <3>1. living[pid].number <= spawned /\ living[pid].born = t.lastBorn
      BY <1>2, <1>4, <2>1, <2>2 DEF SignalTypes, AttemptKept
    <3>2. t.start = Unread \/ t.start <= living[pid].born
      BY <1>2, <2>2, <3>1 DEF AttemptKept
    <3>3. \A q \in DOMAIN living : living[q].number = living[pid].number => q = pid
      BY <1>4, <2>1 DEF SignalTypes
    <3>4. living[pid].born <= t.lastBorn
      BY <3>1, <2>3 DEF Processes
    <3>5. HitKept(hit)'
      BY <1>1, <1>4, <2>1, <2>2, <2>3, <2>6, <3>1, <3>2, <3>3, <3>4 DEF HitKept
    <3>6. KillKept(hit)'
      BY <2>3 DEF KillKept
    <3> QED BY <3>5, <3>6
  <2>10. ASSUME NEW h \in hits PROVE HitKept(h)' /\ KillKept(h)'
    <3>1. HitKept(h) /\ KillKept(h) /\ h.attempt \in DOMAIN terms /\ h.attempt # k
      BY <1>3 DEF SignalsInv, HitKept
    <3>2. terms'[h.attempt] = terms[h.attempt]
      BY <3>1, <2>6
    <3>3. HitKept(h)'
      BY <3>1, <3>2, <1>1, <1>4 DEF HitKept
    <3>4. KillKept(h)'
      BY <3>1, <3>2, <2>1 DEF KillKept
    <3> QED BY <3>3, <3>4
  <2> QED BY <2>1, <2>4, <2>8, <2>9, <2>10 DEF SignalsInv
<1> QED BY <1>5, <1>6 DEF SendTerm

\* SIGKILL reaches the process that got SIGTERM, or nobody.
LEMMA SignalsKill ==
  ASSUME SignalsInv, NEW k \in DOMAIN terms, SendKill(k)
  PROVE  SignalsInv'
<1> DEFINE pid == terms[k].pid
<1>a. PICK hit : hit = [attempt |-> k, signal |-> "kill", pid |-> pid, process |-> living[pid]]
  OBVIOUS
<1>b. PICK t : t = [terms[k] EXCEPT !.stage = "over"]
  OBVIOUS
<1>1. /\ terms[k].stage = "same" /\ UNCHANGED <<tick, spawned>>
      /\ terms' = [terms EXCEPT ![k].stage = "over"]
      /\ hits' = hits \cup Reached(k, "kill")
      /\ living' = Without(living, Receivers(Signed(pid)))
  BY DEF SendKill
<1>2. /\ terms[k] \in Attempts /\ AttemptKept(terms[k]) /\ ~InvalidPid(pid)
      /\ Receivers(Signed(pid)) = {pid} \cap DOMAIN living /\ pid \in Nat
  BY <1>1, UnderWay
<1>3. /\ t.pid = pid /\ t.lastBorn = terms[k].lastBorn /\ t.raced = terms[k].raced
      /\ t.stage = "over" /\ t.start = terms[k].start
      /\ t \in Attempts /\ terms' = [terms EXCEPT ![k] = t]
  BY <1>1, <1>2, <1>b DEF Attempts, Stages
<1>4. SignalTypes /\ k \in Nat /\ DOMAIN terms' = DOMAIN terms /\ terms'[k] = t
      /\ \A j \in DOMAIN terms : j # k => terms'[j] = terms[j]
  BY <1>3, SignalTypesAttempt DEF SignalsInv, SignalTypes
<1>5. /\ DOMAIN living' = DOMAIN living \ {pid}
      /\ \A q \in DOMAIN living' : living'[q] = living[q]
  BY <1>1, <1>2 DEF Without
<1>6. hits' = IF pid \in DOMAIN living THEN hits \cup {hit} ELSE hits
  BY <1>1, <1>2, <1>a DEF Reached
<1>7. /\ hit.attempt = k /\ hit.signal = "kill" /\ hit.pid = pid /\ hit.process = living[pid]
      /\ pid \in DOMAIN living => hit \in Hits /\ living[pid] \in Processes
  BY <1>2, <1>4, <1>a DEF Hits, SignalTypes
<1>8. SignalTypes'
  <2>1. terms' \in Seq(Attempts)
    BY <1>3, <1>4 DEF SignalTypes
  <2>2. hits' \subseteq Hits
    BY <1>4, <1>6, <1>7 DEF SignalTypes
  <2>3. /\ \A p \in DOMAIN living' :
             living'[p] \in Processes /\ living'[p].number <= spawned' /\ living'[p].born <= tick'
        /\ \A p, q \in DOMAIN living' : living'[p].number = living'[q].number => p = q
    BY <1>1, <1>4, <1>5 DEF SignalTypes
  <2> QED BY <1>1, <1>4, <2>1, <2>2, <2>3 DEF SignalTypes
<1>9. hits \subseteq hits'
  BY <1>6
<1>10. ASSUME NEW j \in DOMAIN terms'
       PROVE  /\ AttemptKept(terms[j])'
              /\ terms'[j].stage \in {"sleep", "found"} => Spoken(j)'
              /\ terms'[j].stage = "same" /\ ~terms'[j].raced /\ terms'[j].start # Unread => Aimed(j)'
  <2>1. CASE j = k
    BY <2>1, <1>1, <1>2, <1>3, <1>4, <1>5 DEF AttemptKept
  <2>2. CASE j # k
    <3>1. AttemptKept(terms[j])'
      BY <2>2, <1>1, <1>4, <1>5 DEF SignalsInv, AttemptKept
    <3>2. terms'[j].stage \in {"sleep", "found"} => Spoken(j)'
      BY <2>2, <1>4, <1>9 DEF SignalsInv, Spoken
    <3>3. terms'[j].stage = "same" /\ ~terms'[j].raced /\ terms'[j].start # Unread => Aimed(j)'
      BY <2>2, <1>4, <1>5, <1>9 DEF SignalsInv, Aimed
    <3> QED BY <3>1, <3>2, <3>3
  <2> QED BY <2>1, <2>2
<1>11. ASSUME pid \in DOMAIN living PROVE HitKept(hit)' /\ KillKept(hit)'
  <2>1. living[pid].number <= spawned /\ living[pid].born = t.lastBorn
    BY <1>2, <1>3, <1>4, <1>11 DEF SignalTypes, AttemptKept
  <2>2. t.start = Unread \/ t.start <= living[pid].born
    BY <1>2, <1>3, <2>1 DEF AttemptKept
  <2>3. living[pid].born <= t.lastBorn
    BY <2>1, <1>7, <1>11 DEF Processes
  <2>4. \A q \in DOMAIN living' : living'[q].number # living[pid].number
    BY <1>4, <1>5, <1>11 DEF SignalTypes
  <2>5. HitKept(hit)'
    <3>1. terms'[k] = t /\ t.pid = pid /\ t.stage = "over" /\ spawned' = spawned /\ k \in DOMAIN terms'
      BY <1>1, <1>3, <1>4
    <3>2. hit.pid \notin DOMAIN living'
      BY <1>5, <1>7
    <3>3. \A q \in DOMAIN living' : living'[q].number # hit.process.number
      BY <1>7, <2>4
    <3> QED BY <1>7, <2>1, <2>2, <2>3, <3>1, <3>2, <3>3 DEF HitKept
  <2>6. terms[k].start = Unread \/ terms[k].raced \/ Aimed(k)
    BY <1>1 DEF SignalsInv
  <2>7. KillKept(hit)'
    <3>1. CASE terms[k].start = Unread \/ terms[k].raced
      BY <3>1, <1>3, <1>4, <1>7 DEF KillKept
    <3>2. CASE Aimed(k)
      BY <3>2, <1>3, <1>4, <1>7, <1>9, <1>11 DEF KillKept, Aimed
    <3> QED BY <2>6, <3>1, <3>2
  <2> QED BY <2>5, <2>7
<1>12. ASSUME NEW h \in hits PROVE HitKept(h)' /\ KillKept(h)'
  <2>1. HitKept(h) /\ KillKept(h) /\ h.attempt \in DOMAIN terms
    BY DEF SignalsInv, HitKept
  <2>2. CASE h.attempt = k
    <3>1. HitKept(h)'
      BY <2>1, <2>2, <1>1, <1>3, <1>4, <1>5 DEF HitKept
    <3>2. KillKept(h)'
      BY <2>1, <2>2, <1>1, <1>3, <1>4, <1>9 DEF KillKept
    <3> QED BY <3>1, <3>2
  <2>3. CASE h.attempt # k
    <3>1. HitKept(h)'
      BY <2>1, <2>3, <1>1, <1>4, <1>5 DEF HitKept
    <3>2. KillKept(h)'
      BY <2>1, <2>3, <1>4, <1>9 DEF KillKept
    <3> QED BY <3>1, <3>2
  <2> QED BY <2>2, <2>3
<1>13. ASSUME NEW h \in hits' PROVE HitKept(h)' /\ KillKept(h)'
  BY <1>6, <1>11, <1>12
<1> QED BY <1>8, <1>10, <1>13 DEF SignalsInv

\* A process ends; nothing that was said of it changes.
LEMMA SignalsExit ==
  ASSUME SignalsInv, NEW p, Exit(p)
  PROVE  SignalsInv'
<1>1. /\ UNCHANGED <<tick, spawned, terms, hits>> /\ DOMAIN living' = DOMAIN living \ {p}
      /\ \A q \in DOMAIN living' : living'[q] = living[q]
  BY DEF Exit, Without
<1>2. SignalTypes'
  BY <1>1 DEF SignalsInv, SignalTypes
<1>3. ASSUME NEW k \in DOMAIN terms PROVE AttemptKept(terms[k])'
  BY <1>1 DEF SignalsInv, AttemptKept
<1>4. ASSUME NEW h \in hits PROVE HitKept(h)' /\ KillKept(h)'
  BY <1>1 DEF SignalsInv, HitKept, KillKept
<1>5. ASSUME NEW k \in DOMAIN terms PROVE (Spoken(k) => Spoken(k)') /\ (Aimed(k) => Aimed(k)')
  BY <1>1 DEF Spoken, Aimed
<1> QED BY <1>1, <1>2, <1>3, <1>4, <1>5 DEF SignalsInv

\* The daemon ends while attempts wait for their grace to pass.
LEMMA SignalsStop ==
  ASSUME SignalsInv, Stop
  PROVE  SignalsInv'
<1> DEFINE Given(t) == IF t.stage = "sleep" THEN [t EXCEPT !.stage = "lost"] ELSE t
<1>1. /\ terms' = [k \in DOMAIN terms |-> Given(terms[k])]
      /\ UNCHANGED <<tick, living, spawned, hits>>
  BY DEF Stop
<1>2. SignalTypes
  BY DEF SignalsInv
<1>3. ASSUME NEW k \in DOMAIN terms
      PROVE  /\ terms'[k] \in Attempts /\ terms'[k].pid = terms[k].pid
             /\ terms'[k].start = terms[k].start /\ terms'[k].lastBorn = terms[k].lastBorn
             /\ (terms'[k].raced <=> terms[k].raced) /\ (terms'[k].blind <=> terms[k].blind)
             /\ terms'[k].stage = IF terms[k].stage = "sleep" THEN "lost" ELSE terms[k].stage
  <2>1. terms[k] \in Attempts /\ terms'[k] = Given(terms[k])
    BY <1>1, <1>2, SignalTypesAttempt
  <2> QED BY <2>1 DEF Attempts, Stages
<1> HIDE DEF Given
<1>4. DOMAIN terms' = DOMAIN terms /\ terms' \in Seq(Attempts)
  <2>1. DOMAIN terms' = DOMAIN terms /\ terms' = [k \in DOMAIN terms |-> terms'[k]]
    BY <1>1
  <2>2. DOMAIN terms = 1..Len(terms) /\ Len(terms) \in Nat
    BY <1>2 DEF SignalTypes
  <2> QED BY <1>3, <2>1, <2>2
<1>5. SignalTypes'
  BY <1>1, <1>2, <1>4 DEF SignalTypes
<1>6. ASSUME NEW k \in DOMAIN terms PROVE AttemptKept(terms[k])'
  BY <1>1, <1>3, <1>4 DEF SignalsInv, AttemptKept
<1>7. ASSUME NEW k \in DOMAIN terms PROVE (Spoken(k) => Spoken(k)') /\ (Aimed(k) => Aimed(k)')
  BY <1>1, <1>3 DEF Spoken, Aimed
<1>8. ASSUME NEW h \in hits PROVE HitKept(h)' /\ KillKept(h)'
  <2>1. HitKept(h) /\ KillKept(h) /\ h.attempt \in DOMAIN terms
    BY DEF SignalsInv, HitKept
  <2>2. HitKept(h)'
    BY <2>1, <1>1, <1>3, <1>4 DEF HitKept
  <2>3. KillKept(h)'
    BY <2>1, <1>1, <1>3, <1>4 DEF KillKept
  <2> QED BY <2>2, <2>3
<1> QED BY <1>1, <1>3, <1>4, <1>5, <1>6, <1>7, <1>8 DEF SignalsInv

LEMMA SignalsStep == SignalsInv /\ [SurroundingsNext]_surroundings => SignalsInv'
<1> SUFFICES ASSUME SignalsInv, [SurroundingsNext]_surroundings PROVE SignalsInv'
  OBVIOUS
<1>1. CASE EffectsNext
  <2>1. CASE LifeNext
    <3>1. CASE Stop
      BY <3>1, SignalsStop
    <3>2. ASSUME NEW opens \in BOOLEAN, Start(opens) PROVE SignalsInv'
      BY <3>2, SignalsUnchanged DEF Start, signals
    <3> QED BY <2>1, <3>1, <3>2 DEF LifeNext
  <2>2. CASE Tick
    BY <2>2, SignalsTick DEF Tick
  <2>3. CASE SignalsNext
    <3>1. ASSUME NEW p \in Positive, Spawn(p) \/ Exit(p) PROVE SignalsInv'
      BY <3>1, SignalsSpawn, SignalsExit
    <3>2. ASSUME NEW pid \in AskedPids, NEW waits \in AskedGraces, AskTerminate(pid, waits) PROVE SignalsInv'
      BY <3>2, SignalsAsk
    <3>3. ASSUME NEW k \in DOMAIN terms,
                 ReadStart(k) \/ SendTerm(k) \/ LookAgain(k) \/ Compare(k) \/ SendKill(k)
          PROVE  SignalsInv'
      BY <3>3, SignalsRead, SignalsTerm, SignalsLook, SignalsCompare, SignalsKill
    <3> QED BY <2>2, <2>3, <3>1, <3>2, <3>3 DEF SignalsNext
  <2>4. CASE BlockingNext
    <3>1. CASE Flush
      BY <3>1, SignalsUnchanged DEF Flush
    <3>2. ASSUME NEW family \in Families, NEW time \in AskedBlocks, AskBlock(family, time) PROVE SignalsInv'
      BY <3>2, SignalsUnchanged DEF AskBlock
    <3>3. ASSUME NEW k \in DOMAIN blocks, AddTable(k) \/ AddSet(k) \/ AddElement(k) PROVE SignalsInv'
      BY <3>3, SignalsUnchanged DEF AddTable, AddSet, AddElement
    <3> QED BY <2>4, <3>1, <3>2, <3>3 DEF BlockingNext
  <2>5. CASE AuditingNext
    <3>1. ASSUME NEW renames \in BOOLEAN, NEW opens \in BOOLEAN, NEW writes \in BOOLEAN,
                 WriteDown(renames, opens, writes)
          PROVE  SignalsInv'
      BY <3>1, SignalsUnchanged DEF WriteDown
    <3> QED BY <2>5, <3>1 DEF AuditingNext
  <2> QED BY <1>1, <2>1, <2>2, <2>3, <2>4, <2>5 DEF EffectsNext
<1>2. CASE UNCHANGED effectVars
  BY <1>2, SignalsUnchanged DEF effectVars
<1> QED BY <1>1, <1>2 DEF SurroundingsNext, surroundings

\* A signal reaches the one process that was asked for, and SIGKILL that which got SIGTERM,
\* for any width of a pid and however often pids are given on; unless the start time could not
\* be read, or the pid changes hands between the last comparison and the kill
\* (spawn_kill_escalation).
THEOREM SignalsHitOneProcess == SurroundingsSpec => []SignalsHitOne
<1>1. SignalsInv => SignalsHitOne
  <2> SUFFICES ASSUME SignalsInv PROVE SignalsHitOne
    OBVIOUS
  <2>1. ASSUME NEW h \in hits PROVE h.pid = terms[h.attempt].pid /\ h.pid \notin {1, OwnPid}
    <3>1. HitKept(h) /\ h.attempt \in DOMAIN terms
      BY DEF SignalsInv, HitKept
    <3>2. ~InvalidPid(terms[h.attempt].pid)
      BY <3>1, UnderWay DEF HitKept
    <3> QED BY <3>1, <3>2 DEF HitKept, InvalidPid
  <2>2. ASSUME NEW h \in hits, h.signal = "kill"
        PROVE  \/ terms[h.attempt].start = Unread \/ terms[h.attempt].raced
               \/ \E t \in hits : t.attempt = h.attempt /\ t.signal = "term" /\ t.process = h.process
    BY <2>2 DEF SignalsInv, KillKept
  <2>3. ASSUME NEW k \in DOMAIN terms, terms[k].stage = "spared", ~terms[k].blind,
               NEW h \in hits, h.attempt = k, h.process.born = terms[k].start,
               NEW p \in DOMAIN living, living[p] = h.process
        PROVE  FALSE
    <3>1. HitKept(h) /\ AttemptKept(terms[k])
      BY DEF SignalsInv
    <3>2. p = terms[k].pid
      BY <2>3, <3>1 DEF HitKept
    <3> QED BY <2>3, <3>1, <3>2 DEF AttemptKept
  <2> QED BY <2>1, <2>2, <2>3 DEF SignalsHitOne
<1> QED BY <1>1, SignalsInitially, SignalsStep, PTL DEF SurroundingsSpec

-----------------------------------------------------------------------------
(* Mutes.                                                                  *)

MutesInv ==
  /\ now \in Nat /\ IsFiniteSet(DOMAIN mutes) /\ Cardinality(DOMAIN mutes) <= MaxMutes
  /\ \A key \in DOMAIN mutes : mutes[key] \in Nat
  /\ \A key \in DOMAIN asked : asked[key] \in Nat
  /\ MutesAreKept

LEMMA MutesInitially == SurroundingsInit => MutesInv
<1> SUFFICES ASSUME SurroundingsInit PROVE MutesInv
  OBVIOUS
<1>1. now = 0 /\ mutes = <<>> /\ asked = <<>> /\ pushedOut = {}
  BY DEF SurroundingsInit, SharedStateInit
<1>2. DOMAIN mutes = {} /\ DOMAIN asked = {}
  BY <1>1
<1>3. IsFiniteSet(DOMAIN mutes) /\ Cardinality(DOMAIN mutes) = 0
  BY <1>2, FS_EmptySet
<1> QED BY <1>1, <1>2, <1>3, SharedStateAssumption DEF MutesInv, MutesAreKept

LEMMA MutesUnchanged ==
  ASSUME MutesInv, UNCHANGED <<now, mutes, asked, pushedOut>>
  PROVE  MutesInv'
BY DEF MutesInv, MutesAreKept

LEMMA MutesPass ==
  ASSUME MutesInv, Pass
  PROVE  MutesInv'
<1>1. now' = now + 1 /\ UNCHANGED <<mutes, asked, pushedOut>>
  BY DEF Pass
<1> QED BY <1>1 DEF MutesInv, MutesAreKept

\* A key enters, and the one that expires first leaves a full store.
LEMMA MutesEnter ==
  ASSUME MutesInv, NEW key, NEW until \in Nat, Enter(key, until), UNCHANGED now
  PROVE  MutesInv'
<1> DEFINE full == key \notin DOMAIN mutes /\ Cardinality(DOMAIN mutes) >= MaxMutes
<1>1. PICK out \in IF full THEN {{k} : k \in {k \in DOMAIN mutes : Sooner(k) = {}}} ELSE {{}} :
        /\ mutes' = With(Without(mutes, out), key, until)
        /\ asked' = With(asked, key, until)
        /\ pushedOut' = {e \in pushedOut : e.key # key}
             \cup {[key |-> k, until |-> mutes[k], stayed |-> Without(mutes, out)] : k \in out}
  BY DEF Enter
<1> DEFINE stayed == Without(mutes, out)
<1>2. /\ now \in Nat /\ IsFiniteSet(DOMAIN mutes) /\ Cardinality(DOMAIN mutes) <= MaxMutes
      /\ Cardinality(DOMAIN mutes) \in Nat /\ MaxMutes \in Nat \ {0}
      /\ \A k \in DOMAIN mutes : mutes[k] \in Nat
      /\ \A k \in DOMAIN asked : asked[k] \in Nat
  BY SharedStateAssumption, FS_CardinalityType DEF MutesInv
<1>3. /\ DOMAIN stayed = DOMAIN mutes \ out
      /\ \A k \in DOMAIN stayed : stayed[k] = mutes[k]
  BY DEF Without
<1> DEFINE Room == /\ IsFiniteSet(DOMAIN stayed)
                   /\ Cardinality(DOMAIN stayed) <= MaxMutes
                   /\ key \notin DOMAIN stayed => Cardinality(DOMAIN stayed) < MaxMutes
<1> DEFINE Entries == \A e \in pushedOut' :
             /\ Cardinality(DOMAIN e.stayed) = MaxMutes - 1
             /\ \A k \in DOMAIN e.stayed : e.stayed[k] >= e.until
<1> DEFINE Others == \A k \in DOMAIN asked : k # key /\ asked[k] > now =>
             \/ k \in DOMAIN stayed /\ stayed[k] = asked[k]
             \/ \E e \in pushedOut' : e.key = k
<1>4. ASSUME full PROVE Room /\ Entries /\ Others
  <2>1. PICK first \in DOMAIN mutes : out = {first} /\ Sooner(first) = {}
    BY <1>1, <1>4
  <2>2. IsFiniteSet(DOMAIN stayed) /\ Cardinality(DOMAIN stayed) = MaxMutes - 1
    BY <1>2, <1>3, <1>4, <2>1, FS_RemoveElement
  <2>3. \A k \in DOMAIN stayed : stayed[k] >= mutes[first]
    BY <1>2, <1>3, <2>1 DEF Sooner
  <2>4. \A e \in pushedOut' : e \in pushedOut \/ (e.until = mutes[first] /\ e.stayed = stayed)
    BY <1>1, <2>1
  <2>5. [key |-> first, until |-> mutes[first], stayed |-> stayed] \in pushedOut'
    BY <1>1, <2>1
  <2>6. \E e \in pushedOut' : e.key = first
    BY <2>5
  <2> HIDE DEF stayed
  <2>7. Entries
    BY <2>2, <2>3, <2>4 DEF MutesInv, MutesAreKept
  <2>8. Others
    <3> SUFFICES ASSUME NEW k \in DOMAIN asked, k # key, asked[k] > now
                 PROVE  \/ k \in DOMAIN stayed /\ stayed[k] = asked[k]
                        \/ \E e \in pushedOut' : e.key = k
      OBVIOUS
    <3>1. CASE k \in DOMAIN mutes /\ mutes[k] = asked[k]
      BY <3>1, <1>3, <2>1, <2>6
    <3>2. CASE \E e \in pushedOut : e.key = k
      BY <3>2, <1>1
    <3> QED BY <3>1, <3>2 DEF MutesInv, MutesAreKept
  <2>9. key \notin DOMAIN stayed
    BY <1>3, <1>4
  <2> QED BY <1>2, <2>2, <2>7, <2>8, <2>9
<1>5. ASSUME ~full PROVE Room /\ Entries /\ Others
  <2>1. out = {} /\ DOMAIN stayed = DOMAIN mutes
    BY <1>1, <1>3, <1>5
  <2>2. Room
    BY <1>2, <1>5, <2>1
  <2>3. pushedOut' = {e \in pushedOut : e.key # key}
    BY <1>1, <2>1
  <2>4. Entries
    BY <2>3 DEF MutesInv, MutesAreKept
  <2>5. Others
    <3> SUFFICES ASSUME NEW k \in DOMAIN asked, k # key, asked[k] > now
                 PROVE  \/ k \in DOMAIN stayed /\ stayed[k] = asked[k]
                        \/ \E e \in pushedOut' : e.key = k
      OBVIOUS
    <3>1. CASE k \in DOMAIN mutes /\ mutes[k] = asked[k]
      BY <3>1, <1>3, <2>1
    <3>2. CASE \E e \in pushedOut : e.key = k
      BY <3>2, <2>3
    <3> QED BY <3>1, <3>2 DEF MutesInv, MutesAreKept
  <2> QED BY <2>2, <2>4, <2>5
<1> HIDE DEF full, stayed
<1>6. Room /\ Entries /\ Others
  BY <1>4, <1>5
<1>7. /\ DOMAIN mutes' = DOMAIN stayed \cup {key} /\ mutes'[key] = until
      /\ \A k \in DOMAIN stayed : k # key => mutes'[k] = stayed[k]
      /\ DOMAIN asked' = DOMAIN asked \cup {key} /\ asked'[key] = until
      /\ \A k \in DOMAIN asked : k # key => asked'[k] = asked[k]
  BY <1>1 DEF With, stayed
<1>8. IsFiniteSet(DOMAIN mutes') /\ Cardinality(DOMAIN mutes') <= MaxMutes
  <2>1. Cardinality(DOMAIN stayed) \in Nat
    BY <1>6, FS_CardinalityType
  <2>2. CASE key \in DOMAIN stayed
    <3>1. DOMAIN mutes' = DOMAIN stayed
      BY <1>7, <2>2
    <3> QED BY <1>6, <3>1
  <2>3. CASE key \notin DOMAIN stayed
    <3>1. /\ IsFiniteSet(DOMAIN stayed \cup {key})
          /\ Cardinality(DOMAIN stayed \cup {key}) = Cardinality(DOMAIN stayed) + 1
      BY <1>6, <2>3, FS_AddElement
    <3> QED BY <1>2, <1>6, <1>7, <2>1, <2>3, <3>1
  <2> QED BY <2>2, <2>3
<1>9. ASSUME NEW k \in DOMAIN asked', asked'[k] > now'
      PROVE  \/ k \in DOMAIN mutes' /\ mutes'[k] = asked'[k]
             \/ \E e \in pushedOut' : e.key = k
  <2>1. CASE k = key
    BY <2>1, <1>7
  <2>2. CASE k # key
    BY <2>2, <1>6, <1>7, <1>9
  <2> QED BY <2>1, <2>2
<1>10. MutesAreKept'
  BY <1>6, <1>9 DEF MutesAreKept
<1> QED BY <1>2, <1>3, <1>7, <1>8, <1>10 DEF MutesInv

\* A line drops what has expired.
LEMMA MutesRetain ==
  ASSUME MutesInv, NEW stamp, mutes' = Retain(stamp), UNCHANGED <<now, asked, pushedOut>>
  PROVE  MutesInv'
<1>1. /\ DOMAIN mutes' = {k \in DOMAIN mutes : ~(mutes[k] <= now)}
      /\ \A k \in DOMAIN mutes' : mutes'[k] = mutes[k]
  BY DEF Retain, Without
<1>2. IsFiniteSet(DOMAIN mutes') /\ Cardinality(DOMAIN mutes') <= MaxMutes
  <2>1. DOMAIN mutes' \subseteq DOMAIN mutes /\ IsFiniteSet(DOMAIN mutes)
    BY <1>1 DEF MutesInv
  <2>2. IsFiniteSet(DOMAIN mutes') /\ Cardinality(DOMAIN mutes') <= Cardinality(DOMAIN mutes)
    BY <2>1, FS_Subset
  <2>3. Cardinality(DOMAIN mutes') \in Nat /\ Cardinality(DOMAIN mutes) \in Nat
    BY <2>1, <2>2, FS_CardinalityType
  <2> QED BY <2>2, <2>3, SharedStateAssumption DEF MutesInv
<1>3. ASSUME NEW k \in DOMAIN asked', asked'[k] > now'
      PROVE  \/ k \in DOMAIN mutes' /\ mutes'[k] = asked'[k]
             \/ \E e \in pushedOut' : e.key = k
  BY <1>1, <1>3 DEF MutesInv, MutesAreKept
<1> QED BY <1>1, <1>2, <1>3 DEF MutesInv, MutesAreKept

LEMMA MutesHandle ==
  ASSUME MutesInv, HandleNext
  PROVE  MutesInv'
<1>1. PICK template \in Templates, unit \in UnitNames, stamp \in Stamps : Handle(template, unit, stamp)
  BY DEF HandleNext
<1>2. UNCHANGED <<now, asked, pushedOut>> /\ (mutes' = mutes \/ mutes' = Retain(stamp))
  BY <1>1 DEF Handle
<1> QED BY <1>2, MutesUnchanged, MutesRetain

LEMMA MutesStep == MutesInv /\ [SurroundingsNext]_surroundings => MutesInv'
<1> SUFFICES ASSUME MutesInv, [SurroundingsNext]_surroundings PROVE MutesInv'
  OBVIOUS
<1>1. CASE MutesNext
  <2>1. ASSUME NEW template \in Templates, NEW unit \in UnitNames \cup {AnyUnit}, NEW scope \in Scopes,
               NEW reading \in {now - 1, now}, NEW dryRun \in BOOLEAN, Mute(template, unit, scope, reading, dryRun)
        PROVE  MutesInv'
    <3> DEFINE until == IF scope = Forever THEN Forever ELSE reading + scope
    <3>1. reading \in Nat /\ until \in Nat
      BY <2>1, SharedStateAssumption DEF Mute, MutesInv
    <3>2. UNCHANGED now /\ (UNCHANGED <<mutes, asked, pushedOut>> \/ Enter(<<template, unit>>, until))
      BY <2>1 DEF Mute
    <3> QED BY <3>1, <3>2, MutesUnchanged, MutesEnter
  <2> QED BY <1>1, <2>1, MutesPass, MutesHandle DEF MutesNext
<1>2. CASE ContextNext
  <2>1. ASSUME NEW entry \in raised, NEW before \in AskedLines, NEW after \in AskedLines,
               NEW unit \in UnitNames \cup {AnyUnit}, GetContext(entry, before, after, unit)
        PROVE  MutesInv'
    BY <2>1, MutesUnchanged DEF GetContext, muteStore
  <2> QED BY <1>2, <2>1, MutesHandle DEF ContextNext
<1>3. CASE UNCHANGED sharedState
  BY <1>3, MutesUnchanged DEF sharedState, muteStore
<1> QED BY <1>1, <1>2, <1>3 DEF SurroundingsNext, surroundings

-----------------------------------------------------------------------------
(* The audit log.                                                          *)

Grows(seq) == \A i, j \in DOMAIN seq : i < j => seq[i] < seq[j]
HasNumber(seq, n) == \E i \in DOMAIN seq : seq[i] = n

AuditInv ==
  /\ entries \in Nat /\ faults \in Nat /\ handle \in BOOLEAN
  /\ logFile \in Seq(1..entries) /\ oldFile \in Seq(1..entries)
  /\ Grows(logFile) /\ Grows(oldFile)
  /\ \A i \in DOMAIN oldFile, j \in DOMAIN logFile : oldFile[i] < logFile[j]
  /\ \A n \in 1..entries :
       \/ HasNumber(oldFile, n) \/ HasNumber(logFile, n) \/ n \in processLog
       \/ Len(oldFile) >= LogLimit /\ n < oldFile[1]
  /\ faults = 0 => Len(logFile) <= LogLimit

LEMMA AuditInitially == SurroundingsInit => AuditInv
<1> SUFFICES ASSUME SurroundingsInit PROVE AuditInv
  OBVIOUS
<1>1. logFile = <<>> /\ oldFile = <<>> /\ entries = 0 /\ faults = 0 /\ handle = FALSE
  BY DEF SurroundingsInit, EffectsInit, Missing
<1>2. /\ logFile \in Seq(1..entries) /\ oldFile \in Seq(1..entries) /\ Len(logFile) = 0
      /\ DOMAIN logFile = {} /\ DOMAIN oldFile = {} /\ 1..entries = {}
  BY <1>1
<1>3. entries \in Nat /\ faults \in Nat /\ handle \in BOOLEAN
  BY <1>1
<1> QED BY <1>2, <1>3, EffectsAssumption DEF AuditInv, Grows

\* The two files are one row of entries, as they were made.
LEMMA AuditMeansKept == AuditInv => AttemptsAreKept
<1> SUFFICES ASSUME AuditInv PROVE AttemptsAreKept
  OBVIOUS
<1> DEFINE written == oldFile \o logFile
<1>0. /\ entries \in Nat /\ logFile \in Seq(1..entries) /\ oldFile \in Seq(1..entries)
      /\ Len(logFile) \in Nat /\ Len(oldFile) \in Nat
      /\ DOMAIN logFile = 1..Len(logFile) /\ DOMAIN oldFile = 1..Len(oldFile)
  BY DEF AuditInv
<1>1. /\ Len(written) = Len(oldFile) + Len(logFile) /\ DOMAIN written = 1..Len(written)
      /\ \A i \in 1..Len(oldFile) : written[i] = oldFile[i]
      /\ \A i \in Len(oldFile) + 1..Len(written) : written[i] = logFile[i - Len(oldFile)]
  BY <1>0
<1> HIDE DEF written
<1>2. ASSUME NEW i \in DOMAIN written, NEW j \in DOMAIN written, i < j
      PROVE  written[i] < written[j]
  <2>1. CASE j \in 1..Len(oldFile)
    <3>1. i \in 1..Len(oldFile)
      BY <2>1, <1>0, <1>1, <1>2
    <3> QED BY <2>1, <3>1, <1>0, <1>1, <1>2 DEF AuditInv, Grows
  <2>2. CASE i \in 1..Len(oldFile) /\ j \in Len(oldFile) + 1..Len(written)
    <3>1. j - Len(oldFile) \in 1..Len(logFile)
      BY <2>2, <1>0, <1>1
    <3> QED BY <2>2, <3>1, <1>0, <1>1 DEF AuditInv
  <2>3. CASE i \in Len(oldFile) + 1..Len(written) /\ j \in Len(oldFile) + 1..Len(written)
    <3>1. /\ i - Len(oldFile) \in 1..Len(logFile) /\ j - Len(oldFile) \in 1..Len(logFile)
          /\ i - Len(oldFile) < j - Len(oldFile)
      BY <2>3, <1>0, <1>1, <1>2
    <3> QED BY <2>3, <3>1, <1>0, <1>1 DEF AuditInv, Grows
  <2> QED BY <2>1, <2>2, <2>3, <1>0, <1>1, <1>2
<1>3. ASSUME NEW n \in 1..entries
      PROVE  \/ Contains(written, n) \/ n \in processLog
             \/ Len(oldFile) >= LogLimit /\ n < oldFile[1]
  <2>1. CASE HasNumber(oldFile, n)
    <3>1. PICK i \in 1..Len(oldFile) : oldFile[i] = n
      BY <2>1, <1>0 DEF HasNumber
    <3>2. i \in 1..Len(written) /\ written[i] = n
      BY <3>1, <1>0, <1>1
    <3> QED BY <3>2 DEF Contains
  <2>2. CASE HasNumber(logFile, n)
    <3>1. PICK i \in 1..Len(logFile) : logFile[i] = n
      BY <2>2, <1>0 DEF HasNumber
    <3>2. i + Len(oldFile) \in Len(oldFile) + 1..Len(written) /\ i + Len(oldFile) \in 1..Len(written)
          /\ i + Len(oldFile) - Len(oldFile) = i
      BY <3>1, <1>0, <1>1
    <3>3. written[i + Len(oldFile)] = n
      BY <3>1, <3>2, <1>1
    <3> QED BY <3>2, <3>3 DEF Contains
  <2> QED BY <2>1, <2>2 DEF AuditInv
<1> QED BY <1>2, <1>3 DEF AttemptsAreKept, AuditInv, written

LEMMA AuditUnchanged ==
  ASSUME AuditInv, UNCHANGED <<entries, logFile, oldFile, processLog>>, handle' \in BOOLEAN,
         faults' \in Nat, faults' >= faults
  PROVE  AuditInv'
BY DEF AuditInv, Grows, HasNumber

\* How many of the calls failed.
LEMMA FailingCounts ==
  ASSUME NEW n \in Nat, NEW calls \in [1..n -> BOOLEAN]
  PROVE  Failing(calls) \in Nat /\ (Failing(calls) = 0 => \A i \in 1..n : calls[i])
<1>1. IsFiniteSet({i \in DOMAIN calls : ~calls[i]})
  <2>1. IsFiniteSet(1..n)
    BY FS_Interval
  <2> QED BY <2>1, FS_Subset
<1>2. Failing(calls) = 0 => {i \in DOMAIN calls : ~calls[i]} = {}
  BY <1>1, FS_EmptySet DEF Failing
<1> QED BY <1>1, <1>2, FS_CardinalityType DEF Failing

LEMMA AuditWrite ==
  ASSUME AuditInv, NEW renames \in BOOLEAN, NEW opens \in BOOLEAN, NEW writes \in BOOLEAN,
         WriteDown(renames, opens, writes)
  PROVE  AuditInv'
<1> DEFINE rotated == Rotated(renames)
<1> DEFINE kept == IF rotated THEN Missing ELSE logFile
<1> DEFINE new == entries + 1
<1>0. /\ entries \in Nat /\ faults \in Nat /\ new \in Nat /\ LogLimit \in Nat \ {0}
      /\ logFile \in Seq(1..entries) /\ oldFile \in Seq(1..entries)
      /\ Len(logFile) \in Nat /\ Len(oldFile) \in Nat
      /\ DOMAIN logFile = 1..Len(logFile) /\ DOMAIN oldFile = 1..Len(oldFile)
  BY EffectsAssumption DEF AuditInv
<1>1. /\ entries' = new /\ (~TooBig => renames /\ opens)
      /\ faults' = faults + Failing(<<renames, opens, writes>>)
      /\ handle' = (handle /\ opens)
      /\ oldFile' = IF rotated THEN logFile ELSE oldFile
      /\ \/ handle' /\ writes /\ logFile' = Append(kept, new) /\ processLog' = processLog
         \/ ~(handle' /\ writes) /\ logFile' = kept /\ processLog' = processLog \cup {new}
  BY DEF WriteDown
<1>2. /\ faults' \in Nat /\ faults' >= faults
      /\ faults' = 0 => faults = 0 /\ renames /\ opens /\ writes
  <2> DEFINE calls == <<renames, opens, writes>>
  <2>1. calls \in [1..3 -> BOOLEAN] /\ calls[1] = renames /\ calls[2] = opens /\ calls[3] = writes
    OBVIOUS
  <2> HIDE DEF calls
  <2>2. Failing(calls) \in Nat /\ (Failing(calls) = 0 => \A i \in 1..3 : calls[i])
    BY <2>1, FailingCounts
  <2>3. Failing(calls) = 0 => renames /\ opens /\ writes
    BY <2>1, <2>2
  <2> QED BY <1>0, <1>1, <2>2, <2>3 DEF calls
<1>3. rotated => renames /\ TooBig /\ handle /\ Len(logFile) >= LogLimit /\ logFile # <<>>
  BY <1>0 DEF Rotated, TooBig
\* What is kept follows what was set aside, and has all that is missing there.
<1>4. /\ kept \in Seq(1..entries) /\ oldFile' \in Seq(1..entries)
      /\ Grows(kept) /\ Grows(oldFile')
      /\ \A i \in DOMAIN oldFile', j \in DOMAIN kept : oldFile'[i] < kept[j]
      /\ \A n \in 1..entries :
           \/ HasNumber(oldFile', n) \/ HasNumber(kept, n) \/ n \in processLog
           \/ Len(oldFile') >= LogLimit /\ n < oldFile'[1]
  <2>1. CASE rotated
    <3>1. kept = <<>> /\ oldFile' = logFile
      BY <1>1, <2>1 DEF Missing
    <3>2. ASSUME NEW n \in 1..entries
          PROVE  \/ HasNumber(logFile, n) \/ n \in processLog
                 \/ Len(logFile) >= LogLimit /\ n < logFile[1]
      <4>1. 1 \in DOMAIN logFile /\ Len(logFile) >= LogLimit
        BY <1>0, <1>3, <2>1
      <4>2. CASE HasNumber(oldFile, n)
        BY <4>1, <4>2 DEF AuditInv, HasNumber
      <4>3. CASE Len(oldFile) >= LogLimit /\ n < oldFile[1]
        <5>1. 1 \in DOMAIN oldFile /\ oldFile[1] \in Nat /\ logFile[1] \in Nat
          BY <4>1, <4>3, <1>0
        <5>2. oldFile[1] < logFile[1]
          BY <4>1, <5>1 DEF AuditInv
        <5> QED BY <4>1, <4>3, <5>1, <5>2
      <4> QED BY <4>2, <4>3 DEF AuditInv
    <3>3. Grows(<<>>) /\ <<>> \in Seq(1..entries) /\ DOMAIN <<>> = {}
      BY DEF Grows
    <3> HIDE DEF kept, rotated
    <3> QED BY <3>1, <3>2, <3>3, <1>0 DEF AuditInv
  <2>2. CASE ~rotated
    <3>1. kept = logFile /\ oldFile' = oldFile
      BY <1>1, <2>2
    <3> HIDE DEF kept, rotated
    <3> QED BY <3>1, <1>0 DEF AuditInv
  <2> QED BY <2>1, <2>2
<1>5. faults' = 0 /\ handle' => Len(kept) < LogLimit
  <2>1. CASE rotated
    BY <2>1, <1>0 DEF Missing
  <2>2. CASE ~rotated
    <3>1. faults' = 0 /\ handle' => renames /\ handle
      BY <1>1, <1>2
    <3>2. faults' = 0 /\ handle' => ~(Len(logFile) >= LogLimit)
      BY <2>2, <3>1 DEF Rotated, TooBig
    <3> QED BY <2>2, <3>2, <1>0
  <2> QED BY <2>1, <2>2
<1>6. faults' = 0 => Len(kept) <= LogLimit
  <2>1. CASE rotated
    BY <2>1, <1>0 DEF Missing
  <2>2. CASE ~rotated
    BY <2>2, <1>0, <1>2 DEF AuditInv
  <2> QED BY <2>1, <2>2
<1> HIDE DEF kept, rotated
<1>7. Len(kept) \in Nat /\ DOMAIN kept = 1..Len(kept) /\ 1..entries \subseteq 1..new
  BY <1>0, <1>4
<1>8. kept \in Seq(1..new) /\ oldFile' \in Seq(1..new) /\ new \in 1..new
  BY <1>0, <1>4, <1>7
<1>9. CASE handle' /\ writes /\ logFile' = Append(kept, new) /\ processLog' = processLog
  <2>1. /\ logFile' \in Seq(1..new) /\ DOMAIN logFile' = 1..(Len(kept) + 1) /\ Len(logFile') = Len(kept) + 1
        /\ logFile'[Len(kept) + 1] = new /\ \A i \in DOMAIN kept : logFile'[i] = kept[i]
    BY <1>7, <1>8, <1>9
  <2>2. \A i \in DOMAIN kept : kept[i] \in Nat /\ kept[i] < new
    BY <1>0, <1>4, <1>7
  <2>3. Grows(logFile')
    <3> SUFFICES ASSUME NEW i \in 1..(Len(kept) + 1), NEW j \in 1..(Len(kept) + 1), i < j
                 PROVE  logFile'[i] < logFile'[j]
      BY <2>1 DEF Grows
    <3>1. i \in DOMAIN kept
      BY <1>7
    <3>2. CASE j \in DOMAIN kept
      BY <3>1, <3>2, <2>1, <1>4 DEF Grows
    <3>3. CASE j = Len(kept) + 1
      BY <3>1, <3>3, <2>1, <2>2
    <3> QED BY <3>2, <3>3, <1>7
  <2>4. \A i \in DOMAIN oldFile' : oldFile'[i] \in Nat /\ oldFile'[i] < new
    BY <1>0, <1>4
  <2>5. \A i \in DOMAIN oldFile', j \in DOMAIN logFile' : oldFile'[i] < logFile'[j]
    BY <2>1, <2>4, <1>4, <1>7
  <2>6. ASSUME NEW n \in 1..entries'
        PROVE  \/ HasNumber(oldFile', n) \/ HasNumber(logFile', n) \/ n \in processLog'
               \/ Len(oldFile') >= LogLimit /\ n < oldFile'[1]
    <3>1. CASE n = new
      <4>1. Len(kept) + 1 \in DOMAIN logFile' /\ logFile'[Len(kept) + 1] = n
        BY <3>1, <2>1, <1>7
      <4> QED BY <4>1 DEF HasNumber
    <3>2. CASE n \in 1..entries
      <4>1. HasNumber(kept, n) => HasNumber(logFile', n)
        BY <2>1, <1>7 DEF HasNumber
      <4> QED BY <3>2, <4>1, <1>4, <1>9
    <3> QED BY <3>1, <3>2, <1>0, <1>1
  <2>7. faults' = 0 => Len(logFile') <= LogLimit
    BY <2>1, <1>0, <1>5, <1>7, <1>9
  <2>8. handle' \in BOOLEAN
    BY <1>9
  <2> QED BY <2>1, <2>3, <2>5, <2>6, <2>7, <2>8, <1>0, <1>1, <1>2, <1>4, <1>8 DEF AuditInv
<1>10. CASE ~(handle' /\ writes) /\ logFile' = kept /\ processLog' = processLog \cup {new}
  <2>1. ASSUME NEW n \in 1..entries'
        PROVE  \/ HasNumber(oldFile', n) \/ HasNumber(logFile', n) \/ n \in processLog'
               \/ Len(oldFile') >= LogLimit /\ n < oldFile'[1]
    <3>1. CASE n = new
      BY <3>1, <1>10
    <3>2. CASE n \in 1..entries
      BY <3>2, <1>4, <1>10
    <3> QED BY <3>1, <3>2, <1>0, <1>1
  <2>2. handle' \in BOOLEAN
    BY <1>1 DEF AuditInv
  <2> QED BY <2>1, <2>2, <1>0, <1>1, <1>2, <1>4, <1>6, <1>8, <1>10 DEF AuditInv
<1> QED BY <1>1, <1>9, <1>10

LEMMA AuditStep == AuditInv /\ [SurroundingsNext]_surroundings => AuditInv'
<1> SUFFICES ASSUME AuditInv, [SurroundingsNext]_surroundings PROVE AuditInv'
  OBVIOUS
<1>0. faults \in Nat /\ handle \in BOOLEAN
  BY DEF AuditInv
<1>1. CASE UNCHANGED auditing /\ (faults' = faults \/ faults' = faults + 1)
  <2>1. faults' \in Nat /\ faults' >= faults
    BY <1>0, <1>1
  <2>2. UNCHANGED <<entries, logFile, oldFile, processLog, handle>>
    BY <1>1 DEF auditing
  <2> QED BY <1>0, <2>1, <2>2, AuditUnchanged
<1>2. CASE EffectsNext
  <2>1. CASE LifeNext
    <3>1. CASE Stop
      <4>1. UNCHANGED <<entries, logFile, oldFile, processLog, faults>> /\ handle' = FALSE
        BY <3>1 DEF Stop
      <4>2. handle' \in BOOLEAN
        BY <4>1, Zenon
      <4>3. faults' \in Nat /\ faults' >= faults
        BY <4>1, <1>0
      <4> QED BY <4>1, <4>2, <4>3, AuditUnchanged
    <3>2. ASSUME NEW opens \in BOOLEAN, Start(opens) PROVE AuditInv'
      <4>1. UNCHANGED <<entries, logFile, oldFile, processLog>> /\ handle' \in BOOLEAN
            /\ faults' = faults + Failing(<<opens>>)
        BY <3>2 DEF Start
      <4>2. Failing(<<opens>>) \in Nat
        <5>1. <<opens>> \in [1..1 -> BOOLEAN]
          OBVIOUS
        <5> QED BY <5>1, FailingCounts
      <4> QED BY <4>1, <4>2, <1>0, AuditUnchanged
    <3> QED BY <2>1, <3>1, <3>2 DEF LifeNext
  <2>2. CASE Tick
    BY <2>2, <1>1 DEF Tick
  <2>3. CASE SignalsNext
    <3>1. ASSUME NEW p \in Positive, Spawn(p) \/ Exit(p) PROVE AuditInv'
      BY <3>1, <1>1 DEF Spawn, Exit
    <3>2. ASSUME NEW pid \in AskedPids, NEW waits \in AskedGraces, AskTerminate(pid, waits) PROVE AuditInv'
      BY <3>2, <1>1 DEF AskTerminate
    <3>3. ASSUME NEW k \in DOMAIN terms, ReadStart(k) \/ Compare(k) PROVE AuditInv'
      BY <3>3, <1>1 DEF ReadStart, Compare, MayRead
    <3>4. ASSUME NEW k \in DOMAIN terms, SendTerm(k) \/ LookAgain(k) \/ SendKill(k) PROVE AuditInv'
      BY <3>4, <1>1 DEF SendTerm, LookAgain, SendKill
    <3> QED BY <2>2, <2>3, <3>1, <3>2, <3>3, <3>4 DEF SignalsNext
  <2>4. CASE BlockingNext
    <3>1. CASE Flush
      BY <3>1, <1>1 DEF Flush
    <3>2. ASSUME NEW family \in Families, NEW time \in AskedBlocks, AskBlock(family, time) PROVE AuditInv'
      BY <3>2, <1>1 DEF AskBlock
    <3>3. ASSUME NEW k \in DOMAIN blocks, AddTable(k) \/ AddSet(k) \/ AddElement(k) PROVE AuditInv'
      BY <3>3, <1>1 DEF AddTable, AddSet, AddElement, DoBlock, FailBlock
    <3> QED BY <2>4, <3>1, <3>2, <3>3 DEF BlockingNext
  <2>5. CASE AuditingNext
    BY <2>5, AuditWrite DEF AuditingNext
  <2> QED BY <1>2, <2>1, <2>2, <2>3, <2>4, <2>5 DEF EffectsNext
<1>3. CASE UNCHANGED effectVars
  BY <1>3, <1>1 DEF effectVars
<1> QED BY <1>2, <1>3 DEF SurroundingsNext, surroundings

-----------------------------------------------------------------------------
(* The devices of the LAN.                                                 *)

Entry(r) == /\ DOMAIN r = {"lease", "name", "first", "last"}
            /\ r.first \in Nat /\ r.last \in Nat
Extremes(r, times) ==
  /\ times \subseteq Nat /\ r.first \in times /\ r.last \in times
  /\ \A t \in times : r.first <= t /\ t <= r.last

\* Observing works in time: the scan is not behind any sighting, nor ahead of the clock.
LanInv ==
  /\ hour \in Nat
  /\ scan # None =>
       /\ scan = [at |-> scan.at, left |-> scan.left, leases |-> scan.leases]
       /\ scan.at \in Nat /\ scan.at <= hour
  /\ IsFiniteSet(DOMAIN known) /\ DOMAIN sightings = DOMAIN known
  /\ known = [m \in DOMAIN known |-> known[m]]
  /\ \A m \in DOMAIN known :
       /\ Entry(known[m]) /\ Extremes(known[m], sightings[m])
       /\ \A t \in sightings[m] : t <= hour /\ (scan # None => t <= scan.at)
  /\ DOMAIN shown \subseteq DOMAIN known
  /\ DevicesAreKept

LEMMA LanInitially == SurroundingsInit => LanInv
<1> SUFFICES ASSUME SurroundingsInit PROVE LanInv
  OBVIOUS
<1>1. hour = 0 /\ scan = None /\ known = <<>> /\ shown = <<>> /\ sightings = <<>> /\ forgotten = {}
  BY DEF SurroundingsInit, WatchersInit
<1>2. DOMAIN known = {} /\ DOMAIN shown = {} /\ DOMAIN sightings = {} /\ known = [m \in DOMAIN known |-> known[m]]
  BY <1>1
<1>3. IsFiniteSet(DOMAIN known)
  BY <1>2, FS_EmptySet
<1> QED BY <1>1, <1>2, <1>3 DEF LanInv, DevicesAreKept

\* The clock goes on, and what is not of the devices.
LEMMA LanWaits ==
  ASSUME LanInv, hour' \in Nat, hour' >= hour, UNCHANGED <<scan, known, shown, sightings, forgotten>>
  PROVE  LanInv'
<1>1. ASSUME NEW m \in DOMAIN known, NEW t \in sightings[m] PROVE t <= hour'
  BY DEF LanInv, Extremes
<1>2. scan # None => scan.at <= hour'
  BY DEF LanInv
<1>3. DevicesAreKept'
  BY DEF LanInv, DevicesAreKept
<1> QED BY <1>1, <1>2, <1>3 DEF LanInv

LEMMA LanBegin ==
  ASSUME LanInv, BeginScan
  PROVE  LanInv'
<1>1. PICK left : scan' = [at |-> hour, left |-> left, leases |-> neighbours]
  BY DEF BeginScan
<1>2. scan = None /\ UNCHANGED <<hour, known, shown, sightings, forgotten>>
  BY DEF BeginScan
<1>3. scan' = [at |-> scan'.at, left |-> scan'.left, leases |-> scan'.leases] /\ scan'.at = hour
  BY <1>1
<1>4. hour \in Nat /\ hour <= hour
  BY DEF LanInv
<1>5. ASSUME NEW m \in DOMAIN known
      PROVE  /\ Entry(known[m]) /\ Extremes(known[m], sightings[m])
             /\ \A t \in sightings[m] : t <= hour /\ t <= scan'.at
  BY <1>3 DEF LanInv
<1>6. DevicesAreKept'
  BY <1>2 DEF LanInv, DevicesAreKept
<1> QED BY <1>2, <1>3, <1>4, <1>5, <1>6 DEF LanInv

\* A device is seen, at the time of the scan.
LEMMA LanResolve ==
  ASSUME LanInv, Resolve
  PROVE  LanInv'
<1> DEFINE mac == Head(scan.left)
<1> DEFINE before == IF mac \in DOMAIN sightings THEN sightings[mac] ELSE {}
<1> DEFINE at == scan.at
<1>1. /\ scan # None /\ scan = [at |-> at, left |-> scan.left, leases |-> scan.leases]
      /\ at \in Nat /\ at <= hour /\ hour \in Nat
  BY DEF Resolve, LanInv
<1>2. PICK name : known' = Observe(mac, scan.leases[mac], name, at)
  BY DEF Resolve
<1>3. /\ sightings' = With(sightings, mac, before \cup {at}) /\ scan' = [scan EXCEPT !.left = Tail(@)]
      /\ UNCHANGED <<hour, shown, forgotten>>
  BY DEF Resolve
<1>4. scan' = [at |-> at, left |-> Tail(scan.left), leases |-> scan.leases] /\ scan'.at = at
  BY <1>1, <1>3
<1>5. scan' # None
  <2>1. DOMAIN scan' = {"at", "left", "leases"} /\ DOMAIN None = {}
    BY <1>4 DEF None
  <2> QED BY <2>1
<1>6. /\ DOMAIN sightings' = DOMAIN known \cup {mac} /\ sightings'[mac] = before \cup {at}
      /\ \A m \in DOMAIN known : m # mac => sightings'[m] = sightings[m]
      /\ DOMAIN sightings = DOMAIN known
  BY <1>3 DEF LanInv, With
<1>7. /\ DOMAIN known' = DOMAIN known \cup {mac} /\ known' = [m \in DOMAIN known' |-> known'[m]]
      /\ \A m \in DOMAIN known : m # mac => known'[m] = known[m]
      /\ Entry(known'[mac]) /\ known'[mac].last = at
      /\ known'[mac].first = IF mac \in DOMAIN known THEN known[mac].first ELSE at
  <2>1. CASE mac \in DOMAIN known
    <3>1. Entry(known[mac]) /\ known = [m \in DOMAIN known |-> known[m]]
      BY <2>1 DEF LanInv
    <3> DEFINE called == IF name = None THEN known[mac].name ELSE name
    <3> DEFINE other == [known[mac] EXCEPT !.lease = scan.leases[mac], !.last = at, !.name = called]
    <3>2. known' = [known EXCEPT ![mac] = other]
      BY <1>2, <2>1, <3>1 DEF Observe
    <3> HIDE DEF called
    <3>3. DOMAIN other = DOMAIN known[mac]
      OBVIOUS
    <3>4. Entry(other) /\ other.last = at /\ other.first = known[mac].first
      BY <1>1, <3>1, <3>3 DEF Entry
    <3> HIDE DEF other
    <3> QED BY <2>1, <3>1, <3>2, <3>4
  <2>2. CASE mac \notin DOMAIN known
    <3> DEFINE new == [lease |-> scan.leases[mac], name |-> IF name = None THEN <<"lease", scan.leases[mac]>> ELSE name,
                       first |-> at, last |-> at]
    <3>1. known' = With(known, mac, new)
      BY <1>2, <2>2 DEF Observe
    <3>2. Entry(new) /\ new.last = at /\ new.first = at
      BY <1>1 DEF Entry
    <3> HIDE DEF new
    <3> QED BY <2>2, <3>1, <3>2 DEF With
  <2> QED BY <2>1, <2>2
<1> HIDE DEF mac, at
<1>8. before = (IF mac \in DOMAIN known THEN sightings[mac] ELSE {}) /\ before \subseteq Nat /\ \A t \in before : t <= at
  BY <1>1, <1>6 DEF LanInv, Extremes, at
<1>9. Extremes(known'[mac], sightings'[mac])
  <2>1. CASE mac \in DOMAIN known
    <3>1. Extremes(known[mac], before)
      BY <1>8, <2>1 DEF LanInv
    <3> HIDE DEF before
    <3> QED BY <2>1, <3>1, <1>1, <1>6, <1>7, <1>8 DEF Extremes, at
  <2>2. CASE mac \notin DOMAIN known
    BY <2>2, <1>1, <1>6, <1>7 DEF Extremes, at
  <2> QED BY <2>1, <2>2
<1> HIDE DEF before
<1>10. ASSUME NEW m \in DOMAIN known'
       PROVE  /\ Entry(known'[m]) /\ Extremes(known'[m], sightings'[m])
              /\ \A t \in sightings'[m] : t <= hour /\ t <= scan'.at
  <2>1. CASE m = mac
    BY <2>1, <1>1, <1>4, <1>6, <1>7, <1>8, <1>9 DEF at
  <2>2. CASE m # mac
    <3>1. m \in DOMAIN known /\ sightings'[m] = sightings[m] /\ known'[m] = known[m]
      BY <2>2, <1>6, <1>7
    <3> QED BY <3>1, <1>1, <1>4 DEF LanInv, at
  <2> QED BY <2>1, <2>2
<1>11. IsFiniteSet(DOMAIN known')
  BY <1>7, FS_AddElement DEF LanInv
<1>12. ASSUME NEW m \in DOMAIN shown
       PROVE  /\ \E t \in sightings'[m] : shown[m].first = t /\ \A s \in sightings'[m] : s >= t
              /\ shown[m].last \in sightings'[m]
              /\ \A t \in sightings'[m] : t <= shown[m].last \/ (scan' # None /\ t = scan'.at)
  <2>1. m \in DOMAIN known /\ DevicesAreKept /\ sightings[m] \subseteq Nat
    BY DEF LanInv, Extremes
  <2>2. PICK t \in sightings[m] : shown[m].first = t /\ \A s \in sightings[m] : s >= t
    BY <2>1 DEF DevicesAreKept
  <2>3. shown[m].last \in sightings[m] /\ \A s \in sightings[m] : s <= shown[m].last \/ s = at
    BY <2>1 DEF DevicesAreKept, at
  <2>4. CASE m = mac
    <3>1. sightings'[m] = sightings[m] \cup {at} /\ t <= at
      BY <2>1, <2>4, <1>6, <1>8
    <3> QED BY <2>1, <2>2, <2>3, <3>1, <1>1, <1>4, <1>5 DEF at
  <2>5. CASE m # mac
    <3>1. sightings'[m] = sightings[m]
      BY <2>1, <2>5, <1>6
    <3> QED BY <2>2, <2>3, <3>1, <1>4, <1>5
  <2> QED BY <2>4, <2>5
<1>13. DevicesAreKept'
  BY <1>3, <1>12 DEF LanInv, DevicesAreKept
<1> QED BY <1>1, <1>3, <1>4, <1>5, <1>6, <1>7, <1>10, <1>11, <1>13 DEF LanInv, at

\* The scan ends: what is kept is shown, and the registry is full of what was seen later
\* than what it forgets too early.
LEMMA LanEnd ==
  ASSUME LanInv, EndScan
  PROVE  LanInv'
<1> DEFINE recent == Recent(scan.at)
<1> DEFINE Latest(m) == CHOOSE t \in sightings[m] : \A s \in sightings[m] : s <= t
<1>1. PICK keep \in Pruned(recent) :
        /\ known' = [m \in keep |-> known[m]] /\ shown' = known'
        /\ sightings' = [m \in keep |-> sightings[m]]
        /\ forgotten' = {[mac |-> m, last |-> Latest(m), at |-> scan.at, stayed |-> known'] : m \in DOMAIN known \ keep}
  BY DEF EndScan
<1>2. scan' = None /\ hour' = hour /\ scan.at \in Nat
  BY DEF EndScan, LanInv
<1>3. /\ keep \subseteq recent /\ recent \subseteq DOMAIN known
      /\ Cardinality(keep) = IF Cardinality(recent) > MaxDevices THEN MaxDevices ELSE Cardinality(recent)
      /\ \A m \in keep, n \in recent \ keep : known[m].last >= known[n].last
  BY DEF Pruned, Recent
<1>4. IsFiniteSet(recent) /\ IsFiniteSet(keep)
  BY <1>3, FS_Subset DEF LanInv
<1> HIDE DEF recent
<1>5. /\ DOMAIN known' = keep /\ DOMAIN shown' = keep /\ DOMAIN sightings' = keep
      /\ \A m \in keep : known'[m] = known[m] /\ shown'[m] = known[m] /\ sightings'[m] = sightings[m] /\ m \in DOMAIN known
      /\ known' = [m \in DOMAIN known' |-> known'[m]]
  BY <1>1, <1>3
<1>6. ASSUME NEW m \in keep
      PROVE  /\ Entry(known'[m]) /\ Extremes(known'[m], sightings'[m]) /\ \A t \in sightings'[m] : t <= hour'
             /\ \E t \in sightings'[m] : shown'[m].first = t /\ \A s \in sightings'[m] : s >= t
             /\ shown'[m].last \in sightings'[m]
             /\ \A t \in sightings'[m] : t <= shown'[m].last
  <2>1. Entry(known[m]) /\ Extremes(known[m], sightings[m]) /\ \A t \in sightings[m] : t <= hour
    BY <1>5 DEF LanInv
  <2>2. /\ \E t \in sightings[m] : known[m].first = t /\ \A s \in sightings[m] : s >= t
        /\ known[m].last \in sightings[m] /\ \A t \in sightings[m] : t <= known[m].last
    BY <2>1 DEF Extremes
  <2> QED BY <2>1, <2>2, <1>2, <1>5
<1>7. ASSUME NEW f \in forgotten'
      PROVE  \/ f.at - f.last > Retention
             \/ Cardinality(DOMAIN f.stayed) = MaxDevices /\ \A m \in DOMAIN f.stayed : f.stayed[m].last >= f.last
  <2>1. PICK n \in DOMAIN known \ keep : f = [mac |-> n, last |-> Latest(n), at |-> scan.at, stayed |-> known']
    BY <1>1
  <2>2. Entry(known[n]) /\ Extremes(known[n], sightings[n])
    BY DEF LanInv
  <2>3. Latest(n) = known[n].last
    <3>1. known[n].last \in sightings[n] /\ \A s \in sightings[n] : s <= known[n].last
      BY <2>2 DEF Extremes
    <3>2. Latest(n) \in sightings[n] /\ \A s \in sightings[n] : s <= Latest(n)
      BY <3>1
    <3>3. Latest(n) \in Nat /\ known[n].last \in Nat
      BY <3>1, <3>2, <2>2 DEF Extremes
    <3> HIDE DEF Latest
    <3> QED BY <3>1, <3>2, <3>3
  <2> HIDE DEF Latest
  <2>4. f.at = scan.at /\ f.last = known[n].last /\ f.stayed = known'
    BY <2>1, <2>3
  <2>5. CASE n \notin recent
    BY <2>4, <2>5, <2>2, <1>2, WatchersAssumption DEF Recent, recent, Entry
  <2>6. CASE n \in recent
    <3>1. keep # recent
      BY <2>1, <2>6
    <3>2. Cardinality(keep) # Cardinality(recent)
      BY <3>1, <1>3, <1>4, FS_Subset
    <3>3. Cardinality(keep) = MaxDevices
      BY <3>2, <1>3
    <3> QED BY <2>1, <2>4, <2>6, <3>3, <1>3, <1>5
  <2> QED BY <2>5, <2>6
<1>8. DevicesAreKept'
  BY <1>5, <1>6, <1>7 DEF DevicesAreKept
<1> QED BY <1>2, <1>4, <1>5, <1>6, <1>8 DEF LanInv

LEMMA LanStep == LanInv /\ [SurroundingsNext]_surroundings => LanInv'
<1> SUFFICES ASSUME LanInv, [SurroundingsNext]_surroundings PROVE LanInv'
  OBVIOUS
<1>0. hour \in Nat
  BY DEF LanInv
<1>1. CASE UNCHANGED lan /\ (hour' = hour \/ hour' = hour + 1)
  BY <1>0, <1>1, LanWaits DEF lan
<1>2. CASE WatchersNext
  <2>1. CASE Hour
    BY <2>1, <1>1 DEF Hour
  <2>2. CASE LanNext
    <3>1. CASE Network
      BY <3>1, <1>0, LanWaits DEF Network
    <3> QED BY <2>2, <3>1, LanBegin, LanResolve, LanEnd DEF LanNext
  <2>3. CASE MonitorNext
    BY <2>3, <1>1 DEF MonitorNext, UnitChange, Measure, ListUnits
  <2>4. CASE ExportNext
    <3>1. ASSUME NEW powerFails \in BOOLEAN, Die(powerFails) PROVE LanInv'
      <4>1. scan' = None /\ known' = <<>> /\ shown' = <<>> /\ sightings' = <<>> /\ forgotten' = {} /\ hour' = hour
        BY <3>1 DEF Die
      <4>2. DOMAIN known' = {} /\ DOMAIN shown' = {} /\ DOMAIN sightings' = {} /\ known' = [m \in DOMAIN known' |-> known'[m]]
        BY <4>1
      <4>3. IsFiniteSet(DOMAIN known')
        BY <4>2, FS_EmptySet
      <4> QED BY <4>1, <4>2, <4>3, <1>0 DEF LanInv, DevicesAreKept
    <3>2. CASE CreateTemporary \/ WriteHalf \/ WriteRest \/ Sync \/ Rename \/ Publish \/ Restart
      BY <3>2, <1>1 DEF CreateTemporary, WriteHalf, WriteRest, Sync, Rename, Publish, Restart, Do
    <3> QED BY <2>4, <3>1, <3>2 DEF ExportNext
  <2> QED BY <1>2, <2>1, <2>2, <2>3, <2>4 DEF WatchersNext
<1>3. CASE UNCHANGED watchers
  BY <1>3, <1>1 DEF watchers
<1> QED BY <1>2, <1>3 DEF SurroundingsNext, surroundings

-----------------------------------------------------------------------------
\* What the daemon was told, did and saw it keeps as long as it is due, for any capacities,
\* limits and retention, clocks and orders of expiry (mute, audit, prune).
THEOREM KeptAsLongAsDue == SurroundingsSpec => []KeptWhileDue
<1>1. MutesInv /\ AuditInv /\ LanInv => KeptWhileDue
  BY AuditMeansKept DEF MutesInv, LanInv, KeptWhileDue
<1> QED BY <1>1, MutesInitially, AuditInitially, LanInitially, MutesStep, AuditStep, LanStep, PTL
        DEF SurroundingsSpec

-----------------------------------------------------------------------------
(* The exported file.                                                      *)

Files == [number : Nat, halves : 0..2, synced : BOOLEAN]
HalvesAt == [created |-> 0, half |-> 1, written |-> 2, synced |-> 2]
Writing == {"created", "half", "written", "synced"}

\* The temporary file has what the stage of the export says, and only what was synced takes
\* the place of the target.
ExportInv ==
  /\ export \in Writing \cup {"idle", "renamed"} /\ breakdowns \in Nat /\ published \in Nat
  /\ temporary \in Files \cup {None} /\ target \in Files \cup {None}
  /\ export \in Writing => temporary \in Files /\ temporary.halves = HalvesAt[export]
  /\ export = "synced" => temporary.synced
  /\ ~running => export = "idle"
  /\ target # None => target.halves = 2 /\ target.synced
  /\ breakdowns = 0 =>
       /\ export \in Writing => temporary.number = published + 1
       /\ export \in Writing \cup {"idle"} /\ published > 0 => target.number = published
       /\ export = "renamed" => target.number = published + 1

LEMMA NoneIsNoFile == None \notin Files
<1>1. DOMAIN None = {} /\ \A f \in Files : DOMAIN f = {"number", "halves", "synced"}
  BY DEF None, Files
<1> QED BY <1>1

LEMMA ExportInitially == SurroundingsInit => ExportInv
BY DEF SurroundingsInit, WatchersInit, ExportInv, Writing, None

\* A step that is not the last of an export, or that fails.
LEMMA ExportGivenUp ==
  ASSUME ExportInv, breakdowns' = breakdowns + 1, published' = published + 1, export' = "idle",
         UNCHANGED <<temporary, target>>
  PROVE  ExportInv'
BY DEF ExportInv, Writing

\* A file after a step on the temporary one.
LEMMA ExportWrites ==
  ASSUME ExportInv, export \in Writing, export' \in Writing, temporary' \in Files,
         temporary'.halves = HalvesAt[export'], export' = "synced" => temporary'.synced,
         temporary'.number = temporary.number, UNCHANGED <<running, published, breakdowns, target>>
  PROVE  ExportInv'
BY DEF ExportInv, Writing

LEMMA ExportStep == ExportInv /\ [SurroundingsNext]_surroundings => ExportInv'
<1> SUFFICES ASSUME ExportInv, [SurroundingsNext]_surroundings PROVE ExportInv'
  OBVIOUS
<1>0. /\ breakdowns \in Nat /\ published \in Nat
      /\ export \in Writing => temporary \in Files /\ temporary.halves = HalvesAt[export]
      /\ export = "synced" => temporary.synced
      /\ target \in Files \cup {None} /\ temporary \in Files \cup {None}
  BY DEF ExportInv
<1>1. CASE UNCHANGED <<running, exporting>> /\ (breakdowns' = breakdowns \/ breakdowns' = breakdowns + 1)
  BY <1>1, <1>0 DEF ExportInv, exporting, Writing
<1>2. CASE WatchersNext
  <2>1. CASE Hour
    BY <2>1, <1>1 DEF Hour
  <2>2. CASE LanNext
    BY <2>2, <1>1 DEF LanNext, Network, BeginScan, Resolve, EndScan
  <2>3. CASE MonitorNext
    BY <2>3, <1>1 DEF MonitorNext, UnitChange, Measure, ListUnits, Break
  <2>4. CASE CreateTemporary
    <3>1. CASE /\ temporary' = File(published + 1, 0, FALSE) /\ export' = "created"
               /\ UNCHANGED <<running, published, breakdowns, target>>
      <4>1. temporary' \in Files /\ temporary'.halves = 0 /\ temporary'.number = published + 1
        BY <3>1, <1>0 DEF File, Files
      <4>2. export = "idle" /\ running /\ running' = running
        BY <2>4 DEF CreateTemporary
      <4>3. breakdowns = 0 /\ published > 0 => target.number = published
        BY <4>2 DEF ExportInv
      <4>4. export' \in Writing /\ HalvesAt[export'] = 0 /\ export' # "synced" /\ export' # "renamed"
        BY <3>1 DEF Writing, HalvesAt
      <4>5. target # None => target.halves = 2 /\ target.synced
        BY DEF ExportInv
      <4>6. breakdowns' = 0 =>
              /\ export' \in Writing => temporary'.number = published' + 1
              /\ export' \in Writing \cup {"idle"} /\ published' > 0 => target'.number = published'
              /\ export' = "renamed" => target'.number = published' + 1
        BY <3>1, <4>1, <4>3, <4>4
      <4>7. /\ export' \in Writing => temporary' \in Files /\ temporary'.halves = HalvesAt[export']
            /\ export' = "synced" => temporary'.synced
            /\ target' # None => target'.halves = 2 /\ target'.synced
        BY <3>1, <4>1, <4>4, <4>5
      <4>8. /\ export' \in Writing \cup {"idle", "renamed"} /\ breakdowns' \in Nat /\ published' \in Nat
            /\ temporary' \in Files \cup {None} /\ target' \in Files \cup {None}
        BY <3>1, <4>1, <4>4, <1>0
      <4>9. ~running' => export' = "idle"
        BY <4>2, Zenon
      <4> QED BY <4>6, <4>7, <4>8, <4>9 DEF ExportInv
    <3>2. CASE Break /\ published' = published + 1 /\ UNCHANGED <<temporary, export, target>>
      BY <2>4, <3>2, ExportGivenUp DEF CreateTemporary, Break
    <3> QED BY <2>4, <3>1, <3>2 DEF CreateTemporary
  <2>5. CASE WriteHalf \/ WriteRest \/ Sync
    <3>1. CASE Break /\ published' = published + 1 /\ export' = "idle" /\ UNCHANGED <<temporary, target>>
      BY <3>1, ExportGivenUp DEF Break
    <3>2. CASE /\ export = "created" /\ export' = "half" /\ temporary' = [temporary EXCEPT !.halves = 1]
               /\ UNCHANGED <<running, target, published, breakdowns>>
      <4>1. temporary' \in Files /\ temporary'.halves = 1 /\ temporary'.number = temporary.number
        BY <3>2, <1>0 DEF Files, Writing
      <4> QED BY <3>2, <4>1, ExportWrites DEF Writing, HalvesAt
    <3>3. CASE /\ export = "half" /\ export' = "written" /\ temporary' = [temporary EXCEPT !.halves = 2]
               /\ UNCHANGED <<running, target, published, breakdowns>>
      <4>1. temporary' \in Files /\ temporary'.halves = 2 /\ temporary'.number = temporary.number
        BY <3>3, <1>0 DEF Files, Writing
      <4> QED BY <3>3, <4>1, ExportWrites DEF Writing, HalvesAt
    <3>4. CASE /\ export = "written" /\ export' = "synced" /\ temporary' = [temporary EXCEPT !.synced = TRUE]
               /\ UNCHANGED <<running, target, published, breakdowns>>
      <4>1. temporary' \in Files /\ temporary'.halves = 2 /\ temporary'.number = temporary.number /\ temporary'.synced
        BY <3>4, <1>0 DEF Files, Writing, HalvesAt
      <4> QED BY <3>4, <4>1, ExportWrites DEF Writing, HalvesAt
    <3> QED BY <2>5, <3>1, <3>2, <3>3, <3>4 DEF WriteHalf, WriteRest, Sync, Do
  <2>6. CASE Rename
    <3>1. CASE Break /\ published' = published + 1 /\ export' = "idle" /\ UNCHANGED <<temporary, target>>
      BY <3>1, ExportGivenUp DEF Break
    <3>2. CASE /\ export = "synced" /\ target' = temporary /\ temporary' = None /\ export' = "renamed"
               /\ UNCHANGED <<running, published, breakdowns>>
      BY <3>2 DEF ExportInv, Writing, HalvesAt
    <3> QED BY <2>6, <3>1, <3>2 DEF Rename, Do
  <2>7. CASE Publish
    BY <2>7 DEF Publish, ExportInv, Writing
  <2>8. ASSUME NEW powerFails \in BOOLEAN, Die(powerFails) PROVE ExportInv'
    <3>1. /\ breakdowns' = breakdowns + 1 /\ export' = "idle" /\ published' = published
          /\ temporary' \in After(temporary, powerFails) /\ target' \in After(target, powerFails)
      BY <2>8 DEF Die, Break
    <3>2. ASSUME NEW f \in Files PROVE After(f, powerFails) \subseteq Files
      BY DEF After, Files
    <3>3. After(None, powerFails) = {None}
      BY DEF After
    <3>4. temporary' \in Files \cup {None}
      BY <3>1, <3>2, <3>3, <1>0
    <3>5. target' = target
      <4>1. target = None \/ target.synced
        BY DEF ExportInv
      <4>2. After(target, powerFails) = {target}
        BY <4>1 DEF After
      <4> QED BY <3>1, <4>2
    <3> QED BY <3>1, <3>4, <3>5, <1>0 DEF ExportInv, Writing
  <2>9. CASE Restart
    BY <2>9, <1>0 DEF Restart, ExportInv, Writing
  <2> QED BY <1>2, <2>1, <2>2, <2>3, <2>4, <2>5, <2>6, <2>7, <2>8, <2>9 DEF WatchersNext, ExportNext
<1>3. CASE UNCHANGED watchers
  BY <1>3, <1>1 DEF watchers
<1> QED BY <1>2, <1>3 DEF SurroundingsNext, surroundings

\* Whoever reads the exported file finds one snapshot, whole, wherever a step of the export
\* fails or the power does (write_prometheus_textfile).
THEOREM ExportedWhole == SurroundingsSpec => []ExportIsWhole
<1>1. ExportInv => ExportIsWhole
  BY DEF ExportInv, ExportIsWhole, Writing
<1> QED BY <1>1, ExportInitially, ExportStep, PTL DEF SurroundingsSpec

-----------------------------------------------------------------------------
(* Tools.                                                                  *)

\* A set of numbers has a least one.
LEMMA LeastExists ==
  ASSUME NEW T \in SUBSET Nat, T # {}
  PROVE  \E x \in T : \A y \in T : x <= y
<1> DEFINE Less == {pair \in Nat \X Nat : pair[1] < pair[2]}
<1>1. IsWellFoundedOn(Less, Nat)
  BY NatLessThanWellFounded DEF OpToRel
<1>2. PICK x \in T : \A y \in T : <<y, x>> \notin Less
  <2> HIDE DEF Less
  <2> QED
    BY <1>1, WFMin
<1>3. ASSUME NEW y \in T
      PROVE  x <= y
  <2>1. x \in Nat /\ y \in Nat /\ <<y, x>> \notin Less
    BY <1>2
  <2>2. <<y, x>> \in Nat \X Nat /\ <<y, x>>[1] = y /\ <<y, x>>[2] = x
    BY <2>1
  <2>3. ~(y < x)
    BY <2>1, <2>2
  <2> QED
    BY <2>1, <2>3
<1> QED
  BY <1>2, <1>3

\* What holds of 0, and of n when it holds of n - 1, holds as far as it goes.
LEMMA UpToTheEnd ==
  ASSUME NEW N \in Nat, NEW P, 0 \in P, \A n \in 1..N : n - 1 \in P => n \in P
  PROVE  0..N \subseteq P
<1> DEFINE Missed == (0..N) \ P
<1> SUFFICES ASSUME Missed # {} PROVE FALSE
  OBVIOUS
<1>1. PICK n \in Missed : \A y \in Missed : n <= y
  <2>1. Missed \in SUBSET Nat
    OBVIOUS
  <2> HIDE DEF Missed
  <2> QED
    BY <2>1, LeastExists
<1>2. n \in 1..N /\ n \notin P
  BY <1>1
<1>3. n - 1 \in 0..N /\ ~(n <= n - 1)
  BY <1>2
<1>4. n - 1 \in P
  BY <1>1, <1>3
<1> QED
  BY <1>2, <1>4

\* A step taken one time after the other.
Takes(f, c, step, N) == f[0] = c /\ \A n \in 1..N : f[n] = step[<<f[n - 1], n>>]

LEMMA StepsAreTaken ==
  ASSUME NEW N \in Nat, NEW T, NEW c \in T, NEW step \in [T \X (1..N) -> T]
  PROVE  \E f \in [0..N -> T] : Takes(f, c, step, N)
<1> DEFINE P == {n \in 0..N : \E f \in [0..n -> T] : Takes(f, c, step, n)}
<1>1. 0 \in P
  <2> DEFINE f == [i \in 0..0 |-> c]
  <2>1. f \in [0..0 -> T] /\ Takes(f, c, step, 0)
    BY DEF Takes
  <2> QED
    BY <2>1
<1>2. ASSUME NEW n \in 1..N, n - 1 \in P
      PROVE  n \in P
  <2>1. PICK f \in [0..(n - 1) -> T] : Takes(f, c, step, n - 1)
    BY <1>2
  <2> DEFINE last == step[<<f[n - 1], n>>]
             g == [i \in 0..n |-> IF i = n THEN last ELSE f[i]]
  <2>2. last \in T
    <3>1. f[n - 1] \in T
      BY <2>1
    <3> QED
      BY <3>1
  <2>3. g \in [0..n -> T]
    BY <2>1, <2>2
  <2>4. Takes(g, c, step, n)
    <3>1. g[0] = c
      BY <2>1 DEF Takes
    <3>2. ASSUME NEW i \in 1..n
          PROVE  g[i] = step[<<g[i - 1], i>>]
      <4>1. g[i - 1] = f[i - 1]
        OBVIOUS
      <4>2. CASE i = n
        BY <4>1, <4>2, SMTT(30)
      <4>3. CASE i # n
        <5>1. i \in 1..(n - 1) /\ g[i] = f[i]
          BY <4>3
        <5> QED
          BY <2>1, <4>1, <5>1 DEF Takes
      <4> QED
        BY <4>2, <4>3
    <3> QED
      BY <3>1, <3>2 DEF Takes
  <2> QED
    BY <2>3, <2>4
<1>3. 0..N \subseteq P
  <2> HIDE DEF P
  <2> QED
    BY <1>1, <1>2, UpToTheEnd
<1> QED
  BY <1>3

-----------------------------------------------------------------------------
(* The ring of lines.                                                      *)

RingEntries == [number : Nat, stamp : Nat, unit : UnitNames]
Numbered(seq) == \A i, j \in 1..Len(seq) : i < j => seq[i].number < seq[j].number

\* Those of the first n that are in the set, in their order.
Chosen(s, seq, set, n) ==
  /\ Numbered(s)
  /\ \A i \in 1..Len(s) : \E k \in 1..n : s[i] = seq[k] /\ seq[k] \in set
  /\ \A k \in 1..n : seq[k] \in set => \E i \in 1..Len(s) : s[i] = seq[k]

LEMMA OneChosen ==
  ASSUME NEW seq \in Seq(RingEntries), Numbered(seq), NEW set, NEW n \in 1..Len(seq),
         NEW s \in Seq(RingEntries), Chosen(s, seq, set, n - 1)
  PROVE  LET t == IF seq[n] \in set THEN Append(s, seq[n]) ELSE s
         IN  t \in Seq(RingEntries) /\ Chosen(t, seq, set, n)
<1> DEFINE t == Append(s, seq[n])
<1>0. Len(s) \in Nat /\ Len(seq) \in Nat /\ seq[n] \in RingEntries /\ n - 1 \in Nat
  BY LenProperties, ElementOfSeq
<1>1. CASE seq[n] \notin set
  <2>1. \A i \in 1..Len(s) : \E k \in 1..n : s[i] = seq[k] /\ seq[k] \in set
    BY <1>0 DEF Chosen
  <2>2. \A k \in 1..n : seq[k] \in set => \E i \in 1..Len(s) : s[i] = seq[k]
    <3>1. \A k \in 1..n : k = n \/ k \in 1..(n - 1)
      BY <1>0
    <3> QED BY <1>1, <3>1 DEF Chosen
  <2> QED BY <1>1, <2>1, <2>2 DEF Chosen
<1>2. CASE seq[n] \in set
  <2>1. /\ t \in Seq(RingEntries) /\ Len(t) = Len(s) + 1 /\ t[Len(s) + 1] = seq[n]
        /\ \A i \in 1..Len(s) : t[i] = s[i]
    BY <1>0, AppendProperties
  <2>2. \A i \in 1..Len(t) : i \in 1..Len(s) \/ i = Len(s) + 1
    BY <1>0, <2>1
  <2> HIDE DEF t
  <2>3. ASSUME NEW i \in 1..Len(t)
        PROVE  \E k \in 1..n : t[i] = seq[k] /\ seq[k] \in set
    <3>1. CASE i = Len(s) + 1
      BY <1>2, <2>1, <3>1
    <3>2. CASE i \in 1..Len(s)
      <4>1. PICK k \in 1..(n - 1) : s[i] = seq[k] /\ seq[k] \in set
        BY <3>2 DEF Chosen
      <4>2. k \in 1..n
        BY <1>0
      <4> QED BY <2>1, <3>2, <4>1, <4>2
    <3> QED BY <2>2, <3>1, <3>2
  <2>4. ASSUME NEW k \in 1..n, seq[k] \in set
        PROVE  \E i \in 1..Len(t) : t[i] = seq[k]
    <3>1. CASE k = n
      <4>1. Len(s) + 1 \in 1..Len(t)
        BY <1>0, <2>1
      <4> QED BY <2>1, <3>1, <4>1
    <3>2. CASE k # n
      <4>1. k \in 1..(n - 1)
        BY <3>2
      <4>2. PICK i \in 1..Len(s) : s[i] = seq[k]
        BY <2>4, <4>1 DEF Chosen
      <4>3. i \in 1..Len(t)
        BY <1>0, <2>1
      <4> QED BY <2>1, <4>2, <4>3
    <3> QED BY <3>1, <3>2
  <2>5. ASSUME NEW i \in 1..Len(t), NEW j \in 1..Len(t), i < j
        PROVE  t[i].number < t[j].number
    <3>1. i \in 1..Len(s)
      BY <1>0, <2>1, <2>5
    <3>2. CASE j \in 1..Len(s)
      BY <2>1, <2>5, <3>1, <3>2 DEF Chosen, Numbered
    <3>3. CASE j = Len(s) + 1
      <4>1. PICK k \in 1..(n - 1) : s[i] = seq[k]
        BY <3>1 DEF Chosen
      <4>2. k \in 1..Len(seq) /\ n \in 1..Len(seq) /\ k < n
        BY <1>0
      <4> QED BY <2>1, <3>1, <3>3, <4>1, <4>2 DEF Numbered
    <3> QED BY <2>2, <3>2, <3>3
  <2>6. Chosen(t, seq, set, n)
    BY <2>3, <2>4, <2>5 DEF Chosen, Numbered
  <2> QED BY <1>2, <2>1, <2>6 DEF t
<1> QED BY <1>1, <1>2

\* What Kept keeps of lines in their order.
LEMMA KeptIsChosen ==
  ASSUME NEW seq \in Seq(RingEntries), Numbered(seq), NEW set
  PROVE  Kept(seq, set) \in Seq(RingEntries) /\ Chosen(Kept(seq, set), seq, set, Len(seq))
<1> DEFINE N == Len(seq)
           T == Seq(RingEntries)
           Def(h) == [n \in 0..N |->
                        IF n = 0 THEN <<>>
                        ELSE IF seq[n] \in set THEN Append(h[n - 1], seq[n]) ELSE h[n - 1]]
           kept == CHOOSE h : h = Def(h)
           step == [p \in T \X (1..N) |->
                      IF seq[p[2]] \in set THEN Append(p[1], seq[p[2]]) ELSE p[1]]
           P == {n \in 0..N : kept[n] \in T /\ Chosen(kept[n], seq, set, n)}
<1>0. N \in Nat /\ <<>> \in T
  BY LenProperties, EmptySeq
<1>1. kept = Def(kept)
  <2>1. step \in [T \X (1..N) -> T]
    <3>1. ASSUME NEW s \in T, NEW n \in 1..N
          PROVE  (IF seq[n] \in set THEN Append(s, seq[n]) ELSE s) \in T
      <4>1. seq[n] \in RingEntries
        BY ElementOfSeq
      <4> QED BY <4>1, AppendProperties
    <3> HIDE DEF T, N
    <3> QED BY <3>1
  <2>2. PICK f \in [0..N -> T] : Takes(f, <<>>, step, N)
    <3> HIDE DEF T, N, step
    <3> QED BY <1>0, <2>1, StepsAreTaken
  <2>3. ASSUME NEW n \in 0..N
        PROVE  f[n] = Def(f)[n]
    <3>1. CASE n = 0
      BY <2>2, <3>1 DEF Takes
    <3>2. CASE n # 0
      <4>1. n \in 1..N /\ n - 1 \in 0..N
        BY <1>0, <3>2
      <4>2. f[n - 1] \in T
        BY <4>1
      <4>3. f[n] = step[<<f[n - 1], n>>]
        BY <2>2, <4>1 DEF Takes
      <4> HIDE DEF T, N
      <4>4. step[<<f[n - 1], n>>] = IF seq[n] \in set THEN Append(f[n - 1], seq[n]) ELSE f[n - 1]
        BY <4>1, <4>2
      <4> QED BY <3>2, <4>3, <4>4
    <3> QED BY <3>1, <3>2
  <2>4. f = Def(f)
    BY <2>3
  <2> HIDE DEF Def
  <2> QED BY <2>4
<1>2. Kept(seq, set) = kept[N]
  BY DEF Kept
<1>3. kept[0] = <<>>
  <2>1. 0 \in 0..N
    BY <1>0
  <2> HIDE DEF kept
  <2> QED BY <1>1, <2>1
<1>4. ASSUME NEW n \in 1..N
      PROVE  kept[n] = IF seq[n] \in set THEN Append(kept[n - 1], seq[n]) ELSE kept[n - 1]
  <2>1. n \in 0..N /\ n # 0
    BY <1>0
  <2> HIDE DEF kept
  <2> QED BY <1>1, <2>1
<1> HIDE DEF kept
<1>5. 0 \in P
  <2>1. Len(kept[0]) = 0
    BY <1>3
  <2>2. Chosen(kept[0], seq, set, 0)
    BY <2>1 DEF Chosen, Numbered
  <2>3. kept[0] \in T /\ 0 \in 0..N
    BY <1>0, <1>3
  <2> QED BY <2>2, <2>3
<1>6. ASSUME NEW n \in 1..N, n - 1 \in P
      PROVE  n \in P
  <2>1. kept[n - 1] \in T /\ Chosen(kept[n - 1], seq, set, n - 1) /\ n \in 0..N
    BY <1>0, <1>6
  <2> DEFINE s == kept[n - 1]
  <2>2. s \in Seq(RingEntries) /\ Chosen(s, seq, set, n - 1) /\ n \in 1..Len(seq)
    BY <2>1
  <2>3. kept[n] = IF seq[n] \in set THEN Append(s, seq[n]) ELSE s
    BY <1>4
  <2> HIDE DEF s
  <2>4. kept[n] \in T /\ Chosen(kept[n], seq, set, n)
    BY <2>2, <2>3, OneChosen
  <2> QED BY <2>1, <2>4
<1>7. N \in P
  <2> HIDE DEF P, N
  <2>1. 0..N \subseteq P
    BY <1>0, <1>5, <1>6, UpToTheEnd
  <2> QED BY <1>0, <2>1
<1> QED BY <1>2, <1>7

\* One of the lines is the first of those nearest.
LEMMA NearestIsThere ==
  ASSUME NEW seq \in Seq(RingEntries), Len(seq) > 0, NEW stamp \in Nat
  PROVE  LET i == NearestIn(seq, stamp)
         IN  i \in 1..Len(seq) /\ \A j \in 1..Len(seq) :
               Distance(seq[i].stamp, stamp) <= Distance(seq[j].stamp, stamp)
<1> DEFINE N == Len(seq)
           D(j) == Distance(seq[j].stamp, stamp)
           Far == {D(j) : j \in 1..N}
           Best(i) == \A j \in DOMAIN seq : D(i) < D(j) \/ (D(i) = D(j) /\ i <= j)
<1>0. N \in Nat /\ DOMAIN seq = 1..N
  BY LenProperties
<1>1. \A j \in 1..N : D(j) \in Nat
  <2> SUFFICES ASSUME NEW j \in 1..N PROVE D(j) \in Nat
    OBVIOUS
  <2>1. seq[j] \in RingEntries
    BY ElementOfSeq
  <2>2. seq[j].stamp \in Nat
    BY <2>1 DEF RingEntries
  <2> QED BY <2>2 DEF Distance
<1> HIDE DEF D
<1>2. PICK d \in Far : \A e \in Far : d <= e
  <2>1. Far \in SUBSET Nat /\ Far # {}
    BY <1>0, <1>1
  <2> HIDE DEF Far
  <2> QED BY <2>1, LeastExists
<1> DEFINE Near == {j \in 1..N : D(j) = d}
<1>3. PICK i \in Near : \A j \in Near : i <= j
  <2>1. Near \in SUBSET Nat /\ Near # {}
    BY <1>0, <1>2
  <2> HIDE DEF Near
  <2> QED BY <2>1, LeastExists
<1>4. i \in DOMAIN seq /\ Best(i)
  <2>1. ASSUME NEW j \in 1..N
        PROVE  D(i) < D(j) \/ (D(i) = D(j) /\ i <= j)
    <3>1. D(i) = d /\ D(j) \in Nat /\ d \in Nat /\ d <= D(j) /\ (D(j) = d => i <= j)
      BY <1>1, <1>2, <1>3
    <3> QED BY <3>1
  <2> QED BY <1>0, <1>3, <2>1
<1>5. NearestIn(seq, stamp) = CHOOSE k \in DOMAIN seq : Best(k)
  BY DEF NearestIn, D
<1>6. NearestIn(seq, stamp) \in DOMAIN seq /\ Best(NearestIn(seq, stamp))
  <2> HIDE DEF Best
  <2> QED BY <1>4, <1>5
<1>7. \A j \in 1..N : D(NearestIn(seq, stamp)) <= D(j)
  BY <1>0, <1>1, <1>6
<1> QED BY <1>0, <1>6, <1>7 DEF D

\* As many lines as lie between two of them.
LEMMA LinesBetween ==
  ASSUME NEW seq \in Seq(RingEntries), Numbered(seq), NEW i \in 1..Len(seq), NEW j \in i..Len(seq)
  PROVE  j - i = Cardinality({k \in DOMAIN seq : /\ seq[i].number <= seq[k].number
                                                /\ seq[k].number < seq[j].number})
<1> DEFINE B == {k \in DOMAIN seq : seq[i].number <= seq[k].number /\ seq[k].number < seq[j].number}
<1>0. Len(seq) \in Nat /\ DOMAIN seq = 1..Len(seq) /\ i \in Nat /\ j \in 1..Len(seq) /\ i <= j
  BY LenProperties
<1>1. \A k \in 1..Len(seq) : seq[k].number \in Nat
  <2>1. \A k \in 1..Len(seq) : seq[k] \in RingEntries
    BY ElementOfSeq
  <2> QED BY <2>1 DEF RingEntries
<1>2. B = i..(j - 1)
  <2>1. ASSUME NEW k \in B
        PROVE  k \in i..(j - 1)
    <3>1. k \in 1..Len(seq) /\ ~(seq[k].number < seq[i].number) /\ seq[k].number < seq[j].number
      BY <1>0, <1>1
    <3>2. ~(k < i) /\ ~(j < k) /\ k # j
      BY <1>0, <1>1, <3>1 DEF Numbered
    <3> QED BY <1>0, <3>1, <3>2
  <2>2. ASSUME NEW k \in i..(j - 1)
        PROVE  k \in B
    <3>1. k \in 1..Len(seq) /\ k < j /\ (i < k \/ k = i)
      BY <1>0
    <3>2. seq[k].number < seq[j].number /\ seq[i].number <= seq[k].number
      BY <1>0, <1>1, <3>1 DEF Numbered
    <3> QED BY <1>0, <3>1, <3>2
  <2> QED BY <2>1, <2>2
<1>3. Cardinality(i..(j - 1)) = j - i
  <2>1. i \in Int /\ j - 1 \in Int
    BY <1>0
  <2>2. Cardinality(i..(j - 1)) = IF i > j - 1 THEN 0 ELSE (j - 1) - i + 1
    BY <2>1, FS_Interval
  <2> QED BY <1>0, <2>2
<1> QED BY <1>2, <1>3

RingInv ==
  /\ lines \in Nat /\ ring \in Seq(RingEntries) /\ Numbered(ring)
  /\ \A i \in 1..Len(ring) : ring[i].number <= lines
  /\ raised \subseteq RingEntries
  /\ ContextFits

LEMMA RingInitially == SurroundingsInit => RingInv
<1> SUFFICES ASSUME SurroundingsInit PROVE RingInv
  OBVIOUS
<1>1. lines = 0 /\ ring = <<>> /\ raised = {} /\ reply = NoReply
  BY DEF SurroundingsInit, SharedStateInit
<1>2. Len(ring) = 0 /\ ring \in Seq(RingEntries)
  BY <1>1, EmptySeq
<1> QED BY <1>1, <1>2 DEF RingInv, Numbered, ContextFits

LEMMA RingUnchanged ==
  ASSUME RingInv, UNCHANGED contextRing
  PROVE  RingInv'
<1>1. lines' = lines /\ ring' = ring /\ raised' = raised /\ reply' = reply
  BY DEF contextRing
<1>2. OfUnit(ring, reply.unit)' = OfUnit(ring, reply.unit)
  BY <1>1 DEF OfUnit, Kept, ToSet
<1>3. ContextFits'
  BY <1>1, <1>2 DEF RingInv, ContextFits
<1> QED BY <1>1, <1>3 DEF RingInv, Numbered

LEMMA RingHandle ==
  ASSUME RingInv, HandleNext
  PROVE  RingInv'
<1>1. PICK template \in Templates, unit \in UnitNames, stamp \in Stamps : Handle(template, unit, stamp)
  BY DEF HandleNext
<1> DEFINE entry == [number |-> lines + 1, stamp |-> stamp, unit |-> unit]
           rest == IF Len(ring) >= RingSize THEN Tail(ring) ELSE ring
<1>2. /\ lines' = lines + 1 /\ ring' = Append(rest, entry) /\ reply' = NoReply
      /\ raised' = raised \/ raised' = raised \cup {entry}
  BY <1>1 DEF Handle, Pushed
<1>3. entry \in RingEntries /\ entry.number = lines + 1
  BY SharedStateAssumption DEF RingInv, RingEntries
<1> HIDE DEF entry
<1>4. /\ rest \in Seq(RingEntries) /\ Numbered(rest)
      /\ \A i \in 1..Len(rest) : rest[i].number <= lines
  <2>1. CASE Len(ring) >= RingSize
    <3>1. Len(ring) \in Nat /\ Len(ring) > 0
      BY <2>1, SharedStateAssumption, LenProperties DEF RingInv
    <3>2. ring # <<>>
      BY <3>1
    <3>3. /\ Tail(ring) \in Seq(RingEntries) /\ Len(Tail(ring)) = Len(ring) - 1
          /\ \A i \in 1..Len(Tail(ring)) : Tail(ring)[i] = ring[i + 1]
      BY <3>1, <3>2, HeadTailProperties DEF RingInv
    <3>4. \A i \in 1..Len(Tail(ring)) : i + 1 \in 1..Len(ring)
      BY <3>1, <3>3
    <3>5. Numbered(Tail(ring))
      <4> SUFFICES ASSUME NEW i \in 1..Len(Tail(ring)), NEW j \in 1..Len(Tail(ring)), i < j
                   PROVE  Tail(ring)[i].number < Tail(ring)[j].number
        BY DEF Numbered
      <4>1. i + 1 \in 1..Len(ring) /\ j + 1 \in 1..Len(ring) /\ i + 1 < j + 1
        BY <3>4
      <4> QED BY <3>3, <4>1 DEF RingInv, Numbered
    <3> QED BY <2>1, <3>3, <3>4, <3>5 DEF RingInv
  <2> QED BY <2>1 DEF RingInv
<1> HIDE DEF rest
<1>5. /\ ring' \in Seq(RingEntries) /\ Len(ring') = Len(rest) + 1 /\ ring'[Len(rest) + 1] = entry
      /\ \A i \in 1..Len(rest) : ring'[i] = rest[i]
  BY <1>2, <1>3, <1>4, AppendProperties
<1>6. Len(rest) \in Nat /\ \A i \in 1..Len(ring') : i \in 1..Len(rest) \/ i = Len(rest) + 1
  BY <1>4, <1>5, LenProperties
<1>7. \A i \in 1..Len(rest) : rest[i].number \in Nat
  <2>1. \A i \in 1..Len(rest) : rest[i] \in RingEntries
    BY <1>4, ElementOfSeq
  <2> QED BY <2>1 DEF RingEntries
<1>8. \A i \in 1..Len(ring') : ring'[i].number <= lines + 1
  BY <1>3, <1>4, <1>5, <1>6, <1>7 DEF RingInv
<1>9. Numbered(ring')
  <2> SUFFICES ASSUME NEW i \in 1..Len(ring'), NEW j \in 1..Len(ring'), i < j
               PROVE  ring'[i].number < ring'[j].number
    BY DEF Numbered
  <2>1. i \in 1..Len(rest)
    BY <1>5, <1>6
  <2>2. CASE j \in 1..Len(rest)
    BY <1>4, <1>5, <2>1, <2>2 DEF Numbered
  <2>3. CASE j = Len(rest) + 1
    BY <1>3, <1>4, <1>5, <1>7, <2>1, <2>3 DEF RingInv
  <2> QED BY <1>6, <2>2, <2>3
<1>10. raised' \subseteq RingEntries
  BY <1>2, <1>3 DEF RingInv
<1> QED BY <1>2, <1>5, <1>8, <1>9, <1>10 DEF RingInv, Numbered, ContextFits

\* What is returned of the lines of the unit: those from lo to hi around the nearest.
LEMMA RingAsked ==
  ASSUME RingInv, NEW entry \in raised, NEW before \in AskedLines, NEW after \in AskedLines,
         NEW unit \in UnitNames \cup {AnyUnit}, GetContext(entry, before, after, unit)
  PROVE  RingInv'
<1> DEFINE b == Smaller(before, ContextMax)
           a == Smaller(after, ContextMax)
           set == {e \in ToSet(ring) : unit \in {AnyUnit, e.unit}}
           all == OfUnit(ring, unit)
           i == NearestIn(all, entry.stamp)
           lo == Bigger(i - b, 1)
           hi == Smaller(i + a, Len(all))
           got == SubSeq(all, lo, hi)
<1>1. /\ UNCHANGED <<lines, ring, raised>> /\ unit \in {AnyUnit, entry.unit}
      /\ reply' = [about |-> entry, unit |-> unit, before |-> b, after |-> a,
                   got |-> Query(entry.stamp, b, a, unit)]
  BY DEF GetContext
<1>2. b \in Nat /\ a \in Nat /\ entry \in RingEntries /\ entry.stamp \in Nat
  BY SharedStateAssumption DEF Smaller, RingInv, RingEntries
<1>3. /\ all \in Seq(RingEntries) /\ Numbered(all) /\ Len(all) \in Nat
      /\ \A k \in 1..Len(ring) : ring[k] \in set => \E j \in 1..Len(all) : all[j] = ring[k]
  <2> HIDE DEF set
  <2>1. ring \in Seq(RingEntries) /\ Numbered(ring)
    BY DEF RingInv
  <2>2. Kept(ring, set) \in Seq(RingEntries) /\ Chosen(Kept(ring, set), ring, set, Len(ring))
    BY <2>1, KeptIsChosen
  <2>3. all = Kept(ring, set)
    BY DEF OfUnit, set
  <2> HIDE DEF all
  <2> QED BY <2>2, <2>3, LenProperties DEF Chosen
<1>4. ASSUME NEW k \in DOMAIN ring, ring[k] = entry
      PROVE  \E j \in 1..Len(all) : all[j] = entry
  <2>1. k \in 1..Len(ring) /\ ring[k] \in ToSet(ring)
    BY LenProperties DEF RingInv, ToSet
  <2>2. ring[k] \in set
    BY <1>1, <1>4, <2>1
  <2> QED BY <1>3, <1>4, <2>1, <2>2
<1> HIDE DEF a, b, all, set
<1>5. OfUnit(ring, unit)' = all
  BY <1>1 DEF all, OfUnit, Kept, ToSet
<1>6. CASE all = <<>>
  <2>1. Query(entry.stamp, b, a, unit).lines = <<>> /\ Len(all) = 0
    BY <1>6 DEF Query, all
  <2> QED BY <1>1, <1>2, <1>4, <1>5, <1>6, <2>1 DEF RingInv, ContextFits, Numbered
<1>7. CASE all # <<>>
  <2>1. Len(all) > 0
    BY <1>3, <1>7, EmptySeq
  <2>2. i \in 1..Len(all) /\ \A j \in 1..Len(all) :
            Distance(all[i].stamp, entry.stamp) <= Distance(all[j].stamp, entry.stamp)
    BY <1>2, <1>3, <2>1, NearestIsThere
  <2>3. Query(entry.stamp, b, a, unit) = [lines |-> got, truncated |-> i - 1 < b \/ Len(all) - i < a]
    BY <1>7 DEF Query, all
  <2> HIDE DEF i
  <2>4. lo \in 1..i /\ hi \in i..Len(all)
    BY <1>2, <1>3, <2>2 DEF Bigger, Smaller
  <2>5. hi - lo <= b + a /\ (i - 1 >= b /\ Len(all) - i >= a => hi - lo = b + a)
    BY <1>2, <1>3, <2>2 DEF Bigger, Smaller
  <2> HIDE DEF lo, hi
  <2>6. lo \in Nat /\ hi \in Nat /\ lo >= 1 /\ lo <= hi /\ hi <= Len(all) /\ i \in Nat
    BY <1>3, <2>2, <2>4
  <2>7. Len(got) = hi - lo + 1 /\ \A n \in 1..(hi - lo + 1) : got[n] = all[lo + n - 1]
    BY <1>3, <2>6, SubSeqProperties
  <2>8. got \in Seq(RingEntries) /\ DOMAIN got = 1..(hi - lo + 1)
    BY <1>3, <2>6, <2>7, SubSeqProperties, LenProperties
  <2> HIDE DEF got
  <2>9. ASSUME NEW k \in DOMAIN ring, ring[k] = entry
        PROVE  \E n \in DOMAIN got : got[n].stamp = entry.stamp
    <3>1. PICK j \in 1..Len(all) : all[j] = entry
      BY <1>4, <2>9
    <3>2. Distance(entry.stamp, entry.stamp) = 0
      BY <1>2 DEF Distance
    <3>3. all[i].stamp \in Nat
      <4>1. all[i] \in RingEntries
        BY <1>3, <2>2, ElementOfSeq
      <4> QED BY <4>1 DEF RingEntries
    <3>4. all[i].stamp = entry.stamp
      BY <1>2, <2>2, <3>1, <3>2, <3>3 DEF Distance
    <3>5. i - lo + 1 \in 1..(hi - lo + 1) /\ lo + (i - lo + 1) - 1 = i
      BY <2>4, <2>6
    <3> QED BY <2>7, <2>8, <3>4, <3>5
  <2>10. ASSUME NEW m \in DOMAIN got, NEW n \in DOMAIN got, m < n
         PROVE  /\ got[m].number < got[n].number
                /\ n - m = Cardinality({k \in DOMAIN all : /\ got[m].number <= all[k].number
                                                          /\ all[k].number < got[n].number})
    <3>1. /\ lo + m - 1 \in 1..Len(all) /\ lo + n - 1 \in (lo + m - 1)..Len(all)
          /\ lo + n - 1 \in 1..Len(all) /\ lo + m - 1 < lo + n - 1
          /\ (lo + n - 1) - (lo + m - 1) = n - m
      BY <1>3, <2>6, <2>8, <2>10
    <3>2. got[m] = all[lo + m - 1] /\ got[n] = all[lo + n - 1]
      BY <2>7, <2>8
    <3>3. got[m].number < got[n].number
      BY <1>3, <3>1, <3>2 DEF Numbered
    <3> DEFINE x == lo + m - 1
               y == lo + n - 1
    <3>4. x \in 1..Len(all) /\ y \in x..Len(all) /\ y - x = n - m /\ got[m] = all[x] /\ got[n] = all[y]
      BY <3>1, <3>2
    <3> HIDE DEF x, y
    <3>5. y - x = Cardinality({k \in DOMAIN all : /\ all[x].number <= all[k].number
                                                  /\ all[k].number < all[y].number})
      BY <1>3, <3>4, LinesBetween
    <3> QED BY <3>3, <3>4, <3>5
  <2>11. reply'.got.lines = got /\ (~reply'.got.truncated => Len(got) = b + a + 1) /\ Len(got) <= b + a + 1
    <3>1. reply'.got = [lines |-> got, truncated |-> i - 1 < b \/ Len(all) - i < a]
      BY <1>1, <2>3
    <3>2. ~(i - 1 < b) <=> i - 1 >= b
      BY <1>2, <2>6
    <3>3. ~(Len(all) - i < a) <=> Len(all) - i >= a
      BY <1>2, <1>3, <2>6
    <3>4. ~reply'.got.truncated => i - 1 >= b /\ Len(all) - i >= a
      <4>1. reply'.got.truncated = (i - 1 < b \/ Len(all) - i < a)
        BY <3>1
      <4> QED BY <3>2, <3>3, <4>1, Zenon
    <3>5. hi - lo \in Int /\ b + a \in Int /\ Len(got) = hi - lo + 1
      BY <1>2, <2>6, <2>7
    <3>6. Len(got) <= b + a + 1
      BY <2>5, <3>5
    <3>7. ~reply'.got.truncated => Len(got) = b + a + 1
      BY <2>5, <3>4, <3>5
    <3> QED BY <3>1, <3>6, <3>7
  <2>12. reply'.about = entry /\ reply'.unit = unit /\ reply'.before = b /\ reply'.after = a /\ ring' = ring
    BY <1>1
  <2>13. ContextFits'
    BY <1>5, <2>9, <2>10, <2>11, <2>12 DEF ContextFits
  <2> QED BY <1>1, <2>13 DEF RingInv, Numbered
<1> QED BY <1>6, <1>7

LEMMA RingStep == RingInv /\ [SurroundingsNext]_surroundings => RingInv'
<1> SUFFICES ASSUME RingInv, [SurroundingsNext]_surroundings PROVE RingInv'
  OBVIOUS
<1>1. CASE MutesNext
  <2>1. MutesNext => HandleNext \/ UNCHANGED contextRing
    BY DEF MutesNext, Pass, Mute
  <2> QED BY <1>1, <2>1, RingHandle, RingUnchanged
<1>2. CASE ContextNext
  BY <1>2, RingHandle, RingAsked DEF ContextNext
<1>3. CASE UNCHANGED sharedState
  BY <1>3, RingUnchanged DEF sharedState
<1> QED BY <1>1, <1>2, <1>3 DEF SurroundingsNext, surroundings

\* Whoever asks for the surroundings of an anomaly gets the lines about it (ContextRing::query),
\* for any number of lines, any time stamps and any limits.
THEOREM SurroundingsOfLines == SurroundingsSpec => []ContextFits
<1>1. RingInv => ContextFits
  BY DEF RingInv
<1> QED BY <1>1, RingInitially, RingStep, PTL DEF SurroundingsSpec

-----------------------------------------------------------------------------
(* Messages.                                                               *)

\* What the first characters come to, one more at a time.
AddsUp(f, chars, N) ==
  /\ f \in [0..N -> Nat] /\ f[0] = 0
  /\ \A n \in 1..N : f[n] = f[n - 1] + chars[n]

LEMMA BytesAddUp ==
  ASSUME NEW chars, NEW N \in Nat, Len(chars) = N, NEW f, AddsUp(f, chars, N)
  PROVE  Bytes(chars) = f[N]
<1> DEFINE Def(h) == [n \in 0..N |-> IF n = 0 THEN 0 ELSE h[n - 1] + chars[n]]
           upto == CHOOSE h : h = Def(h)
           P == {n \in 0..N : upto[n] = f[n]}
<1>1. upto = Def(upto)
  <2>1. ASSUME NEW n \in 0..N
        PROVE  f[n] = Def(f)[n]
    <3>1. n = 0 \/ n \in 1..N
      OBVIOUS
    <3> QED BY <3>1 DEF AddsUp
  <2>2. f = Def(f)
    BY <2>1 DEF AddsUp
  <2> HIDE DEF Def
  <2> QED BY <2>2
<1>2. Bytes(chars) = upto[N]
  BY DEF Bytes
<1> HIDE DEF upto
<1>3. 0 \in P
  BY <1>1 DEF AddsUp
<1>4. ASSUME NEW n \in 1..N, n - 1 \in P
      PROVE  n \in P
  <2>1. n \in 0..N /\ n # 0 /\ upto[n - 1] = f[n - 1]
    BY <1>4
  <2>2. upto[n] = upto[n - 1] + chars[n]
    BY <1>1, <2>1
  <2> QED BY <2>1, <2>2 DEF AddsUp
<1>5. N \in P
  <2> HIDE DEF P
  <2>1. 0..N \subseteq P
    BY <1>3, <1>4, UpToTheEnd
  <2> QED BY <2>1
<1> QED BY <1>2, <1>5

LEMMA BytesOfFirst ==
  ASSUME NEW chars \in Seq(Nat)
  PROVE  \E f : /\ AddsUp(f, chars, Len(chars)) /\ Bytes(chars) = f[Len(chars)]
                /\ \A k \in 0..Len(chars) : Bytes(SubSeq(chars, 1, k)) = f[k]
<1> DEFINE N == Len(chars)
           step == [p \in Nat \X (1..N) |-> p[1] + chars[p[2]]]
<1>0. N \in Nat
  BY LenProperties
<1>1. \A n \in 1..N : chars[n] \in Nat
  BY ElementOfSeq
<1>2. step \in [Nat \X (1..N) -> Nat]
  <2> HIDE DEF N
  <2>1. \A p \in Nat \X (1..N) : p[1] \in Nat /\ p[2] \in 1..N
    OBVIOUS
  <2> QED BY <1>1, <2>1
<1> HIDE DEF N
<1>3. PICK f \in [0..N -> Nat] : Takes(f, 0, step, N)
  <2> HIDE DEF step
  <2> QED BY <1>0, <1>2, StepsAreTaken
<1>4. ASSUME NEW n \in 1..N
      PROVE  f[n] = f[n - 1] + chars[n]
  <2>1. f[n] = step[<<f[n - 1], n>>]
    BY <1>3 DEF Takes
  <2>2. f[n - 1] \in Nat
    BY <1>0
  <2>3. <<f[n - 1], n>> \in Nat \X (1..N)
    BY <2>2
  <2> QED BY <2>1, <2>3
<1>5. AddsUp(f, chars, N)
  BY <1>3, <1>4 DEF AddsUp, Takes
<1>6. Bytes(chars) = f[N]
  BY <1>0, <1>5, BytesAddUp DEF N
<1>7. ASSUME NEW k \in 0..N
      PROVE  Bytes(SubSeq(chars, 1, k)) = f[k]
  <2> DEFINE first == SubSeq(chars, 1, k)
             g == [n \in 0..k |-> f[n]]
  <2>1. k \in Nat /\ Len(first) = k /\ \A n \in 1..k : first[n] = chars[n]
    <3>1. k \in Nat /\ k <= Len(chars) /\ 1 \in Nat
      BY <1>0 DEF N
    <3> QED BY <1>0, <3>1, SubSeqProperties DEF N
  <2> HIDE DEF first
  <2>2. g[k] = f[k] /\ AddsUp(g, first, k)
    <3>1. \A n \in 0..k : n \in 0..N
      BY <1>0
    <3>2. \A n \in 1..k : n \in 1..N /\ n \in 0..k /\ n - 1 \in 0..k
      BY <1>0
    <3>3. ASSUME NEW n \in 1..k
          PROVE  g[n] = g[n - 1] + first[n]
      <4>1. g[n] = f[n] /\ g[n - 1] = f[n - 1] /\ first[n] = chars[n]
        BY <2>1, <3>2
      <4> QED BY <1>4, <3>2, <4>1
    <3>4. g \in [0..k -> Nat] /\ g[0] = 0 /\ g[k] = f[k]
      BY <1>3, <2>1, <3>1 DEF Takes
    <3> HIDE DEF g
    <3> QED BY <3>3, <3>4 DEF AddsUp
  <2> HIDE DEF g
  <2>3. Bytes(first) = g[k]
    BY <2>1, <2>2, BytesAddUp
  <2> QED BY <2>2, <2>3 DEF first
<1> QED BY <1>5, <1>6, <1>7 DEF N

\* All of the characters, or those that fit with the marker.
LEMMA TruncatedFits ==
  ASSUME NEW all \in Seq(Nat)
  PROVE  LET t == Truncate(all)
             size == Bytes(t.chars) + IF t.marker THEN MarkerBytes ELSE 0
         IN  /\ IsPrefix(t.chars, all) /\ size <= SampleMax
             /\ IF t.marker THEN size + all[Len(t.chars) + 1] > SampleMax ELSE t.chars = all
<1> DEFINE N == Len(all)
           limit == SampleMax - MarkerBytes
<1>0. N \in Nat /\ limit \in Nat /\ MarkerBytes \in Nat /\ SampleMax \in Nat /\ limit <= SampleMax
  BY LenProperties, LinesAssumption
<1>1. PICK f : /\ AddsUp(f, all, N) /\ Bytes(all) = f[N]
               /\ \A k \in 0..N : Bytes(SubSeq(all, 1, k)) = f[k]
  BY BytesOfFirst
<1>2. \A k \in 0..N : f[k] \in Nat
  BY <1>1 DEF AddsUp
<1>3. CASE Bytes(all) <= SampleMax
  <2>1. Truncate(all).chars = all /\ Truncate(all).marker = FALSE
    BY <1>3 DEF Truncate
  <2>2. IsPrefix(all, all)
    BY DEF IsPrefix
  <2>3. Bytes(all) \in Nat
    BY <1>0, <1>1, <1>2
  <2> QED BY <1>3, <2>1, <2>2, <2>3
<1>4. CASE ~(Bytes(all) <= SampleMax)
  <2> DEFINE Ok(k) == Bytes(SubSeq(all, 1, k)) <= limit /\ Bytes(SubSeq(all, 1, k + 1)) > limit
             n == CHOOSE k \in 0..N : Ok(k)
             first == SubSeq(all, 1, n)
  <2>1. f[N] > SampleMax
    BY <1>0, <1>1, <1>2, <1>4
  <2>2. \E k \in 0..N : Ok(k)
    <3> DEFINE Over == {k \in 0..N : f[k] > limit}
    <3>1. PICK k \in Over : \A j \in Over : k <= j
      <4>1. Over \in SUBSET Nat
        BY <1>0
      <4>2. N \in Over
        BY <1>0, <1>2, <2>1
      <4> HIDE DEF Over
      <4> QED BY <4>1, <4>2, LeastExists
    <3>2. k \in 1..N
      BY <1>0, <1>1, <3>1 DEF AddsUp
    <3>3. k - 1 \in 0..N /\ (k - 1) + 1 = k /\ ~(k <= k - 1)
      BY <1>0, <3>2
    <3>4. ~(f[k - 1] > limit)
      BY <3>1, <3>3
    <3>5. f[k - 1] <= limit
      BY <1>0, <1>2, <3>3, <3>4
    <3>6. Bytes(SubSeq(all, 1, k - 1)) <= limit /\ Bytes(SubSeq(all, 1, (k - 1) + 1)) > limit
      BY <1>1, <3>1, <3>3, <3>5
    <3> QED BY <3>3, <3>6
  <2>3. n \in 0..N /\ Ok(n)
    <3> HIDE DEF Ok
    <3> QED BY <2>2
  <2>4. Truncate(all).chars = first /\ Truncate(all).marker = TRUE
    BY <1>4 DEF Truncate
  <2> HIDE DEF n
  <2>5. Bytes(first) = f[n] /\ f[n] \in Nat /\ f[n] <= limit
    BY <1>1, <1>2, <2>3
  <2>6. n + 1 \in 1..N
    BY <1>0, <1>2, <2>1, <2>3, <2>5
  <2>7. f[n + 1] > limit /\ f[n + 1] = f[n] + all[n + 1]
    <3>1. n + 1 \in 0..N /\ (n + 1) - 1 = n
      BY <1>0, <2>3, <2>6
    <3>2. Bytes(SubSeq(all, 1, n + 1)) = f[n + 1]
      BY <1>1, <3>1
    <3>3. f[n + 1] = f[(n + 1) - 1] + all[n + 1]
      BY <1>1, <2>6 DEF AddsUp
    <3> QED BY <2>3, <3>1, <3>2, <3>3
  <2>8. Len(first) = n /\ IsPrefix(first, all)
    <3>1. n \in Nat /\ n <= Len(all) /\ 1 \in Nat
      BY <1>0, <2>3
    <3>2. Len(first) = n /\ first \in Seq(Nat) /\ \A i \in 1..n : first[i] = all[i]
      BY <1>0, <3>1, SubSeqProperties
    <3>3. SubSeq(first, 1, n) = first
      <4>1. /\ SubSeq(first, 1, n) \in Seq(Nat) /\ Len(SubSeq(first, 1, n)) = n
            /\ \A i \in 1..n : SubSeq(first, 1, n)[i] = first[i]
        BY <3>1, <3>2, SubSeqProperties
      <4> HIDE DEF first
      <4> QED BY <3>2, <4>1, SeqEqual
    <3>4. IsPrefix(first, all)
      BY <3>1, <3>2, <3>3 DEF IsPrefix
    <3> QED BY <3>2, <3>4
  <2>9. all[n + 1] \in Nat
    BY <2>6, ElementOfSeq
  <2> HIDE DEF first
  <2>10. f[n] + MarkerBytes <= SampleMax /\ f[n] + MarkerBytes + all[n + 1] > SampleMax
    <3>1. f[n] + all[n + 1] > limit
      BY <2>7
    <3> QED BY <1>0, <2>5, <2>9, <3>1
  <2> QED BY <2>4, <2>5, <2>8, <2>10
<1> QED BY <1>3, <1>4

LEMMA SampleRead ==
  ASSUME NEW raw, raw.message \in Messages \cup {Absent}, Read(raw)
  PROVE  SampleIsWhole'
<1> DEFINE line == Parse(raw)
           all == IF raw.message = Absent THEN <<>> ELSE Lossy(raw.message.chars)
           t == Truncate(all)
<1> SUFFICES ASSUME told' # Absent PROVE SampleIsWhole'
  BY DEF SampleIsWhole
<1>1. record' = raw /\ \E level \in AnomalyLevels : told' = Event(line, level)
  BY DEF Read
<1>2. all \in Seq(Nat)
  <2>1. CASE raw.message = Absent
    BY <2>1, EmptySeq
  <2>2. CASE raw.message # Absent
    <3> DEFINE chars == raw.message.chars
    <3>1. chars \in Seq(0..4)
      BY <2>2, LinesAssumption
    <3>2. Len(chars) \in Nat /\ DOMAIN chars = 1..Len(chars) /\ \A i \in 1..Len(chars) : chars[i] \in 0..4
      BY <3>1, LenProperties, ElementOfSeq
    <3> HIDE DEF chars
    <3>3. Lossy(chars) \in [1..Len(chars) -> Nat]
      BY <3>2 DEF Lossy
    <3>4. Lossy(chars) \in Seq(Nat)
      BY <3>2, <3>3
    <3> QED BY <2>2, <3>4 DEF chars
  <2> QED BY <2>1, <2>2
<1>3. line.message.chars = all
  <2>1. CASE raw.message = Absent
    BY <2>1 DEF Parse, Silent
  <2>2. CASE raw.message # Absent
    <3>1. "chars" \in DOMAIN raw.message
      BY <2>2, LinesAssumption
    <3>2. line.message = [raw.message EXCEPT !.chars = Lossy(@)]
      BY <2>2 DEF Parse
    <3> QED BY <2>2, <3>1, <3>2
  <2> QED BY <2>1, <2>2
<1>4. line.pid \in {Absent, raw.pid}
  BY DEF Parse, Parsed
<1> HIDE DEF line, all
<1>5. told'.sample = t /\ told'.pid \in {Absent, line.pid}
  BY <1>1, <1>3 DEF Event
<1>6. LET size == Bytes(t.chars) + IF t.marker THEN MarkerBytes ELSE 0
      IN  /\ IsPrefix(t.chars, all) /\ size <= SampleMax
          /\ IF t.marker THEN size + all[Len(t.chars) + 1] > SampleMax ELSE t.chars = all
  <2> HIDE DEF t
  <2> QED BY <1>2, TruncatedFits DEF t
<1>7. told'.pid \in {Absent, raw.pid}
  BY <1>4, <1>5
<1> HIDE DEF t
<1>8. (IF record'.message = Absent THEN <<>> ELSE Lossy(record'.message.chars)) = all
  BY <1>1 DEF all
<1>9. record'.pid = raw.pid
  BY <1>1
<1> QED BY <1>5, <1>6, <1>7, <1>8, <1>9 DEF SampleIsWhole

LEMMA SampleStep == SampleIsWhole /\ [SurroundingsNext]_surroundings => SampleIsWhole'
<1> SUFFICES ASSUME SampleIsWhole, [SurroundingsNext]_surroundings PROVE SampleIsWhole'
  OBVIOUS
<1>1. CASE LinesNext
  <2>1. ASSUME NEW stamp \in StampTexts, NEW pid \in PidTexts, NEW priority \in PriorityTexts,
               NEW unit \in LineUnits, NEW message \in Messages \cup {Absent},
               Read([stamp |-> stamp, pid |-> pid, priority |-> priority, unit |-> unit,
                     message |-> message])
        PROVE  SampleIsWhole'
    <3> DEFINE raw == [stamp |-> stamp, pid |-> pid, priority |-> priority, unit |-> unit,
                       message |-> message]
    <3>1. raw.message \in Messages \cup {Absent} /\ Read(raw)
      BY <2>1
    <3> HIDE DEF raw
    <3> QED BY <3>1, SampleRead
  <2> QED BY <1>1, <2>1 DEF LinesNext
<1>2. CASE UNCHANGED journey
  <2>1. told' = told /\ record' = record
    BY <1>2 DEF journey
  <2> QED BY <2>1 DEF SampleIsWhole, Lossy, Bytes
<1> QED BY <1>1, <1>2 DEF SurroundingsNext, surroundings

\* A client gets the message of an anomaly whole, or as many of its characters as fit with the
\* marker (truncate_sample_message), for any messages, also with bytes that are no characters,
\* and any limit.
THEOREM SamplesFit == SurroundingsSpec => []SampleIsWhole
<1>1. SurroundingsInit => SampleIsWhole
  BY DEF SurroundingsInit, LinesInit, SampleIsWhole
<1> QED BY <1>1, SampleStep, PTL DEF SurroundingsSpec

-----------------------------------------------------------------------------
(* Masks.                                                                  *)

Masking(tokens) == [i \in DOMAIN tokens |-> MaskToken(tokens[i])]

\* The masked tokens are those of the record, and the line before had its own.
MaskInv ==
  /\ masked = Masking(TokensOf(record))
  /\ earlier.masked = Masking(earlier.tokens)

LEMMA FirstMaskIsOne ==
  ASSUME NEW core \in DOMAIN Forms
  PROVE  FirstMask(core) \in ToSet(Masks) \cap Forms[core]
<1> DEFINE fits(m) == Masks[m] \in Forms[core]
           fitting == {n \in DOMAIN Masks : fits(n)}
<1>1. DOMAIN Masks = 1..9
  BY DEF Masks
<1>2. PICK n \in DOMAIN Masks : fits(n)
  <2>1. PICK mask \in Forms[core] : mask \in ToSet(Masks)
    BY MasksAssumption
  <2> QED BY <2>1 DEF ToSet
<1>3. PICK least \in fitting : \A k \in fitting : least <= k
  <2>1. fitting \in SUBSET Nat /\ fitting # {}
    BY <1>1, <1>2
  <2> HIDE DEF fitting
  <2> QED BY <2>1, LeastExists
<1>4. least \in DOMAIN Masks /\ fits(least) /\ \A k \in DOMAIN Masks : k < least => ~fits(k)
  <2> HIDE DEF fits
  <2> QED BY <1>1, <1>3
<1>5. FirstMask(core) \in {Masks[k] : k \in DOMAIN Masks} /\ FirstMask(core) \in Forms[core]
  BY <1>4 DEF FirstMask
<1> QED BY <1>5 DEF ToSet

\* A MAC fits no mask before its own.
LEMMA MacIsFirst ==
  ASSUME NEW core \in DOMAIN Forms, "MAC" \in Forms[core]
  PROVE  FirstMask(core) = "MAC"
<1> DEFINE first(n) == Masks[n] \in Forms[core] /\ \A k \in DOMAIN Masks : k < n => Masks[k] \notin Forms[core]
<1>1. /\ DOMAIN Masks = 1..9 /\ Masks[1] = "TIMESTAMP" /\ Masks[2] = "UUID" /\ Masks[3] = "MAC"
  BY DEF Masks
<1>2. "TIMESTAMP" \notin Forms[core] /\ "UUID" \notin Forms[core]
  BY MasksAssumption
<1>3. first(3)
  <2>1. \A k \in 1..9 : k < 3 => k = 1 \/ k = 2
    OBVIOUS
  <2> QED BY <1>1, <1>2, <2>1
<1>4. \A n \in DOMAIN Masks : first(n) => n = 3
  <2>1. \A n \in 1..9 : n = 1 \/ n = 2 \/ n = 3 \/ 3 < n
    OBVIOUS
  <2>2. ~first(1) /\ ~first(2)
    BY <1>1, <1>2
  <2>3. \A n \in DOMAIN Masks : 3 < n => ~first(n)
    BY <1>1
  <2> HIDE DEF first
  <2> QED BY <1>1, <2>1, <2>2, <2>3
<1>5. (CHOOSE n \in DOMAIN Masks : first(n)) = 3
  <2> HIDE DEF first
  <2> QED BY <1>1, <1>3, <1>4
<1> QED BY <1>1, <1>5 DEF FirstMask

\* Cores that pass for one and the same mask.
Alike(a, b) ==
  \/ a = b
  \/ \E mask \in Kinds(a) \cap Kinds(b) :
       /\ mask = "PID" => Head(a) = Head(b)
       /\ "MAC" \in Kinds(a) \cup Kinds(b) => mask = "MAC"

LEMMA KindsOfFitting ==
  ASSUME NEW core \in DOMAIN Forms
  PROVE  Kinds(core) = Forms[core]
<1>1. ToSet(core) \cap ToSet(Masks) = {}
  BY MasksAssumption DEF ToSet
<1> QED BY <1>1 DEF Kinds

\* A word that spells the placeholder of another.
LEMMA SpelledAlike ==
  ASSUME NEW x \in DOMAIN Forms, NEW y, y \notin DOMAIN Forms, MaskCore(x) = y
  PROVE  /\ FirstMask(x) \in Kinds(x) \cap Kinds(y)
         /\ FirstMask(x) = "PID" => Head(x) = Head(y)
         /\ "MAC" \in Kinds(x) \cup Kinds(y) => FirstMask(x) = "MAC"
<1>1. FirstMask(x) \in Kinds(x) /\ FirstMask(x) \in ToSet(Masks)
  BY FirstMaskIsOne, KindsOfFitting
<1>2. "MAC" \in Kinds(x) => FirstMask(x) = "MAC"
  BY KindsOfFitting, MacIsFirst
<1>3. Kinds(y) = ToSet(y) \cap ToSet(Masks)
  BY DEF Kinds
<1>4. CASE FirstMask(x) = "PID"
  <2>1. y = <<Head(x), "PID">>
    BY <1>4 DEF MaskCore
  <2>2. ToSet(y) = {Head(x), "PID"} /\ Head(y) = Head(x)
    BY <2>1 DEF ToSet
  <2>3. Head(x) # "MAC"
    <3>1. 1 \in DOMAIN x /\ Head(x) = x[1]
      BY MasksAssumption
    <3>2. "MAC" \in ToSet(Masks)
      <4>1. 3 \in DOMAIN Masks /\ Masks[3] = "MAC"
        BY DEF Masks
      <4> QED BY <4>1 DEF ToSet
    <3> QED BY <3>1, <3>2, MasksAssumption
  <2> QED BY <1>1, <1>2, <1>3, <1>4, <2>2, <2>3
<1>5. CASE FirstMask(x) # "PID"
  <2>1. y = <<FirstMask(x)>>
    BY <1>5 DEF MaskCore
  <2>2. ToSet(y) = {FirstMask(x)}
    BY <2>1 DEF ToSet
  <2> QED BY <1>1, <1>2, <1>3, <1>5, <2>2
<1> QED BY <1>4, <1>5

\* Cores that are masked alike are alike.
LEMMA CoresMaskedAlike ==
  ASSUME NEW x, NEW y, MaskCore(x) = MaskCore(y)
  PROVE  Alike(x, y)
<1>1. CASE x \notin DOMAIN Forms /\ y \notin DOMAIN Forms
  BY <1>1 DEF MaskCore, Alike
<1>2. CASE x \in DOMAIN Forms /\ y \notin DOMAIN Forms
  <2>1. MaskCore(x) = y
    BY <1>2 DEF MaskCore
  <2> QED BY <1>2, <2>1, SpelledAlike DEF Alike
<1>3. CASE x \notin DOMAIN Forms /\ y \in DOMAIN Forms
  <2>1. MaskCore(y) = x
    BY <1>3 DEF MaskCore
  <2> QED BY <1>3, <2>1, SpelledAlike DEF Alike
<1>4. CASE x \in DOMAIN Forms /\ y \in DOMAIN Forms
  <2>1. FirstMask(x) = FirstMask(y) /\ (FirstMask(x) = "PID" => Head(x) = Head(y))
    <3>1. CASE FirstMask(x) = "PID" /\ FirstMask(y) = "PID"
      <4>1. MaskCore(x) = <<Head(x), "PID">> /\ MaskCore(y) = <<Head(y), "PID">>
        BY <1>4, <3>1 DEF MaskCore
      <4>2. <<Head(x), "PID">>[1] = <<Head(y), "PID">>[1]
        BY <4>1
      <4> QED BY <3>1, <4>2
    <3>2. CASE FirstMask(x) # "PID" /\ FirstMask(y) # "PID"
      <4>1. MaskCore(x) = <<FirstMask(x)>> /\ MaskCore(y) = <<FirstMask(y)>>
        BY <1>4, <3>2 DEF MaskCore
      <4>2. <<FirstMask(x)>>[1] = <<FirstMask(y)>>[1]
        BY <4>1
      <4> QED BY <3>2, <4>2
    <3>3. CASE FirstMask(x) = "PID" /\ FirstMask(y) # "PID"
      <4>1. MaskCore(x) = <<Head(x), "PID">> /\ MaskCore(y) = <<FirstMask(y)>>
        BY <1>4, <3>3 DEF MaskCore
      <4>2. Len(MaskCore(x)) = 2 /\ Len(MaskCore(y)) = 1
        BY <4>1
      <4> QED BY <4>2
    <3>4. CASE FirstMask(x) # "PID" /\ FirstMask(y) = "PID"
      <4>1. MaskCore(y) = <<Head(y), "PID">> /\ MaskCore(x) = <<FirstMask(x)>>
        BY <1>4, <3>4 DEF MaskCore
      <4>2. Len(MaskCore(y)) = 2 /\ Len(MaskCore(x)) = 1
        BY <4>1
      <4> QED BY <4>2
    <3> QED BY <3>1, <3>2, <3>3, <3>4
  <2>2. FirstMask(x) \in Kinds(x) \cap Kinds(y)
    BY <1>4, <2>1, FirstMaskIsOne, KindsOfFitting
  <2>3. "MAC" \in Kinds(x) \cup Kinds(y) => FirstMask(x) = "MAC"
    BY <1>4, <2>1, KindsOfFitting, MacIsFirst
  <2> QED BY <2>1, <2>2, <2>3 DEF Alike
<1> QED BY <1>1, <1>2, <1>3, <1>4

LEMMA TokensMaskedAlike ==
  ASSUME NEW a, NEW b, MaskToken(a) = MaskToken(b)
  PROVE  Alike(Core(a), Core(b))
<1>1. MaskToken(a)[2] = MaskCore(Core(a)) /\ MaskToken(b)[2] = MaskCore(Core(b))
  BY DEF MaskToken
<1>2. MaskCore(Core(a)) = MaskCore(Core(b))
  BY <1>1
<1> QED BY <1>2, CoresMaskedAlike

LEMMA KindsFollow ==
  ASSUME MaskInv
  PROVE  MasksKeepKindsApart
<1> SUFFICES ASSUME NEW i \in DOMAIN earlier.masked, NEW j \in DOMAIN masked,
                    earlier.masked[i] = masked[j]
             PROVE  Alike(Core(earlier.tokens[i]), Core(TokensOf(record)[j]))
  BY DEF MasksKeepKindsApart, Alike
<1>1. i \in DOMAIN earlier.tokens /\ j \in DOMAIN TokensOf(record)
  BY DEF MaskInv, Masking
<1>2. MaskToken(earlier.tokens[i]) = MaskToken(TokensOf(record)[j])
  BY <1>1 DEF MaskInv, Masking
<1> QED BY <1>1, <1>2, TokensMaskedAlike

LEMMA ReadMasks ==
  ASSUME MaskInv, NEW raw, NEW message \in Messages \cup {Absent}, raw.message = message,
         raw # Absent, Read(raw)
  PROVE  MaskInv'
<1>1. CASE Parsed(raw.stamp, StampRange) = Absent
  <2>1. UNCHANGED <<record, masked, earlier>>
    BY <1>1 DEF Read
  <2>2. TokensOf(record)' = TokensOf(record)
    BY <2>1 DEF TokensOf
  <2> QED BY <2>1, <2>2 DEF MaskInv, Masking
<1>2. CASE Parsed(raw.stamp, StampRange) # Absent
  <2> DEFINE line == Parse(raw)
  <2>1. /\ record' = raw
        /\ masked' = [i \in DOMAIN line.message.tokens |-> MaskToken(line.message.tokens[i])]
        /\ earlier' = [tokens |-> TokensOf(record), masked |-> masked]
    BY <1>2 DEF Read
  <2>2. line.message.tokens = TokensOf(raw)
    <3>1. CASE raw.message = Absent
      <4>1. line.message = Silent
        BY <3>1 DEF Parse
      <4> QED BY <4>1, <3>1 DEF Silent, TokensOf
    <3>2. CASE raw.message # Absent
      <4>1. line.message = [raw.message EXCEPT !.chars = Lossy(@)]
        BY <3>2 DEF Parse
      <4>2. line.message.tokens = raw.message.tokens
        BY <4>1
      <4> QED BY <4>2, <3>2 DEF TokensOf
    <3> QED BY <3>1, <3>2
  <2> HIDE DEF line
  <2>3. masked' = Masking(TokensOf(raw))
    BY <2>1, <2>2 DEF Masking
  <2>4. TokensOf(record)' = TokensOf(raw)
    BY <2>1 DEF TokensOf
  <2>5. earlier'.tokens = TokensOf(record) /\ earlier'.masked = masked
    BY <2>1
  <2>6. masked' = Masking(TokensOf(record)') /\ earlier'.masked = Masking(earlier'.tokens)
    BY <2>3, <2>4, <2>5 DEF MaskInv
  <2> QED BY <2>6 DEF MaskInv, Masking
<1> QED BY <1>1, <1>2

\* Tokens the templates take for the same have the same core or pass for the same mask, a MAC
\* only for a MAC and a process only for one of its name (mask_core), for any words and any
\* expressions that let no placeholder through and take no MAC for a time or a UUID.
THEOREM MasksKeepKinds == SurroundingsSpec => []MasksKeepKindsApart
<1>1. SurroundingsInit => MaskInv
  BY DEF SurroundingsInit, LinesInit, MaskInv, Masking, TokensOf, Absent
<1>2. MaskInv /\ [SurroundingsNext]_surroundings => MaskInv'
  <2> SUFFICES ASSUME MaskInv, [SurroundingsNext]_surroundings
               PROVE  MaskInv'
    OBVIOUS
  <2>1. CASE UNCHANGED journey
    <3>1. UNCHANGED <<record, masked, earlier>>
      BY <2>1 DEF journey
    <3>2. TokensOf(record)' = TokensOf(record)
      BY <3>1 DEF TokensOf
    <3> QED BY <3>1, <3>2 DEF MaskInv, Masking
  <2>2. CASE LinesNext
    <3>1. PICK stamp \in StampTexts, pid \in PidTexts, priority \in PriorityTexts, unit \in LineUnits,
               message \in Messages \cup {Absent} :
            Read([stamp |-> stamp, pid |-> pid, priority |-> priority, unit |-> unit, message |-> message])
      BY <2>2 DEF LinesNext
    <3> DEFINE raw == [stamp |-> stamp, pid |-> pid, priority |-> priority, unit |-> unit,
                       message |-> message]
    <3>2. raw # Absent
      <4>1. "stamp" \in DOMAIN raw /\ DOMAIN <<>> = {}
        OBVIOUS
      <4> HIDE DEF raw
      <4> QED BY <4>1 DEF Absent
    <3>3. raw.message = message /\ Read(raw)
      BY <3>1
    <3> HIDE DEF raw
    <3> QED BY <3>2, <3>3, ReadMasks
  <2> QED BY <2>1, <2>2 DEF SurroundingsNext, surroundings
<1>3. MaskInv => MasksKeepKindsApart
  BY KindsFollow
<1> QED BY <1>1, <1>2, <1>3, PTL DEF SurroundingsSpec

-----------------------------------------------------------------------------
(* Whoever reads.                                                          *)

\* Whoever reads what the daemon hands out finds it whole: the lines around an anomaly, its
\* message and the exported file; and its words are only taken for others that pass for the
\* same mask (context, wire, mask, prometheus).
THEOREM ReadersAlwaysSeeWhole == SurroundingsSpec => []ReadersSeeWhole
<1>1. ContextFits /\ SampleIsWhole /\ MasksKeepKindsApart /\ ExportIsWhole => ReadersSeeWhole
  BY DEF ReadersSeeWhole
<1> QED BY <1>1, SurroundingsOfLines, SamplesFit, MasksKeepKinds, ExportedWhole, PTL
=============================================================================
