---------------------------- MODULE ProgramsProofs ----------------------------
(***************************************************************************)
(* Proofs about the programs as a whole: the daemon (Daemon), and the GUI  *)
(* and the client for the terminal (Desktop).  The two have no name in     *)
(* common.                                                                 *)
(*                                                                         *)
(* The daemon, for any capacity of the channel, any backoff, and any       *)
(* number of lines and passes: the accounting of lines is a sum that every *)
(* step keeps, once it is known that the one line that may be cut is cut   *)
(* at the end.  That nothing is left behind rests on the order of the      *)
(* shutdown: when the sender has fallen no reader is left (Winding), so    *)
(* what the pipeline writes and shows after the end of the channel is      *)
(* final (Drained).                                                        *)
(*                                                                         *)
(* The dashboard: a context, wherever it is on its way, has a number below *)
(* the next one, and if it has the number that is pending it is about an   *)
(* anomaly with the number selected (Fits); no anomaly with this number    *)
(* that is held, or comes, is of an earlier daemon (AgeInv), so the first  *)
(* one in the list is the same, or it is gone from the list.               *)
(*                                                                         *)
(* The map: a point is where the route it has puts it (Placing), and one   *)
(* that is being measured has none yet, so it was not placed by one.       *)
(*                                                                         *)
(* The terminal: the selection is the first line, or the entry chosen, or  *)
(* past the end (Selections).                                              *)
(*                                                                         *)
(* The graph tab: merge_overlay goes through stages, and after n nodes of  *)
(* the overlay those that had their turn are connected at least as well as *)
(* those that wait, and each is there unless the room is taken (Stage).    *)
(* What is shown was merged so, or is a base as it was (GraphInv).         *)
(***************************************************************************)
EXTENDS Daemon, Desktop, TLAPS, NaturalsInduction, WellFoundedInduction, FiniteSetTheorems,
        SequenceTheorems

-----------------------------------------------------------------------------
(* The daemon: what is invariant                                           *)

\* The channel is open as long as main is in its select!, and when main has
\* left it the ingestion future is gone.
Winding ==
  /\ open <=> main = "running"
  /\ main # "running" => ingest \in {"done", "dropped"}
  /\ ingest = "dropped" => main # "running"

\* The pipeline ends with the channel empty, and with a save and a snapshot.
Drained ==
  /\ over =>
       /\ ~open /\ buf = <<>>
       /\ shown = [events |-> Len(out), dropped |-> lost, parseErrors |-> parseErrors]
       /\ persistent /\ ~saveFailed => saved = Len(out)
  /\ main = "gone" => over

IInv == TypeOK /\ EveryLineAccountedFor /\ Winding /\ Drained

-----------------------------------------------------------------------------
(* The channel                                                             *)

\* put, take and close keep the types and move one element at the most.
LEMMA PutKeeps ==
  ASSUME TypeOK, Channel!Put
  PROVE  /\ buf' \in Seq(Nat) /\ put' \in Nat /\ lost' \in Nat
         /\ Len(buf') + lost' = Len(buf) + lost + 1
<1>1. buf \in Seq(Nat) /\ put + 1 \in Nat /\ lost \in Nat
  BY DEF TypeOK
<1>2. CASE Len(buf) >= Capacity
  <2>1. buf # <<>> /\ buf' = Append(Tail(buf), put + 1) /\ lost' = lost + 1
    BY <1>1, <1>2, DaemonAssumption DEF Channel!Put
  <2>2. Tail(buf) \in Seq(Nat) /\ Len(Tail(buf)) = Len(buf) - 1
    BY <1>1, <2>1
  <2> QED
    BY <1>1, <2>1, <2>2 DEF Channel!Put
<1>3. CASE ~(Len(buf) >= Capacity)
  BY <1>1, <1>3 DEF Channel!Put
<1> QED
  BY <1>2, <1>3

LEMMA TakeKeeps ==
  ASSUME TypeOK, Channel!Take
  PROVE  /\ buf' \in Seq(Nat) /\ out' \in Seq(Nat)
         /\ Len(buf') + Len(out') = Len(buf) + Len(out)
<1>1. buf \in Seq(Nat) /\ out \in Seq(Nat) /\ buf # <<>>
  BY DEF TypeOK, Channel!Take
<1>2. Head(buf) \in Nat /\ Tail(buf) \in Seq(Nat) /\ Len(Tail(buf)) = Len(buf) - 1
  BY <1>1
<1> QED
  BY <1>1, <1>2 DEF Channel!Take

-----------------------------------------------------------------------------
(* The inductive invariant                                                 *)

LEMMA InitInv == Init => IInv
<1> SUFFICES ASSUME Init PROVE IInv
  OBVIOUS
<1>1. /\ buf = <<>> /\ put = 0 /\ out = <<>> /\ lost = 0 /\ open = TRUE /\ over = FALSE
  BY DEF Init, Channel!Init
<1>2. buf \in Seq(Nat) /\ out \in Seq(Nat) /\ Len(buf) = 0 /\ Len(out) = 0
  BY <1>1
<1>3. TypeOK
  <2>1. shown \in [events : Nat, dropped : Nat, parseErrors : Nat]
    BY DEF Init
  <2>2. /\ replay \in BOOLEAN /\ persistent \in BOOLEAN /\ written \in Nat
        /\ position \in Nat /\ passes \in Nat /\ ingest \in IngestStates
        /\ backoff \in Nat \ {0} /\ parseErrors \in Nat
    BY DaemonAssumption DEF Init, IngestStates
  <2>3. /\ saved \in Nat /\ saveFailed \in BOOLEAN /\ main = "running" /\ server = "serving"
        /\ skipped = 0 /\ blank = 0 /\ cut = 0
    BY DEF Init
  <2> QED
    BY <1>1, <1>2, <2>1, <2>2, <2>3 DEF TypeOK
<1>4. EveryLineAccountedFor
  BY <1>1, <1>2 DEF Init, EveryLineAccountedFor
<1>5. Winding /\ Drained
  BY <1>1 DEF Init, Winding, Drained
<1> QED
  BY <1>3, <1>4, <1>5 DEF IInv

\* Steps of the journal and of ingestion.  None is possible once main winds
\* down, except that the journal grows.
LEMMA ReaderInv ==
  ASSUME IInv, Write \/ CheckPermissions \/ StartPass \/ ReadLine \/ StopReading \/ Backoff
  PROVE  IInv'
<1> DEFINE kept == <<start, channel, pipeline, main, server>>
<1>0. UNCHANGED kept /\ TypeOK /\ EveryLineAccountedFor
  BY DEF IInv, Write, CheckPermissions, StartPass, ReadLine, StopReading, Backoff
<1>1. CASE Write
  BY <1>0, <1>1
     DEF Write, IInv, TypeOK, EveryLineAccountedFor, Winding, Drained, start, channel,
         pipeline, history
<1>2. CASE ~Write
  <2>1. ingest \in {"check", "start", "read", "wait"} /\ ingest' \in IngestStates \ {"dropped"}
        /\ cut' = cut
    BY <1>2 DEF CheckPermissions, StartPass, ReadLine, StopReading, Backoff, EndPass,
                IngestStates, history
  <2>2. main = "running" /\ ~over /\ main' = "running" /\ ~over' /\ open'
    BY <1>0, <2>1 DEF IInv, Winding, Drained, channel
  <2>3. Winding' /\ Drained'
    BY <2>1, <2>2 DEF Winding, Drained
  <2>4. TypeOK'
    <3>1. CASE CheckPermissions
      BY <1>0, <3>1 DEF CheckPermissions, TypeOK, IngestStates, start, channel, pipeline, history
    <3>2. CASE StartPass
      <4>1. position' \in Nat /\ skipped' \in Nat /\ passes' \in Nat /\ written' \in Nat
        <5>1. /\ position \in Nat /\ skipped \in Nat /\ passes \in Nat /\ written \in Nat
              /\ position <= written
          BY <1>0 DEF TypeOK, EveryLineAccountedFor
        <5>2. \/ position' = position /\ skipped' = skipped
              \/ position' \in {position, written} /\ skipped' = skipped + (position' - position)
          BY <3>2 DEF StartPass
        <5> QED
          BY <3>2, <5>1, <5>2 DEF StartPass
      <4>2. ingest' \in IngestStates /\ backoff' \in Nat \ {0}
        BY <1>0, <3>2, DaemonAssumption DEF StartPass, EndPass, TypeOK, IngestStates
      <4> QED
        BY <1>0, <3>2, <4>1, <4>2 DEF StartPass, TypeOK, start, channel, pipeline
    <3>3. CASE ReadLine
      BY <1>0, <3>3 DEF ReadLine, TypeOK, IngestStates, start, channel, pipeline
    <3>4. CASE StopReading
      BY <1>0, <3>4, DaemonAssumption
         DEF StopReading, EndPass, TypeOK, IngestStates, start, channel, pipeline, history
    <3>5. CASE Backoff
      BY <1>0, <3>5, DaemonAssumption
         DEF Backoff, TypeOK, IngestStates, start, channel, pipeline, history
    <3> QED
      BY <1>2, <3>1, <3>2, <3>3, <3>4, <3>5
  <2>5. EveryLineAccountedFor'
    <3> DEFINE rest == cut + Len(out) + lost + Len(buf)
    <3>1. /\ rest \in Nat /\ position \in Nat /\ written \in Nat
          /\ skipped \in Nat /\ blank \in Nat /\ parseErrors \in Nat
      BY <1>0 DEF TypeOK
    <3>2. UNCHANGED <<cut, out, lost, buf>>
      BY <1>0, <2>1 DEF channel
    <3>3. /\ position = skipped + blank + parseErrors + rest
          /\ position <= written /\ cut <= 1 /\ cut # 1
      BY <1>0, <2>1, <3>1 DEF EveryLineAccountedFor, TypeOK
    <3>4. position' = skipped' + blank' + parseErrors' + rest
                      + (IF ingest' = "send" THEN 1 ELSE 0)
          /\ position' <= written'
      <4> HIDE DEF rest
      <4>1. CASE CheckPermissions \/ StopReading \/ Backoff
        BY <3>1, <3>3, <4>1
           DEF CheckPermissions, StopReading, Backoff, EndPass, history
      <4>2. CASE StartPass
        <5>1. \/ UNCHANGED <<position, skipped>>
              \/ position' \in {position, written} /\ skipped' = skipped + (position' - position)
          BY <4>2 DEF StartPass
        <5>2. UNCHANGED <<written, blank, parseErrors>> /\ ingest' # "send"
          BY <4>2 DEF StartPass, EndPass
        <5> QED
          BY <3>1, <3>3, <5>1, <5>2
      <4>3. CASE ReadLine
        <5>1. /\ position' = position + 1 /\ position < written
              /\ UNCHANGED <<written, skipped>>
              /\ \/ ingest' = "send" /\ UNCHANGED <<parseErrors, blank>>
                 \/ ingest' = "read" /\ parseErrors' = parseErrors + 1 /\ UNCHANGED blank
                 \/ ingest' = "read" /\ blank' = blank + 1 /\ UNCHANGED parseErrors
          BY <4>3 DEF ReadLine
        <5> QED
          BY <3>1, <3>3, <5>1
      <4> QED
        BY <1>2, <4>1, <4>2, <4>3
    <3>5. skipped' \in Nat /\ blank' \in Nat /\ parseErrors' \in Nat /\ position' \in Nat
      BY <2>4 DEF TypeOK
    <3>6. rest = cut' + Len(out') + lost' + Len(buf') /\ cut' \in Nat
          /\ Len(out') \in Nat /\ lost' \in Nat /\ Len(buf') \in Nat
      BY <1>0, <3>2 DEF TypeOK
    <3>7. rest \in Nat
      BY <3>1
    <3> HIDE DEF rest
    <3>8. position' = skipped' + blank' + parseErrors' + cut' + Len(out') + lost'
                      + Len(buf') + (IF ingest' = "send" THEN 1 ELSE 0)
      <4> DEFINE held == IF ingest' = "send" THEN 1 ELSE 0
                 o == Len(out')
                 w == Len(buf')
      <4>1. held \in Nat /\ position' = skipped' + blank' + parseErrors' + rest + held
        BY <3>4
      <4>2. /\ o \in Nat /\ w \in Nat /\ cut' \in Nat /\ lost' \in Nat
            /\ rest = cut' + o + lost' + w
        BY <3>6
      <4> HIDE DEF held, o, w
      <4>3. position' = skipped' + blank' + parseErrors' + cut' + o + lost' + w + held
        BY <3>5, <3>7, <4>1, <4>2
      <4> QED
        BY <4>3 DEF held, o, w
    <3> QED
      BY <2>1, <3>2, <3>3, <3>4, <3>5, <3>8 DEF EveryLineAccountedFor
  <2> QED
    BY <2>3, <2>4, <2>5 DEF IInv
<1> QED
  BY <1>1, <1>2

LEMMA SendInv == IInv /\ SendEvent => IInv'
<1> SUFFICES ASSUME IInv, SendEvent PROVE IInv'
  OBVIOUS
<1>1. TypeOK /\ EveryLineAccountedFor /\ Channel!Put /\ ingest = "send" /\ ingest' = "read"
  BY DEF IInv, SendEvent
<1>2. /\ buf' \in Seq(Nat) /\ put' \in Nat /\ lost' \in Nat
      /\ Len(buf') + lost' = Len(buf) + lost + 1
  BY <1>1, PutKeeps
<1>3. UNCHANGED <<out, open, over>>
  BY <1>1 DEF Channel!Put
<1>4. main = "running" /\ ~over
  BY <1>1 DEF IInv, Winding, Drained
<1>5. TypeOK'
  BY <1>1, <1>2, <1>3 DEF SendEvent, TypeOK, IngestStates, start, pipeline, history
<1>6. EveryLineAccountedFor'
  <2>1. /\ lost \in Nat /\ lost' \in Nat /\ position \in Nat
        /\ written \in Nat /\ skipped \in Nat /\ blank \in Nat /\ parseErrors \in Nat
        /\ cut \in Nat
    BY <1>1, <1>2 DEF TypeOK
  <2>2. UNCHANGED <<written, position, parseErrors, skipped, blank, cut>>
    BY DEF SendEvent, history
  <2>3. Len(buf) \in Nat /\ Len(buf') \in Nat /\ Len(out) \in Nat
        /\ Len(buf') + lost' = Len(buf) + lost + 1
    BY <1>1, <1>2 DEF TypeOK
  <2>4. position = skipped + blank + parseErrors + cut + Len(out) + lost + Len(buf) + 1
        /\ position <= written /\ cut <= 1 /\ cut # 1
    BY <1>1 DEF EveryLineAccountedFor
  <2>5. position = skipped + blank + parseErrors + cut + Len(out) + lost' + Len(buf')
    BY <2>1, <2>3, <2>4, SMTT(30)
  <2> QED
    BY <1>1, <1>3, <2>1, <2>2, <2>4, <2>5 DEF EveryLineAccountedFor
<1>7. Winding' /\ Drained'
  BY <1>1, <1>3, <1>4 DEF IInv, SendEvent, Winding, Drained
<1> QED
  BY <1>5, <1>6, <1>7 DEF IInv

\* Steps of the pipeline; none is possible once it is over.
LEMMA PipelineInv ==
  ASSUME IInv, Handle \/ PersistTick \/ SnapshotTick \/ EndPipeline PROVE IInv'
<1>0. TypeOK /\ EveryLineAccountedFor /\ Len(out) \in Nat
  BY DEF IInv, TypeOK
<1>1. CASE Handle
  <2>1. /\ buf' \in Seq(Nat) /\ out' \in Seq(Nat)
        /\ Len(buf') + Len(out') = Len(buf) + Len(out)
        /\ ~over /\ UNCHANGED <<put, lost, open, over>>
    BY <1>0, <1>1, TakeKeeps DEF Handle, Channel!Take
  <2>2. UNCHANGED <<start, reader, pipeline, main, server, history>>
    BY <1>1 DEF Handle
  <2>3. TypeOK'
    BY <1>0, <2>1, <2>2 DEF TypeOK, start, reader, pipeline, history
  <2>4. EveryLineAccountedFor'
    <3>1. /\ lost \in Nat /\ position \in Nat
          /\ written \in Nat /\ skipped \in Nat /\ blank \in Nat /\ parseErrors \in Nat
          /\ cut \in Nat
      BY <1>0 DEF TypeOK
    <3>2. Len(buf) \in Nat /\ Len(buf') \in Nat /\ Len(out') \in Nat
      BY <1>0, <2>1 DEF TypeOK
    <3>3. UNCHANGED <<written, position, ingest, parseErrors, skipped, blank, cut, lost>>
      BY <2>1, <2>2 DEF reader, history
    <3>4. Len(out') + lost + Len(buf') = Len(out) + lost + Len(buf)
      <4>1. Len(buf') + Len(out') = Len(buf) + Len(out) /\ Len(out) \in Nat
        BY <1>0, <2>1
      <4> QED
        BY <3>1, <3>2, <4>1
    <3>5. skipped + blank + parseErrors + cut + Len(out') + lost + Len(buf')
          = skipped + blank + parseErrors + cut + Len(out) + lost + Len(buf)
      BY <1>0, <3>1, <3>2, <3>4
    <3> QED
      BY <1>0, <3>3, <3>5 DEF EveryLineAccountedFor
  <2>5. Winding' /\ Drained'
    BY <2>1, <2>2 DEF IInv, Winding, Drained, reader
  <2> QED
    BY <2>3, <2>4, <2>5 DEF IInv
<1>2. CASE PersistTick \/ SnapshotTick
  <2>1. ~over /\ UNCHANGED <<start, reader, channel, main, server, history>>
    BY <1>2 DEF PersistTick, SnapshotTick
  <2>2. TypeOK'
    <3>1. saved' \in Nat /\ saveFailed' \in BOOLEAN
      BY <1>0, <1>2 DEF PersistTick, SnapshotTick, SaveBaselines, TypeOK
    <3>2. shown' \in [events : Nat, dropped : Nat, parseErrors : Nat]
      BY <1>0, <1>2 DEF PersistTick, SnapshotTick, PublishSnapshot, TypeOK
    <3> QED
      BY <1>0, <2>1, <3>1, <3>2 DEF TypeOK, start, reader, channel, history
  <2>3. EveryLineAccountedFor' /\ Winding' /\ Drained'
    BY <2>1 DEF IInv, EveryLineAccountedFor, Winding, Drained, reader, channel, history
  <2> QED
    BY <2>2, <2>3 DEF IInv
<1>3. CASE EndPipeline
  <2>1. /\ ~open /\ buf = <<>> /\ over' = TRUE
        /\ UNCHANGED <<buf, put, out, lost, open, start, reader, main, server, history>>
    BY <1>3 DEF EndPipeline, Channel!End
  <2>2. SaveBaselines /\ PublishSnapshot
    BY <1>3 DEF EndPipeline
  <2>3. TypeOK'
    BY <1>0, <2>1, <2>2
       DEF SaveBaselines, PublishSnapshot, TypeOK, start, reader, history
  <2>4. EveryLineAccountedFor' /\ Winding'
    BY <2>1 DEF IInv, EveryLineAccountedFor, Winding, reader, history
  <2>5. Drained'
    BY <2>1, <2>2 DEF IInv, Drained, SaveBaselines, PublishSnapshot, reader, start
  <2> QED
    BY <2>3, <2>4, <2>5 DEF IInv
<1> QED
  BY <1>1, <1>2, <1>3

\* Steps of main and of the server.
LEMMA MainInv ==
  ASSUME IInv, IngestionReturned \/ Signal \/ ServerTold \/ RemoveSocket \/ Exit
  PROVE  IInv'
<1>0. TypeOK /\ EveryLineAccountedFor
  BY DEF IInv
<1>1. CASE IngestionReturned \/ Signal
  <2>1. /\ main = "running" /\ main' = "winding" /\ open' = FALSE /\ ~over
        /\ UNCHANGED <<buf, put, out, lost, over, start, pipeline, server>>
    BY <1>1 DEF IInv, Winding, Drained, IngestionReturned, Signal, BeginShutdown,
                Channel!Close
  <2>2. ingest' \in {"done", "dropped"} /\ (cut' = cut \/ cut' = cut + 1)
        /\ UNCHANGED <<written, position, passes, backoff, parseErrors, skipped, blank>>
    BY <1>1 DEF IngestionReturned, Signal, reader, history
  <2>3. TypeOK'
    <3>1. cut' \in Nat /\ ingest' \in IngestStates
      BY <1>0, <2>2 DEF TypeOK, IngestStates
    <3> QED
      BY <1>0, <2>1, <2>2, <3>1 DEF TypeOK, start, pipeline
  <2>4. EveryLineAccountedFor'
    <3>1. ingest # "dropped" /\ cut = 0
      BY <1>0, <2>1 DEF IInv, Winding, EveryLineAccountedFor, TypeOK
    <3>2. /\ position = skipped + blank + parseErrors + Len(out) + lost + Len(buf)
                        + (IF ingest = "send" THEN 1 ELSE 0)
          /\ position <= written
      BY <1>0, <3>1 DEF EveryLineAccountedFor, TypeOK
    <3>3. cut' = (IF ingest = "send" THEN 1 ELSE 0) /\ (cut' = 1 => ingest' = "dropped")
      BY <1>1, <3>1 DEF IngestionReturned, Signal, history
    <3>4. /\ Len(buf) \in Nat /\ lost \in Nat /\ Len(out) \in Nat
          /\ skipped \in Nat /\ blank \in Nat /\ parseErrors \in Nat
      BY <1>0 DEF TypeOK
    <3> QED
      BY <2>1, <2>2, <3>2, <3>3, <3>4 DEF EveryLineAccountedFor
  <2>5. Winding' /\ Drained'
    BY <2>1, <2>2 DEF Winding, Drained
  <2> QED
    BY <2>3, <2>4, <2>5 DEF IInv
<1>2. CASE ServerTold \/ RemoveSocket \/ Exit
  <2>1. UNCHANGED <<start, reader, channel, pipeline, history>>
    BY <1>2 DEF ServerTold, RemoveSocket, Exit
  <2>2. main' = main \/ (main = "winding" /\ main' = "gone" /\ over)
    BY <1>2 DEF ServerTold, RemoveSocket, Exit
  <2>3. server' \in {"serving", "grace", "gone"}
    BY <1>0, <1>2 DEF ServerTold, RemoveSocket, Exit, TypeOK
  <2>4. TypeOK'
    BY <1>0, <2>1, <2>2, <2>3
       DEF TypeOK, start, reader, channel, pipeline, history
  <2>5. EveryLineAccountedFor'
    BY <1>0, <2>1 DEF EveryLineAccountedFor, reader, channel, history
  <2>6. Winding' /\ Drained'
    BY <2>1, <2>2 DEF IInv, Winding, Drained, start, reader, channel, pipeline
  <2> QED
    BY <2>4, <2>5, <2>6 DEF IInv
<1> QED
  BY <1>1, <1>2

LEMMA NextInv == IInv /\ [Next]_vars => IInv'
<1> SUFFICES ASSUME IInv, [Next]_vars PROVE IInv'
  OBVIOUS
<1>1. CASE Next
  BY <1>1, ReaderInv, SendInv, PipelineInv, MainInv DEF Next
<1>2. CASE UNCHANGED vars
  BY <1>2 DEF vars, start, reader, channel, pipeline, history, IInv, TypeOK,
              EveryLineAccountedFor, Winding, Drained
<1> QED
  BY <1>1, <1>2

LEMMA Invariance == Spec => []IInv
BY InitInv, NextInv, PTL DEF Spec

-----------------------------------------------------------------------------
(* The theorems                                                            *)

\* Every variable of the daemon stays in its domain.
THEOREM DaemonTypes == Spec => []TypeOK
<1>1. IInv => TypeOK
  BY DEF IInv
<1> QED
  BY <1>1, Invariance, PTL

\* From read_one_pass to Pipeline::handle: every line behind the reader is
\* handled, waiting, or counted in one of the ways a line can go.
THEOREM LinesAccountedFor == Spec => []EveryLineAccountedFor
<1>1. IInv => EveryLineAccountedFor
  BY DEF IInv
<1> QED
  BY <1>1, Invariance, PTL

\* The shutdown of main: the process ends with the channel drained, the
\* counters shown, and the file covering every handled event.
THEOREM NothingLeftBehind == Spec => []LeavesNothingBehind
<1>1. IInv => LeavesNothingBehind
  BY DEF IInv, Drained, LeavesNothingBehind
<1> QED
  BY <1>1, Invariance, PTL

\* The backoff of run_ingestion, for a configured value up to MAX_BACKOFF_MS.
THEOREM BackoffOnlyGrows == Base <= MaxBackoff => (Spec => BackoffGrows)
<1> SUFFICES ASSUME Base <= MaxBackoff PROVE Spec => BackoffGrows
  OBVIOUS
<1> DEFINE Bounded == backoff <= MaxBackoff
           Grows ==
             /\ backoff' < backoff => backoff' = Base /\ ingest = "read" /\ ingest' = "wait"
             /\ ingest = "wait" /\ ingest' = "start" =>
                  backoff < backoff' \/ backoff' = MaxBackoff
             /\ backoff' <= MaxBackoff \/ backoff' = Base
<1>1. Init => Bounded
  BY DEF Init
<1>2. IInv /\ Bounded /\ [Next]_vars => Bounded' /\ [Grows]_vars
  <2> SUFFICES ASSUME IInv, Bounded, [Next]_vars PROVE Bounded' /\ [Grows]_vars
    OBVIOUS
  <2>1. backoff \in Nat \ {0} /\ Base \in Nat \ {0} /\ MaxBackoff \in Nat \ {0}
    BY DaemonAssumption DEF IInv, TypeOK
  <2>2. CASE Backoff
    BY <2>1, <2>2 DEF Backoff
  <2>3. CASE StopReading
    BY <2>1, <2>3 DEF StopReading, EndPass
  <2>4. CASE StartPass
    BY <2>1, <2>4 DEF StartPass, EndPass
  <2>5. CASE UNCHANGED backoff /\ ~(ingest = "wait" /\ ingest' = "start")
    BY <2>1, <2>5
  <2>6. CASE UNCHANGED vars
    BY <2>6 DEF vars, reader
  <2>7. CASE Next /\ ~(Backoff \/ StopReading \/ StartPass)
    <3>1. UNCHANGED backoff /\ ~(ingest = "wait" /\ ingest' = "start")
      BY <2>7 DEF Next, Write, CheckPermissions, ReadLine, SendEvent, Handle, PersistTick,
                  SnapshotTick, EndPipeline, IngestionReturned, Signal, ServerTold,
                  RemoveSocket, Exit, reader
    <3> QED
      BY <2>5, <3>1
  <2> QED
    BY <2>2, <2>3, <2>4, <2>6, <2>7
<1> QED
  BY <1>1, <1>2, Invariance, PTL DEF Spec, BackoffGrows

-----------------------------------------------------------------------------
(* Sequences, one step after the other                                     *)

\* A set of numbers has a least one.
LEMMA LeastExists ==
  ASSUME NEW T \in SUBSET Nat, T # {}
  PROVE  \E x \in T : \A y \in T : x <= y
<1> DEFINE Less == {pair \in Nat \X Nat : pair[1] < pair[2]}
<1>1. IsWellFoundedOn(Less, Nat)
  BY NatLessThanWellFounded DEF OpToRel
<1>2. PICK x \in T : \A y \in T : <<y, x>> \notin Less
  <2> HIDE DEF Less
  <2> QED
    BY <1>1, WFMin
<1>3. ASSUME NEW y \in T
      PROVE  x <= y
  <2>1. x \in Nat /\ y \in Nat /\ <<y, x>> \notin Less
    BY <1>2
  <2>2. <<y, x>> \in Nat \X Nat /\ <<y, x>>[1] = y /\ <<y, x>>[2] = x
    BY <2>1
  <2>3. ~(y < x)
    BY <2>1, <2>2
  <2> QED
    BY <2>1, <2>3
<1> QED
  BY <1>2, <1>3

-----------------------------------------------------------------------------

\* What holds of 0, and of n when it holds of n - 1, holds as far as it goes.
LEMMA UpToTheEnd ==
  ASSUME NEW N \in Nat, NEW P, 0 \in P, \A n \in 1..N : n - 1 \in P => n \in P
  PROVE  0..N \subseteq P
<1> DEFINE Missed == (0..N) \ P
<1> SUFFICES ASSUME Missed # {} PROVE FALSE
  OBVIOUS
<1>1. PICK n \in Missed : \A y \in Missed : n <= y
  <2>1. Missed \in SUBSET Nat
    OBVIOUS
  <2> HIDE DEF Missed
  <2> QED
    BY <2>1, LeastExists
<1>2. n \in 1..N /\ n \notin P
  BY <1>1
<1>3. n - 1 \in 0..N /\ ~(n <= n - 1)
  BY <1>2
<1>4. n - 1 \in P
  BY <1>1, <1>3
<1> QED
  BY <1>2, <1>4

\* A step taken one time after the other.
Takes(f, c, step, N) == f[0] = c /\ \A n \in 1..N : f[n] = step[<<f[n - 1], n>>]

LEMMA StepsAreTaken ==
  ASSUME NEW N \in Nat, NEW T, NEW c \in T, NEW step \in [T \X (1..N) -> T]
  PROVE  \E f \in [0..N -> T] : Takes(f, c, step, N)
<1> DEFINE P == {n \in 0..N : \E f \in [0..n -> T] : Takes(f, c, step, n)}
<1>1. 0 \in P
  <2> DEFINE f == [i \in 0..0 |-> c]
  <2>1. f \in [0..0 -> T] /\ Takes(f, c, step, 0)
    BY DEF Takes
  <2> QED
    BY <2>1
<1>2. ASSUME NEW n \in 1..N, n - 1 \in P
      PROVE  n \in P
  <2>1. PICK f \in [0..(n - 1) -> T] : Takes(f, c, step, n - 1)
    BY <1>2
  <2> DEFINE last == step[<<f[n - 1], n>>]
             g == [i \in 0..n |-> IF i = n THEN last ELSE f[i]]
  <2>2. last \in T
    <3>1. f[n - 1] \in T
      BY <2>1
    <3> QED
      BY <3>1
  <2>3. g \in [0..n -> T]
    BY <2>1, <2>2
  <2>4. Takes(g, c, step, n)
    <3>1. g[0] = c
      BY <2>1 DEF Takes
    <3>2. ASSUME NEW i \in 1..n
          PROVE  g[i] = step[<<g[i - 1], i>>]
      <4>1. g[i - 1] = f[i - 1]
        OBVIOUS
      <4>2. CASE i = n
        BY <4>1, <4>2, SMTT(30)
      <4>3. CASE i # n
        <5>1. i \in 1..(n - 1) /\ g[i] = f[i]
          BY <4>3
        <5> QED
          BY <2>1, <4>1, <5>1 DEF Takes
      <4> QED
        BY <4>2, <4>3
    <3> QED
      BY <3>1, <3>2 DEF Takes
  <2> QED
    BY <2>3, <2>4
<1>3. 0..N \subseteq P
  <2> HIDE DEF P
  <2> QED
    BY <1>1, <1>2, UpToTheEnd
<1> QED
  BY <1>3

-----------------------------------------------------------------------------
(* The dashboard                                                           *)

Links == [up : BOOLEAN, daemon : Nat, raised : Nat]
Anomalies == [daemon : Nat, id : Nat]
Requests == [kind : {"context"}, id : Nat, about : Anomalies] \cup [kind : {"action"}, id : Nat]
Messages ==
  [kind : {"hello"}, allowed : {Kinds}] \cup [kind : {"recent"}, list : Seq(Anomalies)]
  \cup [kind : {"anomaly"}, anomaly : Anomalies]
  \cup [kind : {"context"}, id : Nat, about : Anomalies] \cup [kind : {"result"}, id : Nat]
  \cup [kind : {"error", "lan"}, devices : {<<2, 1>>}]

\* A context that was asked for: the last one for the anomaly selected.
Fits(c) ==
  /\ c.about \in Anomalies
  /\ c.id \in 1..(app.next - 1) /\ (c.id = app.pending => c.about.id = app.selected)

State(g) ==
  /\ DOMAIN g = {"connection", "allowed", "anomalies", "context", "results", "log", "devices"}
  /\ g.anomalies \in Seq(Anomalies)
  /\ g.context = None \/ Fits(g.context)

AppState ==
  /\ DOMAIN app = {"paused", "selected", "next", "pending", "dialog", "filter"}
  /\ app.next \in Nat \ {0} /\ app.pending \in Nat /\ app.pending < app.next

Contexts ==
  /\ \A i \in 1..Len(queue) : queue[i].kind = "context" => Fits(queue[i])
  /\ \A i \in 1..Len(inbox) : inbox[i].kind = "context" => Fits(inbox[i])

ContextInv ==
  /\ link \in Links
  /\ queue \in Seq(Requests) /\ inbox \in Seq(Messages)
  /\ State(gui) /\ State(render) /\ AppState /\ Contexts

\* Where an anomaly is: in a list that is held, on its way to one, in a request or an answer
\* to the last request.
Held(a) == a \in Range(gui.anomalies) \/ a \in Range(render.anomalies)
Brought(m) ==
  IF m.kind = "recent" THEN Range(m.list) ELSE IF m.kind = "anomaly" THEN {m.anomaly} ELSE {}
Comes(a) == \E k \in 1..Len(inbox) : a \in Brought(inbox[k])
Sought(a) ==
  \/ \E i \in 1..Len(queue) :
       queue[i].kind = "context" /\ queue[i].id = app.pending /\ queue[i].about = a
  \/ \E i \in 1..Len(inbox) :
       inbox[i].kind = "context" /\ inbox[i].id = app.pending /\ inbox[i].about = a
  \/ gui.context # None /\ gui.context.id = app.pending /\ gui.context.about = a

\* By the daemons they are from: a list is in order, and an anomaly is before all with its number.
InOrder(list) == \A i, j \in DOMAIN list : i <= j => list[i].daemon <= list[j].daemon
Precedes(a, S) == \A b \in S : b.id = a.id => a.daemon <= b.daemon

\* The daemons come one after the other, and what they raised in the order of the daemons; so
\* what was asked for is before all with its number that are held beside it or come.
AgeInv ==
  /\ InOrder(gui.anomalies) /\ InOrder(render.anomalies)
  /\ \A k, l \in 1..Len(inbox) : k <= l =>
       \A a \in Brought(inbox[k]), b \in Brought(inbox[l]) : a.daemon <= b.daemon
  /\ \A a \in Anomalies : Held(a) \/ Comes(a) \/ Sought(a) => a.daemon <= link.daemon
  /\ \A a, b \in Anomalies : Held(a) /\ Comes(b) => a.daemon <= b.daemon
  /\ \A a \in Range(render.anomalies), b \in Range(gui.anomalies) :
       b \in Range(render.anomalies) \/ a.daemon <= b.daemon
  /\ \A a \in Anomalies : Sought(a) =>
       /\ Precedes(a, Range(gui.anomalies))
       /\ \A b \in Anomalies : Comes(b) /\ b.id = a.id => a.daemon <= b.daemon
  /\ render.context # None /\ render.context.id = app.pending
       => Precedes(render.context.about, Range(render.anomalies))

DashboardInv ==
  IF focus = "dashboard" THEN ContextInv /\ AgeInv /\ ContextFitsSelection ELSE screen.context = None

-----------------------------------------------------------------------------
(* The map                                                                 *)

PointFields == {"ip", "country", "city", "source", "program", "route", "age"}
\* A point with this route: it is refined by it, or cannot be, or needs not.
Placing(p, route) ==
  /\ DOMAIN p = PointFields /\ p.route = route
  /\ p.source = "country" => Refining(p) = {}
  /\ p.source = "route" => Refining(p) # {} /\ p.city = RefinedCity(p)

RouteOf(rs, a) == IF a \in DOMAIN rs THEN rs[a] ELSE <<>>

MapInv ==
  /\ \A a \in DOMAIN points : Placing(points[a], RouteOf(routes, a))
  /\ target # Unknown => target[1] \notin DOMAIN routes

-----------------------------------------------------------------------------
(* The terminal                                                            *)

Told ==
  [kind : {"hello"}, allowed : {Kinds}] \cup [kind : {"recent"}, list : Seq(Anomalies)]
  \cup [kind : {"anomaly"}, anomaly : Anomalies]
  \cup [kind : {"error"}, devices : {<<2, 1>>}] \cup [kind : {"goodbye"}]

Tuis == [host : {"-", "daemon"}, connection : {"unknown", "up", "down"}, list : Seq(Anomalies),
         selected : Nat, status : {"help", "error", "goodbye"}, quit : BOOLEAN]
Selections(a) == {t \in Tuis : Len(t.list) <= TableCap
                              /\ (t.selected = 0 \/ SelectedOf(t) = a \/ t.selected >= TableCap)}

TerminalInv ==
  IF focus = "terminal"
  THEN /\ link \in Links
       /\ inbox \in Seq(Told) /\ keys \in Seq({"up", "down", "quit"})
       /\ tui \in Selections(chosen)
       /\ ~tui.quit => shows.cursor = tui.selected + 1 /\ shows.detail = SelectedOf(tui)
  ELSE shows.cursor = 1

TableCapIsNat == TableCap \in Nat /\ TableCap > 0

LEMMA TableIsPositive == TableCapIsNat
  BY TerminalAssumption DEF TableCapIsNat

\* What push_anomaly of the terminal makes of the list.
LEMMA PushedFront ==
  ASSUME NEW list \in Seq(Anomalies), NEW a \in Anomalies
  PROVE  LET pushed == SubSeq(<<a>> \o list, 1, Smaller(Len(list) + 1, TableCap))
         IN  /\ pushed \in Seq(Anomalies)
             /\ Len(pushed) = Smaller(Len(list) + 1, TableCap)
             /\ \A i \in 2..Len(pushed) : pushed[i] = list[i - 1]
<1> DEFINE all == <<a>> \o list
           n == Smaller(Len(list) + 1, TableCap)
<1>1. /\ Len(list) \in Nat /\ TableCap \in Nat /\ n \in Nat /\ n <= Len(list) + 1
      /\ <<a>> \in Seq(Anomalies) /\ Len(<<a>>) = 1
  BY LenProperties, TableIsPositive DEF TableCapIsNat, Smaller
<1>2. /\ all \in Seq(Anomalies) /\ Len(all) = Len(list) + 1
      /\ \A i \in 1..Len(all) : all[i] = IF i <= 1 THEN <<a>>[i] ELSE list[i - 1]
  <2> HIDE DEF n
  <2> QED
    BY <1>1, ConcatProperties
<1>3. /\ SubSeq(all, 1, n) \in Seq(Anomalies) /\ Len(SubSeq(all, 1, n)) = n
      /\ \A i \in 1..n : SubSeq(all, 1, n)[i] = all[i]
  <2> HIDE DEF all, n
  <2> QED
    BY <1>1, <1>2
<1>4. \A i \in 2..n : SubSeq(all, 1, n)[i] = list[i - 1]
  <2> HIDE DEF n
  <2> TAKE i \in 2..n
  <2>1. i \in 1..n /\ i \in 1..Len(all) /\ ~(i <= 1)
    BY <1>1, <1>2
  <2> HIDE DEF all
  <2> QED
    BY <1>2, <1>3, <2>1
<1> QED
  BY <1>3, <1>4

LEMMA FrontKeepsSelection ==
  ASSUME NEW was, NEW t \in Selections(was), NEW a \in Anomalies
  PROVE  PushFront(t, a) \in Selections(was)
<1> DEFINE u == PushFront(t, a)
           pushed == SubSeq(<<a>> \o t.list, 1, Smaller(Len(t.list) + 1, TableCap))
<1>1. /\ t \in Tuis /\ Len(t.list) <= TableCap
      /\ t.selected = 0 \/ SelectedOf(t) = was \/ t.selected >= TableCap
  BY DEF Selections
<1>2. /\ t.list \in Seq(Anomalies) /\ t.selected \in Nat /\ Len(t.list) \in Nat
      /\ TableCap \in Nat /\ TableCap > 0
  BY <1>1, LenProperties, TableIsPositive DEF Tuis, TableCapIsNat
<1>3. /\ pushed \in Seq(Anomalies) /\ Len(pushed) = Smaller(Len(t.list) + 1, TableCap)
      /\ \A i \in 2..Len(pushed) : pushed[i] = t.list[i - 1]
  BY <1>2, PushedFront
<1> HIDE DEF pushed
<1>4. u = [t EXCEPT !.list = pushed, !.selected = IF t.selected > 0 THEN t.selected + 1 ELSE t.selected]
  BY DEF PushFront, pushed
<1> HIDE DEF u
<1>5. u \in Tuis
  <2>1. PICK sel \in Nat : sel = IF t.selected > 0 THEN t.selected + 1 ELSE t.selected
    BY <1>2
  <2>2. u = [t EXCEPT !.list = pushed, !.selected = sel]
    BY <1>4, <2>1
  <2> QED
    BY <1>1, <1>3, <2>2 DEF Tuis
<1>6. u.list = pushed /\ u.selected = IF t.selected > 0 THEN t.selected + 1 ELSE t.selected
  BY <1>1, <1>4 DEF Tuis
<1>7. Len(u.list) <= TableCap
  BY <1>2, <1>3, <1>6 DEF Smaller
<1>8. u.selected = 0 \/ SelectedOf(u) = was \/ u.selected >= TableCap
  <2> SUFFICES ASSUME t.selected > 0, SelectedOf(t) = was, t.selected + 1 < TableCap
               PROVE  SelectedOf(u) = was
    BY <1>1, <1>2, <1>6
  <2>1. u.selected = t.selected + 1 /\ Len(pushed) \in Nat
    BY <1>2, <1>3, <1>6, LenProperties
  <2>2. CASE t.selected < Len(t.list)
    <3>1. t.selected + 2 \in 2..Len(pushed)
      BY <1>2, <1>3, <2>2 DEF Smaller
    <3>2. pushed[t.selected + 2] = t.list[t.selected + 1]
      BY <1>2, <1>3, <3>1
    <3>3. u.selected < Len(u.list) /\ u.list[u.selected + 1] = t.list[t.selected + 1]
      BY <1>2, <1>6, <2>1, <3>1, <3>2
    <3> QED
      BY <2>2, <3>3 DEF SelectedOf
  <2>3. CASE ~(t.selected < Len(t.list))
    <3>1. ~(u.selected < Len(u.list))
      BY <1>2, <1>3, <1>6, <2>1, <2>3 DEF Smaller
    <3> QED
      BY <2>3, <3>1 DEF SelectedOf
  <2> QED
    BY <2>2, <2>3
<1> QED
  BY <1>5, <1>7, <1>8 DEF Selections, u

\* A list, as it comes at the beginning of a session.
LEMMA ListKeepsSelection ==
  ASSUME NEW was, NEW t \in Selections(was), NEW list \in Seq(Anomalies)
  PROVE  PushList(t, list) \in Selections(was)
<1> DEFINE N == Len(list)
           T == Selections(was)
           step == [p \in T \X (1..N) |-> PushFront(p[1], list[p[2]])]
           Def(h) == [n \in 0..N |-> IF n = 0 THEN t ELSE PushFront(h[n - 1], list[n])]
           after == CHOOSE h : h = Def(h)
<1>1. N \in Nat /\ \A n \in 1..N : list[n] \in Anomalies
  BY LenProperties, ElementOfSeq
<1>2. \A s \in T, n \in 1..N : PushFront(s, list[n]) \in T
  <2> TAKE s \in T, n \in 1..N
  <2>1. list[n] \in Anomalies
    BY <1>1
  <2> HIDE DEF N
  <2> QED
    BY <2>1, FrontKeepsSelection
<1>3. step \in [T \X (1..N) -> T]
  <2> HIDE DEF T, N
  <2> QED
    BY <1>2
<1>4. PICK f \in [0..N -> T] : Takes(f, t, step, N)
  <2> HIDE DEF N, T, step
  <2> QED
    BY <1>1, <1>3, StepsAreTaken DEF T
<1>5. f = Def(f)
  <2>1. \A n \in 1..N : f[n] = PushFront(f[n - 1], list[n])
    <3> TAKE n \in 1..N
    <3>1. f[n - 1] \in T
      BY <1>1
    <3> HIDE DEF T, N
    <3> QED
      BY <1>4, <3>1 DEF Takes
  <2>2. f[0] = t
    BY <1>4 DEF Takes
  <2> HIDE DEF T, N
  <2> QED
    BY <1>1, <2>1, <2>2
<1>6. after = Def(after)
  <2> HIDE DEF Def
  <2> QED
    BY <1>5
<1> HIDE DEF after
<1>7. PushList(t, list) = after[N]
  BY DEF PushList, after
<1> DEFINE P == {n \in 0..N : after[n] \in T}
<1>8. 0 \in P
  <2> HIDE DEF T, N
  <2> QED
    BY <1>1, <1>6 DEF T
<1>9. ASSUME NEW n \in 1..N, n - 1 \in P
      PROVE  n \in P
  <2>1. after[n] = PushFront(after[n - 1], list[n])
    <3> HIDE DEF N, T
    <3> QED
      BY <1>1, <1>6
  <2>2. after[n - 1] \in T
    BY <1>9
  <2> HIDE DEF N, T
  <2> QED
    BY <1>1, <1>2, <2>1, <2>2
<1>10. 0..N \subseteq P
  <2> HIDE DEF P, N
  <2> QED
    BY <1>1, <1>8, <1>9, UpToTheEnd
<1> QED
  BY <1>1, <1>7, <1>10

\* The keys move the selection, and leave the list alone.
Listing == {t \in Tuis : Len(t.list) <= TableCap}
Keys == {"up", "down", "quit"}

LEMMA HandledIsListing ==
  ASSUME NEW t \in Listing, NEW key \in Keys
  PROVE  Handled(t, key) \in Listing
<1>1. t \in Tuis /\ t.selected \in Nat /\ Len(t.list) \in Nat /\ Len(t.list) <= TableCap
  BY LenProperties DEF Listing, Tuis
<1>2. CASE key = "quit"
  BY <1>1, <1>2 DEF Handled, Listing, Tuis
<1>3. CASE key = "down"
  <2>1. PICK sel \in Nat : sel = IF t.selected + 1 < Len(t.list) THEN t.selected + 1 ELSE t.selected
    BY <1>1
  <2>2. Handled(t, key) = [t EXCEPT !.selected = sel]
    BY <1>3, <2>1 DEF Handled
  <2> QED
    BY <1>1, <2>2 DEF Listing, Tuis
<1>4. CASE key = "up"
  <2>1. PICK sel \in Nat : sel = IF t.selected > 0 THEN t.selected - 1 ELSE 0
    BY <1>1
  <2>2. Handled(t, key) = [t EXCEPT !.selected = sel]
    BY <1>4, <2>1 DEF Handled
  <2> QED
    BY <1>1, <2>2 DEF Listing, Tuis
<1> QED
  BY <1>2, <1>3, <1>4 DEF Keys

LEMMA KeysAreHandled ==
  ASSUME NEW t \in Listing, NEW pressed \in Seq(Keys)
  PROVE  HandledAll(t, pressed) \in Listing
<1> DEFINE N == Len(pressed)
           T == Listing
           step == [p \in T \X (1..N) |-> Handled(p[1], pressed[p[2]])]
           Def(h) == [n \in 0..N |-> IF n = 0 THEN t ELSE Handled(h[n - 1], pressed[n])]
           after == CHOOSE h : h = Def(h)
<1>1. N \in Nat /\ \A n \in 1..N : pressed[n] \in Keys
  BY LenProperties, ElementOfSeq
<1>2. \A s \in T, n \in 1..N : Handled(s, pressed[n]) \in T
  BY <1>1, HandledIsListing
<1>3. step \in [T \X (1..N) -> T]
  <2> HIDE DEF T, N
  <2> QED
    BY <1>2
<1>4. PICK f \in [0..N -> T] : Takes(f, t, step, N)
  <2> HIDE DEF N, T, step
  <2> QED
    BY <1>1, <1>3, StepsAreTaken DEF T
<1>5. f = Def(f)
  <2>1. \A n \in 1..N : f[n] = Handled(f[n - 1], pressed[n])
    <3> TAKE n \in 1..N
    <3>1. f[n - 1] \in T
      BY <1>1
    <3> HIDE DEF T, N
    <3> QED
      BY <1>4, <3>1 DEF Takes
  <2>2. f[0] = t
    BY <1>4 DEF Takes
  <2> HIDE DEF T, N
  <2> QED
    BY <1>1, <2>1, <2>2
<1>6. after = Def(after)
  <2> HIDE DEF Def
  <2> QED
    BY <1>5
<1> HIDE DEF after
<1>7. HandledAll(t, pressed) = after[N]
  BY DEF HandledAll, after
<1> DEFINE P == {n \in 0..N : after[n] \in T}
<1>8. 0 \in P
  <2> HIDE DEF T, N
  <2> QED
    BY <1>1, <1>6 DEF T
<1>9. ASSUME NEW n \in 1..N, n - 1 \in P
      PROVE  n \in P
  <2>1. after[n] = Handled(after[n - 1], pressed[n])
    <3> HIDE DEF N, T
    <3> QED
      BY <1>1, <1>6
  <2>2. after[n - 1] \in T
    BY <1>9
  <2> HIDE DEF N, T
  <2> QED
    BY <1>1, <1>2, <2>1, <2>2
<1>10. 0..N \subseteq P
  <2> HIDE DEF P, N
  <2> QED
    BY <1>1, <1>8, <1>9, UpToTheEnd
<1> QED
  BY <1>1, <1>7, <1>10

LEMMA MessageKeepsSelection ==
  ASSUME NEW was, NEW t \in Selections(was), NEW m \in Told
  PROVE  Applied(t, m) \in Selections(was)
<1>1. t \in Tuis
  BY DEF Selections
<1>2. CASE m.kind = "hello"
  <2>1. Applied(t, m) = [t EXCEPT !.host = "daemon"]
    BY <1>2 DEF Applied
  <2>2. Applied(t, m) \in Tuis
    BY <1>1, <2>1 DEF Tuis
  <2>3. Applied(t, m).list = t.list /\ Applied(t, m).selected = t.selected
    BY <1>1, <2>1 DEF Tuis
  <2> QED
    BY <2>2, <2>3 DEF Selections, SelectedOf
<1>3. CASE m.kind = "recent"
  <2>1. m.list \in Seq(Anomalies)
    BY <1>3 DEF Told
  <2>2. Applied(t, m) = PushList(t, m.list)
    BY <1>3 DEF Applied
  <2> QED
    BY <2>1, <2>2, ListKeepsSelection
<1>4. CASE m.kind = "anomaly"
  <2>1. m.anomaly \in Anomalies
    BY <1>4 DEF Told
  <2>2. Applied(t, m) = PushFront(t, m.anomaly)
    BY <1>4 DEF Applied
  <2> QED
    BY <2>1, <2>2, FrontKeepsSelection
<1>5. ASSUME NEW kind \in {"error", "goodbye"}, m.kind = kind
      PROVE  Applied(t, m) \in Selections(was)
  <2>1. Applied(t, m) = [t EXCEPT !.status = kind]
    BY <1>5 DEF Applied
  <2>2. Applied(t, m) \in Tuis
    BY <1>1, <2>1 DEF Tuis
  <2>3. Applied(t, m).list = t.list /\ Applied(t, m).selected = t.selected
    BY <1>1, <2>1 DEF Tuis
  <2> QED
    BY <2>2, <2>3 DEF Selections, SelectedOf
<1> QED
  BY <1>2, <1>3, <1>4, <1>5 DEF Told

\* What the daemon sends is of these kinds.
LEMMA RecentIsList ==
  ASSUME NEW n \in Nat, NEW d \in Nat
  PROVE  [i \in 1..n |-> Anomaly(d, i)] \in Seq(Anomalies)
<1>1. \A i \in 1..n : Anomaly(d, i) \in Anomalies
  BY DEF Anomaly, Anomalies
<1> QED
  BY <1>1, SeqDef
\* The first messages of a session.
Greeting(hello, recent) == IF HandsOnHello THEN <<hello, recent>> ELSE <<recent>>

LEMMA GreetingIsList ==
  ASSUME NEW S, NEW hello \in S, NEW recent \in S
  PROVE  Greeting(hello, recent) \in Seq(S)
<1>1. <<hello, recent>> \in Seq(S) /\ <<recent>> \in Seq(S)
  OBVIOUS
<1> QED
  BY <1>1 DEF Greeting

LEMMA LinkDownKeeps ==
  ASSUME link \in Links, LinkDown
  PROVE  link' \in Links
<1>1. CASE link' = [link EXCEPT !.up = FALSE]
  BY <1>1 DEF Links
<1>2. CASE link' = [up |-> FALSE, daemon |-> link.daemon + 1, raised |-> 0]
  BY <1>2 DEF Links
<1> QED
  BY <1>1, <1>2 DEF LinkDown

LEMMA TerminalKept ==
  ASSUME TerminalInv, focus = "terminal", TerminalNext, focus' = focus
  PROVE  TerminalInv'
<1> DEFINE Shown == ~tui.quit => shows.cursor = tui.selected + 1 /\ shows.detail = SelectedOf(tui)
<1>1. /\ link \in Links
      /\ inbox \in Seq(Told) /\ keys \in Seq(Keys)
      /\ tui \in Selections(chosen) /\ Shown
  BY DEF TerminalInv, Keys
<1>2. SUFFICES /\ link' \in Links
               /\ inbox' \in Seq(Told) /\ keys' \in Seq(Keys)
               /\ tui' \in Selections(chosen') /\ Shown'
  BY DEF TerminalInv, Keys
<1>3. tui \in Tuis /\ Len(tui.list) <= TableCap
  BY <1>1 DEF Selections
<1>4. ASSUME NEW after, Round(after), after \in Tuis
      PROVE  tui' = after /\ Shown'
  <2>1. tui' = after /\ (after.quit \/ shows' = Drawing(after))
    BY <1>4 DEF Round
  <2>2. shows' = Drawing(after) =>
          shows'.cursor = after.selected + 1 /\ shows'.detail = SelectedOf(after)
    BY DEF Drawing
  <2> QED
    BY <2>1, <2>2 DEF SelectedOf
<1>5. CASE LinkUp /\ UNCHANGED terminal
  <2> DEFINE hello == [kind |-> "hello", allowed |-> Kinds]
             recent == [kind |-> "recent", list |-> [i \in 1..link.raised |-> Anomaly(link.daemon, i)]]
  <2>1. hello \in Told
    BY DEF Told
  <2>2. [i \in 1..link.raised |-> Anomaly(link.daemon, i)] \in Seq(Anomalies)
    BY <1>1, RecentIsList DEF Links
  <2>3. recent \in Told
    BY <2>2 DEF Told
  <2>4. inbox' = inbox \o Greeting(hello, recent) /\ link' = [link EXCEPT !.up = TRUE]
    BY <1>5 DEF LinkUp, Greeting
  <2> HIDE DEF hello, recent
  <2>5. Greeting(hello, recent) \in Seq(Told)
    BY <2>1, <2>3, GreetingIsList
  <2>6. inbox' \in Seq(Told)
    BY <1>1, <2>4, <2>5, ConcatProperties
  <2> QED
    BY <1>1, <1>5, <2>4, <2>6 DEF terminal, SelectedOf, Links
<1>6. CASE LinkDown /\ UNCHANGED terminal
  <2>1. link' \in Links
    BY <1>1, <1>6, LinkDownKeeps
  <2>2. UNCHANGED <<inbox, tui, keys, shows, chosen>>
    BY <1>6 DEF LinkDown, terminal
  <2> QED
    BY <1>1, <2>1, <2>2 DEF SelectedOf
<1>7. CASE Raise /\ UNCHANGED terminal
  <2> DEFINE m == [kind |-> "anomaly", anomaly |-> Anomaly(link.daemon, link.raised + 1)]
  <2>1. m \in Told
    BY <1>1 DEF Told, Anomaly, Anomalies, Links
  <2>2. inbox' = Append(inbox, m) /\ link' = [link EXCEPT !.raised = link.raised + 1]
    BY <1>7 DEF Raise
  <2> HIDE DEF m
  <2>3. inbox' \in Seq(Told)
    BY <1>1, <2>1, <2>2, AppendProperties
  <2> QED
    BY <1>1, <1>7, <2>2, <2>3 DEF terminal, SelectedOf, Links
<1>8. CASE Tell("error") /\ UNCHANGED terminal
  <2> DEFINE m == [kind |-> "error", devices |-> <<2, 1>>]
  <2>1. m \in Told
    BY DEF Told
  <2>2. inbox' = Append(inbox, m) /\ link' = link
    BY <1>8 DEF Tell
  <2> HIDE DEF m
  <2>3. inbox' \in Seq(Told)
    BY <1>1, <2>1, <2>2, AppendProperties
  <2> QED
    BY <1>1, <1>8, <2>2, <2>3 DEF terminal, SelectedOf, Links
<1>9. CASE Farewell
  <2> DEFINE m == [kind |-> "goodbye"]
  <2>1. m \in Told
    BY DEF Told
  <2>2. inbox' = Append(inbox, m)
    BY <1>9 DEF Farewell
  <2> HIDE DEF m
  <2>3. inbox' \in Seq(Told)
    BY <1>1, <2>1, <2>2, AppendProperties
  <2>4. link' \in Links
    BY <1>1, <1>9, DashboardAssumption DEF Farewell, Smaller, Links
  <2> QED
    BY <1>1, <1>9, <2>3, <2>4 DEF Farewell, terminal, SelectedOf
<1>10. CASE TakeKeys
  <2>1. tui \in Listing
    BY <1>3 DEF Listing
  <2>2. HandledAll(tui, keys) \in Listing
    BY <1>1, <2>1, KeysAreHandled
  <2>3. tui' = HandledAll(tui, keys) /\ Shown'
    BY <1>4, <1>10, <2>2 DEF TakeKeys, Listing
  <2>4. chosen' = SelectedOf(tui') /\ keys' = <<>> /\ inbox' = inbox /\ link' = link
    BY <1>10 DEF TakeKeys, outside
  <2>5. tui' \in Selections(chosen')
    BY <2>2, <2>3, <2>4 DEF Listing, Selections
  <2> QED
    BY <1>1, <2>3, <2>4, <2>5
<1>11. CASE TakeState
  <2> DEFINE after == [tui EXCEPT !.connection = IF link.up THEN "up" ELSE "down"]
  <2>1. after \in Tuis /\ after.list = tui.list /\ after.selected = tui.selected
    BY <1>3 DEF Tuis
  <2>2. Round(after) /\ UNCHANGED <<keys, chosen, link, inbox>>
    BY <1>11 DEF TakeState
  <2>3. tui' = after /\ Shown'
    BY <1>4, <2>1, <2>2
  <2> HIDE DEF after
  <2>4. after \in Selections(chosen)
    BY <1>1, <2>1 DEF Selections, SelectedOf
  <2> QED
    BY <1>1, <2>2, <2>3, <2>4
<1>12. CASE TakeMessage
  <2>1. inbox # <<>> /\ inbox' = Tail(inbox) /\ Round(Applied(tui, Head(inbox)))
        /\ UNCHANGED <<keys, chosen, link>>
    BY <1>12 DEF TakeMessage
  <2>2. Head(inbox) \in Told /\ Tail(inbox) \in Seq(Told)
    BY <1>1, <2>1, HeadTailProperties
  <2>3. Applied(tui, Head(inbox)) \in Selections(chosen)
    BY <1>1, <2>2, MessageKeepsSelection
  <2>4. tui' = Applied(tui, Head(inbox)) /\ Shown'
    BY <1>4, <2>1, <2>3 DEF Selections
  <2> QED
    BY <1>1, <2>1, <2>2, <2>3, <2>4
<1>13. CASE \E key \in Keys : Press(key)
  <2>0. PICK key \in Keys : Press(key)
    BY <1>13
  <2>1. keys' = Append(keys, key) /\ UNCHANGED <<tui, shows, chosen, link, inbox>>
    BY <2>0 DEF Press, outside
  <2>2. keys' \in Seq(Keys)
    BY <1>1, <2>1, AppendProperties
  <2> QED
    BY <1>1, <2>1, <2>2 DEF SelectedOf
<1> QED
  BY <1>5, <1>6, <1>7, <1>8, <1>9, <1>10, <1>11, <1>12, <1>13 DEF TerminalNext, Keys
\* One part is at work, for good, and the others rest.
LEMMA OnePartAtWork ==
  ASSUME [DesktopNext]_desktop
  PROVE  /\ focus' = focus
         /\ focus = "dashboard" => DashboardNext \/ UNCHANGED dashboard
         /\ focus # "dashboard" => screen' = screen
         /\ focus = "terminal" => TerminalNext \/ UNCHANGED <<dashboard, terminal>>
         /\ focus # "terminal" => UNCHANGED terminal
         /\ MapNext \/ UNCHANGED map
         /\ GraphTabNext \/ UNCHANGED graphTab
<1>1. CASE OnlyDashboard /\ DashboardNext
  BY <1>1 DEF OnlyDashboard
<1>2. CASE OnlyTerminal /\ TerminalNext
  <2>1. screen' = screen
    BY <1>2 DEF TerminalNext, LinkUp, LinkDown, Raise, Tell, Farewell, TakeKeys, TakeState,
                TakeMessage, Press, Round, inside
  <2> QED
    BY <1>2, <2>1 DEF OnlyTerminal
<1>3. CASE OnlyFleet /\ FleetNext
  BY <1>3 DEF OnlyFleet, dashboard, inside
<1>4. CASE OnlyServices /\ ServicesNext
  BY <1>4 DEF OnlyServices, dashboard, inside
<1>5. CASE OnlyMap /\ MapNext
  BY <1>5 DEF OnlyMap, dashboard, inside
<1>6. CASE OnlyGraph /\ GraphTabNext
  BY <1>6 DEF OnlyGraph, dashboard, inside
<1>7. CASE UNCHANGED desktop
  BY <1>7 DEF desktop, dashboard, inside
<1> QED
  BY <1>1, <1>2, <1>3, <1>4, <1>5, <1>6, <1>7 DEF DesktopNext

LEMMA TerminalInvHolds == DesktopSpec => []TerminalInv
<1>1. ASSUME DesktopInit
      PROVE  TerminalInv
  <2>1. link \in Links /\ inbox = <<>> /\ keys = <<>>
    BY <1>1 DEF DesktopInit, DashboardInit, TerminalInit, Links
  <2>2. tui = NewTui /\ shows = Drawing(NewTui) /\ chosen = None
    BY <1>1 DEF DesktopInit, TerminalInit
  <2>3. inbox \in Seq(Told) /\ keys \in Seq(Keys)
    BY <2>1
  <2>4. NewTui.list = <<>> /\ NewTui.selected = 0 /\ Len(NewTui.list) = 0
    BY DEF NewTui
  <2>5. NewTui \in Tuis
    <3>1. <<>> \in Seq(Anomalies)
      OBVIOUS
    <3> QED
      BY <3>1 DEF NewTui, Tuis
  <2>6. NewTui \in Selections(None)
    BY <2>4, <2>5, TableIsPositive DEF Selections, TableCapIsNat
  <2>7. Drawing(NewTui).cursor = 1 /\ Drawing(NewTui).detail = SelectedOf(NewTui)
    BY <2>4 DEF Drawing
  <2> QED
    BY <2>1, <2>2, <2>3, <2>4, <2>6, <2>7 DEF TerminalInv, Keys
<1>2. ASSUME TerminalInv, [DesktopNext]_desktop
      PROVE  TerminalInv'
  <2>1. CASE focus = "terminal" /\ TerminalNext
    BY <1>2, <2>1, OnePartAtWork, TerminalKept
  <2>2. CASE focus = "terminal" /\ UNCHANGED <<dashboard, terminal>>
    <3>1. UNCHANGED <<focus, link, inbox, keys, tui, shows, chosen>>
      BY <1>2, <2>2, OnePartAtWork DEF dashboard, outside, terminal
    <3> QED
      BY <1>2, <2>2, <3>1 DEF TerminalInv, Selections, SelectedOf
  <2>3. CASE focus # "terminal"
    <3>1. UNCHANGED <<focus, shows>>
      BY <1>2, <2>3, OnePartAtWork DEF terminal
    <3> QED
      BY <1>2, <2>3, <3>1 DEF TerminalInv
  <2> QED
    BY <1>2, <2>1, <2>2, <2>3, OnePartAtWork
<1> QED
  BY <1>1, <1>2, PTL DEF DesktopSpec

\* What is shown as selected below the first line is what the keys selected, until it is
\* dropped as the oldest (push_anomaly, handle_key).  Of the first line nothing is said: it
\* does not go down with its entry.
THEOREM SelectionFollowsEntry == DesktopSpec => []SelectionStays
<1>1. ASSUME TerminalInv
      PROVE  SelectionStays
  <2> SUFFICES ASSUME shows.cursor > 1, ~tui.quit
               PROVE  \/ shows.detail = chosen
                      \/ shows.detail = None /\ shows.cursor > TableCap
    BY DEF SelectionStays
  <2>1. focus = "terminal"
    BY <1>1 DEF TerminalInv
  <2>2. /\ shows.cursor = tui.selected + 1 /\ shows.detail = SelectedOf(tui)
        /\ tui \in Tuis /\ Len(tui.list) <= TableCap
        /\ tui.selected = 0 \/ SelectedOf(tui) = chosen \/ tui.selected >= TableCap
    BY <1>1, <2>1 DEF TerminalInv, Selections
  <2>3. tui.selected \in Nat /\ Len(tui.list) \in Nat /\ TableCap \in Nat
    BY <2>2, LenProperties, TableIsPositive DEF Tuis, TableCapIsNat
  <2>4. CASE tui.selected >= TableCap
    <3>1. ~(tui.selected < Len(tui.list)) /\ shows.cursor > TableCap
      BY <2>2, <2>3, <2>4
    <3> QED
      BY <2>2, <3>1 DEF SelectedOf
  <2> QED
    BY <2>2, <2>3, <2>4
<1> QED
  BY <1>1, TerminalInvHolds, PTL

-----------------------------------------------------------------------------
(* The map: a point and the route to it                                    *)

\* A route on a point that was not placed by one.
LEMMA RouteOnPoint ==
  ASSUME NEW point, DOMAIN point = PointFields, NEW route,
         point.source # "route"
  PROVE  Placing(WithRoute(point, route), route)
<1> DEFINE bare == [point EXCEPT !.route = route]
<1>1. /\ DOMAIN bare = PointFields /\ bare.route = route /\ bare.source = point.source
      /\ bare.ip = point.ip /\ bare.country = point.country
  BY DEF PointFields
<1>2. WithRoute(point, route) = Refine(bare)
  BY DEF WithRoute
<1> HIDE DEF bare
<1>3. CASE bare.source # "country" \/ Refining(bare) = {}
  <2>1. Refine(bare) = bare
    BY <1>3 DEF Refine
  <2> QED
    BY <1>1, <1>2, <1>3, <2>1 DEF Placing
<1>4. CASE ~(bare.source # "country" \/ Refining(bare) = {})
  <2> DEFINE p == [bare EXCEPT !.city = RefinedCity(bare), !.source = "route"]
  <2>1. Refine(bare) = p
    BY <1>4 DEF Refine
  <2>2. /\ DOMAIN p = PointFields /\ p.route = route /\ p.source = "route"
        /\ p.city = RefinedCity(bare) /\ p.ip = bare.ip /\ p.country = bare.country
    BY <1>1 DEF PointFields
  <2> HIDE DEF p
  <2>3. Refining(p) = Refining(bare)
    BY <1>1, <2>2 DEF Refining
  <2>4. RefinedCity(p) = RefinedCity(bare)
    BY <1>1, <2>2, <2>3 DEF RefinedCity
  <2> QED
    BY <1>2, <1>4, <2>1, <2>2, <2>3, <2>4 DEF Placing
<1> QED
  BY <1>3, <1>4

\* Nothing refines a point without a route.
LEMMA BarePoint ==
  ASSUME NEW point, DOMAIN point = PointFields, point.route = <<>>
  PROVE  /\ Refining(point) = {}
         /\ point.source # "route" <=> Placing(point, <<>>)
<1>1. Refining(point) = {}
  BY DEF Refining
<1> QED
  BY <1>1 DEF Placing

\* What else is known of a point does not move it.
LEMMA SamePlace ==
  ASSUME NEW p, NEW q, NEW route, Placing(p, route), DOMAIN q = DOMAIN p,
         q.route = p.route, q.source = p.source, q.city = p.city, q.ip = p.ip,
         q.country = p.country
  PROVE  Placing(q, route)
<1>1. Refining(q) = Refining(p)
  BY DEF Refining
<1>2. RefinedCity(q) = RefinedCity(p)
  BY <1>1 DEF RefinedCity
<1> QED
  BY <1>1, <1>2 DEF Placing

LEMMA RefreshedPlace ==
  ASSUME MapInv, NEW a \in DOMAIN points, NEW names
  PROVE  Placing(Refreshed(a, names), RouteOf(routes, a))
<1> DEFINE program == IF points[a].program = Nobody THEN names[a] ELSE points[a].program
           point == [points[a] EXCEPT !.age = 0, !.program = program]
<1>1. Placing(points[a], RouteOf(routes, a)) /\ DOMAIN points[a] = PointFields
  BY DEF MapInv, Placing
<1>2. /\ DOMAIN point = PointFields /\ point.route = points[a].route
      /\ point.source = points[a].source /\ point.city = points[a].city
      /\ point.ip = points[a].ip /\ point.country = points[a].country
  BY <1>1 DEF PointFields
<1>3. Placing(point, RouteOf(routes, a))
  <2> HIDE DEF point
  <2> QED
    BY <1>1, <1>2, SamePlace
<1>4. \/ Refreshed(a, names) = points[a]
      \/ Refreshed(a, names) = point
      \/ /\ point.route = <<>> /\ a \in DOMAIN routes
         /\ Refreshed(a, names) = WithRoute(point, routes[a])
  BY DEF Refreshed
<1> HIDE DEF point
<1>5. ASSUME point.route = <<>>, a \in DOMAIN routes
      PROVE  Placing(WithRoute(point, routes[a]), RouteOf(routes, a))
  <2>1. point.source # "route"
    BY <1>2, <1>3, <1>5, BarePoint DEF Placing
  <2> QED
    BY <1>2, <1>5, <2>1, RouteOnPoint DEF RouteOf
<1> QED
  BY <1>1, <1>3, <1>4, <1>5

LEMMA NewPlace ==
  ASSUME NEW a, NEW heard, Placed(a, heard) # Unknown
  PROVE  /\ DOMAIN NewPoint(a, heard) = PointFields /\ NewPoint(a, heard).route = <<>>
         /\ NewPoint(a, heard).source # "route"
<1>1. ASSUME NEW country, NEW city, NEW name, Locate(country, city, name) # Unknown
      PROVE  Locate(country, city, name).source # "route"
  <2> DEFINE home == IF city # Unknown THEN city.country ELSE country
  <2>1. \/ Locate(country, city, name) = [country |-> name.country, city |-> name.city, source |-> "name"]
        \/ Locate(country, city, name) = [country |-> home, city |-> city.city, source |-> "database"]
        \/ Locate(country, city, name) = [country |-> home, city |-> Nowhere, source |-> "country"]
    BY <1>1 DEF Locate
  <2> QED
    BY <2>1
<1>2. Placed(a, heard).source # "route"
  BY <1>1 DEF Placed
<1> QED
  BY <1>2 DEF NewPoint, PointFields

LEMMA MapKept ==
  ASSUME MapInv, MapNext
  PROVE  MapInv'
<1>1. CASE UNCHANGED <<points, routes, target>>
  BY <1>1 DEF MapInv
<1>2. CASE Scan
  <2>1. PICK names \in ProgramNames :
          points' = [a \in {b \in DOMAIN points : points[b].age < Hold} |-> Refreshed(a, names)]
    BY <1>2 DEF Scan
  <2>2. UNCHANGED <<routes, target>>
    BY <1>2 DEF Scan
  <2>3. ASSUME NEW a \in DOMAIN points'
        PROVE  Placing(points'[a], RouteOf(routes', a))
    <3>1. a \in DOMAIN points /\ points'[a] = Refreshed(a, names)
      BY <2>1
    <3> QED
      BY <2>2, <3>1, RefreshedPlace
  <2> QED
    BY <2>2, <2>3 DEF MapInv
<1>3. CASE Publish
  <2>0. PICK heard : \E new \in SUBSET {a \in DOMAIN found : Placed(a, heard) # Unknown} :
          points' = [a \in new \cup DOMAIN points |->
                       IF a \notin new THEN points[a]
                       ELSE IF a \in DOMAIN routes THEN WithRoute(NewPoint(a, heard), routes[a])
                       ELSE NewPoint(a, heard)]
    BY <1>3 DEF Publish
  <2>1. PICK new \in SUBSET {a \in DOMAIN found : Placed(a, heard) # Unknown} :
          points' = [a \in new \cup DOMAIN points |->
                       IF a \notin new THEN points[a]
                       ELSE IF a \in DOMAIN routes THEN WithRoute(NewPoint(a, heard), routes[a])
                       ELSE NewPoint(a, heard)]
    BY <2>0
  <2>2. UNCHANGED <<routes, target>>
    BY <1>3 DEF Publish
  <2>3. ASSUME NEW a \in DOMAIN points'
        PROVE  Placing(points'[a], RouteOf(routes, a))
    <3>1. CASE a \notin new
      BY <2>1, <3>1 DEF MapInv
    <3>2. CASE a \in new
      <4>1. /\ DOMAIN NewPoint(a, heard) = PointFields /\ NewPoint(a, heard).route = <<>>
            /\ NewPoint(a, heard).source # "route"
        BY <2>1, <3>2, NewPlace
      <4>2. CASE a \in DOMAIN routes
        <5>1. points'[a] = WithRoute(NewPoint(a, heard), routes[a])
          BY <2>1, <3>2, <4>2
        <5> QED
          BY <4>1, <4>2, <5>1, RouteOnPoint DEF RouteOf
      <4>3. CASE a \notin DOMAIN routes
        <5>1. points'[a] = NewPoint(a, heard)
          BY <2>1, <3>2, <4>3
        <5> QED
          BY <4>1, <4>3, <5>1, BarePoint DEF RouteOf
      <4> QED
        BY <4>2, <4>3
    <3> QED
      BY <3>1, <3>2
  <2> QED
    BY <2>2, <2>3 DEF MapInv
<1>4. CASE Wake
  <2>1. PICK took : points' = [a \in DOMAIN points |->
                                [points[a] EXCEPT !.age = IF @ + took > Hold THEN Hold ELSE @ + took]]
    BY <1>4 DEF Wake
  <2>2. UNCHANGED <<routes, target>>
    BY <1>4 DEF Wake
  <2>3. ASSUME NEW a \in DOMAIN points'
        PROVE  Placing(points'[a], RouteOf(routes, a))
    <3>1. a \in DOMAIN points /\ \E age : points'[a] = [points[a] EXCEPT !.age = age]
      BY <2>1
    <3>2. Placing(points[a], RouteOf(routes, a)) /\ DOMAIN points[a] = PointFields
      BY <3>1 DEF MapInv, Placing
    <3>3. /\ DOMAIN points'[a] = PointFields /\ points'[a].route = points[a].route
          /\ points'[a].source = points[a].source /\ points'[a].city = points[a].city
          /\ points'[a].ip = points[a].ip /\ points'[a].country = points[a].country
      BY <3>1, <3>2 DEF PointFields
    <3> QED
      BY <3>2, <3>3, SamePlace
  <2> QED
    BY <2>2, <2>3 DEF MapInv
<1>5. CASE PickTarget
  <2>1. PICK a \in Unmeasured : target' = <<a>>
    BY <1>5 DEF PickTarget
  <2>2. UNCHANGED <<points, routes>>
    BY <1>5 DEF PickTarget
  <2> QED
    BY <2>1, <2>2 DEF MapInv, Unmeasured
<1>6. CASE Measured
  <2> DEFINE a == target[1]
  <2>1. PICK route :
          /\ routes' = With(routes, a, route)
          /\ points' = IF a \in DOMAIN points THEN [points EXCEPT ![a] = WithRoute(@, route)] ELSE points
    BY <1>6 DEF Measured
  <2>2. target # Unknown /\ target' = Unknown /\ a \notin DOMAIN routes
    BY <1>6 DEF Measured, MapInv
  <2>3. \A b : RouteOf(routes', b) = IF b = a THEN route ELSE RouteOf(routes, b)
    BY <2>1 DEF RouteOf, With
  <2> HIDE DEF a
  <2>4. ASSUME NEW b \in DOMAIN points'
        PROVE  Placing(points'[b], RouteOf(routes', b))
    <3>1. b \in DOMAIN points
      BY <2>1
    <3>2. Placing(points[b], RouteOf(routes, b))
      BY <3>1 DEF MapInv
    <3>3. CASE b = a
      <4>1. points'[b] = WithRoute(points[b], route)
        BY <2>1, <3>1, <3>3
      <4>2. DOMAIN points[b] = PointFields /\ points[b].route = <<>>
        BY <2>2, <3>2, <3>3 DEF Placing, RouteOf
      <4>3. points[b].source # "route"
        BY <3>2, <4>2, BarePoint DEF Placing
      <4> QED
        BY <2>3, <3>3, <4>1, <4>2, <4>3, RouteOnPoint
    <3>4. CASE b # a
      <4>1. points'[b] = points[b]
        BY <2>1, <3>1, <3>4
      <4> QED
        BY <2>3, <3>2, <3>4, <4>1
    <3> QED
      BY <3>3, <3>4
  <2> QED
    BY <2>2, <2>4 DEF MapInv
<1>7. ASSUME NEW row \in Sockets, Connect(row) \/ Disconnect(row) \/ \E taken \in Sockets : Open(row, taken)
      PROVE  UNCHANGED <<points, routes, target>>
  <2>1. UNCHANGED mapOfTable
    BY <1>7 DEF Connect, Disconnect, Open
  <2> QED
    BY <2>1 DEF mapOfTable
<1>8. LoadMap => UNCHANGED <<points, routes, target>>
  BY DEF LoadMap
<1> QED
  BY <1>1, <1>2, <1>3, <1>4, <1>5, <1>6, <1>7, <1>8 DEF MapNext

\* Whenever the lock is free a point has the route that was measured for it, and is where that
\* route puts it (spawn_watcher, spawn_route_watcher, refine_from_route).
THEOREM RoutesReachTheirPoints == DesktopSpec => []RoutesAreShown
<1>1. ASSUME DesktopInit
      PROVE  MapInv
  BY <1>1 DEF DesktopInit, MapInit, MapInv, Unknown
<1>2. ASSUME MapInv, [DesktopNext]_desktop
      PROVE  MapInv'
  <2>1. CASE MapNext
    BY <1>2, <2>1, MapKept
  <2>2. CASE UNCHANGED map
    BY <1>2, <2>2 DEF map, mapOfTable, MapInv
  <2> QED
    BY <1>2, <2>1, <2>2, OnePartAtWork
<1>3. MapInv => RoutesAreShown
  BY DEF MapInv, Placing, RouteOf, RoutesAreShown
<1> QED
  BY <1>1, <1>2, <1>3, PTL DEF DesktopSpec
-----------------------------------------------------------------------------
(* The dashboard: the context and the selection                            *)

AnomalyCapIsNat == AnomalyCap \in Nat /\ AnomalyCap > 0

LEMMA CapIsPositive == AnomalyCapIsNat
  BY DashboardAssumption DEF AnomalyCapIsNat

LEMMA PushedBounded ==
  ASSUME NEW S, NEW seq \in Seq(S), NEW e \in S, NEW cap \in Nat \ {0}
  PROVE  PushBounded(seq, e, cap) \in Seq(S)
<1>1. CASE Len(seq) >= cap
  <2>1. Len(seq) \in Nat /\ seq # <<>>
    BY <1>1, LenProperties, EmptySeq
  <2>2. Tail(seq) \in Seq(S)
    BY <2>1, HeadTailProperties
  <2> QED
    BY <1>1, <2>2, AppendProperties DEF PushBounded
<1>2. CASE ~(Len(seq) >= cap)
  BY <1>2, AppendProperties DEF PushBounded
<1> QED
  BY <1>1, <1>2

\* What holds of a list before and after each push holds of it after all of them.
LEMMA PushedOneByOne ==
  ASSUME NEW T, NEW anomalies \in T, NEW list \in Seq(Anomalies),
         \A s \in T, n \in 1..Len(list) : PushBounded(s, list[n], AnomalyCap) \in T
  PROVE  PushRecent(anomalies, list) \in T
<1> DEFINE N == Len(list)
           step == [p \in T \X (1..N) |-> PushBounded(p[1], list[p[2]], AnomalyCap)]
           Def(h) == [n \in 0..N |-> IF n = 0 THEN anomalies
                                     ELSE PushBounded(h[n - 1], list[n], AnomalyCap)]
           after == CHOOSE h : h = Def(h)
<1>1. N \in Nat
  BY LenProperties
<1>2. \A s \in T, n \in 1..N : PushBounded(s, list[n], AnomalyCap) \in T
  OBVIOUS
<1>3. step \in [T \X (1..N) -> T]
  <2> HIDE DEF N
  <2> QED
    BY <1>2
<1>4. PICK f \in [0..N -> T] : Takes(f, anomalies, step, N)
  <2> HIDE DEF N, step
  <2> QED
    BY <1>1, <1>3, StepsAreTaken
<1>5. f = Def(f)
  <2>1. \A n \in 1..N : f[n] = PushBounded(f[n - 1], list[n], AnomalyCap)
    <3> TAKE n \in 1..N
    <3>1. f[n - 1] \in T
      BY <1>1
    <3> HIDE DEF N
    <3> QED
      BY <1>4, <3>1 DEF Takes
  <2>2. f[0] = anomalies
    BY <1>4 DEF Takes
  <2> HIDE DEF N
  <2> QED
    BY <1>1, <2>1, <2>2
<1>6. after = Def(after)
  <2> HIDE DEF Def
  <2> QED
    BY <1>5
<1> HIDE DEF after
<1>7. PushRecent(anomalies, list) = after[N]
  BY DEF PushRecent, after
<1> DEFINE P == {n \in 0..N : after[n] \in T}
<1>8. 0 \in P
  <2> HIDE DEF N
  <2> QED
    BY <1>1, <1>6
<1>9. ASSUME NEW n \in 1..N, n - 1 \in P
      PROVE  n \in P
  <2>1. after[n] = PushBounded(after[n - 1], list[n], AnomalyCap)
    <3> HIDE DEF N
    <3> QED
      BY <1>1, <1>6
  <2>2. after[n - 1] \in T
    BY <1>9
  <2> HIDE DEF N
  <2> QED
    BY <1>1, <1>2, <2>1, <2>2
<1>10. 0..N \subseteq P
  <2> HIDE DEF P, N
  <2> QED
    BY <1>1, <1>8, <1>9, UpToTheEnd
<1> QED
  BY <1>1, <1>7, <1>10

LEMMA RecentIsPushed ==
  ASSUME NEW anomalies \in Seq(Anomalies), NEW list \in Seq(Anomalies)
  PROVE  PushRecent(anomalies, list) \in Seq(Anomalies)
<1>1. ASSUME NEW s \in Seq(Anomalies), NEW n \in 1..Len(list)
      PROVE  PushBounded(s, list[n], AnomalyCap) \in Seq(Anomalies)
  <2>1. list[n] \in Anomalies /\ AnomalyCap \in Nat \ {0}
    BY ElementOfSeq, CapIsPositive DEF AnomalyCapIsNat
  <2> QED
    BY <2>1, PushedBounded
<1> QED
  BY <1>1, PushedOneByOne

\* What the bridge makes of a message is a state again.
LEMMA ApplyKeepsState ==
  ASSUME NEW g, State(g), NEW m \in Messages, m.kind = "context" => Fits(m)
  PROVE  State(ApplyMessage(g, m))
<1>1. CASE m.kind = "hello"
  BY <1>1 DEF ApplyMessage, State
<1>2. CASE m.kind = "recent"
  <2>1. m.list \in Seq(Anomalies)
    BY <1>2 DEF Messages
  <2>2. PICK list \in Seq(Anomalies) : list = PushRecent(g.anomalies, m.list)
    BY <2>1, RecentIsPushed DEF State
  <2>3. ApplyMessage(g, m) = [g EXCEPT !.anomalies = list]
    BY <1>2, <2>2 DEF ApplyMessage
  <2> QED
    BY <2>3 DEF State
<1>3. CASE m.kind = "anomaly"
  <2>1. m.anomaly \in Anomalies /\ AnomalyCap \in Nat \ {0}
    BY <1>3, CapIsPositive DEF Messages, AnomalyCapIsNat
  <2>2. PICK list \in Seq(Anomalies) : list = PushBounded(g.anomalies, m.anomaly, AnomalyCap)
    BY <2>1, PushedBounded DEF State
  <2>3. ApplyMessage(g, m) = [g EXCEPT !.anomalies = list]
    BY <1>3, <2>2 DEF ApplyMessage
  <2> QED
    BY <2>3 DEF State
<1>4. CASE m.kind = "context"
  <2>1. PICK c : c = [id |-> m.id, about |-> m.about]
    OBVIOUS
  <2>2. Fits(c)
    BY <1>4, <2>1 DEF Fits
  <2>3. ApplyMessage(g, m) = [g EXCEPT !.context = c]
    BY <1>4, <2>1 DEF ApplyMessage
  <2> QED
    BY <2>2, <2>3 DEF State
<1>5. CASE m.kind = "result"
  BY <1>5 DEF ApplyMessage, State
<1>6. CASE m.kind = "error"
  BY <1>6 DEF ApplyMessage, State
<1>7. CASE m.kind = "lan"
  BY <1>7 DEF ApplyMessage, State
<1> QED
  BY <1>1, <1>2, <1>3, <1>4, <1>5, <1>6, <1>7 DEF Messages

LEMMA RefreshIsState ==
  ASSUME State(gui), State(render)
  PROVE  State(Refresh(render))
<1>1. CASE app.paused
  BY <1>1 DEF Refresh, State
<1>2. CASE ~app.paused
  BY <1>2 DEF Refresh, State
<1> QED
  BY <1>1, <1>2

\* The detail panel shows an anomaly with the number selected, or none.
LEMMA SelectedHasNumber ==
  ASSUME NEW r, State(r), Selected(r) # None
  PROVE  Selected(r) \in Anomalies /\ Selected(r).id = app.selected
<1> DEFINE hits == {i \in DOMAIN r.anomalies : r.anomalies[i].id = app.selected}
           first == CHOOSE i \in hits : \A j \in hits : i <= j
<1>1. hits # {} /\ Selected(r) = r.anomalies[first]
  BY DEF Selected
<1>2. DOMAIN r.anomalies \subseteq Nat /\ \A i \in DOMAIN r.anomalies : r.anomalies[i] \in Anomalies
  <2>1. r.anomalies \in Seq(Anomalies)
    BY DEF State
  <2> QED
    BY <2>1, LenProperties, ElementOfSeq
<1>3. first \in hits
  <2>1. hits \in SUBSET Nat
    BY <1>2
  <2> HIDE DEF hits
  <2> QED
    BY <1>1, <2>1, LeastExists
<1> QED
  BY <1>1, <1>2, <1>3

\* What fits goes on to fit when another request is made or another anomaly selected.
AppGoesOn ==
  /\ AppState' /\ app'.next >= app.next
  /\ \/ app'.pending = 0 \/ app'.pending >= app.next
     \/ app'.pending = app.pending /\ app'.selected = app.selected

StillFits(c) ==
  /\ c.about \in Anomalies
  /\ c.id \in 1..(app'.next - 1) /\ (c.id = app'.pending => c.about.id = app'.selected)

RequestsFit ==
  /\ queue' \in Seq(Requests)
  /\ \A i \in 1..Len(queue') : queue'[i].kind = "context" => StillFits(queue'[i])

LEMMA FitGoesOn ==
  ASSUME AppState, AppGoesOn
  PROVE  \A c : Fits(c) => StillFits(c)
<1> TAKE c
<1> HAVE Fits(c)
<1>1. c.id \in Nat /\ c.id > 0 /\ c.id < app.next /\ app.next \in Nat /\ app'.next \in Nat
  BY DEF Fits, AppState, AppGoesOn
<1>2. c.id \in 1..(app'.next - 1)
  BY <1>1 DEF AppGoesOn
<1>3. ASSUME c.id = app'.pending
      PROVE  c.about.id = app'.selected
  BY <1>1, <1>3 DEF Fits, AppGoesOn
<1>4. c.about \in Anomalies
  BY DEF Fits
<1> QED
  BY <1>2, <1>3, <1>4 DEF StillFits

LEMMA QueueRests ==
  ASSUME ContextInv, AppGoesOn, queue' = queue
  PROVE  RequestsFit
<1>1. \A c : Fits(c) => StillFits(c)
  BY FitGoesOn DEF ContextInv
<1> QED
  BY <1>1 DEF ContextInv, Contexts, RequestsFit

\* A request that is sent, or finds the queue full.
LEMMA RequestIsSent ==
  ASSUME ContextInv, AppGoesOn, NEW request \in Requests, TrySend(request),
         request.kind = "context" => StillFits(request)
  PROVE  RequestsFit
<1>1. CASE queue' = queue
  BY <1>1, QueueRests
<1>2. CASE queue' = Append(queue, request)
  <2>1. /\ queue \in Seq(Requests) /\ \A c : Fits(c) => StillFits(c)
        /\ \A i \in 1..Len(queue) : queue[i].kind = "context" => Fits(queue[i])
    BY FitGoesOn DEF ContextInv, Contexts
  <2>2. /\ queue' \in Seq(Requests) /\ Len(queue') = Len(queue) + 1 /\ Len(queue) \in Nat
        /\ \A i \in 1..Len(queue) : queue'[i] = queue[i]
        /\ queue'[Len(queue) + 1] = request
    BY <1>2, <2>1, AppendProperties, LenProperties
  <2>3. ASSUME NEW i \in 1..Len(queue'), queue'[i].kind = "context"
        PROVE  StillFits(queue'[i])
    <3>1. CASE i \in 1..Len(queue)
      BY <2>1, <2>2, <2>3, <3>1
    <3>2. CASE i = Len(queue) + 1
      BY <2>2, <2>3, <3>2
    <3> QED
      BY <2>2, <3>1, <3>2
  <2> QED
    BY <2>2, <2>3 DEF RequestsFit
<1> QED
  BY <1>1, <1>2 DEF TrySend

\* A frame, with what was clicked.
LEMMA ClickKept ==
  ASSUME ContextInv, AppGoesOn, RequestsFit, render' = Refresh(render), UNCHANGED <<link, inbox, gui>>
  PROVE  ContextInv'
<1>1. PICK r : r = Refresh(render)
  OBVIOUS
<1>2. State(r) /\ render' = r
  BY <1>1, RefreshIsState DEF ContextInv
<1>3. \A c : Fits(c) => StillFits(c)
  BY FitGoesOn DEF ContextInv
<1>4. State(gui)'
  <2>1. PICK g : g = gui
    OBVIOUS
  <2>2. State(g) /\ gui' = g
    BY <2>1 DEF ContextInv
  <2> QED
    BY <1>3, <2>2 DEF State, Fits, StillFits
<1>5. State(render)'
  BY <1>2, <1>3 DEF State, Fits, StillFits
<1>6. Contexts'
  <2>1. \A i \in 1..Len(inbox) : inbox[i].kind = "context" => Fits(inbox[i])
    BY DEF ContextInv, Contexts
  <2> QED
    BY <1>3, <2>1 DEF Contexts, RequestsFit, Fits, StillFits
<1>7. AppState' /\ queue' \in Seq(Requests) /\ inbox' \in Seq(Messages) /\ link' \in Links
  BY DEF AppGoesOn, RequestsFit, ContextInv
<1> QED
  BY <1>4, <1>5, <1>6, <1>7 DEF ContextInv

\* What comes in, or goes out, while the application rests.
MessagesFit ==
  /\ inbox' \in Seq(Messages)
  /\ \A i \in 1..Len(inbox') : inbox'[i].kind = "context" => Fits(inbox'[i])

LEMMA RestKept ==
  ASSUME ContextInv, UNCHANGED <<app, render, screen>>, link' \in Links,
         RequestsFit, MessagesFit, NEW g, State(g), gui' = g
  PROVE  ContextInv'
<1>1. AppState' /\ \A c : StillFits(c) <=> Fits(c)
  BY DEF ContextInv, AppState, StillFits, Fits
<1>2. State(gui)'
  BY DEF State, Fits
<1>3. State(render)'
  <2>1. PICK r : r = render
    OBVIOUS
  <2>2. State(r) /\ render' = r
    BY <2>1 DEF ContextInv
  <2> QED
    BY <2>2 DEF State, Fits
<1>4. Contexts'
  BY DEF Contexts, RequestsFit, MessagesFit, StillFits, Fits
<1>5. queue' \in Seq(Requests) /\ inbox' \in Seq(Messages)
  BY DEF RequestsFit, MessagesFit
<1> QED
  BY <1>1, <1>2, <1>3, <1>4, <1>5 DEF ContextInv

LEMMA RestGoesOn ==
  ASSUME ContextInv, app' = app
  PROVE  AppGoesOn
BY DEF ContextInv, AppState, AppGoesOn

LEMMA InboxRests ==
  ASSUME ContextInv, inbox' = inbox
  PROVE  MessagesFit
BY DEF ContextInv, Contexts, MessagesFit

\* More messages.
LEMMA MessagesCome ==
  ASSUME ContextInv, NEW more \in Seq(Messages), inbox' = inbox \o more,
         \A i \in 1..Len(more) : more[i].kind = "context" => Fits(more[i])
  PROVE  MessagesFit
<1>1. /\ inbox \in Seq(Messages)
      /\ \A i \in 1..Len(inbox) : inbox[i].kind = "context" => Fits(inbox[i])
  BY DEF ContextInv, Contexts
<1>2. /\ inbox' \in Seq(Messages) /\ Len(inbox') = Len(inbox) + Len(more)
      /\ Len(inbox) \in Nat /\ Len(more) \in Nat
      /\ \A i \in 1..Len(inbox') : inbox'[i] = IF i <= Len(inbox) THEN inbox[i] ELSE more[i - Len(inbox)]
  BY <1>1, ConcatProperties, LenProperties
<1>3. ASSUME NEW i \in 1..Len(inbox'), inbox'[i].kind = "context"
      PROVE  Fits(inbox'[i])
  <2>1. CASE i <= Len(inbox)
    BY <1>1, <1>2, <1>3, <2>1
  <2>2. CASE ~(i <= Len(inbox))
    <3>1. i - Len(inbox) \in 1..Len(more) /\ inbox'[i] = more[i - Len(inbox)]
      BY <1>2, <2>2
    <3> QED
      BY <1>3, <3>1
  <2> QED
    BY <2>1, <2>2
<1> QED
  BY <1>2, <1>3 DEF MessagesFit

LEMMA MessageComes ==
  ASSUME ContextInv, NEW m \in Messages, inbox' = Append(inbox, m), m.kind = "context" => Fits(m)
  PROVE  MessagesFit
<1>1. <<m>> \in Seq(Messages) /\ Len(<<m>>) = 1 /\ <<m>>[1] = m
  OBVIOUS
<1>2. inbox \in Seq(Messages)
  BY DEF ContextInv
<1>3. inbox' = inbox \o <<m>>
  BY <1>2, AppendIsConcat
<1>4. \A i \in 1..Len(<<m>>) : <<m>>[i].kind = "context" => Fits(<<m>>[i])
  BY <1>1
<1> QED
  BY <1>1, <1>3, <1>4, MessagesCome
\* The connection and the bridge.
LEMMA FeedKept ==
  ASSUME ContextInv,
         LinkUp \/ LinkDown \/ Raise \/ Tell("error") \/ Tell("lan") \/ Serve(TRUE) \/ Serve(FALSE)
         \/ BridgeState \/ BridgeMessage
  PROVE  ContextInv'
<1>1. PICK g : g = gui
  OBVIOUS
<1>2. State(g) /\ link \in Links /\ queue \in Seq(Requests) /\ inbox \in Seq(Messages)
  BY <1>1 DEF ContextInv
<1>3. UNCHANGED <<app, render, screen>>
  BY DEF LinkUp, LinkDown, Raise, Tell, Serve, BridgeState, BridgeMessage, inside
<1>4. AppGoesOn
  BY <1>3, RestGoesOn
<1>5. CASE LinkUp
  <2>1. PICK hello : hello = [kind |-> "hello", allowed |-> Kinds]
    OBVIOUS
  <2>2. PICK list \in Seq(Anomalies) : list = [i \in 1..link.raised |-> Anomaly(link.daemon, i)]
    BY <1>2, RecentIsList DEF Links
  <2>3. PICK recent : recent = [kind |-> "recent", list |-> list]
    OBVIOUS
  <2>4. hello \in Messages /\ recent \in Messages
    BY <2>1, <2>3 DEF Messages
  <2>5. PICK more : more = Greeting(hello, recent)
    OBVIOUS
  <2>6. more \in Seq(Messages)
    BY <2>4, <2>5, GreetingIsList
  <2>7. \A i \in 1..Len(more) : more[i] \in {hello, recent}
    BY <2>5 DEF Greeting
  <2>8. \A i \in 1..Len(more) : more[i].kind = "context" => Fits(more[i])
    BY <2>1, <2>3, <2>7
  <2>9. inbox' = inbox \o more /\ link' = [link EXCEPT !.up = TRUE] /\ UNCHANGED <<queue, gui>>
    BY <1>5, <2>1, <2>2, <2>3, <2>5 DEF LinkUp, Greeting
  <2>10. MessagesFit
    BY <2>6, <2>8, <2>9, MessagesCome
  <2>11. link' \in Links /\ RequestsFit
    BY <1>2, <1>4, <2>9, QueueRests DEF Links
  <2> QED
    BY <1>1, <1>2, <1>3, <2>9, <2>10, <2>11, RestKept
<1>6. CASE LinkDown
  <2>1. UNCHANGED <<queue, inbox, gui>>
    BY <1>6 DEF LinkDown
  <2>2. link' \in Links /\ RequestsFit /\ MessagesFit
    BY <1>2, <1>4, <1>6, <2>1, LinkDownKeeps, QueueRests, InboxRests
  <2> QED
    BY <1>1, <1>2, <1>3, <2>1, <2>2, RestKept
<1>7. CASE Raise
  <2>1. PICK m : m = [kind |-> "anomaly", anomaly |-> Anomaly(link.daemon, link.raised + 1)]
    OBVIOUS
  <2>2. m \in Messages /\ m.kind # "context"
    BY <1>2, <2>1 DEF Messages, Anomaly, Anomalies, Links
  <2>3. /\ inbox' = Append(inbox, m) /\ link' = [link EXCEPT !.raised = link.raised + 1]
        /\ UNCHANGED <<queue, gui>>
    BY <1>7, <2>1 DEF Raise
  <2>4. RequestsFit /\ MessagesFit
    BY <1>4, <2>2, <2>3, QueueRests, MessageComes
  <2>5. link' \in Links
    BY <1>2, <2>3, SMTT(30) DEF Links
  <2> QED
    BY <1>1, <1>2, <1>3, <2>3, <2>4, <2>5, RestKept
<1>8. ASSUME NEW kind \in {"error", "lan"}, Tell(kind)
      PROVE  ContextInv'
  <2>1. PICK m : m = [kind |-> kind, devices |-> <<2, 1>>]
    OBVIOUS
  <2>2. m \in Messages /\ m.kind # "context"
    BY <2>1 DEF Messages
  <2>3. inbox' = Append(inbox, m) /\ UNCHANGED <<link, queue, gui>>
    BY <1>8, <2>1 DEF Tell
  <2>4. link' \in Links /\ RequestsFit /\ MessagesFit
    BY <1>2, <1>4, <2>2, <2>3, QueueRests, MessageComes
  <2> QED
    BY <1>1, <1>2, <1>3, <2>3, <2>4, RestKept
<1>9. ASSUME NEW answered \in BOOLEAN, Serve(answered)
      PROVE  ContextInv'
  <2>1. PICK request : request = Head(queue)
    OBVIOUS
  <2>2. queue # <<>> /\ queue' = Tail(queue) /\ gui' = gui
    BY <1>9 DEF Serve
  <2>3. /\ request \in Requests /\ Tail(queue) \in Seq(Requests) /\ Len(queue) \in Nat \ {0}
        /\ Len(Tail(queue)) = Len(queue) - 1
        /\ \A i \in 1..Len(Tail(queue)) : Tail(queue)[i] = queue[i + 1]
        /\ request = queue[1]
    BY <1>2, <2>1, <2>2, HeadTailProperties, LenProperties, EmptySeq
  <2>4. \A i \in 1..Len(queue) : queue[i].kind = "context" => Fits(queue[i])
    BY DEF ContextInv, Contexts
  <2>5. RequestsFit
    <3>1. \A c : Fits(c) => StillFits(c)
      BY <1>4, FitGoesOn DEF ContextInv
    <3>2. ASSUME NEW i \in 1..Len(queue'), queue'[i].kind = "context"
          PROVE  StillFits(queue'[i])
      <4>1. i + 1 \in 1..Len(queue) /\ queue'[i] = queue[i + 1]
        BY <2>2, <2>3
      <4> QED
        BY <2>4, <3>1, <3>2, <4>1
    <3> QED
      BY <2>2, <2>3, <3>2 DEF RequestsFit
  <2>6. link' \in Links
    <3>1. link' = link \/ link' = [link EXCEPT !.up = FALSE]
      BY <1>9 DEF Serve
    <3> QED
      BY <1>2, <3>1 DEF Links
  <2>7. MessagesFit
    <3>1. CASE inbox' = inbox
      BY <3>1, InboxRests
    <3>2. CASE request.kind = "context" /\ inbox' # inbox
      <4>1. PICK m : m = [kind |-> "context", id |-> request.id, about |-> request.about]
        OBVIOUS
      <4>2. m \in Messages
        BY <2>3, <3>2, <4>1 DEF Requests, Messages
      <4>3. Fits(m)
        BY <2>3, <2>4, <3>2, <4>1 DEF Fits
      <4>4. inbox' = Append(inbox, m)
        BY <1>9, <2>1, <3>2, <4>1 DEF Serve
      <4> QED
        BY <4>2, <4>3, <4>4, MessageComes
    <3>3. CASE request.kind # "context" /\ inbox' # inbox
      <4>1. PICK m : m = [kind |-> "result", id |-> request.id]
        OBVIOUS
      <4>2. m \in Messages /\ m.kind # "context"
        BY <2>3, <4>1 DEF Requests, Messages
      <4>3. inbox' = Append(inbox, m)
        BY <1>9, <2>1, <3>3, <4>1 DEF Serve
      <4> QED
        BY <4>2, <4>3, MessageComes
    <3> QED
      BY <3>1, <3>2, <3>3
  <2> QED
    BY <1>1, <1>2, <1>3, <2>2, <2>5, <2>6, <2>7, RestKept
<1>10. CASE BridgeState
  <2>1. PICK h : h = [gui EXCEPT !.connection = IF link.up THEN "up" ELSE "down"]
    OBVIOUS
  <2>2. State(h)
    BY <1>1, <1>2, <2>1 DEF State
  <2>3. gui' = h /\ UNCHANGED <<link, queue, inbox>>
    BY <1>10, <2>1 DEF BridgeState
  <2>4. link' \in Links /\ RequestsFit /\ MessagesFit
    BY <1>2, <1>4, <2>3, QueueRests, InboxRests
  <2> QED
    BY <1>3, <2>2, <2>3, <2>4, RestKept
<1>11. CASE BridgeMessage
  <2>1. PICK m : m = Head(inbox)
    OBVIOUS
  <2>2. /\ inbox # <<>> /\ inbox' = Tail(inbox) /\ gui' = ApplyMessage(g, m)
        /\ UNCHANGED <<link, queue>>
    BY <1>1, <1>11, <2>1 DEF BridgeMessage
  <2>3. /\ m \in Messages /\ Tail(inbox) \in Seq(Messages) /\ Len(inbox) \in Nat \ {0}
        /\ Len(Tail(inbox)) = Len(inbox) - 1
        /\ \A i \in 1..Len(Tail(inbox)) : Tail(inbox)[i] = inbox[i + 1]
        /\ m = inbox[1]
    BY <1>2, <2>1, <2>2, HeadTailProperties, LenProperties, EmptySeq
  <2>4. \A i \in 1..Len(inbox) : inbox[i].kind = "context" => Fits(inbox[i])
    BY DEF ContextInv, Contexts
  <2>5. MessagesFit
    <3>1. ASSUME NEW i \in 1..Len(inbox'), inbox'[i].kind = "context"
          PROVE  Fits(inbox'[i])
      <4>1. i + 1 \in 1..Len(inbox) /\ inbox'[i] = inbox[i + 1]
        BY <2>2, <2>3
      <4> QED
        BY <2>4, <3>1, <4>1
    <3> QED
      BY <2>2, <2>3, <3>1 DEF MessagesFit
  <2>6. m.kind = "context" => Fits(m)
    BY <2>3, <2>4
  <2>7. PICK h : h = ApplyMessage(g, m)
    OBVIOUS
  <2>8. State(h)
    BY <1>2, <2>3, <2>6, <2>7, ApplyKeepsState
  <2>9. link' \in Links /\ RequestsFit
    BY <1>2, <1>4, <2>2, QueueRests
  <2> QED
    BY <1>3, <2>2, <2>5, <2>7, <2>8, <2>9, RestKept
<1> QED
  BY <1>5, <1>6, <1>7, <1>8, <1>9, <1>10, <1>11

\* Where the daemons come in order, push_anomaly keeps them so.
LEMMA PushedInOrder ==
  ASSUME NEW seq \in Seq(Anomalies), NEW e \in Anomalies, InOrder(seq),
         \A a \in Range(seq) : a.daemon <= e.daemon
  PROVE  LET pushed == PushBounded(seq, e, AnomalyCap)
         IN  /\ pushed \in Seq(Anomalies) /\ InOrder(pushed)
             /\ Range(pushed) \subseteq Range(seq) \cup {e}
<1>1. AnomalyCap \in Nat \ {0} /\ Len(seq) \in Nat /\ e.daemon \in Nat
  BY CapIsPositive, LenProperties DEF AnomalyCapIsNat, Anomalies
<1>2. PICK rest : rest = IF Len(seq) >= AnomalyCap THEN Tail(seq) ELSE seq
  OBVIOUS
<1>3. rest \in Seq(Anomalies) /\ InOrder(rest) /\ Range(rest) \subseteq Range(seq)
  <2>1. CASE Len(seq) >= AnomalyCap
    <3>1. seq # <<>> /\ rest = Tail(seq)
      BY <1>1, <1>2, <2>1, EmptySeq
    <3>2. /\ rest \in Seq(Anomalies) /\ Len(rest) = Len(seq) - 1
          /\ \A i \in 1..Len(rest) : rest[i] = seq[i + 1]
      BY <3>1, HeadTailProperties
    <3>3. DOMAIN rest = 1..Len(rest) /\ DOMAIN seq = 1..Len(seq)
      BY <3>2, LenProperties
    <3>4. \A i \in DOMAIN rest : i \in Nat /\ i + 1 \in DOMAIN seq /\ rest[i] = seq[i + 1]
      BY <1>1, <3>2, <3>3
    <3>5. InOrder(rest)
      BY <3>4 DEF InOrder
    <3>6. Range(rest) \subseteq Range(seq)
      BY <3>4 DEF Range
    <3> QED
      BY <3>2, <3>5, <3>6
  <2>2. CASE ~(Len(seq) >= AnomalyCap)
    BY <1>2, <2>2
  <2> QED
    BY <2>1, <2>2
<1>4. PICK pushed : pushed = Append(rest, e)
  OBVIOUS
<1>5. PushBounded(seq, e, AnomalyCap) = pushed
  BY <1>2, <1>4 DEF PushBounded
<1>6. /\ pushed \in Seq(Anomalies) /\ DOMAIN pushed = 1..Len(rest) + 1 /\ Len(rest) \in Nat
      /\ \A i \in 1..Len(rest) : pushed[i] = rest[i]
      /\ pushed[Len(rest) + 1] = e /\ DOMAIN rest = 1..Len(rest)
  BY <1>3, <1>4, AppendProperties, LenProperties
<1>7. \A i \in DOMAIN pushed : \/ i \in DOMAIN rest /\ pushed[i] = rest[i]
                               \/ i = Len(rest) + 1 /\ pushed[i] = e
  BY <1>6
<1>8. Range(pushed) \subseteq Range(seq) \cup {e}
  BY <1>3, <1>7 DEF Range
<1>9. InOrder(pushed)
  <2> SUFFICES ASSUME NEW i \in DOMAIN pushed, NEW j \in DOMAIN pushed, i <= j
               PROVE  pushed[i].daemon <= pushed[j].daemon
    BY DEF InOrder
  <2>1. CASE j \in DOMAIN rest /\ pushed[j] = rest[j]
    <3>1. i \in DOMAIN rest /\ pushed[i] = rest[i]
      BY <1>6, <2>1
    <3> QED
      BY <1>3, <2>1, <3>1 DEF InOrder
  <2>2. CASE j = Len(rest) + 1 /\ pushed[j] = e
    <3>1. CASE i \in DOMAIN rest /\ pushed[i] = rest[i]
      BY <1>3, <2>2, <3>1 DEF Range
    <3>2. CASE pushed[i] = e
      BY <1>1, <2>2, <3>2
    <3> QED
      BY <1>7, <3>1, <3>2
  <2> QED
    BY <1>7, <2>1, <2>2
<1> QED
  BY <1>5, <1>6, <1>8, <1>9

LEMMA RecentInOrder ==
  ASSUME NEW anomalies \in Seq(Anomalies), NEW list \in Seq(Anomalies), InOrder(anomalies),
         \A a \in Range(anomalies) \cup Range(list), b \in Range(list) : a.daemon <= b.daemon
  PROVE  /\ InOrder(PushRecent(anomalies, list))
         /\ Range(PushRecent(anomalies, list)) \subseteq Range(anomalies) \cup Range(list)
<1> DEFINE T == {s \in Seq(Anomalies) : InOrder(s) /\ Range(s) \subseteq Range(anomalies) \cup Range(list)}
<1>1. ASSUME NEW s \in T, NEW n \in 1..Len(list)
      PROVE  PushBounded(s, list[n], AnomalyCap) \in T
  <2>1. s \in Seq(Anomalies) /\ InOrder(s) /\ Range(s) \subseteq Range(anomalies) \cup Range(list)
    OBVIOUS
  <2>2. list[n] \in Anomalies /\ list[n] \in Range(list)
    BY ElementOfSeq, LenProperties DEF Range
  <2>3. \A a \in Range(s) : a.daemon <= list[n].daemon
    BY <2>1, <2>2
  <2>4. PICK e \in Anomalies : e = list[n]
    BY <2>2
  <2>5. PICK p : p = PushBounded(s, e, AnomalyCap)
    OBVIOUS
  <2>6. p \in Seq(Anomalies) /\ InOrder(p) /\ Range(p) \subseteq Range(s) \cup {e}
    BY <2>1, <2>3, <2>4, <2>5, PushedInOrder
  <2> QED
    BY <2>1, <2>2, <2>4, <2>5, <2>6
<1>2. anomalies \in T
  OBVIOUS
<1> HIDE DEF T
<1>3. PushRecent(anomalies, list) \in T
  BY <1>1, <1>2, PushedOneByOne
<1> QED
  BY <1>3 DEF T

\* What a message brings is added, and nothing else; its answer is held in place of another.
LEMMA ApplyInOrder ==
  ASSUME NEW g, State(g), NEW m \in Messages, InOrder(g.anomalies),
         \A a \in Range(g.anomalies) \cup Brought(m), b \in Brought(m) : a.daemon <= b.daemon
  PROVE  LET h == ApplyMessage(g, m)
         IN  /\ InOrder(h.anomalies) /\ Range(h.anomalies) \subseteq Range(g.anomalies) \cup Brought(m)
             /\ h.context = IF m.kind = "context" THEN [id |-> m.id, about |-> m.about] ELSE g.context
<1>1. /\ g.anomalies \in Seq(Anomalies)
      /\ DOMAIN g = {"connection", "allowed", "anomalies", "context", "results", "log", "devices"}
  BY DEF State
<1>2. CASE m.kind = "recent"
  <2>1. m.list \in Seq(Anomalies) /\ Brought(m) = Range(m.list)
    BY <1>2 DEF Messages, Brought
  <2>2. PICK list : list = PushRecent(g.anomalies, m.list)
    OBVIOUS
  <2>3. ApplyMessage(g, m) = [g EXCEPT !.anomalies = list]
    BY <1>2, <2>2 DEF ApplyMessage
  <2>4. InOrder(list) /\ Range(list) \subseteq Range(g.anomalies) \cup Brought(m)
    BY <1>1, <2>1, <2>2, RecentInOrder
  <2> QED
    BY <1>1, <1>2, <2>3, <2>4
<1>3. CASE m.kind = "anomaly"
  <2>1. m.anomaly \in Anomalies /\ Brought(m) = {m.anomaly}
    BY <1>3 DEF Messages, Brought
  <2>2. PICK list : list = PushBounded(g.anomalies, m.anomaly, AnomalyCap)
    OBVIOUS
  <2>3. ApplyMessage(g, m) = [g EXCEPT !.anomalies = list]
    BY <1>3, <2>2 DEF ApplyMessage
  <2>4. InOrder(list) /\ Range(list) \subseteq Range(g.anomalies) \cup Brought(m)
    BY <1>1, <2>1, <2>2, PushedInOrder
  <2> QED
    BY <1>1, <1>3, <2>3, <2>4
<1>4. CASE m.kind = "context"
  BY <1>1, <1>4 DEF ApplyMessage
<1>5. CASE m.kind \in {"hello", "result", "error", "lan"}
  <2>1. PICK h : h = ApplyMessage(g, m)
    OBVIOUS
  <2>2. h.anomalies = g.anomalies /\ h.context = g.context
    BY <1>1, <1>5, <2>1 DEF ApplyMessage
  <2> QED
    BY <1>5, <2>1, <2>2
<1> QED
  BY <1>2, <1>3, <1>4, <1>5 DEF Messages

\* What is where it is, is an anomaly.
LEMMA WhatIsWhere ==
  ASSUME ContextInv
  PROVE  /\ \A a : Held(a) \/ Comes(a) \/ Sought(a) => a \in Anomalies
         /\ \A k \in 1..Len(inbox) : Brought(inbox[k]) \subseteq Anomalies
         /\ Range(gui.anomalies) \subseteq Anomalies /\ Range(render.anomalies) \subseteq Anomalies
<1>1. /\ gui.anomalies \in Seq(Anomalies) /\ render.anomalies \in Seq(Anomalies)
      /\ inbox \in Seq(Messages)
  BY DEF ContextInv, State
<1>2. \A s \in Seq(Anomalies) : Range(s) \subseteq Anomalies
  <2> TAKE s \in Seq(Anomalies)
  <2>1. \A i \in DOMAIN s : s[i] \in Anomalies
    BY LenProperties, ElementOfSeq
  <2> QED
    BY <2>1 DEF Range
<1>3. ASSUME NEW k \in 1..Len(inbox)
      PROVE  Brought(inbox[k]) \subseteq Anomalies
  <2>1. inbox[k] \in Messages
    BY <1>1, ElementOfSeq
  <2>2. CASE inbox[k].kind = "recent"
    <3>1. inbox[k].list \in Seq(Anomalies)
      BY <2>1, <2>2 DEF Messages
    <3> QED
      BY <1>2, <2>2, <3>1 DEF Brought
  <2>3. CASE inbox[k].kind = "anomaly"
    BY <2>1, <2>3 DEF Messages, Brought
  <2> QED
    BY <2>2, <2>3 DEF Brought
<1>4. \A a : Held(a) => a \in Anomalies
  BY <1>1, <1>2 DEF Held
<1>5. \A a : Comes(a) => a \in Anomalies
  BY <1>3 DEF Comes
<1>6. \A a : Sought(a) => a \in Anomalies
  BY DEF Sought, ContextInv, Contexts, State, Fits
<1> QED
  BY <1>1, <1>2, <1>3, <1>4, <1>5, <1>6

\* What more there is on its way is of the daemon that is there; and nothing more is sought.
MoreComes(more) ==
  /\ more \in Seq(Messages) /\ inbox' = inbox \o more
  /\ \A i \in 1..Len(more) : \A a \in Brought(more[i]) : a.daemon = link.daemon

NoMoreSought == \A a : Sought(a)' => Sought(a)

LEMMA NothingComes ==
  ASSUME inbox \in Seq(Messages), inbox' = inbox
  PROVE  MoreComes(<<>>)
<1>1. <<>> \in Seq(Messages) /\ inbox \o <<>> = inbox /\ Len(<<>>) = 0
  OBVIOUS
<1>2. 1..Len(<<>>) = {}
  BY <1>1
<1> QED
  BY <1>1, <1>2 DEF MoreComes

LEMMA OneComes ==
  ASSUME inbox \in Seq(Messages), NEW m \in Messages, inbox' = Append(inbox, m),
         \A a \in Brought(m) : a.daemon = link.daemon
  PROVE  /\ MoreComes(<<m>>)
         /\ \A i \in 1..Len(<<m>>) : <<m>>[i] = m
<1>1. <<m>> \in Seq(Messages) /\ Len(<<m>>) = 1 /\ <<m>>[1] = m
  OBVIOUS
<1>2. inbox' = inbox \o <<m>>
  BY AppendIsConcat
<1>3. \A i \in 1..Len(<<m>>) : <<m>>[i] = m
  BY <1>1
<1> QED
  BY <1>1, <1>2, <1>3 DEF MoreComes

\* Without a message for the bridge: what more there is on its way is of the daemon that is there.
LEMMA AgesRest ==
  ASSUME ContextInv, AgeInv, UNCHANGED <<app, render>>, link' \in Links,
         link'.daemon >= link.daemon, gui'.anomalies = gui.anomalies,
         NEW more, MoreComes(more), NoMoreSought
  PROVE  AgeInv'
<1>0. /\ more \in Seq(Messages) /\ inbox' = inbox \o more
      /\ \A i \in 1..Len(more) : \A a \in Brought(more[i]) : a.daemon = link.daemon
      /\ \A a : Sought(a)' => Sought(a)
  BY DEF MoreComes, NoMoreSought
<1>1. link.daemon \in Nat /\ link'.daemon \in Nat /\ inbox \in Seq(Messages)
  BY DEF ContextInv, Links
<1>2. \A a \in Anomalies : a.daemon \in Nat
  BY DEF Anomalies
<1>3. /\ Len(inbox) \in Nat /\ Len(more) \in Nat /\ Len(inbox') = Len(inbox) + Len(more)
      /\ \A i \in 1..Len(inbox') : inbox'[i] = IF i <= Len(inbox) THEN inbox[i] ELSE more[i - Len(inbox)]
  BY <1>0, <1>1, ConcatProperties, LenProperties
<1>4. ASSUME NEW k \in 1..Len(inbox')
      PROVE  \/ k \in 1..Len(inbox) /\ Brought(inbox'[k]) = Brought(inbox[k])
             \/ k > Len(inbox) /\ \A a \in Brought(inbox'[k]) : a.daemon = link.daemon
  <2>1. CASE k <= Len(inbox)
    BY <1>3, <2>1
  <2>2. CASE ~(k <= Len(inbox))
    <3>1. k - Len(inbox) \in 1..Len(more) /\ inbox'[k] = more[k - Len(inbox)]
      BY <1>3, <2>2
    <3>2. k > Len(inbox)
      BY <1>3, <2>2
    <3>3. \A a \in Brought(inbox'[k]) : a.daemon = link.daemon
      BY <1>0, <3>1
    <3> QED
      BY <3>2, <3>3
  <2> QED
    BY <2>1, <2>2
<1>5. \A a : Held(a)' <=> Held(a)
  BY DEF Held
<1>6. \A a : Comes(a)' => Comes(a) \/ a.daemon = link.daemon
  BY <1>4 DEF Comes
<1>7. \A a \in Anomalies : Held(a) \/ Comes(a) \/ Sought(a) => a.daemon <= link.daemon
  BY DEF AgeInv
<1>8. InOrder(gui.anomalies)' /\ InOrder(render.anomalies)'
  BY DEF AgeInv, InOrder
<1>9. ASSUME NEW k \in 1..Len(inbox'), NEW l \in 1..Len(inbox'), k <= l,
             NEW a \in Brought(inbox'[k]), NEW b \in Brought(inbox'[l])
      PROVE  a.daemon <= b.daemon
  <2>1. CASE l \in 1..Len(inbox) /\ Brought(inbox'[l]) = Brought(inbox[l])
    <3>1. k \in 1..Len(inbox) /\ a \in Brought(inbox[k])
      BY <1>3, <1>4, <1>9, <2>1
    <3> QED
      BY <1>9, <2>1, <3>1 DEF AgeInv
  <2>2. CASE \A c \in Brought(inbox'[l]) : c.daemon = link.daemon
    <3>1. CASE k \in 1..Len(inbox) /\ a \in Brought(inbox[k])
      <4>1. Comes(a)
        BY <3>1 DEF Comes
      <4> QED
        BY <1>7, <2>2, <4>1, WhatIsWhere
    <3>2. CASE a.daemon = link.daemon
      BY <1>1, <2>2, <3>2
    <3> QED
      BY <1>4, <3>1, <3>2
  <2> QED
    BY <1>4, <2>1, <2>2
<1>10. \A a \in Anomalies : (Held(a) \/ Comes(a) \/ Sought(a))' => a.daemon <= link'.daemon
  BY <1>0, <1>1, <1>2, <1>5, <1>6, <1>7
<1>11. \A a, b \in Anomalies : (Held(a) /\ Comes(b))' => a.daemon <= b.daemon
  BY <1>1, <1>2, <1>5, <1>6, <1>7 DEF AgeInv
<1>12. \A a \in Anomalies : Sought(a)' =>
         /\ Precedes(a, Range(gui'.anomalies))
         /\ \A b \in Anomalies : Comes(b)' /\ b.id = a.id => a.daemon <= b.daemon
  BY <1>0, <1>1, <1>2, <1>6, <1>7 DEF AgeInv
<1>13. /\ \A a \in Range(render'.anomalies), b \in Range(gui'.anomalies) :
            b \in Range(render'.anomalies) \/ a.daemon <= b.daemon
       /\ render'.context # None /\ render'.context.id = app'.pending
            => Precedes(render'.context.about, Range(render'.anomalies))
  BY DEF AgeInv
<1> QED
  BY <1>8, <1>9, <1>10, <1>11, <1>12, <1>13 DEF AgeInv

\* A message for the bridge.
LEMMA AgesGoOn ==
  ASSUME ContextInv, AgeInv, BridgeMessage
  PROVE  AgeInv'
<1>1. PICK g : g = gui
  OBVIOUS
<1>2. PICK m : m = Head(inbox)
  OBVIOUS
<1>3. State(g) /\ inbox \in Seq(Messages) /\ inbox # <<>>
  BY <1>1 DEF ContextInv, BridgeMessage
<1>4. /\ m \in Messages /\ m = inbox[1] /\ Len(inbox) \in Nat \ {0} /\ Len(inbox') = Len(inbox) - 1
      /\ \A i \in 1..Len(inbox') : inbox'[i] = inbox[i + 1] /\ i + 1 \in 1..Len(inbox)
  <2>1. inbox' = Tail(inbox)
    BY DEF BridgeMessage
  <2> QED
    BY <1>2, <1>3, <2>1, HeadTailProperties, LenProperties, EmptySeq
<1>5. gui' = ApplyMessage(g, m) /\ UNCHANGED <<link, queue, app, render>>
  BY <1>1, <1>2 DEF BridgeMessage, inside
<1>6. /\ Brought(m) \subseteq Anomalies /\ \A a \in Brought(m) : Comes(a)
      /\ \A a \in Brought(m), b \in Brought(m) : a.daemon <= b.daemon
      /\ Range(g.anomalies) \subseteq Anomalies /\ \A a \in Range(g.anomalies) : Held(a)
  <2>1. 1 \in 1..Len(inbox)
    BY <1>4
  <2> QED
    BY <1>1, <1>4, <2>1, WhatIsWhere DEF AgeInv, Comes, Held
<1>7. \A a \in Range(g.anomalies) \cup Brought(m), b \in Brought(m) : a.daemon <= b.daemon
  BY <1>6 DEF AgeInv
<1>8. PICK h : h = ApplyMessage(g, m)
  OBVIOUS
<1>9. /\ InOrder(h.anomalies) /\ Range(h.anomalies) \subseteq Range(g.anomalies) \cup Brought(m)
      /\ h.context = IF m.kind = "context" THEN [id |-> m.id, about |-> m.about] ELSE g.context
      /\ gui' = h
  <2>1. InOrder(g.anomalies)
    BY <1>1 DEF AgeInv
  <2> QED
    BY <1>3, <1>4, <1>5, <1>7, <1>8, <2>1, ApplyInOrder
<1>10. \A a : Held(a)' => Held(a) \/ a \in Brought(m)
  BY <1>1, <1>5, <1>9 DEF Held
<1>11. \A a : Comes(a)' => Comes(a)
  BY <1>4 DEF Comes
<1>12. \A a \in Brought(m) : \A b : Comes(b)' => a.daemon <= b.daemon
  <2> TAKE a \in Brought(m)
  <2> TAKE b
  <2> HAVE Comes(b)'
  <2>1. PICK k \in 1..Len(inbox') : b \in Brought(inbox'[k])
    BY DEF Comes
  <2>2. k + 1 \in 1..Len(inbox) /\ 1 \in 1..Len(inbox) /\ 1 <= k + 1 /\ b \in Brought(inbox[k + 1])
    BY <1>4, <2>1
  <2> QED
    BY <1>4, <2>2 DEF AgeInv
<1>13. \A a : Sought(a)' => Sought(a)
  <2> TAKE a
  <2> HAVE Sought(a)'
  <2>1. CASE \E i \in 1..Len(queue') :
               queue'[i].kind = "context" /\ queue'[i].id = app'.pending /\ queue'[i].about = a
    BY <1>5, <2>1 DEF Sought
  <2>2. CASE \E i \in 1..Len(inbox') :
               inbox'[i].kind = "context" /\ inbox'[i].id = app'.pending /\ inbox'[i].about = a
    BY <1>4, <1>5, <2>2 DEF Sought
  <2>3. CASE gui'.context # None /\ gui'.context.id = app'.pending /\ gui'.context.about = a
    <3>1. CASE m.kind = "context"
      <4>1. m.id = app.pending /\ m.about = a /\ 1 \in 1..Len(inbox)
        BY <1>4, <1>5, <1>9, <2>3, <3>1
      <4> QED
        BY <1>4, <3>1, <4>1 DEF Sought
    <3>2. CASE m.kind # "context"
      BY <1>1, <1>5, <1>9, <2>3, <3>2 DEF Sought
    <3> QED
      BY <3>1, <3>2
  <2> QED
    BY <2>1, <2>2, <2>3 DEF Sought
<1>14. InOrder(gui.anomalies)' /\ InOrder(render.anomalies)'
  BY <1>5, <1>9 DEF AgeInv, InOrder
<1>15. \A k, l \in 1..Len(inbox') : k <= l =>
         \A a \in Brought(inbox'[k]), b \in Brought(inbox'[l]) : a.daemon <= b.daemon
  <2> TAKE k, l \in 1..Len(inbox')
  <2>1. k + 1 \in 1..Len(inbox) /\ l + 1 \in 1..Len(inbox) /\ (k <= l => k + 1 <= l + 1)
    BY <1>4
  <2> QED
    BY <1>4, <2>1 DEF AgeInv
<1>16. \A a \in Anomalies : (Held(a) \/ Comes(a) \/ Sought(a))' => a.daemon <= link'.daemon
  BY <1>5, <1>6, <1>10, <1>11, <1>13 DEF AgeInv
<1>17. \A a, b \in Anomalies : (Held(a) /\ Comes(b))' => a.daemon <= b.daemon
  BY <1>10, <1>11, <1>12 DEF AgeInv
<1>18. \A a \in Range(render'.anomalies), b \in Range(gui'.anomalies) :
         b \in Range(render'.anomalies) \/ a.daemon <= b.daemon
  <2> TAKE a \in Range(render'.anomalies), b \in Range(gui'.anomalies)
  <2>1. a \in Range(render.anomalies) /\ Held(a) /\ a \in Anomalies
    BY <1>5, WhatIsWhere DEF Held
  <2>2. CASE b \in Range(g.anomalies)
    BY <1>1, <1>5, <2>1, <2>2 DEF AgeInv
  <2>3. CASE b \in Brought(m)
    BY <1>6, <2>1, <2>3 DEF AgeInv
  <2> QED
    BY <1>9, <2>2, <2>3
<1>19. \A a \in Anomalies : Sought(a)' =>
         /\ Precedes(a, Range(gui'.anomalies))
         /\ \A b \in Anomalies : Comes(b)' /\ b.id = a.id => a.daemon <= b.daemon
  <2> TAKE a \in Anomalies
  <2> HAVE Sought(a)'
  <2>1. /\ Precedes(a, Range(g.anomalies))
        /\ \A b \in Anomalies : Comes(b) /\ b.id = a.id => a.daemon <= b.daemon
    BY <1>1, <1>13 DEF AgeInv
  <2>2. Precedes(a, Range(gui'.anomalies))
    BY <1>6, <1>9, <2>1 DEF Precedes
  <2> QED
    BY <1>11, <2>1, <2>2
<1>20. render'.context # None /\ render'.context.id = app'.pending
         => Precedes(render'.context.about, Range(render'.anomalies))
  BY <1>5 DEF AgeInv
<1> QED
  BY <1>14, <1>15, <1>16, <1>17, <1>18, <1>19, <1>20 DEF AgeInv

\* The connection and the bridge.
LEMMA FeedAges ==
  ASSUME ContextInv, ContextInv', AgeInv,
         LinkUp \/ LinkDown \/ Raise \/ Tell("error") \/ Tell("lan") \/ Serve(TRUE) \/ Serve(FALSE)
         \/ BridgeState \/ BridgeMessage
  PROVE  AgeInv'
<1>1. link \in Links /\ link' \in Links /\ queue \in Seq(Requests) /\ inbox \in Seq(Messages)
  BY DEF ContextInv
<1>2. UNCHANGED <<app, render, screen>>
  BY DEF LinkUp, LinkDown, Raise, Tell, Serve, BridgeState, BridgeMessage, inside
<1>3. link.daemon \in Nat /\ link.raised \in Nat
  BY <1>1 DEF Links
\* More messages, none of them an answer.
<1>4. ASSUME NEW more, MoreComes(more), UNCHANGED <<queue, gui>>,
             \A i \in 1..Len(more) : more[i].kind # "context"
      PROVE  NoMoreSought
  <2>1. /\ Len(inbox) \in Nat /\ Len(more) \in Nat /\ Len(inbox') = Len(inbox) + Len(more)
        /\ \A i \in 1..Len(inbox') : inbox'[i] = IF i <= Len(inbox) THEN inbox[i] ELSE more[i - Len(inbox)]
    BY <1>1, <1>4, ConcatProperties, LenProperties DEF MoreComes
  <2>2. ASSUME NEW i \in 1..Len(inbox'), inbox'[i].kind = "context"
        PROVE  i \in 1..Len(inbox) /\ inbox'[i] = inbox[i]
    <3>1. CASE i <= Len(inbox)
      BY <2>1, <3>1
    <3>2. CASE ~(i <= Len(inbox))
      <4>1. i - Len(inbox) \in 1..Len(more) /\ inbox'[i] = more[i - Len(inbox)]
        BY <2>1, <3>2
      <4> QED
        BY <1>4, <2>2, <4>1
    <3> QED
      BY <3>1, <3>2
  <2> QED
    BY <1>2, <1>4, <2>2 DEF Sought, NoMoreSought
<1>5. CASE LinkUp
  <2>1. PICK hello : hello = [kind |-> "hello", allowed |-> Kinds]
    OBVIOUS
  <2>2. PICK list \in Seq(Anomalies) : list = [i \in 1..link.raised |-> Anomaly(link.daemon, i)]
    BY <1>1, RecentIsList DEF Links
  <2>3. PICK recent : recent = [kind |-> "recent", list |-> list]
    OBVIOUS
  <2>4. hello \in Messages /\ recent \in Messages
    BY <2>1, <2>3 DEF Messages
  <2>5. PICK more : more = Greeting(hello, recent)
    OBVIOUS
  <2>6. more \in Seq(Messages)
    BY <2>4, <2>5, GreetingIsList
  <2>7. \A i \in 1..Len(more) : more[i] \in {hello, recent}
    BY <2>5 DEF Greeting
  <2>8. \A i \in 1..Len(more) : more[i].kind # "context"
    BY <2>1, <2>3, <2>7
  <2>9. \A i \in 1..Len(more) : \A a \in Brought(more[i]) : a.daemon = link.daemon
    <3>1. Brought(hello) = {}
      BY <2>1 DEF Brought
    <3>2. \A a \in Brought(recent) : a.daemon = link.daemon
      BY <2>2, <2>3 DEF Brought, Range, Anomaly
    <3> QED
      BY <2>7, <3>1, <3>2
  <2>10. inbox' = inbox \o more /\ link' = [link EXCEPT !.up = TRUE] /\ UNCHANGED <<queue, gui>>
    BY <1>5, <2>1, <2>2, <2>3, <2>5 DEF LinkUp, Greeting
  <2>11. link'.daemon = link.daemon
    BY <1>1, <2>10 DEF Links
  <2>12. MoreComes(more)
    BY <2>6, <2>9, <2>10 DEF MoreComes
  <2>13. NoMoreSought
    BY <1>4, <2>8, <2>10, <2>12
  <2>14. link'.daemon >= link.daemon /\ gui'.anomalies = gui.anomalies
    BY <1>3, <2>10, <2>11
  <2> QED
    BY <1>1, <1>2, <2>12, <2>13, <2>14, AgesRest
<1>6. CASE LinkDown
  <2>1. UNCHANGED <<queue, inbox, gui>> /\ link'.daemon >= link.daemon
    BY <1>1, <1>3, <1>6 DEF LinkDown, Links
  <2>2. NoMoreSought
    BY <1>2, <2>1 DEF Sought, NoMoreSought
  <2>3. MoreComes(<<>>)
    BY <1>1, <2>1, NothingComes
  <2> QED
    BY <1>1, <1>2, <2>1, <2>2, <2>3, AgesRest
<1>7. CASE Raise
  <2>1. PICK m : m = [kind |-> "anomaly", anomaly |-> Anomaly(link.daemon, link.raised + 1)]
    OBVIOUS
  <2>2. /\ m \in Messages /\ m.kind # "context" /\ \A a \in Brought(m) : a.daemon = link.daemon
    BY <1>3, <2>1 DEF Messages, Anomaly, Anomalies, Brought
  <2>3. /\ inbox' = Append(inbox, m) /\ link' = [link EXCEPT !.raised = link.raised + 1]
        /\ UNCHANGED <<queue, gui>>
    BY <1>7, <2>1 DEF Raise
  <2>4. PICK more : more = <<m>>
    OBVIOUS
  <2>5. MoreComes(more) /\ \A i \in 1..Len(more) : more[i] = m
    BY <1>1, <2>2, <2>3, <2>4, OneComes
  <2>6. link'.daemon = link.daemon
    BY <1>1, <2>3 DEF Links
  <2>7. link'.daemon >= link.daemon
    BY <1>3, <2>6
  <2>8. NoMoreSought
    BY <1>4, <2>2, <2>3, <2>5
  <2> QED
    BY <1>1, <1>2, <2>3, <2>5, <2>7, <2>8, AgesRest
<1>8. ASSUME NEW kind \in {"error", "lan"}, Tell(kind)
      PROVE  AgeInv'
  <2>1. PICK m : m = [kind |-> kind, devices |-> <<2, 1>>]
    OBVIOUS
  <2>2. m \in Messages /\ m.kind # "context" /\ Brought(m) = {}
    BY <2>1 DEF Messages, Brought
  <2>3. inbox' = Append(inbox, m) /\ UNCHANGED <<link, queue, gui>>
    BY <1>8, <2>1 DEF Tell
  <2>4. PICK more : more = <<m>>
    OBVIOUS
  <2>5. MoreComes(more) /\ \A i \in 1..Len(more) : more[i] = m
    BY <1>1, <2>2, <2>3, <2>4, OneComes
  <2>6. NoMoreSought
    BY <1>4, <2>2, <2>3, <2>5
  <2>7. link'.daemon >= link.daemon
    BY <1>3, <2>3
  <2> QED
    BY <1>1, <1>2, <2>3, <2>5, <2>6, <2>7, AgesRest
<1>9. ASSUME NEW answered \in BOOLEAN, Serve(answered)
      PROVE  AgeInv'
  <2>1. PICK request : request = Head(queue)
    OBVIOUS
  <2>2. queue # <<>> /\ queue' = Tail(queue) /\ gui' = gui
    BY <1>9 DEF Serve
  <2>3. /\ request \in Requests /\ Len(queue) \in Nat \ {0} /\ Len(queue') = Len(queue) - 1
        /\ \A i \in 1..Len(queue') : queue'[i] = queue[i + 1] /\ i + 1 \in 1..Len(queue)
        /\ request = queue[1]
    BY <1>1, <2>1, <2>2, HeadTailProperties, LenProperties, EmptySeq
  <2>4. link'.daemon = link.daemon
    <3>1. link' = link \/ link' = [link EXCEPT !.up = FALSE]
      BY <1>9 DEF Serve
    <3> QED
      BY <1>1, <3>1 DEF Links
  <2> DEFINE Answers(more) ==
               \A i \in 1..Len(more) : more[i].kind = "context" =>
                 request.kind = "context" /\ more[i].id = request.id /\ more[i].about = request.about
  <2>5. PICK more : MoreComes(more) /\ Answers(more)
    <3>1. CASE inbox' = inbox
      <4>1. MoreComes(<<>>)
        BY <1>1, <3>1, NothingComes
      <4>2. Answers(<<>>)
        OBVIOUS
      <4> QED
        BY <4>1, <4>2
    <3>2. CASE request.kind = "context" /\ inbox' # inbox
      <4>1. PICK m : m = [kind |-> "context", id |-> request.id, about |-> request.about]
        OBVIOUS
      <4>2. m \in Messages
        BY <2>3, <3>2, <4>1 DEF Requests, Messages
      <4>3. inbox' = Append(inbox, m)
        BY <1>9, <2>1, <3>2, <4>1 DEF Serve
      <4>4. PICK more : more = <<m>>
        OBVIOUS
      <4>5. Brought(m) = {}
        BY <4>1 DEF Brought
      <4>6. MoreComes(more) /\ \A i \in 1..Len(more) : more[i] = m
        BY <1>1, <4>2, <4>3, <4>4, <4>5, OneComes
      <4> QED
        BY <3>2, <4>1, <4>6
    <3>3. CASE request.kind # "context" /\ inbox' # inbox
      <4>1. PICK m : m = [kind |-> "result", id |-> request.id]
        OBVIOUS
      <4>2. m \in Messages /\ m.kind # "context"
        <5>1. request.id \in Nat
          BY <2>3 DEF Requests
        <5> QED
          BY <4>1, <5>1 DEF Messages
      <4>3. inbox' = Append(inbox, m)
        BY <1>9, <2>1, <3>3, <4>1 DEF Serve
      <4>4. PICK more : more = <<m>>
        OBVIOUS
      <4>5. Brought(m) = {}
        BY <4>1 DEF Brought
      <4>6. MoreComes(more) /\ \A i \in 1..Len(more) : more[i] = m
        BY <1>1, <4>2, <4>3, <4>4, <4>5, OneComes
      <4> QED
        BY <4>2, <4>6
    <3> QED
      BY <3>1, <3>2, <3>3
  <2>6. NoMoreSought
    <3>1. /\ Len(inbox) \in Nat /\ Len(more) \in Nat /\ Len(inbox') = Len(inbox) + Len(more)
          /\ \A i \in 1..Len(inbox') : inbox'[i] = IF i <= Len(inbox) THEN inbox[i] ELSE more[i - Len(inbox)]
      BY <1>1, <2>5, ConcatProperties, LenProperties DEF MoreComes
    <3>2. ASSUME NEW i \in 1..Len(inbox'), inbox'[i].kind = "context"
          PROVE  \/ i \in 1..Len(inbox) /\ inbox'[i] = inbox[i]
                 \/ /\ queue[1].kind = "context" /\ 1 \in 1..Len(queue)
                    /\ inbox'[i].id = queue[1].id /\ inbox'[i].about = queue[1].about
      <4>1. CASE i <= Len(inbox)
        BY <3>1, <4>1
      <4>2. CASE ~(i <= Len(inbox))
        <5>1. i - Len(inbox) \in 1..Len(more) /\ inbox'[i] = more[i - Len(inbox)]
          BY <3>1, <4>2
        <5> QED
          BY <2>3, <2>5, <3>2, <5>1
      <4> QED
        BY <4>1, <4>2
    <3> SUFFICES ASSUME NEW a, Sought(a)' PROVE Sought(a)
      BY DEF NoMoreSought
    <3>3. CASE \E i \in 1..Len(queue') :
                 queue'[i].kind = "context" /\ queue'[i].id = app'.pending /\ queue'[i].about = a
      BY <1>2, <2>3, <3>3 DEF Sought
    <3>4. CASE \E i \in 1..Len(inbox') :
                 inbox'[i].kind = "context" /\ inbox'[i].id = app'.pending /\ inbox'[i].about = a
      BY <1>2, <3>2, <3>4 DEF Sought
    <3>5. CASE gui'.context # None /\ gui'.context.id = app'.pending /\ gui'.context.about = a
      BY <1>2, <2>2, <3>5 DEF Sought
    <3> QED
      BY <3>3, <3>4, <3>5 DEF Sought
  <2>7. link'.daemon >= link.daemon
    BY <1>3, <2>4
  <2> QED
    BY <1>1, <1>2, <2>2, <2>5, <2>6, <2>7, AgesRest
<1>10. CASE BridgeState
  <2>1. PICK h : h = [gui EXCEPT !.connection = IF link.up THEN "up" ELSE "down"]
    OBVIOUS
  <2>2. h.anomalies = gui.anomalies /\ h.context = gui.context
    BY <2>1 DEF ContextInv, State
  <2>3. gui' = h /\ UNCHANGED <<link, queue, inbox>>
    BY <1>10, <2>1 DEF BridgeState
  <2>4. NoMoreSought
    BY <1>2, <2>2, <2>3 DEF Sought, NoMoreSought
  <2>5. MoreComes(<<>>) /\ link'.daemon >= link.daemon
    BY <1>1, <1>3, <2>3, NothingComes
  <2> QED
    BY <1>1, <1>2, <2>2, <2>3, <2>4, <2>5, AgesRest
<1>11. CASE BridgeMessage
  BY <1>11, AgesGoOn
<1> QED
  BY <1>5, <1>6, <1>7, <1>8, <1>9, <1>10, <1>11

\* The anomaly selected is before all with its number.
LEMMA SelectedPrecedes ==
  ASSUME NEW r, State(r), InOrder(r.anomalies), Selected(r) # None
  PROVE  Selected(r) \in Range(r.anomalies) /\ Precedes(Selected(r), Range(r.anomalies))
<1> DEFINE hits == {i \in DOMAIN r.anomalies : r.anomalies[i].id = app.selected}
           first == CHOOSE i \in hits : \A j \in hits : i <= j
<1>1. hits # {} /\ Selected(r) = r.anomalies[first]
  BY DEF Selected
<1>2. DOMAIN r.anomalies \subseteq Nat
  <2>1. r.anomalies \in Seq(Anomalies)
    BY DEF State
  <2> QED
    BY <2>1, LenProperties
<1>3. first \in hits /\ \A j \in hits : first <= j
  <2>1. hits \in SUBSET Nat
    BY <1>2
  <2> HIDE DEF hits
  <2> QED
    BY <1>1, <2>1, LeastExists
<1>4. \A j \in hits : r.anomalies[first].daemon <= r.anomalies[j].daemon
  BY <1>3 DEF InOrder
<1>5. Precedes(Selected(r), Range(r.anomalies))
  BY <1>1, <1>3, <1>4 DEF Precedes, Range
<1> QED
  BY <1>1, <1>3, <1>5 DEF Range

\* What the frame takes over is the one state or the other.
LEMMA OneOrTheOther ==
  ASSUME ContextInv
  PROVE  \/ /\ Refresh(render).anomalies = render.anomalies
            /\ Refresh(render).context = render.context
         \/ /\ Refresh(render).anomalies = gui.anomalies
            /\ Refresh(render).context = gui.context
BY DEF Refresh, ContextInv, State

\* And the answer in it, to the last request, is for one before all with its number.
LEMMA AnswerPrecedes ==
  ASSUME ContextInv, AgeInv, NEW r, r = Refresh(render),
         r.context # None, r.context.id = app.pending
  PROVE  Fits(r.context) /\ Precedes(r.context.about, Range(r.anomalies))
<1>1. State(r)
  BY RefreshIsState DEF ContextInv
<1>2. Fits(r.context) /\ r.context.about \in Anomalies
  BY <1>1 DEF State, Fits
<1>3. CASE r.anomalies = render.anomalies /\ r.context = render.context
  BY <1>2, <1>3 DEF AgeInv
<1>4. CASE r.anomalies = gui.anomalies /\ r.context = gui.context
  <2>1. Sought(r.context.about)
    BY <1>4 DEF Sought
  <2> QED
    BY <1>2, <1>4, <2>1 DEF AgeInv
<1> QED
  BY <1>2, <1>3, <1>4, OneOrTheOther

\* What a frame shows is the context of the anomaly shown, but for the one case.
LEMMA PictureFits ==
  ASSUME ContextInv, AgeInv, NEW pending \in {app.pending, app.next},
         render' = Refresh(render), screen' = Picture(Refresh(render), pending)
  PROVE  ContextFitsSelection'
<1>1. PICK r : r = Refresh(render)
  OBVIOUS
<1>2. PICK c : c = r.context
  OBVIOUS
<1>3. PICK d : d = Selected(r)
  OBVIOUS
<1>4. State(r) /\ InOrder(r.anomalies)
  BY <1>1, RefreshIsState, OneOrTheOther DEF ContextInv, AgeInv
<1>5. /\ screen'.context = MatchingContext(r, pending) /\ screen'.detail = d
      /\ render'.anomalies = r.anomalies
  BY <1>1, <1>3 DEF Picture
<1>6. ASSUME MatchingContext(r, pending) # None
      PROVE  \/ c.about = d
             \/ c.about.id = d.id /\ c.about.daemon < d.daemon /\ c.about \notin Range(r.anomalies)
  <2>1. d # None /\ c # None /\ c.id = pending
    BY <1>2, <1>3, <1>6 DEF MatchingContext
  <2>2. Fits(c)
    BY <1>2, <1>4, <2>1 DEF State
  <2>3. c.id = app.pending
    BY <2>1, <2>2 DEF Fits, ContextInv, AppState
  <2>4. c.about \in Anomalies /\ c.about.id = app.selected /\ Precedes(c.about, Range(r.anomalies))
    BY <1>1, <1>2, <2>1, <2>2, <2>3, AnswerPrecedes DEF Fits
  <2>5. /\ d \in Anomalies /\ d.id = app.selected
        /\ d \in Range(r.anomalies) /\ Precedes(d, Range(r.anomalies))
    BY <1>3, <1>4, <2>1, SelectedHasNumber, SelectedPrecedes
  <2>6. c.about.daemon \in Nat /\ d.daemon \in Nat /\ c.about.daemon <= d.daemon
    BY <2>4, <2>5 DEF Precedes, Anomalies
  <2>7. c.about.daemon = d.daemon => c.about = d
    BY <2>4, <2>5 DEF Anomalies
  <2>8. c.about \in Range(r.anomalies) => d.daemon <= c.about.daemon
    BY <2>4, <2>5 DEF Precedes
  <2> QED
    BY <2>4, <2>5, <2>6, <2>7, <2>8
<1>7. MatchingContext(r, pending) # None => MatchingContext(r, pending) = c.about
  BY <1>2 DEF MatchingContext
<1> QED
  BY <1>5, <1>6, <1>7 DEF ContextFitsSelection

\* A request for a context that a click makes is for the anomaly selected.
SelectedIsSought ==
  \A i \in 1..Len(queue') : queue'[i].kind = "context" =>
    \/ \E j \in 1..Len(queue) : queue'[i] = queue[j]
    \/ Selected(Refresh(render)) # None /\ queue'[i].about = Selected(Refresh(render))

LEMMA NothingSent ==
  ASSUME queue' = queue
  PROVE  SelectedIsSought
BY DEF SelectedIsSought

LEMMA OneSent ==
  ASSUME queue \in Seq(Requests), NEW request \in Requests, TrySend(request),
         request.kind = "context" =>
           Selected(Refresh(render)) # None /\ request.about = Selected(Refresh(render))
  PROVE  SelectedIsSought
<1>1. CASE queue' = queue
  BY <1>1, NothingSent
<1>2. CASE queue' = Append(queue, request)
  <2>1. /\ Len(queue') = Len(queue) + 1 /\ Len(queue) \in Nat
        /\ \A i \in 1..Len(queue) : queue'[i] = queue[i]
        /\ queue'[Len(queue) + 1] = request
    BY <1>2, AppendProperties, LenProperties
  <2>2. \A i \in 1..Len(queue') : i \in 1..Len(queue) \/ i = Len(queue) + 1
    BY <2>1
  <2> QED
    BY <2>1, <2>2 DEF SelectedIsSought
<1> QED
  BY <1>1, <1>2 DEF TrySend

\* The frames and the clicks.
LEMMA FrameGoesOn ==
  ASSUME ContextInv,
         Frame \/ Pause \/ (\E levels : Filter(levels)) \/ (\E i : Details(i)) \/ RequestContext
         \/ (\E kind : ChooseAction(kind)) \/ Confirm \/ Cancel
  PROVE  AppGoesOn /\ RequestsFit /\ SelectedIsSought
<1>1. /\ DOMAIN app = {"paused", "selected", "next", "pending", "dialog", "filter"}
      /\ app.next \in Nat \ {0} /\ app.pending \in Nat /\ app.pending < app.next
      /\ queue \in Seq(Requests)
  BY DEF ContextInv, AppState
<1>3. CASE Frame
  <2>1. UNCHANGED <<app, queue>>
    BY <1>3 DEF Frame, outside
  <2> QED
    BY <2>1, RestGoesOn, QueueRests, NothingSent
<1>4. CASE Pause \/ (\E levels : Filter(levels)) \/ (\E kind : ChooseAction(kind)) \/ Cancel
  <2>1. queue' = queue
    BY <1>4 DEF Pause, Filter, ChooseAction, Cancel
  <2>2. /\ DOMAIN app' = DOMAIN app /\ app'.next = app.next /\ app'.pending = app.pending
        /\ app'.selected = app.selected
    <3>1. CASE Pause
      BY <1>1, <3>1 DEF Pause
    <3>2. CASE \E levels : Filter(levels)
      BY <1>1, <3>2 DEF Filter
    <3>3. CASE \E kind : ChooseAction(kind)
      BY <1>1, <3>3 DEF ChooseAction
    <3>4. CASE Cancel
      BY <1>1, <3>4 DEF Cancel
    <3> QED
      BY <1>4, <3>1, <3>2, <3>3, <3>4
  <2>3. AppGoesOn
    BY <1>1, <2>2 DEF AppGoesOn, AppState
  <2> QED
    BY <2>1, <2>3, QueueRests, NothingSent
<1>5. ASSUME NEW i, Details(i)
      PROVE  AppGoesOn /\ RequestsFit /\ SelectedIsSought
  <2>1. PICK id : id = FilteredAnomalies(Refresh(render))[i].id
    OBVIOUS
  <2>2. /\ queue' = queue
        /\ app' = [app EXCEPT !.selected = id, !.pending = IF id = app.selected THEN @ ELSE 0]
    BY <1>5, <2>1 DEF Details
  <2>3. /\ DOMAIN app' = DOMAIN app /\ app'.next = app.next /\ app'.selected = id
        /\ app'.pending = IF id = app.selected THEN app.pending ELSE 0
    BY <1>1, <2>2
  <2>4. AppGoesOn
    BY <1>1, <2>3 DEF AppGoesOn, AppState
  <2> QED
    BY <2>2, <2>4, QueueRests, NothingSent
<1>6. CASE RequestContext
  <2>1. PICK r : r = Refresh(render)
    OBVIOUS
  <2>2. State(r)
    BY <2>1, RefreshIsState DEF ContextInv
  <2>3. PICK request : request = [kind |-> "context", id |-> app.next, about |-> Selected(r)]
    OBVIOUS
  <2>4. /\ Selected(r) # None /\ TrySend(request)
        /\ app' = [app EXCEPT !.pending = app.next, !.next = app.next + 1]
    BY <1>6, <2>1, <2>3 DEF RequestContext, TrySend
  <2>5. Selected(r) \in Anomalies /\ Selected(r).id = app.selected
    BY <2>2, <2>4, SelectedHasNumber
  <2>6. /\ DOMAIN app' = DOMAIN app /\ app'.next = app.next + 1 /\ app'.pending = app.next
        /\ app'.selected = app.selected
    BY <1>1, <2>4
  <2>7. AppGoesOn
    BY <1>1, <2>6 DEF AppGoesOn, AppState
  <2>8. request \in Requests
    BY <1>1, <2>3, <2>5 DEF Requests
  <2>9. StillFits(request)
    BY <1>1, <2>3, <2>5, <2>6 DEF StillFits
  <2>10. RequestsFit
    BY <2>4, <2>7, <2>8, <2>9, RequestIsSent
  <2>11. SelectedIsSought
    BY <1>1, <2>1, <2>3, <2>4, <2>8, OneSent
  <2> QED
    BY <2>7, <2>10, <2>11
<1>7. CASE Confirm
  <2>1. PICK request : request = [kind |-> "action", id |-> app.next]
    OBVIOUS
  <2>2. /\ TrySend(request)
        /\ app' = [app EXCEPT !.dialog = None, !.next = app.next + 1]
    BY <1>7, <2>1 DEF Confirm, TrySend
  <2>3. /\ DOMAIN app' = DOMAIN app /\ app'.next = app.next + 1 /\ app'.pending = app.pending
        /\ app'.selected = app.selected
    BY <1>1, <2>2
  <2>4. AppGoesOn
    BY <1>1, <2>3 DEF AppGoesOn, AppState
  <2>5. request \in Requests /\ request.kind # "context"
    BY <1>1, <2>1 DEF Requests
  <2>6. RequestsFit
    BY <2>2, <2>4, <2>5, RequestIsSent
  <2>7. SelectedIsSought
    BY <1>1, <2>2, <2>5, OneSent
  <2> QED
    BY <2>4, <2>6, <2>7
<1> QED
  BY <1>3, <1>4, <1>5, <1>6, <1>7

\* A frame, with what was clicked.
LEMMA AgesClicked ==
  ASSUME ContextInv, AgeInv, AppGoesOn, SelectedIsSought,
         render' = Refresh(render), UNCHANGED <<link, inbox, gui>>
  PROVE  AgeInv'
<1>1. PICK r : r = Refresh(render)
  OBVIOUS
<1>2. PICK g : g = gui
  OBVIOUS
<1>3. State(r) /\ State(g) /\ render' = r /\ gui' = g
  BY <1>1, <1>2, RefreshIsState DEF ContextInv
<1>4. r.anomalies = render.anomalies \/ r.anomalies = g.anomalies
  BY <1>1, <1>2, OneOrTheOther
\* What answers the last request now, answered it before.
<1>5. \A c : Fits(c) /\ c.id = app'.pending => c.id = app.pending
  BY DEF Fits, AppGoesOn, ContextInv, AppState
<1>6. InOrder(r.anomalies) /\ InOrder(g.anomalies)
  BY <1>2, <1>4 DEF AgeInv
<1>7. \A a : Held(a)' => Held(a)
  BY <1>2, <1>3, <1>4 DEF Held
<1>8. \A a : Comes(a)' <=> Comes(a)
  BY DEF Comes
<1>9. \A a \in Range(r.anomalies), b \in Range(g.anomalies) :
        b \in Range(r.anomalies) \/ a.daemon <= b.daemon
  BY <1>2, <1>4 DEF AgeInv
<1>10. ASSUME NEW a, Sought(a)'
       PROVE  \/ Sought(a)
              \/ Selected(r) # None /\ a = Selected(r)
  <2>1. CASE \E i \in 1..Len(queue') :
               queue'[i].kind = "context" /\ queue'[i].id = app'.pending /\ queue'[i].about = a
    <3>1. PICK i \in 1..Len(queue') :
                 queue'[i].kind = "context" /\ queue'[i].id = app'.pending /\ queue'[i].about = a
      BY <2>1
    <3>2. CASE \E j \in 1..Len(queue) : queue'[i] = queue[j]
      <4>1. PICK j \in 1..Len(queue) : queue'[i] = queue[j]
        BY <3>2
      <4>2. Fits(queue[j])
        BY <3>1, <4>1 DEF ContextInv, Contexts
      <4> QED
        BY <1>5, <3>1, <4>1, <4>2 DEF Sought
    <3> QED
      BY <1>1, <3>1, <3>2 DEF SelectedIsSought
  <2>2. CASE \E i \in 1..Len(inbox) :
               inbox[i].kind = "context" /\ inbox[i].id = app'.pending /\ inbox[i].about = a
    <3>1. PICK i \in 1..Len(inbox) :
                 inbox[i].kind = "context" /\ inbox[i].id = app'.pending /\ inbox[i].about = a
      BY <2>2
    <3>2. Fits(inbox[i])
      BY <3>1 DEF ContextInv, Contexts
    <3> QED
      BY <1>5, <3>1, <3>2 DEF Sought
  <2>3. CASE gui.context # None /\ gui.context.id = app'.pending /\ gui.context.about = a
    <3>1. Fits(gui.context)
      BY <2>3 DEF ContextInv, State
    <3> QED
      BY <1>5, <2>3, <3>1 DEF Sought
  <2> QED
    BY <1>10, <2>1, <2>2, <2>3 DEF Sought
<1>11. ASSUME Selected(r) # None
       PROVE  /\ Selected(r) \in Anomalies /\ Held(Selected(r))
              /\ Precedes(Selected(r), Range(g.anomalies))
  <2>1. PICK x : x = Selected(r)
    OBVIOUS
  <2>2. x \in Range(r.anomalies) /\ Precedes(x, Range(r.anomalies)) /\ x \in Anomalies
    BY <1>3, <1>6, <1>11, <2>1, SelectedPrecedes, SelectedHasNumber
  <2>3. Precedes(x, Range(g.anomalies))
    BY <1>9, <2>2 DEF Precedes
  <2>4. Held(x)
    BY <1>2, <1>4, <2>2 DEF Held
  <2> QED
    BY <2>1, <2>2, <2>3, <2>4
<1>12. \A a \in Anomalies : Sought(a)' =>
         /\ a.daemon <= link.daemon /\ Precedes(a, Range(g.anomalies))
         /\ \A b \in Anomalies : Comes(b)' /\ b.id = a.id => a.daemon <= b.daemon
  <2> TAKE a \in Anomalies
  <2> HAVE Sought(a)'
  <2>1. CASE Sought(a)
    BY <1>2, <1>8, <2>1 DEF AgeInv
  <2>2. CASE Selected(r) # None /\ a = Selected(r)
    BY <1>8, <1>11, <2>2 DEF AgeInv
  <2> QED
    BY <1>10, <2>1, <2>2
<1>13. r.context # None /\ r.context.id = app'.pending => Precedes(r.context.about, Range(r.anomalies))
  BY <1>1, <1>3, <1>5, AnswerPrecedes DEF State
<1>14. \A a \in Anomalies : (Held(a) \/ Comes(a))' => a.daemon <= link.daemon
  BY <1>7, <1>8 DEF AgeInv
<1>15. \A a, b \in Anomalies : (Held(a) /\ Comes(b))' => a.daemon <= b.daemon
  BY <1>7, <1>8 DEF AgeInv
<1>16. \A k, l \in 1..Len(inbox) : k <= l =>
         \A a \in Brought(inbox[k]), b \in Brought(inbox[l]) : a.daemon <= b.daemon
  BY DEF AgeInv
<1>17. InOrder(gui.anomalies)' /\ InOrder(render.anomalies)'
  BY <1>3, <1>6
<1> QED
  BY <1>3, <1>9, <1>12, <1>13, <1>14, <1>15, <1>16, <1>17 DEF AgeInv

LEMMA FrameKept ==
  ASSUME ContextInv, AgeInv,
         Frame \/ Pause \/ (\E levels : Filter(levels)) \/ (\E i : Details(i)) \/ RequestContext
         \/ (\E kind : ChooseAction(kind)) \/ Confirm \/ Cancel
  PROVE  ContextInv' /\ AgeInv' /\ ContextFitsSelection'
<1>1. UNCHANGED <<link, inbox, gui>> /\ render' = Refresh(render)
  BY DEF Frame, Pause, Filter, Details, RequestContext, ChooseAction, Confirm, Cancel, Click, outside
<1>2. screen' = Picture(Refresh(render), app.pending) \/ screen' = Picture(Refresh(render), app.next)
  BY DEF Frame, Pause, Filter, Details, RequestContext, ChooseAction, Confirm, Cancel, Click
<1>3. AppGoesOn /\ RequestsFit /\ SelectedIsSought
  BY FrameGoesOn
<1> QED
  BY <1>1, <1>2, <1>3, ClickKept, AgesClicked, PictureFits

\* The context in the detail panel is that of the anomaly in it (draw_detail_panel, draw_central,
\* request_context), also when the selection, or the daemon behind the connection, was another
\* one in between; unless a later daemon has given the number of an anomaly that is gone from
\* the list to the one that is shown.
THEOREM ContextIsOfSelection == DesktopSpec => []ContextFitsSelection
<1>1. ASSUME DesktopInit
      PROVE  DashboardInv
  <2>1. /\ link = [up |-> FALSE, daemon |-> 1, raised |-> 0] /\ queue = <<>> /\ inbox = <<>>
        /\ gui = NewState /\ render = NewState /\ app = NewApp /\ screen = Blank
    BY <1>1 DEF DesktopInit, DashboardInit
  <2>2. link \in Links /\ queue \in Seq(Requests) /\ inbox \in Seq(Messages)
    BY <2>1 DEF Links
  <2>3. State(gui) /\ State(render)
    BY <2>1 DEF NewState, State
  <2>4. AppState
    BY <2>1 DEF NewApp, AppState
  <2>5. Contexts
    BY <2>1 DEF Contexts
  <2>6. screen.context = None
    BY <2>1 DEF Blank
  <2>7. AgeInv
    <3>1. /\ gui.anomalies = <<>> /\ render.anomalies = <<>> /\ gui.context = None
          /\ render.context = None
      BY <2>1 DEF NewState
    <3>2. DOMAIN gui.anomalies = {} /\ DOMAIN render.anomalies = {} /\ Len(inbox) = 0 /\ Len(queue) = 0
      BY <2>1, <3>1
    <3>3. Range(gui.anomalies) = {} /\ Range(render.anomalies) = {}
      BY <3>2 DEF Range
    <3>4. InOrder(gui.anomalies) /\ InOrder(render.anomalies)
      BY <3>2 DEF InOrder
    <3>5. \A a : ~Held(a) /\ ~Comes(a) /\ ~Sought(a)
      BY <3>1, <3>2, <3>3 DEF Held, Comes, Sought
    <3> QED
      BY <3>1, <3>2, <3>3, <3>4, <3>5 DEF AgeInv
  <2> QED
    BY <2>2, <2>3, <2>4, <2>5, <2>6, <2>7 DEF DashboardInv, ContextInv, ContextFitsSelection
<1>2. ASSUME DashboardInv, [DesktopNext]_desktop
      PROVE  DashboardInv'
  <2>1. CASE focus = "dashboard" /\ DashboardNext
    <3>1. ContextInv /\ AgeInv /\ ContextFitsSelection
      BY <1>2, <2>1 DEF DashboardInv
    <3>2. ASSUME LinkUp \/ LinkDown \/ Raise \/ Tell("error") \/ Tell("lan") \/ Serve(TRUE) \/ Serve(FALSE)
                 \/ BridgeState \/ BridgeMessage
          PROVE  ContextInv' /\ AgeInv' /\ ContextFitsSelection'
      <4>1. ContextInv'
        BY <3>1, <3>2, FeedKept
      <4>2. AgeInv'
        BY <3>1, <3>2, <4>1, FeedAges
      <4>3. UNCHANGED <<render, screen>>
        BY <3>2 DEF LinkUp, LinkDown, Raise, Tell, Serve, BridgeState, BridgeMessage, inside
      <4> QED
        BY <3>1, <4>1, <4>2, <4>3 DEF ContextFitsSelection
    <3>3. ASSUME Frame \/ Pause \/ (\E levels : Filter(levels)) \/ (\E i : Details(i)) \/ RequestContext
                 \/ (\E kind : ChooseAction(kind)) \/ Confirm \/ Cancel
          PROVE  ContextInv' /\ AgeInv' /\ ContextFitsSelection'
      BY <3>1, <3>3, FrameKept
    <3>4. ContextInv' /\ AgeInv' /\ ContextFitsSelection'
      BY <2>1, <3>2, <3>3 DEF DashboardNext
    <3> QED
      BY <1>2, <2>1, <3>4, OnePartAtWork DEF DashboardInv
  <2>2. CASE focus = "dashboard" /\ UNCHANGED dashboard
    <3>1. UNCHANGED <<focus, link, queue, inbox, gui, app, render, screen>>
      BY <1>2, <2>2, OnePartAtWork DEF dashboard, outside, inside
    <3>2. ContextInv' /\ ContextFitsSelection'
      BY <1>2, <2>2, <3>1
      DEF DashboardInv, ContextInv, State, AppState, Contexts, Fits, ContextFitsSelection
    <3>3. AgeInv'
      <4>1. \A a : (Held(a)' <=> Held(a)) /\ (Comes(a)' <=> Comes(a)) /\ (Sought(a)' <=> Sought(a))
        BY <3>1 DEF Held, Comes, Sought
      <4> QED
        BY <1>2, <2>2, <3>1, <4>1 DEF DashboardInv, AgeInv
    <3> QED
      BY <1>2, <2>2, <3>1, <3>2, <3>3 DEF DashboardInv
  <2>3. CASE focus # "dashboard"
    BY <1>2, <2>3, OnePartAtWork DEF DashboardInv
  <2> QED
    BY <1>2, <2>1, <2>2, <2>3, OnePartAtWork
<1>3. DashboardInv => ContextFitsSelection
  BY DEF DashboardInv, ContextInv, ContextFitsSelection
<1> QED
  BY <1>1, <1>2, <1>3, PTL DEF DesktopSpec

-----------------------------------------------------------------------------
\* Steps that are taken (StepsAreTaken), where after each of them another set is reached.
LEMMA StagesAreTaken ==
  ASSUME NEW N \in Nat, NEW T, NEW c, NEW step, c \in T[0],
         \A n \in 1..N : \A s \in T[n - 1] : step[<<s, n>>] \in T[n]
  PROVE  \E f : /\ f = [n \in 0..N |-> f[n]]
                /\ Takes(f, c, step, N) /\ \A n \in 0..N : f[n] \in T[n]
<1> DEFINE Agrees(f, n) == /\ f = [i \in 0..n |-> f[i]] /\ Takes(f, c, step, n)
                         /\ \A i \in 0..n : f[i] \in T[i]
           U == UNION {T[i] : i \in 0..N}
           P == {n \in 0..N : \E f : Agrees(f, n)}
<1>1. 0 \in P
  <2> DEFINE f == [i \in 0..0 |-> c]
  <2>1. Agrees(f, 0)
    BY DEF Takes
  <2> HIDE DEF f, Agrees
  <2> QED
    BY <2>1
<1>2. ASSUME NEW n \in 1..N, n - 1 \in P
      PROVE  n \in P
  <2>1. PICK f : Agrees(f, n - 1)
    BY <1>2
  <2> DEFINE last == step[<<f[n - 1], n>>]
             g == [i \in 0..n |-> IF i = n THEN last ELSE f[i]]
  <2>2. last \in T[n]
    <3>1. n - 1 \in 0..(n - 1) /\ n - 1 \in Nat
      OBVIOUS
    <3>2. f[n - 1] \in T[n - 1]
      BY <2>1, <3>1
    <3> QED
      BY <3>2
  <2>3. g = [i \in 0..n |-> g[i]] /\ \A i \in 0..n : g[i] \in T[i]
    <3>1. ASSUME NEW i \in 0..n
          PROVE  g[i] \in T[i]
      <4>1. CASE i = n
        BY <2>2, <4>1
      <4>2. CASE i # n
        <5>1. i \in 0..(n - 1) /\ g[i] = f[i]
          BY <4>2
        <5> QED
          BY <2>1, <5>1
      <4> QED
        BY <4>1, <4>2
    <3> HIDE DEF last
    <3> QED
      BY <3>1
  <2>4. Takes(g, c, step, n)
    <3>1. g[0] = c
      BY <2>1 DEF Takes
    <3>2. ASSUME NEW i \in 1..n
          PROVE  g[i] = step[<<g[i - 1], i>>]
      <4>1. g[i - 1] = f[i - 1]
        OBVIOUS
      <4>2. CASE i = n
        BY <4>1, <4>2
      <4>3. CASE i # n
        <5>1. i \in 1..(n - 1) /\ g[i] = f[i]
          BY <4>3
        <5> QED
          BY <2>1, <4>1, <5>1 DEF Takes
      <4> QED
        BY <4>2, <4>3
    <3> QED
      BY <3>1, <3>2 DEF Takes
  <2>5. Agrees(g, n)
    BY <2>3, <2>4
  <2> HIDE DEF g, Agrees
  <2> QED
    BY <2>5
<1>3. 0..N \subseteq P
  <2> HIDE DEF P
  <2> QED
    BY <1>1, <1>2, UpToTheEnd
<1>4. PICK f : Agrees(f, N)
  BY <1>3
<1> QED
  BY <1>4

\* Of finitely many numbers one is the greatest.
LEMMA GreatestExists ==
  ASSUME NEW N \in Nat, N > 0, NEW f \in [1..N -> Int]
  PROVE  \E i \in 1..N : \A j \in 1..N : f[i] >= f[j]
<1> DEFINE P == {k \in 0..N : k > 0 => \E i \in 1..k : \A j \in 1..k : f[i] >= f[j]}
<1>1. 0 \in P
  OBVIOUS
<1>2. ASSUME NEW n \in 1..N, n - 1 \in P
      PROVE  n \in P
  <2>1. CASE n = 1
    BY <2>1
  <2>2. CASE n > 1
    <3>1. PICK i \in 1..(n - 1) : \A j \in 1..(n - 1) : f[i] >= f[j]
      BY <1>2, <2>2
    <3>2. f[i] \in Int /\ f[n] \in Int /\ i \in 1..n /\ n \in 1..n
      OBVIOUS
    <3>3. CASE f[i] >= f[n]
      <4>1. \A j \in 1..n : f[i] >= f[j]
        BY <3>1, <3>3
      <4> QED
        BY <3>2, <4>1
    <3>4. CASE f[n] > f[i]
      <4>1. \A j \in 1..n : f[n] >= f[j]
        BY <3>1, <3>2, <3>4
      <4> QED
        BY <3>2, <4>1
    <3> QED
      BY <3>2, <3>3, <3>4
  <2> QED
    BY <2>1, <2>2
<1>3. 0..N \subseteq P
  <2> HIDE DEF P
  <2> QED
    BY <1>1, <1>2, UpToTheEnd
<1>4. N \in P
  <2>1. N \in 0..N
    OBVIOUS
  <2> HIDE DEF P
  <2> QED
    BY <1>3, <2>1
<1> QED
  BY <1>4

\* The greatest and the least of some of the positions.
LEMMA MaxOfSome ==
  ASSUME NEW N \in Nat, NEW S \in SUBSET (1..N), S # {}
  PROVE  Max(S) \in S
<1> DEFINE f == [i \in 1..N |-> IF i \in S THEN i ELSE 0]
<1>0. PICK x : x \in S
  OBVIOUS
<1>1. N > 0 /\ f \in [1..N -> Int]
  BY <1>0
<1>2. PICK i \in 1..N : \A j \in 1..N : f[i] >= f[j]
  <2> HIDE DEF f
  <2> QED
    BY <1>1, GreatestExists
<1>3. i \in S /\ \A j \in S : i >= j
  <2>1. x \in 1..N /\ f[x] = x /\ x > 0
    BY <1>0
  <2>2. i \in S
    BY <1>2, <2>1
  <2>3. ASSUME NEW j \in S
        PROVE  i >= j
    <3>1. f[i] = i /\ f[j] = j /\ j \in 1..N
      BY <2>2
    <3> QED
      BY <1>2, <3>1
  <2> QED
    BY <2>2, <2>3
<1> QED
  BY <1>3 DEF Max

LEMMA MinOfSome ==
  ASSUME NEW N \in Nat, NEW S \in SUBSET (1..N), S # {}
  PROVE  Min(S) \in S
<1>1. PICK i \in S : \A j \in S : i <= j
  BY LeastExists
<1> QED
  BY <1>1 DEF Min

-----------------------------------------------------------------------------
(* The graph tab                                                           *)

GraphFiles == [nodes : Seq(GraphNodes), edges : Seq(GraphEdges)]
OverlayFiles == {g \in GraphFiles : \A i \in DOMAIN g.nodes : g.nodes[i].community \in Nat}

\* Whom an id of the overlay stands for.
Renamings == UNION {[ids -> STRING] : ids \in SUBSET STRING}

Beyond(base, nodes) == Len(base.nodes) + 1..Len(nodes)

\* What was added: nodes of those that had their turn, each id once, above the communities of
\* the base.
AddedFit(base, overlay, s) ==
  \A i \in Beyond(base, s.nodes) :
    /\ s.nodes[i].id \notin Ids(base.nodes) /\ s.nodes[i].community >= CommunityOffset(base)
    /\ \E k \in Unmatched(base, overlay) \ s.rest : s.nodes[i].id = overlay.nodes[k].id
    /\ \A j \in Beyond(base, s.nodes) \ {i} : s.nodes[j].id # s.nodes[i].id

\* Who had its turn is connected at least as well as those that wait, and is there unless
\* better ones have taken all the room.
BestCame(base, overlay, maxAdded, s) ==
  \A k \in Unmatched(base, overlay) \ s.rest :
    /\ \A j \in s.rest : DegreeOf(overlay, k) >= DegreeOf(overlay, j)
    /\ \/ overlay.nodes[k].id \in Ids(s.nodes)
       \/ /\ Len(s.nodes) = Len(base.nodes) + maxAdded
          /\ \A i \in Beyond(base, s.nodes) :
               OverlayDegree(overlay, s.nodes[i].id) >= DegreeOf(overlay, k)

\* merge_overlay after n of the nodes without a match.
Stage(base, overlay, maxAdded, n) ==
  {s \in [rest : SUBSET Unmatched(base, overlay), nodes : Seq(GraphNodes), ids : Renamings] :
     /\ Cardinality(s.rest) = Cardinality(Unmatched(base, overlay)) - n
     /\ Len(s.nodes) \in Len(base.nodes)..Len(base.nodes) + maxAdded
     /\ \A i \in 1..Len(base.nodes) : s.nodes[i] = base.nodes[i]
     /\ AddedFit(base, overlay, s) /\ BestCame(base, overlay, maxAdded, s)
     /\ \A id \in DOMAIN s.ids : s.ids[id] \in Ids(s.nodes)}

LEMMA DegreeIsNat ==
  ASSUME NEW overlay \in GraphFiles, NEW id
  PROVE  OverlayDegree(overlay, id) \in Nat
<1>1. Len(overlay.edges) \in Nat /\ DOMAIN overlay.edges = 1..Len(overlay.edges)
  BY LenProperties DEF GraphFiles
<1>2. IsFiniteSet(DOMAIN overlay.edges)
  BY <1>1, FS_Interval
<1>3. ASSUME NEW S \in SUBSET (DOMAIN overlay.edges)
      PROVE  Cardinality(S) \in Nat
  BY <1>2, FS_Subset, FS_CardinalityType
<1>4. /\ Cardinality({i \in DOMAIN overlay.edges : overlay.edges[i].source = id}) \in Nat
      /\ Cardinality({i \in DOMAIN overlay.edges : overlay.edges[i].target = id}) \in Nat
  BY <1>3
<1> QED
  BY <1>4 DEF OverlayDegree

LEMMA BestIsBest ==
  ASSUME NEW overlay \in GraphFiles, NEW rest \in SUBSET (DOMAIN overlay.nodes), rest # {}
  PROVE  /\ Best(overlay, rest) \in rest
         /\ \A j \in rest : DegreeOf(overlay, Best(overlay, rest)) >= DegreeOf(overlay, j)
<1> DEFINE N == Len(overlay.nodes)
           f == [i \in 1..N |-> IF i \in rest THEN DegreeOf(overlay, i) ELSE -1]
           Degrees == {DegreeOf(overlay, i) : i \in rest}
           most == Max(Degrees)
           S == {i \in rest : DegreeOf(overlay, i) = most}
<1>1. N \in Nat /\ DOMAIN overlay.nodes = 1..N
  BY LenProperties DEF GraphFiles
<1>2. \A i \in rest : DegreeOf(overlay, i) \in Nat
  BY DegreeIsNat DEF DegreeOf
<1>3. N > 0 /\ f \in [1..N -> Int]
  BY <1>1, <1>2
<1>4. PICK i \in 1..N : \A j \in 1..N : f[i] >= f[j]
  <2> HIDE DEF f, N
  <2> QED
    BY <1>1, <1>3, GreatestExists
<1>5. i \in rest /\ \A j \in rest : DegreeOf(overlay, i) >= DegreeOf(overlay, j)
  <2>1. PICK x : x \in rest
    OBVIOUS
  <2>2. x \in 1..N /\ f[x] \in Nat
    BY <1>1, <1>2, <2>1
  <2>3. i \in rest
    <3>1. f[i] >= f[x]
      BY <1>4, <2>2
    <3>2. i \notin rest => f[i] = -1
      OBVIOUS
    <3> QED
      BY <2>2, <3>1, <3>2
  <2>4. ASSUME NEW j \in rest
        PROVE  DegreeOf(overlay, i) >= DegreeOf(overlay, j)
    <3>1. j \in 1..N /\ f[j] = DegreeOf(overlay, j) /\ f[i] = DegreeOf(overlay, i)
      BY <1>1, <2>3
    <3> QED
      BY <1>4, <3>1
  <2> QED
    BY <2>3, <2>4
<1>6. most \in Degrees /\ \A y \in Degrees : most >= y
  <2>1. \E x \in Degrees : \A y \in Degrees : x >= y
    BY <1>5
  <2> HIDE DEF Degrees
  <2> QED
    BY <2>1 DEF Max
<1>7. S # {} /\ S \in SUBSET (1..N)
  <2> HIDE DEF most
  <2> QED
    BY <1>1, <1>6
<1>8. Min(S) \in S
  <2> HIDE DEF S, N
  <2> QED
    BY <1>1, <1>7, MinOfSome
<1>9. Best(overlay, rest) = Min(S)
  BY DEF Best
<1> QED
  <2> HIDE DEF most
  <2> QED
    BY <1>6, <1>8, <1>9

LEMMA MatchIsOfBase ==
  ASSUME NEW base \in GraphFiles, NEW path
  PROVE  MatchBaseNode(base, path) \in 0..Len(base.nodes)
<1> DEFINE candidates == {i \in DOMAIN base.nodes :
               <<base.nodes[i].id, path>> \in Matching \/ <<base.nodes[i].file, path>> \in Matching}
           titled == {i \in candidates : base.nodes[i].label \in Titles[path]}
<1>1. Len(base.nodes) \in Nat /\ DOMAIN base.nodes = 1..Len(base.nodes)
  BY LenProperties DEF GraphFiles
<1>2. candidates \in SUBSET (1..Len(base.nodes)) /\ titled \in SUBSET (1..Len(base.nodes))
  BY <1>1
<1>3. MatchBaseNode(base, path) =
        IF titled # {} THEN Min(titled) ELSE IF candidates # {} THEN Min(candidates) ELSE 0
  BY DEF MatchBaseNode
<1> HIDE DEF candidates, titled
<1>4. titled # {} => Min(titled) \in 1..Len(base.nodes)
  BY <1>1, <1>2, MinOfSome
<1>5. candidates # {} => Min(candidates) \in 1..Len(base.nodes)
  BY <1>1, <1>2, MinOfSome
<1> QED
  BY <1>1, <1>3, <1>4, <1>5

LEMMA OffsetIsAbove ==
  ASSUME NEW base \in GraphFiles
  PROVE  /\ CommunityOffset(base) \in Int
         /\ \A i \in DOMAIN base.nodes : base.nodes[i].community < CommunityOffset(base)
<1> DEFINE N == Len(base.nodes)
           f == [i \in 1..N |-> base.nodes[i].community]
           C == {base.nodes[i].community : i \in DOMAIN base.nodes}
<1>1. N \in Nat /\ DOMAIN base.nodes = 1..N /\ \A i \in 1..N : base.nodes[i] \in GraphNodes
  BY LenProperties, ElementOfSeq DEF GraphFiles
<1>2. \A i \in 1..N : base.nodes[i].community \in Int
  BY <1>1 DEF GraphNodes
<1>3. CASE base.nodes = <<>>
  BY <1>1, <1>3 DEF CommunityOffset
<1>4. CASE base.nodes # <<>>
  <2>1. N > 0 /\ f \in [1..N -> Int]
    <3>1. N # 0
      BY <1>4, EmptySeq DEF GraphFiles
    <3> QED
      BY <1>1, <1>2, <3>1
  <2>2. PICK i \in 1..N : \A j \in 1..N : f[i] >= f[j]
    <3> HIDE DEF f, N
    <3> QED
      BY <1>1, <2>1, GreatestExists
  <2>3. \E x \in C : \A y \in C : x >= y
    BY <1>1, <2>2
  <2>4. Max(C) \in C /\ \A y \in C : Max(C) >= y
    <3> HIDE DEF C
    <3> QED
      BY <2>3 DEF Max
  <2>5. CommunityOffset(base) = Max(C) + 1
    BY <1>4 DEF CommunityOffset
  <2>6. Max(C) \in Int /\ \A i2 \in 1..N : Max(C) >= base.nodes[i2].community
    <3> DEFINE most == Max(C)
    <3>1. most \in C /\ \A y \in C : most >= y
      BY <2>4
    <3> HIDE DEF most
    <3>2. most \in Int /\ \A i2 \in 1..N : most >= base.nodes[i2].community
      BY <1>1, <1>2, <3>1
    <3> QED
      BY <3>2 DEF most
  <2> DEFINE most == Max(C)
  <2>7. CommunityOffset(base) = most + 1 /\ most \in Int /\ \A i2 \in 1..N : most >= base.nodes[i2].community
    BY <2>5, <2>6
  <2> HIDE DEF most
  <2> QED
    BY <1>1, <1>2, <2>7
<1> QED
  BY <1>3, <1>4

\* What the matches alone give is a renaming to nodes of the base.
LEMMA MatchesRename ==
  ASSUME NEW base \in GraphFiles, NEW overlay \in GraphFiles
  PROVE  /\ MatchedIds(base, overlay) \in Renamings
         /\ \A id \in DOMAIN MatchedIds(base, overlay) : MatchedIds(base, overlay)[id] \in Ids(base.nodes)
<1> DEFINE N == Len(overlay.nodes)
           matched == DOMAIN overlay.nodes \ Unmatched(base, overlay)
           Bearer(id) == Max({i \in matched : overlay.nodes[i].id = id})
           ids == {overlay.nodes[i].id : i \in matched}
           node(id) == base.nodes[MatchBaseNode(base, Path(overlay.nodes[Bearer(id)]))].id
<1>1. N \in Nat /\ DOMAIN overlay.nodes = 1..N /\ \A i \in 1..N : overlay.nodes[i] \in GraphNodes
  BY LenProperties, ElementOfSeq DEF GraphFiles
<1>2. /\ Len(base.nodes) \in Nat /\ DOMAIN base.nodes = 1..Len(base.nodes)
      /\ \A i \in 1..Len(base.nodes) : base.nodes[i] \in GraphNodes
  BY LenProperties, ElementOfSeq DEF GraphFiles
<1>3. MatchedIds(base, overlay) = [id \in ids |-> node(id)]
  BY DEF MatchedIds
<1>4. ids \in SUBSET STRING
  BY <1>1 DEF GraphNodes
<1>5. ASSUME NEW id \in ids
      PROVE  node(id) \in STRING /\ node(id) \in Ids(base.nodes)
  <2> DEFINE S == {i \in matched : overlay.nodes[i].id = id}
             m == Max(S)
             match == MatchBaseNode(base, Path(overlay.nodes[m]))
  <2>1. S \in SUBSET (1..N) /\ S # {}
    BY <1>1
  <2>2. m \in S
    <3> HIDE DEF S, N
    <3> QED
      BY <1>1, <2>1, MaxOfSome
  <2>3. m \in DOMAIN overlay.nodes /\ m \notin Unmatched(base, overlay)
    <3> HIDE DEF m
    <3> QED
      BY <2>2
  <2>4. match \in 0..Len(base.nodes) /\ match # 0
    <3> HIDE DEF m
    <3> QED
      BY <2>3, MatchIsOfBase DEF Unmatched
  <2>5. match \in 1..Len(base.nodes) /\ node(id) = base.nodes[match].id
    <3> HIDE DEF match
    <3>1. match \in 1..Len(base.nodes)
      BY <1>2, <2>4
    <3> QED
      BY <3>1 DEF match
  <2> HIDE DEF match, node
  <2> QED
    BY <1>2, <2>5 DEF GraphNodes, Ids
<1> HIDE DEF ids, node
<1>6. [id \in ids |-> node(id)] \in [ids -> STRING]
  BY <1>5
<1> QED
  BY <1>3, <1>4, <1>5, <1>6 DEF Renamings

LEMMA UnmatchedIsFinite ==
  ASSUME NEW base \in GraphFiles, NEW overlay \in GraphFiles
  PROVE  /\ IsFiniteSet(Unmatched(base, overlay)) /\ Cardinality(Unmatched(base, overlay)) \in Nat
         /\ \A i \in Unmatched(base, overlay) : i \in DOMAIN overlay.nodes /\ overlay.nodes[i] \in GraphNodes
<1>1. /\ Len(overlay.nodes) \in Nat /\ DOMAIN overlay.nodes = 1..Len(overlay.nodes)
      /\ \A i \in 1..Len(overlay.nodes) : overlay.nodes[i] \in GraphNodes
  BY LenProperties, ElementOfSeq DEF GraphFiles
<1>2. Unmatched(base, overlay) \in SUBSET (1..Len(overlay.nodes))
  BY <1>1 DEF Unmatched
<1>3. IsFiniteSet(1..Len(overlay.nodes))
  BY <1>1, FS_Interval
<1>4. IsFiniteSet(Unmatched(base, overlay))
  BY <1>2, <1>3, FS_Subset
<1> QED
  BY <1>1, <1>2, <1>4, FS_CardinalityType

\* Before the first.
LEMMA FirstStage ==
  ASSUME NEW base \in GraphFiles, NEW overlay \in GraphFiles, NEW maxAdded \in Nat
  PROVE  [rest |-> Unmatched(base, overlay), nodes |-> base.nodes, ids |-> MatchedIds(base, overlay)]
           \in Stage(base, overlay, maxAdded, 0)
<1> DEFINE s == [rest |-> Unmatched(base, overlay), nodes |-> base.nodes, ids |-> MatchedIds(base, overlay)]
<1>1. s.rest = Unmatched(base, overlay) /\ s.nodes = base.nodes /\ s.ids = MatchedIds(base, overlay)
  OBVIOUS
<1>2. base.nodes \in Seq(GraphNodes) /\ Len(base.nodes) \in Nat
  BY LenProperties DEF GraphFiles
<1>3. s \in [rest : SUBSET Unmatched(base, overlay), nodes : Seq(GraphNodes), ids : Renamings]
  BY <1>2, MatchesRename
<1>5. Cardinality(s.rest) = Cardinality(Unmatched(base, overlay)) - 0
  <2>1. Cardinality(Unmatched(base, overlay)) \in Nat
    BY UnmatchedIsFinite
  <2> QED
    BY <1>1, <2>1
<1>6. Beyond(base, s.nodes) = {}
  BY <1>1, <1>2 DEF Beyond
<1>7. Len(s.nodes) \in Len(base.nodes)..Len(base.nodes) + maxAdded
  BY <1>1, <1>2
<1>8. \A id \in DOMAIN s.ids : s.ids[id] \in Ids(s.nodes)
  BY <1>1, MatchesRename
<1>9. Unmatched(base, overlay) \ s.rest = {}
  BY <1>1
<1> HIDE DEF s
<1> QED
  BY <1>1, <1>3, <1>5, <1>6, <1>7, <1>8, <1>9 DEF Stage, AddedFit, BestCame, s

LEMMA NextStage ==
  ASSUME NEW base \in GraphFiles, NEW overlay \in OverlayFiles, NEW maxAdded \in Nat,
         NEW n \in 1..Cardinality(Unmatched(base, overlay)), NEW s \in Stage(base, overlay, maxAdded, n - 1)
  PROVE  AddNode(base, overlay, maxAdded, s) \in Stage(base, overlay, maxAdded, n)
<1> DEFINE U == Unmatched(base, overlay)
           B == Len(base.nodes)
           k == Best(overlay, s.rest)
           node == overlay.nodes[k]
           added == [node EXCEPT !.community = CommunityOffset(base) + @]
           left == s.rest \ {k}
           t == AddNode(base, overlay, maxAdded, s)
<1>1. /\ s = [rest |-> s.rest, nodes |-> s.nodes, ids |-> s.ids]
      /\ s.rest \in SUBSET U /\ s.nodes \in Seq(GraphNodes) /\ s.ids \in Renamings
      /\ Cardinality(s.rest) = Cardinality(U) - (n - 1)
      /\ Len(s.nodes) \in B..B + maxAdded /\ \A i \in 1..B : s.nodes[i] = base.nodes[i]
      /\ AddedFit(base, overlay, s) /\ BestCame(base, overlay, maxAdded, s)
      /\ \A id \in DOMAIN s.ids : s.ids[id] \in Ids(s.nodes)
  BY DEF Stage
<1>2. overlay \in GraphFiles /\ \A i \in DOMAIN overlay.nodes : overlay.nodes[i].community \in Nat
  BY DEF OverlayFiles
<1>3. /\ IsFiniteSet(U) /\ Cardinality(U) \in Nat /\ B \in Nat /\ Len(s.nodes) \in Nat
      /\ DOMAIN s.nodes = 1..Len(s.nodes) /\ DOMAIN base.nodes = 1..B
      /\ \A i \in U : i \in DOMAIN overlay.nodes /\ overlay.nodes[i] \in GraphNodes
      /\ \A i \in 1..Len(s.nodes) : s.nodes[i] \in GraphNodes
  <2>1. base.nodes \in Seq(GraphNodes)
    BY DEF GraphFiles
  <2> QED
    BY <1>1, <1>2, <2>1, UnmatchedIsFinite, LenProperties, ElementOfSeq
<1>0. Len(s.nodes) \in Nat /\ B \in Nat /\ maxAdded \in Nat
  BY <1>3
<1>4. IsFiniteSet(s.rest) /\ s.rest # {}
  <2>1. IsFiniteSet(s.rest)
    BY <1>1, <1>3, FS_Subset
  <2>2. Cardinality(s.rest) # 0
    BY <1>1, <1>3
  <2> QED
    BY <2>1, <2>2, FS_EmptySet
<1>5. k \in s.rest /\ \A j \in s.rest : DegreeOf(overlay, k) >= DegreeOf(overlay, j)
  BY <1>1, <1>2, <1>3, <1>4, BestIsBest
<1>6. Cardinality(left) = Cardinality(U) - n /\ left \in SUBSET U
  <2>1. Cardinality(s.rest \ {k}) = Cardinality(s.rest) - 1
    <3> HIDE DEF k
    <3> QED
      BY <1>4, <1>5, FS_RemoveElement
  <2> HIDE DEF k
  <2>2. Cardinality(left) = Cardinality(U) - n
    BY <1>1, <1>3, <2>1
  <2> QED
    BY <1>1, <2>2
<1>7. k \in U /\ node \in GraphNodes /\ node.community \in Nat /\ U \ left = (U \ s.rest) \cup {k}
  BY <1>1, <1>2, <1>3, <1>5
<1>8. CASE Len(s.nodes) - B >= maxAdded \/ node.id \in Ids(s.nodes)
  <2>1. t = [rest |-> left, nodes |-> s.nodes, ids |-> s.ids]
    BY <1>1, <1>8 DEF AddNode
  <2>2. t.rest = left /\ t.nodes = s.nodes /\ t.ids = s.ids
    BY <2>1
  <2>3. AddedFit(base, overlay, t)
    BY <1>1, <1>7, <2>2 DEF AddedFit
  <2>4. BestCame(base, overlay, maxAdded, t)
    <3>1. ASSUME NEW m \in U \ s.rest
          PROVE  /\ \A j \in left : DegreeOf(overlay, m) >= DegreeOf(overlay, j)
                 /\ \/ overlay.nodes[m].id \in Ids(s.nodes)
                    \/ /\ Len(s.nodes) = B + maxAdded
                       /\ \A i \in Beyond(base, s.nodes) :
                            OverlayDegree(overlay, s.nodes[i].id) >= DegreeOf(overlay, m)
      BY <1>1 DEF BestCame
    <3>2. node.id \in Ids(s.nodes)
          \/ /\ Len(s.nodes) = B + maxAdded
             /\ \A i \in Beyond(base, s.nodes) : OverlayDegree(overlay, s.nodes[i].id) >= DegreeOf(overlay, k)
      <4> SUFFICES ASSUME node.id \notin Ids(s.nodes)
                   PROVE  /\ Len(s.nodes) = B + maxAdded
                          /\ \A i \in Beyond(base, s.nodes) :
                               OverlayDegree(overlay, s.nodes[i].id) >= DegreeOf(overlay, k)
        OBVIOUS
      <4>1. Len(s.nodes) = B + maxAdded
        BY <1>1, <1>3, <1>8
      <4>2. ASSUME NEW i \in Beyond(base, s.nodes)
            PROVE  OverlayDegree(overlay, s.nodes[i].id) >= DegreeOf(overlay, k)
        <5>1. PICK m \in U \ s.rest : s.nodes[i].id = overlay.nodes[m].id
          BY <1>1 DEF AddedFit
        <5>2. DegreeOf(overlay, m) >= DegreeOf(overlay, k)
          BY <1>1, <1>5 DEF BestCame
        <5> QED
          BY <5>1, <5>2 DEF DegreeOf
      <4> QED
        BY <4>1, <4>2
    <3>3. \A j \in left : DegreeOf(overlay, k) >= DegreeOf(overlay, j)
      BY <1>5
    <3> HIDE DEF k, left, t
    <3> QED
      BY <1>7, <2>2, <3>1, <3>2, <3>3 DEF BestCame
  <2>5. t \in [rest : SUBSET U, nodes : Seq(GraphNodes), ids : Renamings]
    BY <1>1, <1>6, <2>1
  <2>6. t \in Stage(base, overlay, maxAdded, n)
    <3> HIDE DEF t, left
    <3> QED
      BY <1>1, <1>6, <2>2, <2>3, <2>4, <2>5 DEF Stage
  <2> QED
    BY <2>6
<1>9. CASE Len(s.nodes) - B < maxAdded /\ node.id \notin Ids(s.nodes)
  <2>1. t = [rest |-> left, nodes |-> Append(s.nodes, added), ids |-> With(s.ids, node.id, node.id)]
    BY <1>1, <1>3, <1>9 DEF AddNode
  <2>2. t.rest = left /\ t.nodes = Append(s.nodes, added) /\ t.ids = With(s.ids, node.id, node.id)
    BY <2>1
  <2>3. added \in GraphNodes /\ added.id = node.id /\ added.community >= CommunityOffset(base)
    <3>1. CommunityOffset(base) \in Int
      BY OffsetIsAbove
    <3> HIDE DEF node
    <3> QED
      BY <1>7, <3>1 DEF GraphNodes
  <2>4. /\ t.nodes \in Seq(GraphNodes) /\ Len(t.nodes) = Len(s.nodes) + 1
        /\ \A i \in 1..Len(s.nodes) : t.nodes[i] = s.nodes[i]
        /\ t.nodes[Len(s.nodes) + 1] = added /\ DOMAIN t.nodes = 1..Len(s.nodes) + 1
    <3> HIDE DEF added, t, left
    <3> QED
      BY <1>1, <1>3, <2>2, <2>3, AppendProperties
  <2>5. Ids(t.nodes) = Ids(s.nodes) \cup {node.id}
    <3> HIDE DEF added, t, node
    <3>1. \A i \in 1..Len(s.nodes) + 1 : i \in 1..Len(s.nodes) \/ i = Len(s.nodes) + 1
      BY <1>0
    <3>2. 1..Len(s.nodes) \subseteq 1..Len(s.nodes) + 1 /\ Len(s.nodes) + 1 \in 1..Len(s.nodes) + 1
      BY <1>0
    <3>3. Ids(t.nodes) = {t.nodes[i].id : i \in 1..Len(s.nodes) + 1}
      BY <2>4 DEF Ids
    <3>4. Ids(s.nodes) = {s.nodes[i].id : i \in 1..Len(s.nodes)}
      BY <1>3 DEF Ids
    <3>5. \A i \in 1..Len(s.nodes) + 1 : t.nodes[i].id \in Ids(s.nodes) \cup {node.id}
      <4> TAKE i \in 1..Len(s.nodes) + 1
      <4>1. CASE i \in 1..Len(s.nodes)
        BY <2>4, <3>4, <4>1
      <4>2. CASE i = Len(s.nodes) + 1
        BY <2>3, <2>4, <4>2
      <4> QED
        BY <3>1, <4>1, <4>2
    <3>6. \A i \in 1..Len(s.nodes) : s.nodes[i].id \in Ids(t.nodes)
      <4> TAKE i \in 1..Len(s.nodes)
      <4>1. i \in 1..Len(s.nodes) + 1 /\ t.nodes[i] = s.nodes[i]
        BY <2>4, <3>2
      <4> QED
        BY <3>3, <4>1
    <3>7. node.id \in Ids(t.nodes)
      BY <2>3, <2>4, <3>2, <3>3
    <3> QED
      BY <3>3, <3>4, <3>5, <3>6, <3>7
  <2>6. Beyond(base, t.nodes) = Beyond(base, s.nodes) \cup {Len(s.nodes) + 1}
    <3> HIDE DEF t
    <3> QED
      BY <1>1, <1>3, <2>4 DEF Beyond
  <2>7. Ids(base.nodes) \subseteq Ids(s.nodes) /\ \A i \in Beyond(base, s.nodes) : s.nodes[i].id \in Ids(s.nodes)
    <3>1. \A i \in 1..B : i \in 1..Len(s.nodes)
      BY <1>0, <1>1
    <3>2. \A i \in Beyond(base, s.nodes) : i \in 1..Len(s.nodes)
      BY <1>0 DEF Beyond
    <3>3. \A i \in 1..Len(s.nodes) : s.nodes[i].id \in Ids(s.nodes)
      BY <1>3 DEF Ids
    <3>4. \A x \in Ids(base.nodes) : \E i \in 1..B : x = base.nodes[i].id
      BY <1>3 DEF Ids
    <3>5. \A i \in 1..B : s.nodes[i] = base.nodes[i]
      BY <1>1
    <3>6. ASSUME NEW x \in Ids(base.nodes)
          PROVE  x \in Ids(s.nodes)
      <4>1. PICK i \in 1..B : x = base.nodes[i].id
        BY <3>4
      <4>2. i \in 1..Len(s.nodes) /\ s.nodes[i] = base.nodes[i]
        BY <3>1, <3>5
      <4> QED
        BY <3>3, <4>1, <4>2
    <3> QED
      BY <3>2, <3>3, <3>6
  <2>8. AddedFit(base, overlay, t)
    <3>1. ASSUME NEW i \in Beyond(base, s.nodes)
          PROVE  /\ t.nodes[i].id = s.nodes[i].id /\ t.nodes[i].community = s.nodes[i].community
                 /\ t.nodes[i].id # node.id
      <4>1. i \in 1..Len(s.nodes)
        BY <1>3 DEF Beyond
      <4> HIDE DEF t, node
      <4> QED
        BY <1>9, <2>4, <2>7, <4>1
    <3>2. ASSUME NEW i \in Beyond(base, s.nodes)
          PROVE  /\ t.nodes[i].id \notin Ids(base.nodes) /\ t.nodes[i].community >= CommunityOffset(base)
                 /\ \E m \in U \ left : t.nodes[i].id = overlay.nodes[m].id
                 /\ \A j \in Beyond(base, t.nodes) \ {i} : t.nodes[j].id # t.nodes[i].id
      <4>1. /\ s.nodes[i].id \notin Ids(base.nodes) /\ s.nodes[i].community >= CommunityOffset(base)
            /\ \E m \in U \ s.rest : s.nodes[i].id = overlay.nodes[m].id
            /\ \A j \in Beyond(base, s.nodes) \ {i} : s.nodes[j].id # s.nodes[i].id
        BY <1>1 DEF AddedFit
      <4>2. \A j \in Beyond(base, t.nodes) \ {i} : t.nodes[j].id # t.nodes[i].id
        <5> TAKE j \in Beyond(base, t.nodes) \ {i}
        <5>1. CASE j \in Beyond(base, s.nodes)
          <6> HIDE DEF t
          <6> QED
            BY <3>1, <4>1, <5>1
        <5>2. CASE j = Len(s.nodes) + 1
          <6> HIDE DEF t, node, added
          <6> QED
            BY <2>3, <2>4, <3>1, <5>2
        <5> HIDE DEF t
        <5> QED
          BY <2>6, <5>1, <5>2
      <4> HIDE DEF t, left
      <4> QED
        BY <1>7, <3>1, <4>1, <4>2
    <3>3. LET i == Len(s.nodes) + 1
          IN  /\ t.nodes[i].id \notin Ids(base.nodes) /\ t.nodes[i].community >= CommunityOffset(base)
              /\ \E m \in U \ left : t.nodes[i].id = overlay.nodes[m].id
              /\ \A j \in Beyond(base, t.nodes) \ {i} : t.nodes[j].id # t.nodes[i].id
      <4>1. \A j \in Beyond(base, t.nodes) \ {Len(s.nodes) + 1} : t.nodes[j].id # node.id
        <5> HIDE DEF t, node
        <5> QED
          BY <2>6, <3>1
      <4> HIDE DEF t, left, added, k
      <4> QED
        BY <1>7, <1>9, <2>3, <2>4, <2>7, <4>1
    <3> HIDE DEF t, left
    <3> QED
      BY <2>2, <2>6, <3>2, <3>3 DEF AddedFit
  <2>9. BestCame(base, overlay, maxAdded, t)
    <3>1. ASSUME NEW m \in U \ s.rest
          PROVE  /\ \A j \in left : DegreeOf(overlay, m) >= DegreeOf(overlay, j)
                 /\ overlay.nodes[m].id \in Ids(s.nodes)
      <4>1. Len(s.nodes) # B + maxAdded
        <5> DEFINE l == Len(s.nodes)
        <5>1. l \in Nat /\ B \in Nat /\ l - B < maxAdded
          BY <1>0, <1>9
        <5>2. l # B + maxAdded
          <6> HIDE DEF l, B
          <6> QED
            BY <5>1
        <5> QED
          BY <5>2
      <4> QED
        BY <1>1, <4>1 DEF BestCame
    <3>2. \A j \in left : DegreeOf(overlay, k) >= DegreeOf(overlay, j)
      BY <1>5
    <3> HIDE DEF k, left, t
    <3> QED
      BY <1>7, <2>2, <2>5, <3>1, <3>2 DEF BestCame
  <2>10. t.ids \in Renamings /\ \A id \in DOMAIN t.ids : t.ids[id] \in Ids(t.nodes)
    <3>1. DOMAIN s.ids \in SUBSET STRING /\ \A id \in DOMAIN s.ids : s.ids[id] \in STRING
      BY <1>1 DEF Renamings
    <3>2. node.id \in STRING
      <4> HIDE DEF node
      <4> QED
        BY <1>7 DEF GraphNodes
    <3> DEFINE D == DOMAIN s.ids \cup {node.id}
    <3>3. t.ids = [id \in D |-> IF id = node.id THEN node.id ELSE s.ids[id]]
      BY <2>2 DEF With
    <3> HIDE DEF t, node
    <3>4. t.ids \in [D -> STRING] /\ D \in SUBSET STRING
      BY <3>1, <3>2, <3>3
    <3>5. t.ids \in Renamings
      <4> HIDE DEF D
      <4> QED
        BY <3>4 DEF Renamings
    <3>6. \A id \in DOMAIN t.ids : t.ids[id] \in Ids(t.nodes)
      BY <1>1, <2>5, <3>3
    <3> QED
      BY <3>5, <3>6
  <2>11. /\ t.rest \in SUBSET U /\ Cardinality(t.rest) = Cardinality(U) - n
         /\ Len(t.nodes) \in B..B + maxAdded /\ \A i \in 1..B : t.nodes[i] = base.nodes[i]
    <3> HIDE DEF t, left
    <3> QED
      BY <1>1, <1>3, <1>6, <1>9, <2>2, <2>4
  <2>12. t \in [rest : SUBSET U, nodes : Seq(GraphNodes), ids : Renamings]
    <3>1. t = [rest |-> t.rest, nodes |-> t.nodes, ids |-> t.ids]
      BY <2>1, <2>2
    <3> HIDE DEF t
    <3> QED
      BY <2>4, <2>10, <2>11, <3>1
  <2>13. t \in Stage(base, overlay, maxAdded, n)
    <3> HIDE DEF t
    <3> QED
      BY <2>8, <2>9, <2>10, <2>11, <2>12 DEF Stage
  <2> QED
    BY <2>13
<1> QED
  <2>1. Len(s.nodes) - B >= maxAdded \/ Len(s.nodes) - B < maxAdded
    <3> DEFINE l == Len(s.nodes)
    <3>1. l \in Nat /\ B \in Nat
      BY <1>0
    <3> HIDE DEF l, B
    <3> QED
      BY <3>1
  <2> QED
    BY <1>8, <1>9, <2>1

\* Node after node: when all had their turn.
LEMMA NodesAreMerged ==
  ASSUME NEW base \in GraphFiles, NEW overlay \in OverlayFiles, NEW maxAdded \in Nat
  PROVE  MergeNodes(base, overlay, maxAdded)
           \in Stage(base, overlay, maxAdded, Cardinality(Unmatched(base, overlay)))
<1> DEFINE N == Cardinality(Unmatched(base, overlay))
           first == [rest |-> Unmatched(base, overlay), nodes |-> base.nodes, ids |-> MatchedIds(base, overlay)]
           T == [n \in 0..N |-> Stage(base, overlay, maxAdded, n)]
           U == UNION {T[n] : n \in 0..N}
           step == [p \in U \X (1..N) |-> AddNode(base, overlay, maxAdded, p[1])]
           Def(h) == [n \in 0..N |-> IF n = 0 THEN first ELSE AddNode(base, overlay, maxAdded, h[n - 1])]
           after == CHOOSE h : h = Def(h)
<1>1. N \in Nat /\ overlay \in GraphFiles
  <2>1. overlay \in GraphFiles
    BY DEF OverlayFiles
  <2> QED
    BY <2>1, UnmatchedIsFinite
<1>2. first \in T[0]
  <2> HIDE DEF first
  <2>1. first \in Stage(base, overlay, maxAdded, 0)
    BY <1>1, FirstStage DEF first
  <2> QED
    BY <1>1, <2>1
<1>3. \A n \in 1..N : \A s \in T[n - 1] : AddNode(base, overlay, maxAdded, s) \in T[n]
  <2> TAKE n \in 1..N
  <2>1. T[n - 1] = Stage(base, overlay, maxAdded, n - 1) /\ T[n] = Stage(base, overlay, maxAdded, n)
    BY <1>1
  <2> HIDE DEF T
  <2> QED
    BY <2>1, NextStage
<1>4. \A n \in 1..N : \A s \in T[n - 1] : step[<<s, n>>] = AddNode(base, overlay, maxAdded, s)
  <2> HIDE DEF T
  <2> TAKE n \in 1..N
  <2>1. n - 1 \in 0..N
    BY <1>1
  <2> QED
    BY <2>1
<1>5. \A n \in 1..N : \A s \in T[n - 1] : step[<<s, n>>] \in T[n]
  <2> HIDE DEF T, step
  <2> QED
    BY <1>3, <1>4
<1>6. PICK f : /\ f = [n \in 0..N |-> f[n]]
               /\ Takes(f, first, step, N) /\ \A n \in 0..N : f[n] \in T[n]
  <2> HIDE DEF T, step, first, N
  <2> QED
    BY <1>1, <1>2, <1>5, StagesAreTaken
<1>7. f = Def(f)
  <2> HIDE DEF T, step, first, N
  <2>1. \A n \in 1..N : f[n] = AddNode(base, overlay, maxAdded, f[n - 1])
    <3> TAKE n \in 1..N
    <3>1. f[n - 1] \in T[n - 1]
      BY <1>1, <1>6
    <3> QED
      BY <1>4, <1>6, <3>1 DEF Takes
  <2>2. f[0] = first
    BY <1>6 DEF Takes
  <2> QED
    BY <1>1, <1>6, <2>1, <2>2
<1>8. after = Def(after)
  <2> HIDE DEF Def
  <2> QED
    BY <1>7
<1> HIDE DEF after
<1>9. MergeNodes(base, overlay, maxAdded) = after[N]
  BY DEF MergeNodes, after
<1> DEFINE P == {n \in 0..N : after[n] \in T[n]}
<1>10. 0 \in P
  <2> HIDE DEF T, N, first
  <2> QED
    BY <1>1, <1>2, <1>8
<1>11. ASSUME NEW n \in 1..N, n - 1 \in P
       PROVE  n \in P
  <2> HIDE DEF T, N, first
  <2>1. after[n] = AddNode(base, overlay, maxAdded, after[n - 1])
    BY <1>1, <1>8
  <2>2. after[n - 1] \in T[n - 1]
    BY <1>11
  <2> QED
    BY <1>1, <1>3, <2>1, <2>2
<1>12. 0..N \subseteq P
  <2> HIDE DEF P, N
  <2> QED
    BY <1>1, <1>10, <1>11, UpToTheEnd
<1>13. N \in P
  <2>1. N \in 0..N
    <3> HIDE DEF N
    <3> QED
      BY <1>1
  <2> HIDE DEF P, N
  <2> QED
    BY <1>12, <2>1
<1> QED
  BY <1>9, <1>13

-----------------------------------------------------------------------------
\* A stage of the edges: new ones join two nodes that are there and had no edge.
EdgesFit(base, nodes, edges) ==
  /\ edges \in Seq(GraphEdges) /\ Len(edges) >= Len(base.edges)
  /\ \A i \in 1..Len(base.edges) : edges[i] = base.edges[i]
  /\ \A i \in Len(base.edges) + 1..Len(edges) :
       /\ edges[i].source # edges[i].target /\ Pair(edges[i]) \subseteq Ids(nodes)
       /\ \A j \in DOMAIN edges \ {i} : Pair(edges[i]) # Pair(edges[j])

LEMMA EdgeIsMerged ==
  ASSUME NEW base \in GraphFiles, NEW nodes, NEW ids \in Renamings,
         \A id \in DOMAIN ids : ids[id] \in Ids(nodes),
         NEW edges, EdgesFit(base, nodes, edges), NEW e
  PROVE  EdgesFit(base, nodes, MergeEdge(ids, edges, e))
<1> DEFINE edge == [source |-> ids[e.source], target |-> ids[e.target]]
           L == Len(edges)
           B == Len(base.edges)
<1>1. CASE ~(/\ {e.source, e.target} \subseteq DOMAIN ids
             /\ edge.source # edge.target /\ Pair(edge) \notin Pairs(edges))
  BY <1>1 DEF MergeEdge
<1>2. CASE /\ {e.source, e.target} \subseteq DOMAIN ids
           /\ edge.source # edge.target /\ Pair(edge) \notin Pairs(edges)
  <2> DEFINE after == Append(edges, edge)
  <2>1. MergeEdge(ids, edges, e) = after
    BY <1>2 DEF MergeEdge
  <2>2. ids[e.source] \in STRING /\ ids[e.target] \in STRING
    BY <1>2 DEF Renamings
  <2>3. /\ edge \in GraphEdges /\ edge.source # edge.target
        /\ Pair(edge) = {edge.source, edge.target} /\ Pair(edge) \subseteq Ids(nodes)
    BY <1>2, <2>2 DEF GraphEdges, Pair
  <2> HIDE DEF edge
  <2>4. edges \in Seq(GraphEdges) /\ L \in Nat /\ DOMAIN edges = 1..L /\ B \in Nat /\ L >= B
    <3>1. base.edges \in Seq(GraphEdges)
      BY DEF GraphFiles
    <3> QED
      BY <3>1, LenProperties DEF EdgesFit
  <2>5. /\ after \in Seq(GraphEdges) /\ Len(after) = L + 1 /\ DOMAIN after = 1..L + 1
        /\ \A i \in 1..L : after[i] = edges[i]
        /\ after[L + 1] = edge
    BY <2>3, <2>4, AppendProperties
  <2> HIDE DEF after
  <2>6. \A i \in 1..L : Pair(edges[i]) # Pair(edge)
    BY <1>2, <2>4 DEF Pairs
  <2>7. ASSUME NEW i \in B + 1..L + 1
        PROVE  /\ after[i].source # after[i].target /\ Pair(after[i]) \subseteq Ids(nodes)
               /\ \A j \in DOMAIN after \ {i} : Pair(after[i]) # Pair(after[j])
    <3>1. CASE i = L + 1
      <4>1. \A j \in DOMAIN after \ {i} : j \in 1..L
        BY <2>4, <2>5, <3>1
      <4> QED
        BY <2>3, <2>5, <2>6, <3>1, <4>1
    <3>2. CASE i # L + 1
      <4>1. i \in B + 1..L /\ i \in 1..L
        BY <2>4, <3>2
      <4>2. /\ edges[i].source # edges[i].target /\ Pair(edges[i]) \subseteq Ids(nodes)
            /\ \A j \in 1..L \ {i} : Pair(edges[i]) # Pair(edges[j])
        BY <2>4, <4>1 DEF EdgesFit
      <4>3. ASSUME NEW j \in DOMAIN after \ {i}
            PROVE  Pair(after[i]) # Pair(after[j])
        <5>1. CASE j = L + 1
          BY <2>5, <2>6, <4>1, <5>1
        <5>2. CASE j # L + 1
          <6>1. j \in 1..L \ {i}
            BY <2>4, <2>5, <5>2
          <6> QED
            BY <2>5, <4>1, <4>2, <6>1
        <5> QED
          BY <5>1, <5>2
      <4> QED
        BY <2>5, <4>1, <4>2, <4>3
    <3> QED
      BY <3>1, <3>2
  <2>8. \A i \in 1..B : after[i] = base.edges[i]
    <3>1. \A i \in 1..B : i \in 1..L /\ edges[i] = base.edges[i]
      BY <2>4 DEF EdgesFit
    <3> QED
      BY <2>5, <3>1
  <2>9. EdgesFit(base, nodes, after)
    BY <2>4, <2>5, <2>7, <2>8 DEF EdgesFit
  <2> QED
    BY <2>1, <2>9
<1> QED
  BY <1>1, <1>2

LEMMA EdgesAreMerged ==
  ASSUME NEW base \in GraphFiles, NEW overlay \in GraphFiles, NEW nodes, NEW ids \in Renamings,
         \A id \in DOMAIN ids : ids[id] \in Ids(nodes)
  PROVE  EdgesFit(base, nodes, MergeEdges(base, overlay, ids))
<1> DEFINE N == Len(overlay.edges)
           T == {edges \in Seq(GraphEdges) : EdgesFit(base, nodes, edges)}
           step == [p \in T \X (1..N) |-> MergeEdge(ids, p[1], overlay.edges[p[2]])]
           Def(h) == [n \in 0..N |-> IF n = 0 THEN base.edges ELSE MergeEdge(ids, h[n - 1], overlay.edges[n])]
           after == CHOOSE h : h = Def(h)
<1>1. N \in Nat
  BY LenProperties DEF GraphFiles
<1>2. base.edges \in T
  <2>1. base.edges \in Seq(GraphEdges) /\ Len(base.edges) \in Nat
    BY LenProperties DEF GraphFiles
  <2> QED
    BY <2>1 DEF EdgesFit
<1>3. \A s \in T, n \in 1..N : MergeEdge(ids, s, overlay.edges[n]) \in T
  <2> TAKE s \in T, n \in 1..N
  <2>1. EdgesFit(base, nodes, MergeEdge(ids, s, overlay.edges[n]))
    BY EdgeIsMerged
  <2> QED
    BY <2>1 DEF EdgesFit
<1>4. step \in [T \X (1..N) -> T]
  <2> HIDE DEF T, N
  <2> QED
    BY <1>3
<1>5. PICK f \in [0..N -> T] : Takes(f, base.edges, step, N)
  <2> HIDE DEF N, T, step
  <2> QED
    BY <1>1, <1>2, <1>4, StepsAreTaken
<1>6. f = Def(f)
  <2>1. \A n \in 1..N : f[n] = MergeEdge(ids, f[n - 1], overlay.edges[n])
    <3> TAKE n \in 1..N
    <3>1. f[n - 1] \in T
      <4> HIDE DEF T
      <4> QED
        BY <1>1
    <3> HIDE DEF T, N
    <3> QED
      BY <1>5, <3>1 DEF Takes
  <2>2. f[0] = base.edges
    BY <1>5 DEF Takes
  <2> HIDE DEF T, N
  <2> QED
    BY <1>1, <2>1, <2>2
<1>7. after = Def(after)
  <2> HIDE DEF Def
  <2> QED
    BY <1>6
<1> HIDE DEF after
<1>8. MergeEdges(base, overlay, ids) = after[N]
  BY DEF MergeEdges, after
<1> DEFINE P == {n \in 0..N : after[n] \in T}
<1>9. 0 \in P
  <2> HIDE DEF T, N
  <2> QED
    BY <1>1, <1>2, <1>7
<1>10. ASSUME NEW n \in 1..N, n - 1 \in P
       PROVE  n \in P
  <2>1. after[n] = MergeEdge(ids, after[n - 1], overlay.edges[n])
    <3> HIDE DEF N, T
    <3> QED
      BY <1>1, <1>7
  <2>2. after[n - 1] \in T
    BY <1>10
  <2> HIDE DEF N, T
  <2> QED
    BY <1>1, <1>3, <2>1, <2>2
<1>11. 0..N \subseteq P
  <2> HIDE DEF P, N
  <2> QED
    BY <1>1, <1>9, <1>10, UpToTheEnd
<1>12. N \in P
  <2>1. N \in 0..N
    <3> HIDE DEF N
    <3> QED
      BY <1>1
  <2> HIDE DEF P, N
  <2> QED
    BY <1>11, <2>1
<1> QED
  BY <1>8, <1>12

-----------------------------------------------------------------------------

LEMMA UpToCount ==
  ASSUME NEW n \in Nat
  PROVE  IsFiniteSet(1..n) /\ Cardinality(1..n) = n
BY FS_Interval

LEMMA TwoAreTwo ==
  ASSUME NEW x, NEW y, x # y
  PROVE  Cardinality({x, y}) = 2
<1>1. IsFiniteSet({x}) /\ Cardinality({x}) = 1
  BY FS_Singleton
<1>2. y \notin {x} /\ {x} \cup {y} = {x, y}
  OBVIOUS
<1>3. Cardinality({x} \cup {y}) = IF y \in {x} THEN Cardinality({x}) ELSE Cardinality({x}) + 1
  BY <1>1, FS_AddElement
<1> QED
  BY <1>1, <1>2, <1>3

LEMMA WhatFollows ==
  ASSUME NEW S, NEW s \in Seq(S), NEW b \in 0..Len(s)
  PROVE  /\ SubSeq(s, b + 1, Len(s)) \in Seq(S)
         /\ Len(SubSeq(s, b + 1, Len(s))) = Len(s) - b
         /\ \A i \in 1..Len(s) - b : SubSeq(s, b + 1, Len(s))[i] = s[b + i]
<1>1. Len(s) \in Nat /\ \A i \in 1..Len(s) : s[i] \in S
  BY LenProperties, ElementOfSeq
<1> DEFINE n == Len(s)
           m == b + 1
<1>2. m \in Int /\ n \in Int /\ \A i \in m..n : s[i] \in S
  BY <1>1
<1>3. /\ SubSeq(s, m, n) \in Seq(S)
      /\ Len(SubSeq(s, m, n)) = IF m <= n THEN n - m + 1 ELSE 0
      /\ \A i \in 1..n - m + 1 : SubSeq(s, m, n)[i] = s[m + i - 1]
  <2> HIDE DEF m, n
  <2> QED
    BY <1>2, SubSeqProperties
<1>4. n - m + 1 = n - b /\ (IF m <= n THEN n - m + 1 ELSE 0) = n - b
  BY <1>1
<1>5. \A i \in 1..n - b : m + i - 1 = b + i
  BY <1>1
<1> QED
  BY <1>3, <1>4, <1>5

LEMMA MergeKeeps ==
  ASSUME addsNodes \in BOOLEAN, NEW base \in GraphFiles, NEW overlay \in OverlayFiles,
         graph = MergeOverlay(base, overlay, IF addsNodes THEN MaxAddedNodes ELSE 0)
  PROVE  MergeIsSound
<1> DEFINE max == IF addsNodes THEN MaxAddedNodes ELSE 0
           U == Unmatched(base, overlay)
           s == MergeNodes(base, overlay, max)
           B == Len(base.nodes)
           N == Len(graph.nodes)
           E == Len(base.edges)
           M == Len(graph.edges)
           added == SubSeq(graph.nodes, B + 1, N)
           taken == {i \in U : graph.overlay.nodes[i].id \in Ids(added)}
<1>1. max \in Nat /\ overlay \in GraphFiles
  BY GraphAssumption DEF OverlayFiles
<1>2. s \in Stage(base, overlay, max, Cardinality(U))
  <2> HIDE DEF max
  <2> QED
    BY <1>1, NodesAreMerged
<1>3. /\ s.rest \in SUBSET U /\ s.nodes \in Seq(GraphNodes) /\ s.ids \in Renamings
      /\ Cardinality(s.rest) = Cardinality(U) - Cardinality(U)
      /\ Len(s.nodes) \in B..B + max /\ \A i \in 1..B : s.nodes[i] = base.nodes[i]
      /\ AddedFit(base, overlay, s) /\ BestCame(base, overlay, max, s)
      /\ \A id \in DOMAIN s.ids : s.ids[id] \in Ids(s.nodes)
  <2> HIDE DEF s, max
  <2> QED
    BY <1>2 DEF Stage
<1>4. /\ graph.base = base /\ graph.overlay = overlay /\ graph.nodes = s.nodes
      /\ graph.edges = MergeEdges(base, overlay, s.ids)
  BY DEF MergeOverlay
<1> HIDE DEF s, max
<1>5. EdgesFit(base, graph.nodes, graph.edges)
  BY <1>1, <1>3, <1>4, EdgesAreMerged
<1>6. s.rest = {}
  <2>1. IsFiniteSet(s.rest)
    BY <1>1, <1>3, UnmatchedIsFinite, FS_Subset
  <2>2. Cardinality(s.rest) = 0
    BY <1>1, <1>3, UnmatchedIsFinite
  <2> QED
    BY <2>1, <2>2, FS_EmptySet
<1>7. /\ base.nodes \in Seq(GraphNodes) /\ graph.nodes \in Seq(GraphNodes)
      /\ B \in Nat /\ N \in Nat /\ N \in B..B + max /\ DOMAIN base.nodes = 1..B
      /\ \A i \in 1..B : graph.nodes[i] = base.nodes[i]
  <2>1. base.nodes \in Seq(GraphNodes)
    BY DEF GraphFiles
  <2> QED
    BY <1>3, <1>4, <2>1, LenProperties
<1>8. /\ base.edges \in Seq(GraphEdges) /\ graph.edges \in Seq(GraphEdges)
      /\ E \in Nat /\ M \in Nat /\ M >= E /\ DOMAIN graph.edges = 1..M
      /\ \A i \in 1..E : graph.edges[i] = base.edges[i]
  <2>1. base.edges \in Seq(GraphEdges)
    BY DEF GraphFiles
  <2> QED
    BY <1>5, <2>1, LenProperties DEF EdgesFit
<1>9. /\ added \in Seq(GraphNodes) /\ Len(added) = N - B /\ DOMAIN added = 1..N - B
      /\ \A i \in 1..N - B : added[i] = graph.nodes[B + i] /\ B + i \in Beyond(base, graph.nodes)
      /\ \A i \in Beyond(base, graph.nodes) : i - B \in 1..N - B /\ added[i - B] = graph.nodes[i]
  <2>1. /\ added \in Seq(GraphNodes) /\ Len(added) = N - B
        /\ \A i \in 1..N - B : added[i] = graph.nodes[B + i]
    <3> DEFINE nodes == graph.nodes
    <3>1. B \in 0..Len(nodes)
      BY <1>7
    <3>2. nodes \in Seq(GraphNodes)
      BY <1>7
    <3>3. /\ SubSeq(nodes, B + 1, Len(nodes)) \in Seq(GraphNodes)
          /\ Len(SubSeq(nodes, B + 1, Len(nodes))) = Len(nodes) - B
          /\ \A i \in 1..Len(nodes) - B : SubSeq(nodes, B + 1, Len(nodes))[i] = nodes[B + i]
      <4> HIDE DEF nodes, B
      <4> QED
        BY <3>1, <3>2, WhatFollows
    <3> QED
      BY <3>3
  <2>2. \A i \in 1..N - B : B + i \in Beyond(base, graph.nodes)
    BY <1>7 DEF Beyond
  <2>3. \A i \in Beyond(base, graph.nodes) : i - B \in 1..N - B /\ B + (i - B) = i
    BY <1>7 DEF Beyond
  <2>4. DOMAIN added = 1..Len(added)
    <3> HIDE DEF added
    <3> QED
      BY <2>1, LenProperties
  <2> HIDE DEF added
  <2>5. \A i \in Beyond(base, graph.nodes) : added[i - B] = graph.nodes[i]
    <3> TAKE i \in Beyond(base, graph.nodes)
    <3>1. added[i - B] = graph.nodes[B + (i - B)]
      BY <2>1, <2>3
    <3> QED
      BY <2>3, <3>1
  <2> QED
    BY <2>1, <2>2, <2>3, <2>4, <2>5
<1> HIDE DEF added
<1>10. SubSeq(graph.nodes, 1, B) = base.nodes
  BY <1>7, SubSeqProperties
<1>11. SubSeq(graph.edges, 1, E) = base.edges
  BY <1>8, SubSeqProperties
<1>12. Len(added) <= max
  BY <1>1, <1>7, <1>9
<1>13. \A i \in Beyond(base, graph.nodes) :
         /\ graph.nodes[i].id \notin Ids(base.nodes) /\ graph.nodes[i].community >= CommunityOffset(base)
         /\ \E k \in U : graph.nodes[i].id = overlay.nodes[k].id
         /\ \A j \in Beyond(base, graph.nodes) \ {i} : graph.nodes[j].id # graph.nodes[i].id
  BY <1>3, <1>4 DEF AddedFit
<1>14. Cardinality(Ids(added)) = Len(added)
  <2> DEFINE S == 1..N - B
             f == [i \in S |-> added[i].id]
  <2>1. Ids(added) = {added[i].id : i \in S}
    BY <1>9 DEF Ids
  <2>2. \A i, j \in S : added[i].id = added[j].id => i = j
    <3> TAKE i, j \in S
    <3>1. B + i \in Beyond(base, graph.nodes) /\ B + j \in Beyond(base, graph.nodes)
      BY <1>9
    <3>2. added[i] = graph.nodes[B + i] /\ added[j] = graph.nodes[B + j]
      BY <1>9
    <3>3. B + i = B + j => i = j
      BY <1>7
    <3> QED
      BY <1>13, <3>1, <3>2, <3>3
  <2>3. f \in Bijection(S, Ids(added))
    <3> HIDE DEF S
    <3> QED
      BY <2>1, <2>2 DEF Bijection, Injection, Surjection, IsInjective
  <2>4. IsFiniteSet(S) /\ Cardinality(S) = N - B
    <3> DEFINE l == N - B
    <3>1. l \in Nat
      BY <1>7
    <3>2. IsFiniteSet(1..l) /\ Cardinality(1..l) = l
      <4> HIDE DEF l
      <4> QED
        BY <3>1, UpToCount
    <3> QED
      BY <3>2
  <2>5. Cardinality(Ids(added)) = Cardinality(S)
    <3> HIDE DEF S, f
    <3> QED
      BY <2>3, <2>4, FS_Bijection DEF ExistsBijection
  <2> QED
    BY <1>9, <2>4, <2>5
<1>19. Ids(added) = {graph.nodes[i].id : i \in Beyond(base, graph.nodes)}
  <2>1. \A i \in Beyond(base, graph.nodes) : graph.nodes[i].id \in Ids(added)
    BY <1>9 DEF Ids
  <2>2. \A i \in DOMAIN added : \E k \in Beyond(base, graph.nodes) : added[i].id = graph.nodes[k].id
    <3> TAKE i \in DOMAIN added
    <3>1. B + i \in Beyond(base, graph.nodes) /\ added[i] = graph.nodes[B + i]
      BY <1>9
    <3> QED
      BY <3>1
  <2>3. \A x \in Ids(added) : \E i \in DOMAIN added : x = added[i].id
    BY DEF Ids
  <2> QED
    BY <2>1, <2>2, <2>3
<1>15. Ids(added) \cap Ids(base.nodes) = {}
  BY <1>13, <1>19
<1>16. {added[i].community : i \in DOMAIN added} \cap {base.nodes[i].community : i \in DOMAIN base.nodes} = {}
  <2>1. \A i \in DOMAIN added : added[i].community >= CommunityOffset(base) /\ added[i].community \in Int
    <3>1. \A i \in 1..N : graph.nodes[i] \in GraphNodes
      BY <1>7, ElementOfSeq
    <3>2. \A i \in 1..N : graph.nodes[i].community \in Int
      BY <3>1 DEF GraphNodes
    <3>3. \A i \in Beyond(base, graph.nodes) : i \in 1..N
      BY <1>7 DEF Beyond
    <3>4. \A i \in Beyond(base, graph.nodes) :
            graph.nodes[i].community >= CommunityOffset(base) /\ graph.nodes[i].community \in Int
      BY <1>13, <3>2, <3>3
    <3>5. \A i \in DOMAIN added : \E k \in Beyond(base, graph.nodes) : added[i] = graph.nodes[k]
      BY <1>9
    <3> QED
      BY <3>4, <3>5
  <2>2. \A i \in DOMAIN base.nodes : base.nodes[i].community < CommunityOffset(base) /\ base.nodes[i].community \in Int
    <3>1. \A i \in 1..B : base.nodes[i] \in GraphNodes
      BY <1>7, ElementOfSeq
    <3>2. \A i \in 1..B : base.nodes[i].community \in Int
      BY <3>1 DEF GraphNodes
    <3> QED
      BY <1>7, <3>2, OffsetIsAbove
  <2>3. \A i \in DOMAIN added, j \in DOMAIN base.nodes : added[i].community # base.nodes[j].community
    BY <2>1, <2>2, OffsetIsAbove
  <2> QED
    BY <2>3
<1>17. \A i \in taken, j \in U \ taken :
         overlay.nodes[j].id \in Ids(base.nodes) \/ DegreeOf(overlay, i) >= DegreeOf(overlay, j)
  <2> TAKE i \in taken, j \in U \ taken
  <2>1. overlay.nodes[i].id \in Ids(added) /\ overlay.nodes[j].id \notin Ids(added)
    BY <1>4
  <2>2. PICK k \in Beyond(base, graph.nodes) : graph.nodes[k].id = overlay.nodes[i].id
    BY <1>19, <2>1
  <2>3. CASE overlay.nodes[j].id \in Ids(graph.nodes)
    <3>1. PICK m \in 1..N : overlay.nodes[j].id = graph.nodes[m].id
      <4>1. DOMAIN graph.nodes = 1..N
        BY <1>7, LenProperties
      <4> QED
        BY <2>3, <4>1 DEF Ids
    <3>2. m \in 1..B
      <4> SUFFICES ASSUME m \in Beyond(base, graph.nodes) PROVE FALSE
        BY <1>7, <3>1 DEF Beyond
      <4> QED
        BY <1>19, <2>1, <3>1
    <3> QED
      BY <1>7, <3>1, <3>2 DEF Ids
  <2>4. CASE overlay.nodes[j].id \notin Ids(graph.nodes)
    <3>1. \A m \in Beyond(base, graph.nodes) :
            OverlayDegree(overlay, graph.nodes[m].id) >= DegreeOf(overlay, j)
      BY <1>3, <1>4, <1>6, <2>4 DEF BestCame
    <3> QED
      BY <2>2, <3>1 DEF DegreeOf
  <2> QED
    BY <2>3, <2>4
<1>18. \A i \in E + 1..M :
         /\ Pair(graph.edges[i]) \subseteq Ids(graph.nodes) /\ Cardinality(Pair(graph.edges[i])) = 2
         /\ \A j \in DOMAIN graph.edges \ {i} : Pair(graph.edges[i]) # Pair(graph.edges[j])
  <2> TAKE i \in E + 1..M
  <2>1. /\ graph.edges[i].source # graph.edges[i].target /\ Pair(graph.edges[i]) \subseteq Ids(graph.nodes)
        /\ \A j \in DOMAIN graph.edges \ {i} : Pair(graph.edges[i]) # Pair(graph.edges[j])
    BY <1>5 DEF EdgesFit
  <2>2. Cardinality({graph.edges[i].source, graph.edges[i].target}) = 2
    BY <2>1, TwoAreTwo
  <2> QED
    BY <2>1, <2>2 DEF Pair
<1> DEFINE addedOf == SubSeq(graph.nodes, Len(graph.base.nodes) + 1, Len(graph.nodes))
           takenOf == {i \in Unmatched(graph.base, graph.overlay) :
                         graph.overlay.nodes[i].id \in Ids(addedOf)}
<1>20. addedOf = added
  BY <1>4 DEF added
<1> HIDE DEF addedOf
<1>21. takenOf = taken
  BY <1>4, <1>20
<1>22. Unmatched(graph.base, graph.overlay) = U
  BY <1>4
<1> HIDE DEF takenOf, taken, U
<1>23. /\ SubSeq(graph.nodes, 1, Len(graph.base.nodes)) = graph.base.nodes
       /\ SubSeq(graph.edges, 1, Len(graph.base.edges)) = graph.base.edges
       /\ Len(addedOf) <= IF addsNodes THEN MaxAddedNodes ELSE 0
       /\ Cardinality(Ids(addedOf)) = Len(addedOf) /\ Ids(addedOf) \cap Ids(graph.base.nodes) = {}
  BY <1>4, <1>10, <1>11, <1>12, <1>14, <1>15, <1>20 DEF max
<1>24. {addedOf[i].community : i \in DOMAIN addedOf}
         \cap {graph.base.nodes[i].community : i \in DOMAIN graph.base.nodes} = {}
  BY <1>4, <1>16, <1>20
<1>25. \A i \in takenOf, j \in Unmatched(graph.base, graph.overlay) \ takenOf :
         graph.overlay.nodes[j].id \in Ids(graph.base.nodes)
           \/ DegreeOf(graph.overlay, i) >= DegreeOf(graph.overlay, j)
  BY <1>4, <1>17, <1>21, <1>22
<1>26. \A i \in Len(graph.base.edges) + 1..Len(graph.edges) :
         /\ Pair(graph.edges[i]) \subseteq Ids(graph.nodes) /\ Cardinality(Pair(graph.edges[i])) = 2
         /\ \A j \in DOMAIN graph.edges \ {i} : Pair(graph.edges[i]) # Pair(graph.edges[j])
  BY <1>4, <1>18
<1> QED
  BY <1>23, <1>24, <1>25, <1>26 DEF MergeIsSound, addedOf, takenOf

LEMMA NoMergeKeeps ==
  ASSUME addsNodes \in BOOLEAN, graph.base \in GraphFiles,
         graph.overlay = NoGraph, graph.nodes = graph.base.nodes, graph.edges = graph.base.edges
  PROVE  MergeIsSound
<1> DEFINE base == graph.base
           added == SubSeq(graph.nodes, Len(base.nodes) + 1, Len(graph.nodes))
<1>1. /\ base.nodes \in Seq(GraphNodes) /\ Len(base.nodes) \in Nat
      /\ base.edges \in Seq(GraphEdges) /\ Len(base.edges) \in Nat
  BY LenProperties DEF GraphFiles
<1>2. Unmatched(graph.base, graph.overlay) = {}
  BY DEF Unmatched, NoGraph
<1>3. added = <<>>
  <2>1. Len(base.nodes) \in 0..Len(base.nodes)
    BY <1>1
  <2>2. added \in Seq(GraphNodes) /\ Len(added) = 0
    BY <1>1
  <2> QED
    BY <2>2, EmptySeq
<1> HIDE DEF added
<1>4. Ids(added) = {} /\ DOMAIN added = {} /\ Len(added) = 0
  BY <1>3 DEF Ids
<1>5. Cardinality(Ids(added)) = 0
  BY <1>4, FS_EmptySet
<1>6. Len(added) <= IF addsNodes THEN MaxAddedNodes ELSE 0
  BY <1>4, GraphAssumption
<1>7. SubSeq(graph.nodes, 1, Len(base.nodes)) = base.nodes
  BY <1>1
<1>8. SubSeq(graph.edges, 1, Len(base.edges)) = base.edges
  BY <1>1
<1>9. Len(base.edges) + 1..Len(graph.edges) = {}
  BY <1>1
<1> QED
  BY <1>2, <1>4, <1>5, <1>6, <1>7, <1>8, <1>9 DEF MergeIsSound, added

-----------------------------------------------------------------------------

Bases == BaseGraphs \cup {NoGraph}
Merged == Overlays \cup {NoGraph}

\* What is shown was merged from graphs that were in the files, or is one of them as it was.
GraphInv ==
  /\ addsNodes \in BOOLEAN
  /\ {baseFile.graph, baseRead.graph, graph.base} \subseteq Bases
  /\ {overlayFile.graph, graph.overlay} \subseteq Merged
  /\ \/ graph = MergeOverlay(graph.base, graph.overlay, IF addsNodes THEN MaxAddedNodes ELSE 0)
     \/ graph.overlay = NoGraph /\ graph.nodes = graph.base.nodes /\ graph.edges = graph.base.edges

LEMMA FilesAreGraphs == Bases \subseteq GraphFiles /\ Merged \subseteq OverlayFiles
<1>1. NoGraph \in GraphFiles /\ NoGraph.nodes = <<>>
  BY DEF NoGraph, GraphFiles
<1>2. NoGraph \in OverlayFiles
  BY <1>1 DEF OverlayFiles
<1> QED
  BY <1>1, <1>2, GraphAssumption DEF Bases, Merged, OverlayFiles, GraphFiles

LEMMA GraphInvMeans == GraphInv => MergeIsSound
<1> SUFFICES ASSUME GraphInv PROVE MergeIsSound
  OBVIOUS
<1>1. addsNodes \in BOOLEAN /\ graph.base \in GraphFiles /\ graph.overlay \in OverlayFiles
  BY FilesAreGraphs DEF GraphInv
<1>2. CASE graph = MergeOverlay(graph.base, graph.overlay, IF addsNodes THEN MaxAddedNodes ELSE 0)
  <2>1. PICK base \in GraphFiles, overlay \in OverlayFiles : base = graph.base /\ overlay = graph.overlay
    BY <1>1
  <2> QED
    BY <1>1, <1>2, <2>1, MergeKeeps
<1>3. CASE graph.overlay = NoGraph /\ graph.nodes = graph.base.nodes /\ graph.edges = graph.base.edges
  BY <1>1, <1>3, NoMergeKeeps
<1> QED
  BY <1>2, <1>3 DEF GraphInv

LEMMA GraphKept ==
  ASSUME GraphInv, GraphTabNext \/ UNCHANGED graphTab
  PROVE  GraphInv'
<1>1. CASE UNCHANGED <<files, loader>>
  BY <1>1 DEF GraphInv, files, loader
<1>2. CASE UNCHANGED graphTab
  BY <1>1, <1>2 DEF graphTab
<1>3. CASE BeginBase
  BY <1>3 DEF GraphInv, BeginBase, Written, loader, Bases
<1>4. CASE \E g \in BaseGraphs : EndBase(g)
  BY <1>4 DEF GraphInv, EndBase, Written, loader, Bases
<1>5. CASE \E g \in Overlays : WriteOverlay(g)
  BY <1>5 DEF GraphInv, WriteOverlay, Written, loader, Merged
<1>6. CASE NoticeChange
  BY <1>6 DEF GraphInv, NoticeChange, files
<1>7. CASE ReadBase
  BY <1>7 DEF GraphInv, ReadBase, files
<1>8. CASE FinishLoad
  <2>1. PICK view \in {View(baseRead, overlayFile, addsNodes)} : graph' = IF view.loaded THEN view ELSE graph
    BY <1>8 DEF FinishLoad
  <2>2. UNCHANGED <<files, baseRead>>
    BY <1>8 DEF FinishLoad
  <2>3. \/ /\ view = MergeOverlay(baseRead.graph, overlayFile.graph, IF addsNodes THEN MaxAddedNodes ELSE 0)
           /\ view.base = baseRead.graph /\ view.overlay = overlayFile.graph
        \/ /\ view.base = baseRead.graph /\ view.overlay = NoGraph
           /\ view.nodes = baseRead.graph.nodes /\ view.edges = baseRead.graph.edges
    <3> DEFINE max == IF addsNodes THEN MaxAddedNodes ELSE 0
    <3>1. CASE OverlayCounts(baseRead, overlayFile, addsNodes)
      <4>1. view = MergeOverlay(baseRead.graph, overlayFile.graph, max)
        BY <2>1, <3>1 DEF View
      <4>2. /\ MergeOverlay(baseRead.graph, overlayFile.graph, max).base = baseRead.graph
            /\ MergeOverlay(baseRead.graph, overlayFile.graph, max).overlay = overlayFile.graph
        BY DEF MergeOverlay
      <4> QED
        BY <4>1, <4>2
    <3>2. CASE ~OverlayCounts(baseRead, overlayFile, addsNodes)
      <4>1. view = [NoView EXCEPT !.loaded = (baseRead.state = "whole"), !.base = baseRead.graph,
                                  !.nodes = baseRead.graph.nodes, !.edges = baseRead.graph.edges]
        BY <2>1, <3>2 DEF View
      <4> QED
        BY <4>1 DEF NoView
    <3> QED
      BY <3>1, <3>2
  <2>4. graph' = view \/ graph' = graph
    BY <2>1
  <2> QED
    BY <2>2, <2>3, <2>4 DEF GraphInv, files, Merged
<1>9. CASE \/ ShowGraph \/ DoubleClick \/ StepBack \/ GoBack \/ CloseDetail
           \/ (\E g \in 1..Cardinality(Groups(graph)) : ClickGroup(g)) \/ (\E n \in DOMAIN graph.nodes : ClickNode(n))
  BY <1>1, <1>9 DEF ShowGraph, DoubleClick, StepBack, GoBack, CloseDetail, ClickGroup, ClickNode, GraphFrame
<1> QED
  BY <1>2, <1>3, <1>4, <1>5, <1>6, <1>7, <1>8, <1>9 DEF GraphTabNext

\* Whatever the two files hold, and in whichever moment of a load they change: the graph shown
\* keeps the base, adds the best connected nodes up to the limit, in groups of their own, and
\* no edge to a pair that has one.
THEOREM MergesAreSound == DesktopSpec => []MergeIsSound
<1>1. ASSUME DesktopInit
      PROVE  GraphInv
  <2>1. /\ baseFile \in {Missing} \cup {[state |-> "whole", graph |-> g, mtime |-> 1] : g \in BaseGraphs}
        /\ overlayFile \in {Missing} \cup {[state |-> "whole", graph |-> g, mtime |-> 1] : g \in Overlays}
        /\ addsNodes \in BOOLEAN /\ baseRead = Missing /\ graph = NoView
    BY <1>1 DEF DesktopInit, GraphTabInit
  <2> QED
    BY <2>1 DEF GraphInv, Missing, NoView, NoGraph, Bases, Merged
<1>2. ASSUME GraphInv, [DesktopNext]_desktop
      PROVE  GraphInv'
  BY <1>2, OnePartAtWork, GraphKept
<1> QED
  BY <1>1, <1>2, GraphInvMeans, PTL DEF DesktopSpec
=============================================================================
