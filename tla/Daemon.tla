------------------------------- MODULE Daemon -------------------------------
(***************************************************************************)
(* One daemon from the journal to the baseline file: the ingestion loop    *)
(* around the journalctl child (daemon/src/ingestion.rs), the pipeline's   *)
(* main loop (daemon/src/pipeline.rs), and how main starts and ends the    *)
(* two (daemon/src/main.rs).  Between them is the ring channel, of which   *)
(* only the contract is used here (LossyFifo, implemented by RingChannel). *)
(*                                                                         *)
(* The ingestion future is polled by main's select!: a signal drops it at  *)
(* whichever await point it is in, and with it the only sender handle.     *)
(* The pipeline is a task of its own and ends when it has drained the      *)
(* channel; main then waits for it and for the socket server.              *)
(*                                                                         *)
(* Lines of the journal are numbered in the order they are written; what   *)
(* is in them matters only as far as they are blank, unparsable or events. *)
(* Backoff is counted in doublings of some unit; whether a pass lasted     *)
(* MIN_STABLE_RUN is a free choice.                                        *)
(***************************************************************************)
EXTENDS Integers, Sequences

CONSTANTS
  Capacity,     \* ingestion.channel_capacity
  Base,         \* ingestion.restart_backoff_ms
  MaxBackoff,   \* MAX_BACKOFF_MS
  MaxLines,     \* bound of the model: how many lines are ever written
  MaxPasses     \* bound of the model: how many times journalctl is started

ASSUME DaemonAssumption ==
  /\ Capacity \in Nat \ {0}
  /\ Base \in Nat \ {0} /\ MaxBackoff \in Nat \ {0}
  /\ MaxLines \in Nat /\ MaxPasses \in Nat

VARIABLES
  replay,      \* TRUE for --since, FALSE for following the live journal
  persistent,  \* whether the baseline database could be opened
  \* the journal and the journalctl child
  written,     \* how many lines the journal has
  position,    \* how many of them are behind the reader
  passes,      \* how many times journalctl was started
  \* run_ingestion
  ingest,      \* where it is
  backoff,     \* backoff_ms
  parseErrors, \* the shared parse_error_counter
  \* the channel
  buf, put, out, lost, open, over,
  \* Pipeline
  saved,       \* how many events the last successful save covers
  saveFailed,  \* whether the last save failed
  shown,       \* the counters of the last published Snapshot
  \* main and the socket server
  main, server,
  \* history
  skipped,     \* lines that fell between two passes
  blank,       \* lines without content
  cut          \* lines that were read when the future was dropped

channel  == <<buf, put, out, lost, open, over>>
reader   == <<written, position, passes, ingest, backoff, parseErrors>>
pipeline == <<saved, saveFailed, shown>>
history  == <<skipped, blank, cut>>
start    == <<replay, persistent>>
vars == <<start, reader, channel, pipeline, main, server, history>>

Channel == INSTANCE LossyFifo

\* "check": the journal permissions; "start": about to spawn journalctl;
\* "read": in next_line; "send": an event in hand, at the lock of the queue;
\* "wait": in the sleep before the next pass.
IngestStates == {"check", "start", "read", "send", "wait", "done", "dropped"}

Init ==
  /\ replay \in BOOLEAN /\ persistent \in BOOLEAN
  /\ written \in 0..1 /\ position = 0 /\ passes = 0
  /\ ingest = "check" /\ backoff = Base /\ parseErrors = 0
  /\ Channel!Init
  /\ saved = 0 /\ saveFailed = FALSE
  /\ shown = [events |-> 0, dropped |-> 0, parseErrors |-> 0]
  /\ main = "running" /\ server = "serving"
  /\ skipped = 0 /\ blank = 0 /\ cut = 0

-----------------------------------------------------------------------------
(* The journal                                                             *)

Write ==
  /\ written < MaxLines
  /\ written' = written + 1
  /\ UNCHANGED <<start, position, passes, ingest, backoff, parseErrors, channel,
                 pipeline, main, server, history>>

-----------------------------------------------------------------------------
(* run_ingestion                                                           *)

CheckPermissions ==
  /\ ingest = "check"
  /\ ingest' \in {"start", "done"}
  /\ UNCHANGED <<start, written, position, passes, backoff, parseErrors, channel,
                 pipeline, main, server, history>>

\* A pass is over, well or not: a replay returns, live mode backs off.  After
\* a pass that was stable the backoff begins again with the base value.
EndPass(stable) ==
  IF replay
  THEN ingest' = "done" /\ UNCHANGED backoff
  ELSE /\ ingest' = "wait"
       /\ backoff' = IF stable THEN Base ELSE backoff

\* journalctl -f -n 0 begins behind the last line; --since begins in the past.
StartPass ==
  /\ ingest = "start" /\ passes < MaxPasses
  /\ passes' = passes + 1
  /\ \/ /\ ingest' = "read"
        /\ position' = IF replay THEN position ELSE written
        /\ skipped' = skipped + (position' - position)
        /\ UNCHANGED backoff
     \/ EndPass(FALSE) /\ UNCHANGED <<position, skipped>>
  /\ UNCHANGED <<start, written, parseErrors, channel, pipeline, main, server, blank, cut>>

\* Mutant: an unparsable line is not counted.
ReadLineUncounted ==
  /\ ingest = "read" /\ position < written
  /\ position' = position + 1
  /\ \/ ingest' = "send" /\ UNCHANGED blank
     \/ UNCHANGED <<ingest, blank>>
     \/ blank' = blank + 1 /\ UNCHANGED ingest
  /\ UNCHANGED <<start, written, passes, backoff, parseErrors, channel, pipeline,
                 main, server, skipped, cut>>

\* One line of next_line.  An unparsable one is counted, a blank one is not.
ReadLine ==
  /\ ingest = "read" /\ position < written
  /\ position' = position + 1
  /\ \/ ingest' = "send" /\ UNCHANGED <<parseErrors, blank>>
     \/ parseErrors' = parseErrors + 1 /\ UNCHANGED <<ingest, blank>>
     \/ blank' = blank + 1 /\ UNCHANGED <<ingest, parseErrors>>
  /\ UNCHANGED <<start, written, passes, backoff, channel, pipeline, main, server,
                 skipped, cut>>

SendEvent ==
  /\ ingest = "send"
  /\ Channel!Put
  /\ ingest' = "read"
  /\ UNCHANGED <<start, written, position, passes, backoff, parseErrors, pipeline,
                 main, server, history>>

\* journalctl ended or a read failed.
StopReading ==
  /\ ingest = "read"
  /\ \E stable \in BOOLEAN : EndPass(stable)
  /\ UNCHANGED <<start, written, position, passes, parseErrors, channel, pipeline,
                 main, server, history>>

\* The sleep is over; the next one will be twice as long, up to the limit.
Backoff ==
  /\ ingest = "wait"
  /\ ingest' = "start"
  /\ backoff' = IF 2 * backoff > MaxBackoff THEN MaxBackoff ELSE 2 * backoff
  /\ UNCHANGED <<start, written, position, passes, parseErrors, channel, pipeline,
                 main, server, history>>

-----------------------------------------------------------------------------
(* Pipeline::run                                                           *)

Handle ==
  /\ Channel!Take
  /\ UNCHANGED <<start, reader, pipeline, main, server, history>>

\* save, which does nothing without a database and may fail.
SaveBaselines ==
  \/ persistent /\ saved' = Len(out) /\ saveFailed' = FALSE
  \/ persistent /\ saveFailed' = TRUE /\ UNCHANGED saved
  \/ ~persistent /\ UNCHANGED <<saved, saveFailed>>

PublishSnapshot ==
  shown' = [events |-> Len(out), dropped |-> lost, parseErrors |-> parseErrors]

PersistTick ==
  /\ ~over
  /\ SaveBaselines
  /\ UNCHANGED <<start, reader, channel, shown, main, server, history>>

SnapshotTick ==
  /\ ~over
  /\ PublishSnapshot
  /\ UNCHANGED <<start, reader, channel, saved, saveFailed, main, server, history>>

\* Mutant: the task ends with the channel, without a last save and snapshot.
EndPipelineAtOnce ==
  /\ Channel!End
  /\ UNCHANGED <<start, reader, pipeline, main, server, history>>

\* recv returned None: a last save and a last snapshot, then the task ends.
EndPipeline ==
  /\ Channel!End
  /\ SaveBaselines /\ PublishSnapshot
  /\ UNCHANGED <<start, reader, main, server, history>>

-----------------------------------------------------------------------------
(* main                                                                    *)

\* Mutant: the sender outlives the select!.
BeginShutdownKeepsSender ==
  /\ main = "running"
  /\ main' = "winding"
  /\ UNCHANGED <<channel, pipeline, server>>

\* The block around select! is left, the sender falls, the server is told.
BeginShutdown ==
  /\ main = "running"
  /\ main' = "winding"
  /\ Channel!Close
  /\ UNCHANGED <<pipeline, server>>

IngestionReturned ==
  /\ ingest = "done"
  /\ BeginShutdown
  /\ UNCHANGED <<start, reader, history>>

\* The future is dropped wherever it waits; an event in hand goes with it.
Signal ==
  /\ ingest # "done"
  /\ BeginShutdown
  /\ ingest' = "dropped"
  /\ cut' = IF ingest = "send" THEN cut + 1 ELSE cut
  /\ UNCHANGED <<start, written, position, passes, backoff, parseErrors, skipped, blank>>

\* server::run: the accept loop ends, and SHUTDOWN_GRACE later the socket
\* file is gone.
ServerTold ==
  /\ main = "winding" /\ server = "serving"
  /\ server' = "grace"
  /\ UNCHANGED <<start, reader, channel, pipeline, main, history>>

RemoveSocket ==
  /\ server = "grace"
  /\ server' = "gone"
  /\ UNCHANGED <<start, reader, channel, pipeline, main, history>>

\* consumer.await, server_task.await, and the end of the process.
Exit ==
  /\ main = "winding" /\ over /\ server = "gone"
  /\ main' = "gone"
  /\ UNCHANGED <<start, reader, channel, pipeline, server, history>>

-----------------------------------------------------------------------------
Ingestion == CheckPermissions \/ StartPass \/ ReadLine \/ SendEvent \/ StopReading \/ Backoff

Next ==
  \/ Write
  \/ CheckPermissions \/ StartPass \/ ReadLine \/ SendEvent \/ StopReading \/ Backoff
  \/ Handle \/ PersistTick \/ SnapshotTick \/ EndPipeline
  \/ IngestionReturned \/ Signal \/ ServerTold \/ RemoveSocket \/ Exit

\* Tasks that can run do: neither the tickers nor the socket sessions keep
\* the ingestion future, recv, or main from their turn, and a tick of the
\* pipeline disables nothing.  Signals need not come, journalctl need not end.
Fairness ==
  /\ WF_vars(Ingestion)
  /\ WF_vars(Handle \/ EndPipeline)
  /\ WF_vars(IngestionReturned) /\ WF_vars(ServerTold)
  /\ WF_vars(RemoveSocket) /\ WF_vars(Exit)

Spec == Init /\ [][Next]_vars
FairSpec == Spec /\ Fairness

-----------------------------------------------------------------------------
(* Properties                                                              *)

\* Every variable stays in its domain.
TypeOK ==
  /\ replay \in BOOLEAN /\ persistent \in BOOLEAN
  /\ written \in Nat /\ position \in Nat /\ passes \in Nat
  /\ ingest \in IngestStates /\ backoff \in Nat \ {0} /\ parseErrors \in Nat
  /\ buf \in Seq(Nat) /\ put \in Nat /\ out \in Seq(Nat) /\ lost \in Nat
  /\ open \in BOOLEAN /\ over \in BOOLEAN
  /\ saved \in Nat /\ saveFailed \in BOOLEAN
  /\ shown \in [events : Nat, dropped : Nat, parseErrors : Nat]
  /\ main \in {"running", "winding", "gone"}
  /\ server \in {"serving", "grace", "gone"}
  /\ skipped \in Nat /\ blank \in Nat /\ cut \in Nat

\* Every line behind the reader was skipped at the start of a pass, blank,
\* counted as unparsable, or an event; and every event that was read is
\* handled, counted as dropped, waiting, in hand, or the one that a signal
\* caught between the read and the lock of the queue.
EveryLineAccountedFor ==
  /\ position = skipped + blank + parseErrors + cut
                + Len(out) + lost + Len(buf) + (IF ingest = "send" THEN 1 ELSE 0)
  /\ position <= written
  /\ cut <= 1 /\ (cut = 1 => ingest = "dropped")

\* main.rs: on leaving, the channel closes and the pipeline saves once more.
\* When the process is gone nothing is left in the channel, the last snapshot
\* shows the final counters, and the file covers every handled event unless
\* that very save failed.
LeavesNothingBehind ==
  main = "gone" =>
    /\ buf = <<>>
    /\ shown = [events |-> Len(out), dropped |-> lost, parseErrors |-> parseErrors]
    /\ persistent /\ ~saveFailed => saved = Len(out)

\* ingestion.rs: the waits between passes double up to MAX_BACKOFF_MS, fall only
\* to Base and only after a stable pass, and stay at the limit once there.
\* (For a Base up to the limit; nothing clamps a larger one.)
BackoffGrows ==
  [][/\ backoff' < backoff => backoff' = Base /\ ingest = "read" /\ ingest' = "wait"
     /\ ingest = "wait" /\ ingest' = "start" =>
          backoff < backoff' \/ backoff' = MaxBackoff
     /\ backoff' <= MaxBackoff \/ backoff' = Base]_vars

\* Once ingestion has ended or a signal has come, the process ends: the drop
\* of the sender reaches the pipeline (main.rs on why the future lives in a
\* block of its own).
ShutdownCompletes == main = "winding" ~> main = "gone"

=============================================================================
