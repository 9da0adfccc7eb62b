------------------------------ MODULE GraphSync ------------------------------
(***************************************************************************)
(* The program logsentry-graphsync (graphsync/src/main.rs, sync.rs,        *)
(* scan.rs, state.rs, llm.rs): it looks through the notes, asks the KI     *)
(* about what has changed, writes the graph for the GUI and its own state, *)
(* and rests.  Beside it a user edits the notes, systemd ends and starts   *)
(* the program, and it may die at any step.                                *)
(*                                                                         *)
(* A file is written whole under another name and renamed (write_atomic),  *)
(* so that it has its old content or its new one, whenever the process     *)
(* dies.  Every change of a note gives it another mtime.                   *)
(*                                                                         *)
(* The runtime has one thread (flavor = "current_thread"): while the       *)
(* program works, a signal that came is with its driver, which passes it   *)
(* on to the listeners there are when the program next awaits something.   *)
(*                                                                         *)
(* Ghosts, by day: calls, how often the KI was asked, spent and unread,    *)
(* what the answers that could be used and the others say they cost; lost, *)
(* what of calls the state file did not know when the program was started. *)
(* Also sent, the contents the KI has answered about; stale, whether the   *)
(* last attempt to write the graph failed; abrupt, whether a process was   *)
(* ended between two steps or a save failed; trouble, the signals and      *)
(* failed writes.                                                          *)
(***************************************************************************)
EXTENDS Notes

CONSTANTS
  MaxRuns,          \* max_runs_per_day
  MaxUsd,           \* max_usd_per_day
  MinInterval,      \* min_interval_secs
  Backoff,          \* failure_backoff_secs
  MinStable,        \* min_stable_secs
  MaxFilesPerRun,   \* max_files_per_run
  MaxKnown,         \* max_known_files_in_prompt
  MaxEdgesPerRun,   \* max_edges_per_run
  MaxEdgesPerFile   \* MAX_LLM_EDGES_PER_FILE

CONSTANTS
  MaxFiles,      \* graph_sync.max_files
  MaxFileBytes,  \* graph_sync.max_file_bytes
  DayLength,     \* ticks of a day
  Modes,         \* how the program is started: --once, --no-llm
  Disks,         \* the notes there may be at first, by file its content, 0 for none
  Editable,      \* the files the user works on
  Children,      \* what the KI's program may do
  MaxTime, MaxEdits, MaxTrouble,  \* bounds of the model
  TicksAt, EditsAt  \* the places of the program at which the clock goes on and notes change

ASSUME LlmAssumption ==
  {MaxRuns, MaxUsd, MinInterval, Backoff, MinStable, MaxFilesPerRun, MaxKnown, MaxEdgesPerRun,
   MaxEdgesPerFile} \subseteq Nat

-----------------------------------------------------------------------------
\* The budget of the KI, LlmLedger.

NoDay == -1
NoHash == 0

NewLedger == [day |-> NoDay, runs |-> 0, usd |-> 0, next |-> 0]

RollDay(ledger, today) ==
  IF ledger.day = today THEN ledger ELSE [ledger EXCEPT !.day = today, !.runs = 0, !.usd = 0]

\* Mutant: one call more than the money allows.
BlockedLate(ledger, now) ==
  ledger.runs >= MaxRuns \/ ledger.usd > MaxUsd \/ now < ledger.next

Blocked(ledger, now) ==
  ledger.runs >= MaxRuns \/ ledger.usd >= MaxUsd \/ now < ledger.next

\* cost is 0 when the program names none, or none that makes sense.
RecordSuccess(ledger, now, cost) ==
  [ledger EXCEPT !.runs = @ + 1, !.usd = @ + cost, !.next = now + MinInterval]
RecordFailure(ledger, now) ==
  [ledger EXCEPT !.runs = @ + 1, !.next = now + Backoff]

-----------------------------------------------------------------------------
\* What to ask.  files gives of every known file its record.

\* The latest change first, then the order of the paths.
Newest(set, files) ==
  LET Before(f, g) == \/ files[f].changed > files[g].changed
                      \/ files[f].changed = files[g].changed /\ f < g
  IN  [i \in 1..Cardinality(set) |->
         CHOOSE f \in set : Cardinality({g \in set : Before(g, f)}) = i - 1]
First(seq, n) == SubSeq(seq, 1, Min({n, Len(seq)}))

LlmCandidates(files, now) ==
  LET due == {f \in DOMAIN files : /\ files[f].llmHash # files[f].hash
                                   /\ now - files[f].changed >= MinStable}
  IN  First(Newest(due, files), MaxFilesPerRun)

\* The files of the prompt; F1, F2, ... are their positions.
PromptFiles(files, batch) ==
  First(batch \o Newest(DOMAIN files \ ToSet(batch), files), Max({MaxKnown, Len(batch)}))

-----------------------------------------------------------------------------
\* The answer.

\* run_command: what the program printed, or nothing that counts.
RunCommand(child) ==
  IF child.starts /\ ~child.tooLong /\ child.succeeds THEN {child.output} ELSE {}

\* The result of the wrapper, which may report an error, or the plain text.
ParseCliOutput(output) ==
  IF ~output.wrapped THEN {[text |-> output.text, cost |-> 0]}
  ELSE IF output.isError THEN {}
  ELSE {[text |-> output.text, cost |-> output.cost]}

\* An array of objects; what has no source or target is passed over.
ParseEdges(text) ==
  IF ~text.isArray THEN {}
  ELSE {Kept(text.items, {e \in ToSet(text.items) : DOMAIN e = {"source", "target"}})}

\* What the program names as its cost, whatever becomes of its answer.
Named(child) == IF child.starts /\ child.output.wrapped THEN child.output.cost ELSE 0

Reply(child) ==
  LET answers == UNION {ParseCliOutput(o) : o \in RunCommand(child)}
  IN  UNION {{[raw |-> raw, cost |-> a.cost] : raw \in ParseEdges(a.text)} : a \in answers}

\* One edge more: of a file asked about to another file of the prompt, none twice, no more than
\* allowed.
Accept(edges, e, known, batch) ==
  LET edge == [source |-> known[e.source], target |-> known[e.target]]
  IN  IF /\ e.source \in 1..Len(batch) /\ e.target \in DOMAIN known
         /\ e.source # e.target /\ Len(edges) < MaxEdgesPerRun
         /\ Cardinality({i \in DOMAIN edges : edges[i].source = edge.source}) < MaxEdgesPerFile
         /\ ~Contains(edges, edge)
      THEN Append(edges, edge) ELSE edges

Validate(raw, known, batch) ==
  LET after[n \in 0..Len(raw)] ==
        IF n = 0 THEN <<>> ELSE Accept(after[n - 1], raw[n], known, batch)
  IN  after[Len(raw)]

\* What of these edges is kept with file f.
TargetsOf(f, edges) ==
  LET own == Kept(edges, {e \in ToSet(edges) : e.source = f})
  IN  [i \in DOMAIN own |-> own[i].target]

-----------------------------------------------------------------------------
ASSUME GraphSyncAssumption ==
  /\ {MaxFiles, MaxFileBytes, MaxTime} \subseteq Nat /\ DayLength \in Nat \ {0}
  /\ Disks \subseteq [Files -> Contents \cup {NoHash}]
  /\ \A child \in Children :
       /\ child.output.cost \in Nat
       /\ child.output.text.items \in Seq([source : Nat, target : Nat] \cup [source : Nat])

VARIABLES
  disk,       \* of each note its content, mtime, and whether it can be read and found
  clock,
  stored,     \* the state file: a state, or Missing, or Unusable
  out,        \* the graph for the GUI, or Missing
  mode, pc,
  state,      \* Syncer.state: files, llm
  at, todo, present, touched,  \* scan_once: now, metadata still to handle, present, added + changed > 0
  dirty, first,
  call,       \* the call that runs, or NoCall
  listening,  \* a handler for SIGTERM has been installed
  signal,     \* a SIGTERM that did not end the program: with the driver since a turn's work or
              \* since a call, or missed; or none
  edits,
  calls, spent, unread, lost, sent, stale, abrupt, trouble

scanning == <<at, todo, present, touched>>
process == <<mode, state, scanning, dirty, first, call, listening, signal>>
written == <<stored, out>>
ghosts == <<calls, spent, unread, lost, sent, stale, abrupt, trouble>>
vars == <<disk, clock, written, pc, process, edits, ghosts>>

Missing == <<>>
Unusable == [broken |-> TRUE]
NoCall == <<>>
NewState == [files |-> <<>>, llm |-> NewLedger]

NoMode == CHOOSE m \in Modes : TRUE
ScanIsOver == at' = 0 /\ todo' = <<>> /\ present' = {} /\ touched' = FALSE
ProcessEnds ==
  /\ pc' = "off" /\ mode' = NoMode /\ state' = NewState /\ ScanIsOver
  /\ dirty' = FALSE /\ first' = TRUE /\ call' = NoCall /\ listening' = FALSE
  /\ signal' = "none"

Day(time) == time \div DayLength
Days == 0..Day(MaxTime)
Readable(f) == disk[f].hash # NoHash /\ disk[f].access = "open"
Seen(f) == disk[f].hash # NoHash /\ disk[f].access # "hidden"

Init ==
  /\ \E d \in Disks : disk = [f \in Files |-> [hash |-> d[f], mtime |-> 0, access |-> "open"]]
  /\ clock = 0 /\ out = Missing
  /\ stored \in {Missing, Unusable}
  /\ pc = "off" /\ mode = NoMode /\ state = NewState /\ listening = FALSE /\ signal = "none"
  /\ at = 0 /\ todo = <<>> /\ present = {} /\ touched = FALSE
  /\ dirty = FALSE /\ first = TRUE /\ call = NoCall
  /\ edits = 0
  /\ calls = [d \in Days |-> 0] /\ spent = [d \in Days |-> 0]
  /\ unread = [d \in Days |-> 0] /\ lost = [d \in Days |-> 0]
  /\ sent = {} /\ stale = FALSE /\ abrupt = FALSE /\ trouble = 0

-----------------------------------------------------------------------------
\* Around the program.

Tick ==
  /\ clock < MaxTime /\ pc \in TicksAt
  /\ clock' = clock + 1
  /\ UNCHANGED <<disk, written, pc, process, edits, ghosts>>

\* A note is written, also anew, or deleted.
Edit(f, c) ==
  /\ edits < MaxEdits /\ pc \in EditsAt /\ f \in Editable /\ c # disk[f].hash
  /\ edits' = edits + 1
  /\ disk' = [disk EXCEPT ![f] = [hash |-> c, mtime |-> edits + 1, access |-> "open"]]
  /\ UNCHANGED <<clock, written, pc, process, ghosts>>

\* A note or its directory cannot be read for a while.
Bar(f, access) ==
  /\ edits < MaxEdits /\ pc \in EditsAt /\ f \in Editable /\ access # disk[f].access /\ disk[f].hash # NoHash
  /\ edits' = edits + 1
  /\ disk' = [disk EXCEPT ![f].access = access]
  /\ UNCHANGED <<clock, written, pc, process, ghosts>>

\* Without a handler SIGTERM ends the process.  The handler, once there, stays; a listener
\* there is only while the program rests.
Terminate ==
  /\ pc # "off" /\ signal = "none" /\ trouble < MaxTrouble
  /\ trouble' = trouble + 1
  /\ IF ~listening \/ pc = "rest" THEN ProcessEnds
     ELSE /\ signal' = IF pc = "call" THEN "called" ELSE "worked"
          /\ UNCHANGED <<pc, mode, state, scanning, dirty, first, call, listening>>
  /\ abrupt' = (abrupt \/ ~listening)
  /\ UNCHANGED <<disk, clock, written, edits, calls, spent, unread, lost, sent, stale>>

Kill ==
  /\ pc # "off" /\ trouble < MaxTrouble
  /\ trouble' = trouble + 1 /\ abrupt' = TRUE
  /\ ProcessEnds
  /\ UNCHANGED <<disk, clock, written, edits, calls, spent, unread, lost, sent, stale>>

-----------------------------------------------------------------------------
\* Syncer::new, State::load.  An unusable file is put aside.

Loaded == IF stored \in {Missing, Unusable} THEN NewState ELSE stored

Start(m) ==
  /\ pc = "off"
  /\ pc' = "scan" /\ mode' = m /\ state' = Loaded
  /\ stored' = IF stored = Unusable THEN Missing ELSE stored
  /\ lost' = [lost EXCEPT ![Day(clock)] =
                calls[Day(clock)] - (IF Loaded.llm.day = Day(clock) THEN Loaded.llm.runs ELSE 0)]
  /\ stale' = FALSE
  /\ UNCHANGED <<disk, clock, out, scanning, dirty, first, call, listening, signal, edits,
                 calls, spent, unread, sent, abrupt, trouble>>

-----------------------------------------------------------------------------
\* scan_once.

Listing(found) ==
  LET files == Kept([f \in Files |-> f], found)
      Meta(f) == [file |-> f, size |-> Bodies[disk[f].hash].size, mtime |-> disk[f].mtime]
  IN  [i \in DOMAIN files |-> Meta(files[i])]

\* The notes there are, with size and mtime; only so many, in the order of the directories.
Scan ==
  /\ pc = "scan"
  /\ \E found \in SUBSET {f \in Files : Seen(f)} :
       /\ Cardinality(found) = Min({MaxFiles, Cardinality({f \in Files : Seen(f)})})
       /\ todo' = Listing(found)
  /\ at' = clock /\ present' = {} /\ touched' = FALSE
  /\ pc' = "read"
  /\ UNCHANGED <<disk, clock, written, mode, state, dirty, first, call, listening, signal,
                 edits, ghosts>>

\* Mutant: the size alone is compared.
UnchangedSize(meta) ==
  meta.file \in DOMAIN state.files /\ state.files[meta.file].size = meta.size

Unchanged(meta) ==
  /\ meta.file \in DOMAIN state.files
  /\ state.files[meta.file].size = meta.size /\ state.files[meta.file].mtime = meta.mtime

\* The record of a note just read.  What the KI said of its old content stays for the time being.
Record(meta) ==
  LET known == meta.file \in DOMAIN state.files
      old == state.files[meta.file]
      hash == disk[meta.file].hash
  IN  IF known /\ old.hash = hash THEN [old EXCEPT !.size = meta.size, !.mtime = meta.mtime]
      ELSE [size |-> meta.size, mtime |-> meta.mtime, hash |-> hash, changed |-> at,
            llmHash |-> IF known THEN old.llmHash ELSE NoHash,
            edges |-> IF known THEN old.edges ELSE <<>>]

Handle ==
  /\ pc = "read" /\ todo # <<>>
  /\ LET meta == Head(todo)
         reads == ~Unchanged(meta) /\ Readable(meta.file)
         new == Record(meta)
     IN  IF meta.size > MaxFileBytes \/ (~Unchanged(meta) /\ ~reads)
         THEN UNCHANGED <<state, present, touched>>
         ELSE /\ present' = present \cup {meta.file}
              /\ state' = IF reads THEN [state EXCEPT !.files = With(@, meta.file, new)] ELSE state
              /\ touched' = (touched \/ (reads /\ (meta.file \in DOMAIN state.files =>
                                                  new.hash # state.files[meta.file].hash)))
  /\ todo' = Tail(todo)
  /\ UNCHANGED <<disk, clock, written, mode, pc, at, dirty, first, call, listening, signal,
                 edits, ghosts>>

\* Mutant: the first look writes nothing of its own.
EndScanNotFirst ==
  /\ pc = "read" /\ todo = <<>>
  /\ state' = [state EXCEPT !.files = [f \in DOMAIN @ \cap present |-> @[f]]]
  /\ dirty' = (touched \/ ~(DOMAIN state.files \subseteq present))
  /\ first' = FALSE
  /\ pc' = "ask" /\ ScanIsOver
  /\ UNCHANGED <<disk, clock, written, mode, call, listening, signal, edits, ghosts>>

\* What was not found is forgotten.
EndScan ==
  /\ pc = "read" /\ todo = <<>>
  /\ state' = [state EXCEPT !.files = [f \in DOMAIN @ \cap present |-> @[f]]]
  /\ dirty' = (first \/ touched \/ ~(DOMAIN state.files \subseteq present))
  /\ first' = FALSE
  /\ pc' = "ask" /\ ScanIsOver
  /\ UNCHANGED <<disk, clock, written, mode, call, listening, signal, edits, ghosts>>

-----------------------------------------------------------------------------
\* llm_tick.

\* The turn is over: the program ends, or waits for the end of the pause or SIGTERM; one that
\* is with the driver reaches the new listener at once.
EndTurn(s) ==
  IF mode.once \/ signal \in {"worked", "called"} THEN ProcessEnds
  ELSE /\ pc' = "rest" /\ state' = s /\ dirty' = FALSE /\ listening' = TRUE
       /\ UNCHANGED <<mode, scanning, first, call, signal>>

\* Mutant: the notes are not looked at again.
BatchUnchecked == LlmCandidates(state.files, clock)

\* Candidates whose content is still the one that was looked at.
Batch ==
  Kept(LlmCandidates(state.files, clock),
       {f \in DOMAIN state.files : Readable(f) /\ disk[f].hash = state.files[f].hash})

AskNothing ==
  /\ pc = "ask"
  /\ LET llm == RollDay(state.llm, Day(clock))
         s == IF mode.llm THEN [state EXCEPT !.llm = llm] ELSE state
     IN  /\ ~mode.llm \/ Blocked(llm, clock) \/ Batch = <<>>
         /\ IF dirty THEN pc' = "write" /\ state' = s /\ UNCHANGED <<mode, scanning, dirty, first, call, listening, signal>>
                     ELSE EndTurn(s)
  /\ UNCHANGED <<disk, clock, written, edits, ghosts>>

Ask ==
  /\ pc = "ask" /\ mode.llm
  /\ LET llm == RollDay(state.llm, Day(clock))
         batch == Batch
     IN  /\ ~Blocked(llm, clock) /\ batch # <<>>
         /\ state' = [state EXCEPT !.llm = llm]
         /\ call' = [now |-> clock, batch |-> batch, known |-> PromptFiles(state.files, batch),
                     read |-> {<<f, disk[f].hash>> : f \in ToSet(batch)}]
  /\ calls' = [calls EXCEPT ![Day(clock)] = @ + 1]
  /\ pc' = "call"
  /\ UNCHANGED <<disk, clock, written, mode, scanning, dirty, first, listening, signal,
                 edits, spent, unread, lost, sent, stale, abrupt, trouble>>

\* The reply is booked, to the time and the day of the question.  Without one that is an array
\* the failure is, and what the program named as its cost is not.
Book(replies, named) ==
  /\ pc = "call"
  /\ IF replies = {}
     THEN /\ state' = [state EXCEPT !.llm = RecordFailure(@, call.now)]
          /\ unread' = [unread EXCEPT ![Day(call.now)] = @ + named]
          /\ UNCHANGED <<spent, sent>>
     ELSE \E reply \in replies :
       LET found == Validate(reply.raw, call.known, call.batch)
       IN  /\ state' = [files |-> [f \in DOMAIN state.files |->
                          IF Contains(call.batch, f)
                          THEN [state.files[f] EXCEPT !.llmHash = state.files[f].hash,
                                                      !.edges = TargetsOf(f, found)]
                          ELSE state.files[f]],
                        llm |-> RecordSuccess(state.llm, call.now, reply.cost)]
           /\ spent' = [spent EXCEPT ![Day(call.now)] = @ + reply.cost]
           /\ sent' = sent \cup call.read
           /\ UNCHANGED unread
  /\ call' = NoCall /\ dirty' = TRUE /\ pc' = "write"
  /\ UNCHANGED <<disk, clock, written, mode, scanning, first, listening, edits,
                 calls, lost, stale, abrupt, trouble>>

\* The program has waited, and nobody heard the signal that came.
Unheard == signal' = IF signal = "none" THEN "none" ELSE "missed"

\* A program that cannot be started is not waited for.
Answer(child) ==
  /\ Book(Reply(child), Named(child))
  /\ IF child.starts THEN Unheard ELSE UNCHANGED signal

\* timeout_secs; the child dies with the future.
TimeOut == Book({}, 0) /\ Unheard

-----------------------------------------------------------------------------
\* The end of a turn.

Graph == Build([f \in DOMAIN state.files |-> [hash |-> state.files[f].hash, edges |-> state.files[f].edges]])

WriteOutput ==
  /\ pc = "write"
  /\ pc' = "save"
  /\ \/ out' = Graph /\ stale' = FALSE /\ UNCHANGED trouble
     \/ out # Graph /\ trouble < MaxTrouble /\ trouble' = trouble + 1 /\ stale' = TRUE /\ UNCHANGED out
  /\ UNCHANGED <<disk, clock, stored, mode, state, scanning, dirty, first, call, listening, signal,
                 edits, calls, spent, unread, lost, sent, abrupt>>

SaveState ==
  /\ pc = "save" /\ EndTurn(state)
  /\ \/ stored' = state /\ UNCHANGED <<abrupt, trouble>>
     \/ trouble < MaxTrouble /\ trouble' = trouble + 1 /\ abrupt' = TRUE /\ UNCHANGED stored
  /\ UNCHANGED <<disk, clock, out, edits, calls, spent, unread, lost, sent, stale>>

\* The pause is over.
Wake ==
  /\ pc = "rest"
  /\ pc' = "scan"
  /\ UNCHANGED <<disk, clock, written, mode, state, scanning, dirty, first, call, listening, signal,
                 edits, ghosts>>

Turn == \/ Scan \/ Handle \/ EndScan \/ AskNothing \/ Ask
        \/ (\E child \in Children : Answer(child)) \/ TimeOut
        \/ WriteOutput \/ SaveState \/ Wake

Next ==
  \/ Tick \/ Terminate \/ Kill
  \/ \E f \in Files : \/ \E c \in Contents \cup {NoHash} : Edit(f, c)
                      \/ \E access \in {"open", "barred", "hidden"} : Bar(f, access)
  \/ \E m \in Modes : Start(m)
  \/ Turn

Spec == Init /\ [][Next]_vars

\* tokio's pause ends.  A turn goes on as long as the process lives, and the KI's
\* program answers or is ended by the time limit: only steps of Turn change pc or
\* todo of a process that lives, and one of them is always possible, so that this
\* is WF_vars(Turn), put in a way that TLC need not work out ENABLED Turn.
FairSpec ==
  /\ Spec /\ WF_vars(Wake)
  /\ []<>(pc = "off") \/ []<><<TRUE>>_<<pc, todo>>

-----------------------------------------------------------------------------
\* Properties.

TypeOK ==
  /\ pc \in {"off", "scan", "read", "ask", "call", "write", "save", "rest"}
  /\ DOMAIN state.files \subseteq Files /\ present \subseteq Files
  /\ \A f \in DOMAIN state.files :
       /\ state.files[f].hash \in Contents /\ state.files[f].llmHash \in Contents \cup {NoHash}
       /\ state.files[f].changed \in 0..clock /\ ToSet(state.files[f].edges) \subseteq Files \ {f}
       /\ Len(state.files[f].edges) <= MaxEdgesPerFile
  /\ state.llm.runs \in 0..MaxRuns /\ (pc = "call") <=> (pc # "off" /\ call # NoCall)

\* What the program named as its costs, whether its answers could be used or not.
Cost(d) == spent[d] + unread[d]

\* The KI is asked max_runs_per_day times a day, and a day costs max_usd_per_day, at most one
\* call more and, contrary to docs/phase14 7, whatever the answers cost that could not be used:
\* those are booked nowhere (llm_tick, sync.rs:326).  So it is whatever is edited, fails or is
\* started again and however the days go by, but for the calls whose booking a kill or a failed
\* save has lost; an orderly end loses none (state.rs).
BudgetHeld ==
  \A d \in Days :
    /\ calls[d] <= MaxRuns + lost[d]
    /\ lost[d] = 0 /\ spent[d] # 0 =>
         \E child \in Children : Cost(d) - child.output.cost < MaxUsd + unread[d]
    /\ ~abrupt => lost[d] = 0

\* What the state says the KI has analysed, in memory and in the file, is what
\* the KI was sent, although the note may change between the look at it and the
\* question and while the answer is awaited (sync.rs, llm_hash).
MarkedWasSent ==
  \A s \in {state, Loaded} : \A f \in DOMAIN s.files :
    s.files[f].llmHash # NoHash => <<f, s.files[f].llmHash>> \in sent

\* At rest the graph on the disk is that of the state, unless the last attempt
\* to write it failed: no change is without its dirty flag, over restarts, lost
\* states and files that come and go (main.rs).
OutputMatches == pc \in {"save", "rest"} => stale \/ out = Graph

\* The two files are joined by an edge of these origins.
JoinedBy(edges, a, b, origins) ==
  \E i \in DOMAIN edges : Joins(edges[i], a, b) /\ edges[i].origin \in origins
\* There is no room for more, and none of it was given to edges of other origins.
FullOf(edges, origins) ==
  Len(edges) >= MaxEdges /\ \A i \in DOMAIN edges : edges[i].origin \in origins

\* The lines that are neither front matter nor in a code block, and the links in the first n.
Prose(lines) ==
  LET begin == FrontmatterEnd(lines) + 1
  IN  {i \in begin..Len(lines) :
         /\ lines[i].kind # "fence"
         /\ Cardinality({k \in begin..i : lines[k].kind = "fence"}) % 2 = 0}
LinksIn(line) == {l \in ToSet(line.links) : l.kind \in {"wiki", "path"}}
LinksUpTo(lines, n) == UNION {LinksIn(lines[i]) : i \in Prose(lines) \cap 1..n}

\* A link in a note outside of its code blocks, unless more than MAX_LINKS_PER_FILE come with or
\* before it, joins its two notes in the graph, as a link and not as something weaker, or the
\* graph is full, and full of links; what the KI says joins its two notes, as a link or as the
\* KI's, or the graph is full of these (graph.rs, docs/phase14 5).
StrongestFirst ==
  pc = "save" /\ ~stale =>
    \A a, b \in DOMAIN state.files :
      /\ /\ a # b
         /\ LET lines == Bodies[state.files[a].hash].lines
            IN  \E i \in Prose(lines) :
                  /\ Cardinality(LinksUpTo(lines, i)) <= MaxLinks
                  /\ \E l \in LinksIn(lines[i]) : b \in Resolve(a, l, state.files)
         => JoinedBy(out.edges, a, b, {"links"}) \/ FullOf(out.edges, {"links"})
      /\ a # b /\ Contains(state.files[a].edges, b)
         => JoinedBy(out.edges, a, b, {"links", "llm"}) \/ FullOf(out.edges, {"links", "llm"})

\* What the notes on the disk make, with the KI's edges as they are.
Current ==
  LET fits == {f \in Files : Readable(f) /\ Bodies[disk[f].hash].size <= MaxFileBytes}
  IN  /\ fits = DOMAIN state.files
      /\ out = Build([f \in fits |-> [hash |-> disk[f].hash, edges |-> state.files[f].edges]])

\* When the notes stay as they are, all of them can be read and are no more than
\* max_files, and the last write did not fail, the graph becomes theirs without
\* anyone's help (docs/phase14 1).
Converges ==
  <>[](pc # "off" /\ ~stale /\ (\A f \in Files : disk[f].access = "open")
       /\ Cardinality({f \in Files : Seen(f)}) <= MaxFiles)
  => <>[](pc # "off" => Current)

\* docs/phase14 8: SIGTERM during a call is noticed when the call ends.
TermIsNoticed == signal = "called" ~> pc = "off"
=============================================================================
