# Verification of the sysadmin dashboard

This directory holds TLA+ models of the log-anomaly daemon and its
surroundings, the TLC configurations that check them on small instances, and
TLAPS proofs of what holds for every instance. Paths are relative to the root
of the repository; the daemon's rules ("rule 13", "rule 18") are those the
source comments and `docs/` refer to.

## 1. The system

A daemon follows the journal, learns what is normal, and pushes anomalies to
clients over a Unix socket; clients may ask it to act (restart a unit, end a
process, block an address). It is one tokio process; the parts that run
concurrently are the tasks named here.

| Part | State | Operations | Talks to |
| --- | --- | --- | --- |
| **Ring channel** `core/src/channel.rs` | queue, `closed`, handle count, drop count, a `Notify` | `send`, `clone`, drop, `close`, `recv` (cancellable) | ingestion pushes, pipeline takes |
| **Ingestion** `daemon/src/ingestion.rs` | the `journalctl` child, `backoff_ms`, parse-error counter | permission check, start a pass, read a line, wait | a future in `main`'s `select!` |
| **Pipeline** `daemon/src/pipeline.rs` | engine, store, database, counters | `handle`, `snapshot` (save), `publish_snapshot` | a task; takes from the channel, publishes to the shared state |
| **Shared state** `daemon/src/state.rs` | recent ring, anomaly broadcast, context ring, self filter, mutes | `publish_anomaly`, `suppress_*`, `is_self_filtered`, `mute`, `query_context` | mutexes between pipeline and sessions |
| **Server** `daemon/src/server.rs` | socket path, client counter | bind, accept, limit, shutdown | a task; starts sessions |
| **Client session** `daemon/src/client_task.rs` | subscription, receivers, framing | handshake, `select!` loop, requests | one task per connection |
| **Actions** `daemon/src/actions.rs` | rate limits, audit log | `execute`: allow-list, rate limit, self filter, effect, audit | called by sessions |
| **Baseline file** `core/src/baseline/persist.rs` | a redb file: schema, bucket length, histograms, templates | `open`, `check_bucket_seconds`, `load`, `save`, `move_aside` | `main` at the start, pipeline later; other processes |
| **main** `daemon/src/main.rs` | options, handles | start order, signals, shutdown order | everything |
| **Analysis** `core/src/analysis/*`, `core/src/baseline/{store,histogram,slot,profile,decay}.rs`, `core/src/template.rs` | rate trackers, alarm state, histograms, templates | ingest, tick, prune, cluster | owned by the pipeline |
| **Client library** `proto/src/client.rs`, `proto/src/framing.rs` | connection state, inbound queue, backoff | connect, handshake, read, write, reconnect | used by GUI and TUI |
| **Text of a line** `core/src/{journal,mask,quiet}.rs`, `daemon/src/wire.rs` | quiet rules | parse, mask, truncate, convert | ingestion, template engine, sessions |
| **Watchers** `daemon/src/{lan_devices,units,sysmon,prometheus_export}.rs`, `main.rs` | device registry, last readings, exported file | scan, poll, export | tasks; shared state and pipeline |
| **GUI** `gui/src/{app,client,devices}.rs` | anomalies, selection, details, log, state shared with a bridge | frames, clicks, bridge | client library |
| **Services card** `gui/src/services.rs` | a snapshot | list, show, replace | a thread; systemctl |
| **Fleet** `gui/src/fleet/*` | a tunnel, a client and a card per host | supervise, bridge, show | ssh, client library |
| **Network map** `gui/src/network_map/*` | points, routes, programs | poll and place, measure | two threads; `/proc`, two databases, `mtr`, `getent` |
| **Graph tabs** `gui/src/knowledge_graph/*` | a merged graph, focus, selection | watch, load, merge, show | a thread; two files |
| **TUI** `tui/` | list, selection, status | draw, keys, messages | client library |
| **graphsync** `graphsync/src/*` | records of notes, ledger of the KI, two files | scan, extract, ask, write | notes, a KI program, systemd |

### What is hard here

* **Interleavings.** Ring channel: the check of the queue, the registration
  with the `Notify` and the await are three points between which sender handles
  may push or fall. Sessions: the recent ring is read before the receiver
  exists. Actions: a session reads the clock before it takes the lock.
  Processes: nothing but the socket tells a second daemon of a first, and the
  database is opened before the socket is bound.
* **Cancellation.** Every `select!` drops the losing futures: `recv` in the
  pipeline, all of ingestion in `main`, a session at the end of the process.
* **Failure.** `journalctl` exits or cannot be started; a save fails; a file is
  damaged, locked or of another version; a process is killed between two
  transactions.
* **Limits.** Every queue, ring and map has one, and each says differently what
  goes when it is full.
* **Time.** Backoff, rate-limit windows, self-filter windows, mutes, days of a
  budget; time stamps of lines that need not grow.
* **Things looked at and used later.** A pid during its grace, a note between
  scan and question, a selection while its context is fetched, a far end while its
  place and route are looked up, files between their time stamps and their read.

`PROJECT.json` lists these hazards at their lines, each with the properties
that watch over it.

### What makes each part correct

* Ring channel: newest elements kept, in order, each delivered or counted; no
  lost wakeup; the end is announced once everything is out.
* Ingestion and pipeline: every line is accounted for; replay ends, live mode
  does not; shutdown drains, saves and terminates.
* Anomaly feed: each anomaly reaches a session once, or is reported as missed.
* Actions: the limit holds per target; effects are logged; the daemon does not
  analyse the lines its own actions cause.
* Baseline file: no mixture of bucket lengths; a newer file is left alone; a
  reset is final; what was saved is what is loaded.
* Session, client: handshake before anything else; snapshots keep coming;
  shutdown reaches every session; a lost connection is retried.
* Analysis: what is kept about a template is what the journal says of it, late
  lines and silence included; names of templates stay distinct; nothing serious
  is withheld, and what is withheld is counted; limits hold.
* Surroundings: a signal reaches who was meant; what is muted, logged or seen is
  kept as long as it is due; what is handed out is whole.
* graphsync: the budget holds, nothing is marked that was not asked about, the
  graph on the disk is that of the notes in the end.
* GUI and TUI: what is shown belongs together and to what is selected, and
  follows what happens.

## 2. The modules

```
LossyFifo            what the channel promises
  ^ refined by   RingChannel  <- TasksProofs
  ^ used by      Daemon       <- ProgramsProofs      ingestion + pipeline + main
AnomalyFeed          <- AnomalyFeedProofs   publisher, recent ring, broadcast, sessions
BaselineFile         <- BaselineFileProofs  processes, baseline file, socket path
Actions              <- ActionsProofs       executor, rate limit, self filter, audit,
                                            pipeline's filter
Socket               what a connection carries
  ^ used by      Server       accept loop, tasks of the connections, the process
  ^ used by      Client       proto::client, its queues, the bridge to the GUI
                 Connection   both sides together, with strangers and restarts
                              <- ConnectionProofs
Templates            registry of templates, their merging, eviction and saved table
Rates                counts per template: in the sliding window, and by bucket
Baselines            histograms and profiles per unit
  ^ all extended by
                 Analysis    the engine, the pipeline's handle, saves and restarts
                             <- AnalysisProofs
Effects              signals and kill escalation, nftables, audit log and rotation
SharedState          mute store, ring of lines
Watchers             LAN scan, system monitor, export for Prometheus
Lines                parsing, masks, quiet rules, truncation
  ^ all extended by
                 Surroundings  <- TasksProofs
Notes                links and terms of a note, the graph of all
  ^ extended by  GraphSync    budget, batch and answer of the KI; the program, its
                              files, its user, systemd
                              <- GraphSyncProofs
Screen               frames on demand
  ^ used by      Dashboard    the GUI's state and the bridge
                   ^ extended by  Terminal    the TUI
                 Fleet, Services, NetworkMap, KnowledgeGraph
  ^ all extended by
                 Desktop      <- ProgramsProofs
Maps                 insert, remove and retain; used wherever the code keeps a map
MC*                  instances for TLC; RingChannel, AnomalyFeed, Daemon, BaselineFile
                     and Connection need no definitions for theirs and are run as they are
```

**RingChannel / LossyFifo.** Elements are numbered in the order of pushing.
`RingChannel` has an action per atomic step: the queue's critical section
(`Send`), the notification after it (`Notify`), the atomic decrement
(`DropHandle`), the store of `closed` (`StoreClosed`) and `notify_waiters`
(`WakeAll`); the receiver registers (`RecvBegin`), checks (`RecvCheck`), polls
(`RecvPoll`), is woken (`RecvWake`) and may be dropped wherever it waits
(`RecvCancel`, the pipeline's `select!`). tokio's `Notify` is modelled from its
use: a permit, a set of waiters that were registered before a
`notify_waiters`, and the hand-over of a wakeup a dropped waiter had received.
`LossyFifo` is the contract: `Put`, `Take`, `Close`, `End`.

**AnomalyFeed.** `publish_anomaly` is two steps (ring under a mutex, then
broadcast). A session goes off -> welcomed -> listed -> live, as `run`
does; its receiver is a cursor into the broadcast, and `Lag` is tokio's
`RecvError::Lagged`.

**Daemon.** One process from the first line to exit. `Init` chooses between
live and replay, and whether the database could be opened. The journal is a
number of lines written and a position; a line is an event, unparsable or
blank. `Signal` drops the ingestion future at whichever await point it is in.
The channel is an instance of `LossyFifo`; `RefinesFifo` is what justifies it.

**BaselineFile.** Several processes, each a program counter through `main`,
`BaselineDb::open`, `check_bucket_seconds`, `load`, `bind_socket`, work and
shutdown. Files are inodes with a name that can be moved; redb is modelled from
its use: exclusive lock, atomic transactions, an error for a file that is
locked or damaged. `Crash` is enabled everywhere. `EnsureTables` is the transaction
that `open` commits before it reads the version (`ReadSchema`), so a file of a newer
program gets the tables it lacks; the `chmod` beside it is left out. Where `connect`
fails at the socket in another way than by being refused, `Probe` goes on to bind;
the comment at `server.rs:82-84` expects that to fail, but `bind_with_mode` renames
over what is there.

**Actions.** Concurrent attempts on the one executor. Each carries the clock
reading its session took. The maps for rate limits and the self filter have
room for a number of targets and evict as the code does. `MeetLine` is the
pipeline asking `is_self_filtered` about a line that an effect caused: one of the
target itself, or one of systemd about it. History variables note whose record or
filter entry had to make room, and whose entry was replaced by one of an attempt with
an older reading of the clock, so that the properties speak of each attempt by itself.

**Socket, Server, Client, Connection.** `Server` has an action for what the
accept loop and each `client_task` do: the limit is checked when a connection is
accepted, a task goes through handshake, greeting (Hello, RecentAnomalies, the
first Snapshot; nothing is read meanwhile) and the `select!` loop, and ends in
two steps, because the socket closes before the counter goes down. `Client` is
`connection_loop` of `proto/src/client.rs` with its states, the exponent of its
backoff, the `FrameReader`, the inbound queue that gives up snapshots first and
the outbound channel; `Apply` is the bridge of the GUI. A large line takes two
reads, so that a request going out can cancel a read in the middle of it. The
handshake's reader is another one, and what it has read beyond the Hello is lost
with it (`client.rs:286`): `Welcome` takes any number of further fragments.
`Connection` puts both over the same sockets, with `Strangers` that write
anything and leave at any time, and with a daemon that is shut down, killed and
started again. One kind of push stands for anomalies, `Lagged` errors and
LAN devices. Pipes have no limit: a peer that stops reading without hanging up
is not modelled (see section 4).

**Templates, Rates, Baselines, Analysis.** The structures of
`core/src`, each with the variables of its Rust type and the operation the
engine calls (`ProcessLine`, `Push`, `RecordRate`, `RecordBaseline`); `Rates` has two
of them, the window and the tracker.
`Analysis` puts them together in the order of `AnalysisEngine::process` and adds
level, learning phase, cooldown and suppressed count (`Judge`). A line is the
sequence of its tokens after masking, its id the sequence the cluster began
with, since the hash is taken to be injective. A line may hold the wildcard `<*>`
itself, which the journal is free to have and no comparison counts. What is saved is a
table by id (`Persisted`) with the order of the clusters, and `Restored` puts them back
in it. Times are ticks; a line's time is
any step from the latest one, also backwards (the run takes a few of them). The score is floating point and
any number here, so `Judge` sees every sequence of levels a score could
produce. Weights are integers, and the half-life is at the lower limit the code
sets it, one bucket, so that fading halves exactly. Which of the filters of
`handle` applies is a free choice (`Filtered`), because they change nothing in
the engine. Maps are functions and are changed by the operators of `Maps`. Where the code takes the least of a `HashMap`, the model takes any of
the least. `Save` enforces the limits whether or not the write succeeds;
`Restart` loses everything but the file. Ghosts record the lines analysed, the
reports made and those withheld; the properties compare the structures with them.
A report also notes how many had been withheld before it (`after`), so that each
withheld one lies between two reports of its template.

**Effects, SharedState, Watchers, Lines, Surroundings.** What lies beside the
path of a line. `Effects` begins where `Actions` ends: `terminate_process` reads
the start time, signals, and leaves a task that waits out the grace, looks
whether the pid is there, compares the start times and kills; each call to the
system is a step, because processes end and pids are given on between them. A pid
has `PidBits` bits and is negative beyond half of them, as `as i32` makes it.
The audit log is two files of numbered entries, with the rename and the reopening
failing separately. `SharedState` has a clock of the daemon and time stamps of
lines that have nothing to do with it. `Watchers` reads the clock once per scan,
keeps devices by MAC while leases change hands, and writes the export in the steps
create, write, sync, rename, with kills and power failures in between (what is not
synced is lost, in whole or in half). `Lines` takes one record from journalctl to
an anomaly: widths of characters in bytes, tokens with marks at their ends, and
the regular expressions a core fits, which are a constant (`Forms`; `1:02:03` is in it
as what it is to the code, an address). A line may also spell a placeholder. `Surroundings` puts one of the parts
(`Parts`) to work per behaviour: they have no state in common, so nothing is lost
but their product.

**Notes, GraphSync.** `Notes` has the pure part: links and terms of a
content (front matter, code blocks, headings, tags, wiki links and paths), how a link is resolved,
and `Build`, the graph from links, the KI's edges and common terms under its
limits. `GraphSync` has the ledger (`Blocked`, success, failure, change of day),
the choice of a batch, and what is taken of an answer and of its cost; and `main`: scan
file by file, `Batch` with the second look at each note, the call, the write of
graph and state. A content is a number that is its own hash. The user edits while
the program looks or waits (`EditsAt`), it is killed at any step, and a write may
fail. A SIGTERM before the first pause kills the process; from then on there is a
handler (`listening`), and a listener only in a pause. The runtime has one thread: a
signal that comes while the program works stays with tokio's driver (`signal`), which
passes it on when something is awaited next. That is the pause, which ends the
program, or `llm_tick`, where it meets no listener and is gone; so is one that comes
during the call. A signal in the very turn of the driver in which a pause ends is left
out.

**Screen, Dashboard, Terminal, Fleet, Services, NetworkMap, KnowledgeGraph,
Desktop.** `Screen` is egui drawing on demand. `Dashboard` has the bridge
(`apply_message`), the state under the mutex, and a frame that copies it and then
draws the copy, with the selection, the details panel and its request for context,
the confirmation and the log of actions. An anomaly is its number and its daemon,
because another daemon numbers anew; the panel finds it by the number alone. `Terminal` is the TUI on the same connection.
`Fleet` has for each host the supervisor, the ssh, the client and the bridge, and
ports that belong to whoever binds them first. `Services` has the two calls of
systemctl as two steps. `NetworkMap` has a step per section under the mutex and one
per lookup outside of it; of an address the databases know a country or a city or
nothing. `KnowledgeGraph` has the two files with their writers, the thread that
compares time stamps and reads, and `merge_overlay` as a pure operator. `Desktop`
puts one part to work per behaviour, as `Surroundings` does.

Data are abstracted to what properties tell apart: lines, templates and
anomalies are numbers, a unit or process is a model value, wording and
formatting are left out.

## 3. What TLC checks

| Run | Instance | Shows |
| --- | --- | --- |
| `ring_channel` | 2 sender handles, capacity 2, 4 pushes | `NoLostWakeup`, and `ImplementsFifo`: refinement of `LossyFifo` including its liveness |
| `anomaly_feed` | 1 client, ring 2, broadcast 2, 5 anomalies | `LiveAccounting`: forwarded, withheld or counted as missed, exactly one of them; `LossIsConfined`: where an anomaly can get lost at all; `CatchesUp` |
| `daemon` | live and replay, with and without database; capacity 1, 3 lines, 3 passes, backoff 1 to 3 | `EveryLineAccountedFor`, `LeavesNothingBehind`, `ShutdownCompletes` |
| `baseline_file` | 2 processes, 3 starts, 2 bucket lengths, 2 items, any earlier file | `NeverMixesLengths`, `NewerIsKept`, `SavedIsRestored` |
| `baseline_file_aside` | the same | **violated** `OnlyUnreadableIsMovedAside` |
| `actions` | 3 attempts; a unit, a process of it and a forbidden unit; room for one target per map | `RateHeld`, `EffectsReachTheLog`, `OwnLinesAreFiltered` |
| `connection` | two connections, one slot, and either one client with two requests (inbound queue 2, outbound 1) or two strangers; two starts or late Hellos | `HandledOnceInOrder`, `NothingMissingInside`, `ConnectionIsRestored`; `SlotsAreExact`: the client counter is the number of tasks, whatever ends them; `SlotsComeBack`: whoever hangs up or never says Hello gives the slot back |
| `analysis` | four families of journals of 3 to 5 analysed lines: every score; late lines and pauses; lines alike and unlike; two units with saves and restarts. Window 3 ticks and 3 events, history 2 buckets, 2 templates, 2 bins, 1 histogram after a cut | `IdsAreUnique`, `WindowIsExact`, `RatesAreExact`, `HistogramsAreExact`: what is kept is what the journal says; `SeriousIsHeard`; `SuppressedAreReported`: a withheld report is counted once |
| `graphsync` | 3 notes in 2 folders, 3 contents, one edit, one trouble (signal or failed write) and kills, 2 days, 2 calls a day; as a service with the KI and once without | `BudgetHeld`, `MarkedWasSent`, `OutputMatches`, `StrongestFirst`, `Converges` |
| `graphsync_sigterm` | the same | **violated** `TermIsNoticed` |
| `desktop` | 6 parts, see below | `ContextFitsSelection`, `SelectionStays`, `ReachableIsShown`, `RoutesAreShown`, `MapFollows`, `MergeIsSound`, `ViewsFollow` |
| `surroundings` | 9 parts, see below | `SignalsHitOne`; `KeptWhileDue`: mutes, audit entries, devices; `ReadersSeeWhole`: context, message, masks, exported file |

`KeptWhileDue`, `ReadersSeeWhole` and `ViewsFollow` are conjunctions with one named
part per component; each part has a mutant of its own that breaks it. The type
invariants of the proved modules are theorems and have no run (of `Connection`
and `GraphSync` as `Types`, part of the inductive invariant).

### Why the bounds are enough

* `ring_channel`: two handles are the fewest that can race for "last"; pushes
  exceed the capacity, so the queue overflows, empties and overflows again.
  The proofs cover every other number.
* `anomaly_feed`: sessions do not influence each other or the publisher, so one
  is enough. The number of anomalies exceeds ring and broadcast together, so
  both turn over while the session connects.
* `daemon`: enough lines to overflow the channel, enough passes for the backoff
  to reach its limit and to be reset.
* `baseline_file`: two processes make every race of the code; the third start
  sees what a pair left behind. Two lengths suffice for "the same" and "another";
  item 1 stands for what an earlier program learned, item 2 for what this one
  does.
* `actions`: with room for one target, a second one evicts; three attempts fill
  a limit and exceed it while a reading goes stale, and two of them on one target
  enter the filter in either order; a window of two ticks and a clock up to three
  let it pass.
* `connection`: with one slot and two connections, the client's new connection
  meets the task of its old one and may be refused; the second start leaves it
  with a session that died under it. Two requests outlive a session; four
  messages (`MaxSaid`) are the greeting and a push, twice what the inbound queue
  holds. `MaxTroubles` bounds starts and expired handshakes together. Two
  strangers compete for one slot and for the two connections; they may write
  every kind of line, and a restart finds them connected. Client and strangers
  are not on stage together (`cast`): a stranger differs from a client only in
  being able to do more.
* `analysis`: each family exceeds the limits its part of the engine has: more
  lines than the window and more templates than the registry hold, pauses
  shorter than, as long as and longer than the history, steps back within the
  window and beyond it, enough bins to be collected, two units where a save leaves
  one, weights that are trusted after two buckets; among the lines are one with the
  wildcard in it and one of nothing but it. The families keep apart what does
  not interact (scores do not influence the structures), which is what makes
  them small.
* `graphsync`: three notes are more than `max_files`, a note is in two roots,
  a name is found in two folders, links compete with common terms and the KI's
  answer for a limit of two edges; one content is too long. One edit before or
  during a call makes a batch stale; two calls a day and one of a cost above the
  rest of the day reach both limits; the second day begins while a call is under
  way. Time passes only where the code waits (`TicksAt`).
* `desktop`: two anomalies of two daemons in a list of two, so the list turns over
  and numbers come again; three clicks select, deselect and act. The list of the
  terminal has room for three, so a line below the first moves down, stays selected,
  and is dropped in the end. One host whose
  ssh breaks twice with a backoff of one step (hosts influence each other through
  a common port only; the port may also be taken by another program). Two far ends
  on routes with a silent router, with two whose names tell a place, and a cache
  of two routes, so both are measured, forgotten and found again; connections with
  and without a program, two sockets of one far end, one that is closing. Three
  writes of two files, a base with two nodes for one note, an overlay with a
  matching, a poorly and a well connected note and room for two.
* `surroundings`: pids of 3 bits cover init, the daemon, two others, and those
  that turn negative; the process of one pid is replaced twice within a grace. Six
  entries of an audit log of two per file rotate three times, with one fault.
  Three mutes compete for room for two, with time stamps before and after the clock
  and a permanent one. A ring of three and four turns let the asked line leave it.
  Two devices swap two leases with room for one. Three exports with two breakdowns.
  Messages end below, at and above the limit, with characters of one to four
  bytes at the cut.

Deadlock is not checked where the system stops by design (the process is gone,
the counters of the model are used up); the liveness properties say where it
must not stop.

### Findings

1. `baseline_file_aside`: `persist.rs:150` treats every error of
   `Database::create` as damage, the lock of a running daemon included. A
   `--dump-baselines` beside a daemon renames its file; what the daemon saves
   from then on is not found by the next start.
2. `graphsync_sigterm`: `graphsync/src/main.rs:155` makes a listener for SIGTERM
   in each pause and drops it. From the first one on the signal has no default
   effect, so one that comes while an answer of the KI is awaited is lost;
   `docs/phase14-graphsync.md:121` says it is noticed after the call. One that comes
   while the program works without awaiting anything ends it at the next pause.

Noticed while modelling, without a run of their own. In the daemon:

* An anomaly published after the session read the recent ring
  (`client_task.rs:128-138`) and before it created its receiver
  (`client_task.rs:281`) reaches the client in neither way and without a
  `Lagged` error, although `state.rs:5-8` promises that nothing is discarded
  silently. `LossIsConfined` names this gap.
* `terminate_process` enters the pid into the self filter; systemd's line about
  the end of that process carries systemd's pid and the unit, which is not
  entered. The comment at `actions.rs:267-271` counts that very line among the
  suppressed ones; `OwnLinesAreFiltered` speaks of lines that name the target only,
  and so not of it.
* A second action on a target with an older reading of the clock replaces the entry of
  the first in the self filter and shortens its time (`state.rs:150`).
* A file of a newer program is written to before it is refused: `open` sets its mode
  and commits the missing tables (`persist.rs:166-167`). `NewerIsKept` therefore says
  what is kept: version, bucket length and all that was learned.
* The comment at `server.rs:82-84` has `bind` fail when the probe of the socket could not
  tell who listens; `bind_with_mode` takes the path in any case.
* `connect_and_handshake` reads the daemon's Hello to its end and does not hand
  it on (`client.rs:275-287`), so the arm for it in the GUI's bridge
  (`gui/src/client.rs:194`) is never reached, and the list of allowed actions,
  which `gui/src/client.rs:69-71` says is received in the Hello, stays empty. The
  run `desktop` sets `HandsOnHello` to check what the confirmations would do.
* `restart_backoff_ms` larger than `MAX_BACKOFF_MS` is used as it is for the
  first wait and then falls to the limit (`ingestion.rs:237`); `BackoffOnlyGrows`
  is stated accordingly.
* `retry_after_secs` is rounded down (`actions.rs:405`), so that waiting exactly
  that long can be denied again.
* If the process ends while an action waits for D-Bus, its effect may have no
  audit entry; `EffectsReachTheLog` speaks of a running process.
* A shutting-down daemon removes whatever is at the socket path
  (`server.rs:209`), and a starting one may remove a socket bound between its
  probe and its unlink (`server.rs:75-79`). `BaselineFile` has both steps.
* The snapshot interval of a session is made anew with each message of the client
  (`client_task.rs:339`, only there): a client that asks more often than the interval
  gets no periodic snapshot.
* The fragments `Welcome` loses can be all of RecentAnomalies and the first
  Snapshot; a client that lost them notices nothing.
* A write of the Hello to a daemon that has already refused fails, and the
  Goodbye with the reason is not read (`SendHello`).
* Requests a daemon has not read when a connection ends are lost without an
  error to the application; `HandledOnceInOrder` says only that none is
  repeated.
* A session that is still in its handshake hears no shutdown and gets no
  Goodbye.
* After a reconnect the GUI appends RecentAnomalies to what it shows, so the
  same anomaly can be in its list twice.
* `docs/phase6-protokoll.md:338` lets the backoff start again at each Hello; the code
  does so only after a session of `STABLE_CONNECTION`.
* Lines written while no `journalctl` runs are skipped (`-n 0`) and not counted.
* `evict_expired` says it removes all entries older than the window
  (`window.rs:84`); it stops at the first that is not, so a late line behind it
  stays, also after that one was evicted by number. `WindowIsExact` says which.
* After a pause longer than the history the count before the pause stays as the
  oldest number (`rate.rs:133-145`), where the comment has it overwritten by
  zeros. `RatesAreExact` leaves that number out.
* `RatesAreExact` supposes `rate_history_buckets <= idle_eviction_buckets` (60 and 720
  by default), which nothing enforces. Otherwise a template is forgotten while its
  history would still know of it, and begins anew with zeros (`rate.rs:99-119`).
* With `rate_history_buckets = 0`, which nothing rejects, `roll_entropy_bucket`
  removes from an empty vector and panics (`engine.rs:470`), while the rate
  tracker takes the value as 1. The modules assume it positive.
* A restart forgets which templates a unit knows, so a template that stays
  silent gets no more observations of 0; `store.rs:360` counts the loss as at
  most one bucket.
* A level held by hysteresis is the previous one or none: from Critical, a score
  below its exit threshold may fall through to Info or Normal although a Warn
  would have been held (`engine.rs:582`).
* The alarm states of templates are never evicted (`engine.rs:590`), unlike
  everything else that is kept per template.
* `enforce_limits` and the trust at a restart use the weights of the last touch,
  not faded to now, and a single line with a time in the future moves window and
  buckets ahead for all that follow.
* Lines of nothing but a literal `<*>` are like no template (`template.rs:364`), so each
  of them begins a cluster anew, all with one id (`template.rs:283`); a save keeps the
  last of them. `IdsAreUnique` excepts them. With one other token in the line ids stay
  apart.
* The task that waits out the grace of a terminated process ends with the daemon,
  although the client was told of the SIGKILL to come.
* An audit log that cannot be opened after a rotation stays closed until the next
  start; every entry then goes to the log of the process.
* `nft` may keep the old time of an address that is blocked already.
* A mute goes by the id of its template; when the template is evicted and the
  line begins another cluster under another id, the mute is lost. Muting again
  replaces the time, also a permanent one by a shorter.
* The system monitor tries D-Bus once, at its start (`main.rs`); without it the
  list of units stays empty.
* `write_prometheus_textfile` waits for the disk within the pipeline's task, and
  the temporary file of a process that died is never removed.
* A LAN device without a name keeps the address of its first sighting as its name
  after its lease has changed (`lan_devices.rs:120`).
* `next_anomaly_id` is used up for an anomaly whose level is Normal in the end, so
  numbers have gaps.
* `mask.rs` cuts colons from the ends of a token before the masks see it, so
  `fe80::` stays as it is and `::1` becomes `::<NUM>`, although the comment on the
  mask for IPv6 counts the short forms in.
* A time written `1:02:03` is not one to the first mask, which wants two digits, and
  passes for an address (`mask.rs:64`), so that it and `fe80::1` are one to the
  templates. `MasksKeepKindsApart` says what the order of the masks keeps apart, not
  what the expressions let through.
* SIGKILL after the grace goes by the pid: between the last comparison of start times
  and the signal it may change hands (`actions.rs:485-508`). `SignalsHitOne` excepts
  this moment (`raced`), as it does a start time that cannot be read.

In graphsync:

* A reply whose text has no JSON array leaves `llm_tick` by the `?` of `sync.rs:326`,
  and its `cost_usd` with it; `record_failure` books a run without a cost. The same
  goes for an error the KI's program reports with its cost (`llm.rs:170`). A day can
  then cost what `max_runs_per_day` such replies cost, where
  `docs/phase14-graphsync.md:101` and `:107` have `max_usd_per_day` and one call more.
  `BudgetHeld` allows for these costs by name (`unread`).
* A change that keeps size and mtime of a note is never seen (`sync.rs:151`); in
  the model every change gives another mtime.
* A note that cannot be read for one scan loses its record, and with it that it
  was analysed.
* When the graph cannot be written the dirty flag is gone all the same, and the
  graph stays old until the next change; `OutputMatches` and `Converges` leave
  this out by name (`stale`).
* A kill, or a state that cannot be saved, loses the booking of a call, so that
  more than `max_runs_per_day` calls are possible (`BudgetHeld` counts them).
* `next_allowed` counts from the beginning of a call, so after a long one there
  may be no interval at all.

In the GUI and the TUI:

* A context is matched by the number of its request (`gui/src/app.rs:903`), the anomaly
  in the panel by its own number (`app.rs:805-809`). If the anomaly leaves the list and a
  daemon started anew gives its number to another, that one is shown with the old
  context, against the comment at `app.rs:894-898`. `ContextFitsSelection` names this case.
* `push_anomaly` leaves a selection on the first line where it is
  (`tui/src/app.rs:70`), although the comment above it has the selection stay on its
  entry. `SelectionStays` speaks of the lines below it.
* The graph tab, like graphsync, goes by time stamps: a write that leaves the mtime as
  it was is not noticed (`knowledge_graph/mod.rs:427`). In `KnowledgeGraph` every write
  gives another.
* A confirmed action that does not fit the queue of requests is dropped without a
  word; one that fits may run on a later connection.
* While the view is paused a reply with context is not shown.
* Details stay open by the number of an anomaly, which another daemon gives anew,
  so that they may show another anomaly after a reconnect.
* A configuration that cannot be read gives the defaults without a message.
* The services card hides failed units with a hidden prefix, takes a failing
  `systemctl` for an empty list, and is drawn only after the daemon has sent the
  state of the system.
* Two hosts of the fleet with one `local_port`: the second is shown as connected
  through the tunnel of the first, although `fleet/mod.rs:47-50` gives the failed
  tunnel precedence, because the card is derived only when the connection
  changes. For the same reason "tunnel under construction" is not shown again
  later. Counters go on over reconnects and count recent anomalies twice.
* The map drops points before it refreshes the last sighting of those still there
  (`network_map/mod.rs:399`), so that polls further apart than `CONNECTION_HOLD`
  drop established connections; the program of a point is never updated once it
  is known.
* The graph's thread reads and lays out under the mutex the drawing needs
  (`knowledge_graph/mod.rs:431`), against rule 21. Focus and selection are
  indices, so they may mean another group or note after a reload.
* In the TUI, with a full list, `selected` grows beyond its end, and the way back takes
  as many keys. "Verbindung beendet" is never cleared. RecentAnomalies after a reconnect come on
  top of those already there.

## 4. Fairness

* Receiver and senders of the channel: weak fairness of each step that is not a
  choice of the program. tokio runs a task that was woken; `RecvCancel` and new
  sends need not happen. The receiver's check of the queue is strongly fair,
  because the pipeline's `select!` starts at a random branch: it cannot drop
  the `recv` future for another branch every time before the first poll.
* `AnomalyFeed`: the pipeline finishes a publication; a session's `select!` is
  random among the ready branches, so its receiver is polled. The client is
  taken to read: `send_message` has no timeout, so a session whose peer neither
  reads nor hangs up waits in its write, and `CatchesUp` says nothing of it.
* `Daemon`: ingestion, the pipeline's branch for the channel, main and the
  server take steps they can take. No fairness for the journal, for signals,
  for the tickers, or for `journalctl` to end; the number of passes is bounded.
  Ingestion as a whole is weakly fair, so in replay a pass that has read
  everything ends, as `journalctl --since` without `-f` does.
* `Connection`: every task on either side that can take a step takes it, the
  deadline of the handshake runs out, a client that waits tries again. No
  fairness for interval ticks, signals, kills, starts, the application and
  strangers. `ConnectionIsRestored` therefore has `<>[]Undisturbed(c)` on its
  left: from some time on the daemon is up, the user may open the socket and no
  stranger is connected. The clients read: as in `AnomalyFeed`, a peer that
  keeps its end open without reading would hold up its session, and nothing is
  claimed for it.
* `GraphSync`: a turn goes on as long as the process lives, a call of the KI is
  answered or ended by its time limit, and the pause ends (`Wake`). The first is
  put as infinitely many changes of `pc` or `todo`, which is the same (see
  `FairSpec`) and cheaper to check. Nothing for the user, systemd or failures. `Converges` has on its left that from some time
  on the program is not off, its last write did not fail, and the notes can be
  read and are not too many.
* `Fleet`: supervisor, ssh, client and bridge of each host are tasks of tokio, and
  the frame is drawn when asked for; nothing for tunnels and daemons to break or
  come back. `ReachableIsShown` supposes that the host serves from some time on.
* `Services`, `NetworkMap`, `KnowledgeGraph`: each thread is a loop with a sleep
  and goes on. Measurements end because `mtr` runs under `timeout`; that `getent`
  and `systemctl` answer in the end is an assumption, the code sets no limit. A
  writer of a graph file that has begun is taken to finish (`EndBase`): of a file
  that stays half-written the tab can only show the error.
* `Analysis`, `Dashboard`, `Terminal` and `Surroundings` have no liveness
  properties: they act when they are called, or their deadlines are those of the
  clock.

## 5. What is proved

Each theorem holds for every value of the constants under the assumption the
module names; `PROJECT.json` lists them all.

A module of proofs belongs to one component, but for two: `TasksProofs` is about the
tasks of the daemon (`RingChannel`, `Surroundings`), `ProgramsProofs` about whole
programs (`Daemon`, `Desktop`).

**TasksProofs**, the ring channel, for any set of handles, any capacity and any bound:
`TypeCorrect`, `QueueKeepsNewest`, `DeliveryIsInOrder`, `NoWakeupIsLost`,
`EndIsDrained`, `CountIsExact` and `RefinesFifo` (each step of the channel is a
step or a stutter of `LossyFifo`). The queue's content is determined by three
counters (`KeepsNewest`), which is inductive together with typing. For the
handle count one needs that the set of live handles and the count agree at
every step of a drop. `NoLostWakeup` is not inductive: a receiver that sleeps
with a non-empty queue must have a wakeup under way, and to keep that one has
to know, for each place the receiver can be in, whether it registered before
the last push or close; this is the strengthening. Assumed: a positive
capacity, a finite set of handles.

**TasksProofs**, what lies beside the path of a line: `SignalsHitOneProcess`
(`SignalsHitOne`), `KeptAsLongAsDue` (`KeptWhileDue`), `ReadersAlwaysSeeWhole`
(`ReadersSeeWhole`), and the parts of the last one by themselves
(`SurroundingsOfLines`, `SamplesFit`, `ExportedWhole`).

* Signals: a process is its number, which is never given again; a pid is. For each
  attempt the history variable `lastBorn` is the birth of the last holder of its pid
  (`AttemptKept`), and for each signal sent the process it went to is no younger than
  that and not older than the start time read before it (`HitKept`). So the same start
  time after the grace means the same process, which is what the code takes it for.
  Pids that turn negative or mean the daemon or init never come so far (`ValidPid`).
  Excepted are a start that could not be read, and a pid that changes hands between the
  last comparison and the kill (`raced`), where SIGKILL can hit another process.
* Mutes (`MutesInv`): the property is inductive once the map has no more entries than
  its limit and all times are numbers.
* Audit log (`AuditInv`): both files grow in the numbers of their entries, the older one
  lies before the newer, and each entry is in one of them, in the log of the process,
  or before the first of a full older file. Rotation moves the whole of a file, so the
  two stay one row.
* Devices (`LanInv`): a scan is not behind any sighting nor ahead of the clock, and first
  and last of a device are the extremes of when it was seen.
* Export (`ExportInv`): how much of the temporary file is there follows from the step the
  export is at, and only what was synced takes the target's place.
* Context (`RingInv`): the entries of the ring are numbered one by one, and filtering by
  unit (`Kept`) keeps their order, so between two entries of an answer there are as
  many of the unit as their places say (`LinesBetween`), and there always is a nearest one.
* Samples (`TruncatedFits`): the bytes of the first n characters add up, so the longest
  prefix within the limit is the one after which the next character goes beyond it.
* Masks (`MaskInv`): the masked tokens are those of the record. Where two of them are the
  same, the marks around them are, and the cores are the same, or masked by the same
  expression first, or one spells what the other was masked to (`SpelledAlike`); each way
  both pass for that mask. A MAC fits nothing that comes before its own expression
  (`MacIsFirst`), and the name before a pid is a part of the placeholder.

Assumed: graces, asked lines and times are numbers, limits are positive, a limit of the
sample above its marker. Of the regular expressions of `mask.rs` only this is assumed
(`MasksAssumption`): those in the list are the ones a core can fit, none of them fits a
placeholder, and a core that fits the one for a MAC fits neither that for a time nor that
for a UUID. That one core fits several, an address and a MAC or a time and a number, is
open, and that two cores which fit one expression mean the same is not claimed: `1:02:03`
and `fe80::1` are one to the templates. The theorem is about what `split_punctuation`, the
order of the list and the name kept before a pid make of it.

**AnomalyFeedProofs**: `FeedTypes`, `RingIsNewest`, `EachAccounted`,
`LossConfined`, `RepeatsConfined`. The invariant is about intervals: the
publisher is at most one anomaly ahead of its own broadcast; the list a session
got is an interval of ids that ends where the ring ended when it was read; what
its receiver has passed is an interval that begins where the receiver was made.
Loss and repetition are then the gap and the overlap of the two intervals, and
the overlap cannot exceed what is in flight. Assumed: positive capacities.

**ProgramsProofs**, the daemon: `DaemonTypes`, `LinesAccountedFor`, `NothingLeftBehind`,
`BackoffOnlyGrows`. The accounting is a sum each step keeps. That nothing is
left behind rests on the order of the shutdown: when the sender has fallen no
reader is left (`Winding`), so what the pipeline saves and shows after the end
of the channel is final (`Drained`). `BackoffOnlyGrows` needs `Base <=
MaxBackoff`, which the configuration does not enforce (see the findings); what
it says of the waits is proved only, no run has it.

**ProgramsProofs**, GUI and TUI: `ContextIsOfSelection` (`ContextFitsSelection`),
`RoutesReachTheirPoints` (`RoutesAreShown`), `SelectionFollowsEntry` (`SelectionStays`),
`MergesAreSound` (`MergeIsSound`).

* Dashboard (`ContextInv`): wherever a context is on its way, as a request, a reply, in
  the state or in the copy a frame draws, its number is below the next one, and if it
  is the pending one it is about what is selected (`Fits`). Late replies and a
  reconnect keep that, since numbers of requests are not given twice. The numbers of
  anomalies are, by every daemon anew, so that this is not yet that the context is of
  the anomaly shown. `AgeInv` orders anomalies by their daemons: lists, messages on their
  way and what was asked for come from older daemons before newer ones (`InOrder`,
  `Precedes`), so an anomaly with the number of the one asked for is that one or
  comes from a later daemon; and the first found in the list is the one asked for as long
  as that is there.
* Map (`MapInv`): a point is placed by the route it has (`Placing`), and the far end that
  is being measured has none yet. The route may be evicted from the cache while its
  point goes and comes back during a lookup.
* Terminal (`TerminalInv`): the selection is the first line, the chosen entry, or beyond
  the end, and what is drawn is that of the list as it is. Nothing follows for the
  first line (see section 3).
* Graph tab (`GraphInv`): what is shown is a merge of two graphs that were in the files,
  or a base as it was. That a merge is sound is an induction over the nodes of the
  overlay that have no partner: after n of them (`Stage`) those that had their turn are
  at least as well connected as those that wait, and each is there or better ones have
  taken the room (`BestCame`).

Assumed: nodes and edges of a file are sequences of well-formed records, as serde
gives them; positive limits.

**BaselineFileProofs**: `FileTypes`, `OneHolder`, `LengthsStayApart`,
`ResetIsFinal`, `NewerStays`. The base is redb's lock: a file is open in one
process at a time (`Exclusive`). From it follows that what a process has found
out about its file at each program counter (`Process`) is still true when it
saves; a rename changes the name and not the inode. A lemma (`StepStays`) shows
that a step of one process leaves the others' knowledge true. That a newer file is kept
needs that every write but that of `EnsureTables` is to a file whose version was read and
is the current one.

For `SavesAreRestored` (`SavedIsRestored`, an action property) it has to be known
besides that, as long as there is one process at a time, the file it holds is the
one at the path, and that what that file says is what the history variable `saved`
says, but for histograms that were wiped since (`Sole`). Each program counter from
`open` to the shutdown is a case: a file at the path that does not open is about to
be moved aside, and one that is stamped or wiped has not been loaded yet.

**ActionsProofs**: `ActionTypes`, `LimitHolds` (`RateHeld`), `LogIsComplete`
(`EffectsReachTheLog`), `FilterHolds` (`OwnLinesAreFiltered`). `RateHeld` counts
attempts in any window by the clock readings they carry; the code keeps a list per
target, in the order of the lock and not of the readings. The strengthening is
`OnRecord`: an attempt that was let through and may still be in a window is in the
list of its target, unless that list was given up for another target's, and no
list is longer than the limit. It is kept because an entry is removed only if it
is old by the reading of another attempt, and no reading is ahead of the clock. An
attempt whose target lost its list (`forgotten`) is not counted, which is what the code
does. For the filter, each attempt that may have an effect is covered by itself from its
entry on (`AreCovered`): the entry of its target is there and lasts long enough, or it
was displaced, or replaced by an older reading, or its time is over; these are the
exceptions the property names. `EffectsReachTheLog` is about a process that goes on.

**ConnectionProofs**: `SlotsExact`, `HandledOnce`, `NothingIsMissing`, for any
number of clients, strangers and connections, any limits and any requests. The
invariant has a part for each, over common typing. `Linked`: a client that is
connected in whatever stage has a connection that is its own and open at its end.
`SlotsHeld`: the tasks that hold a slot are finitely many, so their number goes up
and down by one. `InOrder`: what has run, what is written and what waits are in
rising order, and of a client's connections only one can still have requests to be
read: that of its session or, when the application has gone, of its last
(`Written`); so a lost connection can lose requests and never repeat one. `InStream`: fragments on the way
are those of consecutive messages, and the client's reader is between or within the
message that comes next (`Stream`, `InStep`), whichever read was cancelled.

**GraphSyncProofs**: `BudgetKept` (`BudgetHeld`), `OnlySentIsMarked`
(`MarkedWasSent`), `GraphIsWritten` (`OutputMatches`), `LinksComeFirst`
(`StrongestFirst`). The ledger exists three
times, in memory, in the file, and as the true number of calls. `Booking` says what
the one in memory lacks (what was lost, and the call under way), `Saving` what the
one in the file lacks (what this turn has not saved); together they say what
a kill or a failed save at this moment loses. A day's costs are below the limit but
for the last call, which is why `BudgetHeld` asks for a call without which they
would be (`Afforded`). All this is about what is booked (`Within`), the costs of
answers that could be used; what the others cost (`unread`) is in no ledger, and
`BudgetHeld` adds it to both sides (see section 3). Marks: during a call the records
of the files asked about hold the hashes that were sent, since only `Batch` and the
booking touch them (`Sending`). Output: a state that differs from the one the graph was built from has
its dirty flag, or the program is on the way to set it, or the last write failed.
To these three `Build` and the choice of a batch are only operators.

`LinksComeFirst` is about `Build` itself. Its three passes are recursive functions over
the notes and what each of them links to, and all have one shape (`After`): edges are
only added, none where there is no room (`Grown`), and each pair that had its turn is
joined or found no room (`Settled`). So an edge of a later pass is there only if no
pair of an earlier one was turned away: a link is an edge, or the graph is full of links.
That a link outside of code blocks is among those
that are taken from a note is an induction over its lines, and that it leads to the
note it names needs that no two files have one path (`NotesAssumption`). What is known
of the state is that it only speaks of files that exist and contents they can
have (`Known`).

**AnalysisProofs**: `ClustersAreNeverConfused` (`IdsAreUnique`),
`NothingSeriousIsUnheard` (`SeriousIsHeard`), `NothingWithheldIsLost`
(`SuppressedAreReported`), `HistoryIsTheJournals` (`RatesAreExact`),
`NothingLeavesTooEarly` (`WindowIsExact`), `EngineStaysWithinLimits`
(`EngineLimits`) and `HistogramsObserve` (`HistogramsAreThere`, the part of
`HistogramsAreExact` without weights).

* That ids are unique is not inductive: a new cluster takes the line it began with
  for its id, and nothing in `IdsAreUnique` says that line is not the id of another.
  The strengthening is `Describes`: a cluster has as many tokens as its id, each is
  that of the id or the wildcard, and not all are wildcards unless the id is nothing
  but wildcards itself. Of any other id the line a cluster
  began with agrees with all its concrete tokens (`OwnLineAgrees`), so it passes any
  threshold and finds some cluster (`OwnLineMatches`), and no second one can begin
  with it. A merge keeps a concrete token, because a line that passes a threshold of
  at least one percent agrees in one (`MergeKeeps`). A save keeps one cluster of each id
  (`PersistedIsSound`), in a table whose places are those of the clusters, and a restart
  finds at each place one cluster (`PlacesAreTaken`).
* Every other proof takes from this one that an id is a line, and that a step
  analyses one line, resets the engine, or leaves it alone (`StepKinds`).
* Reports: an alarm holds time and level of a report that was made (`Remembered`),
  so a line that is withheld has a report to point to. Counting needs that what was
  withheld since the last report of a template is what its alarm counts; a report
  closes one interval and begins the next.
* Rates: `Exact` is the property of one template. It is not inductive when idle
  templates are forgotten: one that comes back is given zeros. `Known` says that a
  template that is not there has not occurred for `IdleBuckets`, and one that is has
  not occurred after it was last active, so the zeros are right. A history of buckets
  is closed by one step over any gap (`ClosedNth`).
* Window: the n-th entry from the end is the timely line with n - 1 timely ones
  behind it (`Shown`). A new line puts every other one place back, what is evicted
  at the head are those with most behind them, and the counts are the bag of the
  entries because a bag of a sequence adds up over its parts (`OccSplit`, `BagsAddUp`).
* Histograms: what is open in a unit are its lines since the last one that opened a bucket
  (`IsOpen`). When a line opens the next one, that earlier line joins those whose
  buckets have ended, for each template known by then (`OneEnds`), and just their
  histograms observe once more (`ObservedMore`); every other line leaves both sides as
  they were (`NoneEnds`, `ObservedStays`). A restart begins with what the file had, and
  nothing is claimed for a store that did not begin empty or was cut (`complete`).

Assumed: room for one cluster, a threshold from 1 to 100 percent (the default is 70;
`TemplateEngine::new` clamps to 0 to 100, and 0 is left out), positive numbers of
buckets, templates and events.

Proved and not in a run, because the theorem covers every instance and a run would
repeat it: the type invariants, `KeepsNewest`, `RepeatsOnlyInFlight`,
`ResetForgets`, `EngineLimits`.

Only model-checked:

* liveness (`CatchesUp`, `ShutdownCompletes`, the fairness of `LossyFifo`,
  `SlotsComeBack`, `ConnectionIsRestored`, `Converges`, `ReachableIsShown`,
  `MapFollows`, `ViewsFollow`), which is out of the prover's reach;
* of `HistogramsAreExact` the weights (`WeighsExactly`): they are sums over all
  observations, and what a fold or a sum over a function computes for every input is an
  induction over data. Nor do they hold for every constant: integers halve exactly only
  as long as `One` lasts, which is a bound of the model and not of the code, whose
  weights are floating point.

So every safety property a run checks is a theorem, but for this part of one.

## 6. What is not modelled

* The configuration (`core/src/config.rs`): parsing, defaults and bounds of values,
  once and without state. Its values are the constants of the modules.
* `stats.rs` and the score: floating point. A score is a free choice. Hash
  collisions of template ids.
* Drawing, layout, projection and camera of the GUI, its colours, the databases of
  places, and the export of what is shown.
* The numbers `sysinfo` reads and the text of the metrics; conversions of
  `wire.rs` that copy field by field.
* Regular expressions: which masks, links and terms a text has is a constant of
  `Lines` and `Notes`.
* Two graphsync processes over one state file; nothing in the code expects them.
* A peer that keeps its socket open and does not read.
* Panics: the one known to be reachable needs `rate_history_buckets = 0` (see the
  findings).
* Within the modelled parts: see the notes in `PROJECT.json`.

## 7. Plan

What was planned is done. What could come next:

* weights as rational numbers instead of integers, for which halving is exact and
  `WeighsExactly` would be an invariant of its own;
* two graphsync processes over one state file, a peer that keeps its socket open and does
  not read, and two hosts of the fleet with their own daemons;
* the store's limits (bins, known templates, what is left after a cut) as a part of
  `EngineLimits`.
