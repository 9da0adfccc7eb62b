------------------------------- MODULE Effects -------------------------------
(***************************************************************************)
(* What actions do outside of the daemon (daemon/src/actions.rs), once     *)
(* allow-list and rate limit have let them through (Actions): a process is *)
(* asked to end and killed after its grace, an address is blocked in an    *)
(* nftables set, and every attempt is written to an audit log that is      *)
(* rotated.                                                                *)
(*                                                                         *)
(* A pid is a number of PidBits bits; the kernel gives those from 2 to the *)
(* largest positive one, again and again, but not twice in a tick.  The    *)
(* dispatch of terminate_process has no await point, yet the system goes   *)
(* on between its calls.  A file of the audit log is the sequence of the   *)
(* numbers of the attempts in it.                                          *)
(***************************************************************************)
EXTENDS Integers, SequencesExt, Maps

CONSTANTS
  PidBits,       \* 32 in the code
  OwnPid,        \* std::process::id
  AskedPids, AskedGraces, \* what clients ask for
  MaxGrace,      \* terminate_max_grace_secs
  MinBlock, MaxBlock, AskedBlocks, \* block_ip_min_duration_secs, ..._max_..., what is asked for
  Families,      \* of addresses, each with a set of its own
  LogLimit,      \* AUDIT_LOG_MAX_BYTES, in entries
  MaxTerms, MaxBlocks, MaxEntries, MaxTicks, MaxSpawns, MaxFaults  \* bounds of the model

ASSUME EffectsAssumption ==
  /\ PidBits \in Nat \ {0, 1} /\ OwnPid \in 2..(2^(PidBits - 1) - 1)
  /\ AskedPids \subseteq 0..(2^PidBits - 1)
  /\ AskedGraces \cup {MaxGrace, MinBlock, MaxBlock} \subseteq Nat /\ LogLimit \in Nat \ {0}

VARIABLES
  tick,      \* time, which dates the birth of a process
  living,    \* the processes, by pid: number and birth
  spawned,   \* how many there were
  terms,     \* the attempts at terminate_process, with what their tasks know
  hits,      \* history: the signals that reached a process
  nft,       \* table and sets there are, and the blocked addresses with their time
  blocks,    \* the attempts at block_ip
  logFile,   \* the file at audit_log_path, Missing or a sequence
  oldFile,   \* the file at audit_log_path.1
  handle,    \* whether the executor has the log open
  processLog,\* the attempts in the log of the process instead
  entries,   \* how many attempts were to be written down
  alive,     \* whether the daemon runs
  faults     \* how often something failed

signals == <<tick, living, spawned, terms, hits>>
blocking == <<nft, blocks>>
auditing == <<logFile, oldFile, handle, processLog, entries>>
effectVars == <<signals, blocking, auditing, alive, faults>>

Missing == <<>>
Unread == -1      \* no start time

SignalsInit ==
  /\ tick = 1 /\ spawned = 2 /\ terms = <<>> /\ hits = {}
  /\ living = [p \in {1, OwnPid} |-> [number |-> IF p = 1 THEN 1 ELSE 2, born |-> 0]]

-----------------------------------------------------------------------------
\* Processes, and what the system calls say of them.

Tick == /\ tick < MaxTicks /\ tick' = tick + 1
        /\ UNCHANGED <<living, spawned, terms, hits, blocking, auditing, alive, faults>>

Positive == 2..(2^(PidBits - 1) - 1)

Spawn(p) ==
  /\ p \notin DOMAIN living /\ spawned < MaxSpawns + 2
  /\ \A k \in DOMAIN terms : terms[k].pid = p => terms[k].lastBorn < tick
  /\ living' = With(living, p, [number |-> spawned + 1, born |-> tick])
  /\ spawned' = spawned + 1
  /\ terms' = [k \in DOMAIN terms |->
                 IF terms[k].pid = p THEN [terms[k] EXCEPT !.lastBorn = tick, !.raced = @ \/ terms[k].stage = "same"]
                 ELSE terms[k]]
  /\ UNCHANGED <<tick, hits, blocking, auditing, alive, faults>>

Exit(p) ==
  /\ p \in DOMAIN living \ {1, OwnPid}
  /\ living' = Without(living, {p})
  /\ UNCHANGED <<tick, spawned, terms, hits, blocking, auditing, alive, faults>>

\* pid as i32, and what kill makes of it: a process, the own group, all, a group.
Signed(pid) == IF pid >= 2^(PidBits - 1) THEN pid - 2^PidBits ELSE pid
Receivers(raw) ==
  CASE raw > 0 -> {raw} \cap DOMAIN living
    [] raw = 0 -> {OwnPid}
    [] raw = -1 -> DOMAIN living \ {1}
    [] OTHER -> {-raw} \cap DOMAIN living

\* process_start_time, of a process there is none of or of one that cannot be read.
StartTime(pid) == {Unread} \cup {living[p].born : p \in {Signed(pid)} \cap DOMAIN living}
\* Not reading what is there counts as a fault.
MayRead(start, pid) ==
  IF start = Unread /\ Signed(pid) \in DOMAIN living
  THEN faults < MaxFaults /\ faults' = faults + 1 ELSE UNCHANGED faults

-----------------------------------------------------------------------------
\* terminate_process.

InvalidPid(pid) == pid \in {0, 1, OwnPid} \/ pid > 2^(PidBits - 1) - 1

Clamp(n, low, high) == IF n < low THEN low ELSE IF n > high THEN high ELSE n
Larger(a, b) == IF a > b THEN a ELSE b
Grace(asked) == Clamp(asked, 1, Larger(MaxGrace, 1))

AskTerminate(pid, asked) ==
  /\ alive /\ Len(terms) < MaxTerms
  /\ terms' = Append(terms, [pid |-> pid, stage |-> IF InvalidPid(pid) THEN "denied" ELSE "asked",
                             wait |-> Grace(asked), start |-> Unread, raced |-> FALSE, blind |-> FALSE,
                             lastBorn |-> IF pid \in DOMAIN living THEN living[pid].born ELSE 0])
  /\ UNCHANGED <<tick, living, spawned, hits, blocking, auditing, alive, faults>>

\* The start time, before the signal.
ReadStart(k) ==
  /\ alive /\ terms[k].stage = "asked"
  /\ \E start \in StartTime(terms[k].pid) :
       /\ MayRead(start, terms[k].pid)
       /\ terms' = [terms EXCEPT ![k].stage = "read", ![k].start = start]
  /\ UNCHANGED <<tick, living, spawned, hits, blocking, auditing, alive>>

\* kill: whom it reaches, or an error, also of a process that may not be signalled.
Reached(k, signal) ==
  {[attempt |-> k, signal |-> signal, pid |-> p, process |-> living[p]] :
     p \in Receivers(Signed(terms[k].pid))}

SendTerm(k) ==
  /\ alive /\ terms[k].stage = "read"
  /\ \/ /\ Receivers(Signed(terms[k].pid)) # {} /\ UNCHANGED faults
        /\ hits' = hits \cup Reached(k, "term")
        /\ terms' = [terms EXCEPT ![k].stage = "sleep", ![k].wait = tick + @]
     \/ /\ IF Receivers(Signed(terms[k].pid)) = {} THEN UNCHANGED faults
           ELSE faults < MaxFaults /\ faults' = faults + 1
        /\ terms' = [terms EXCEPT ![k].stage = "failed"] /\ UNCHANGED hits
  /\ UNCHANGED <<tick, living, spawned, blocking, auditing, alive>>

\* spawn_kill_escalation: after the grace, is there a process of this pid?
LookAgain(k) ==
  /\ alive /\ terms[k].stage = "sleep" /\ tick >= terms[k].wait
  /\ terms' = [terms EXCEPT ![k].stage =
                 IF Receivers(Signed(terms[k].pid)) = {} THEN "over" ELSE "found"]
  /\ UNCHANGED <<tick, living, spawned, hits, blocking, auditing, alive, faults>>

\* Mutant: that there is one is enough.
CompareNothing(k) ==
  /\ alive /\ terms[k].stage = "found"
  /\ terms' = [terms EXCEPT ![k].stage = "same"]
  /\ UNCHANGED <<tick, living, spawned, hits, blocking, auditing, alive, faults>>

\* And is it the same?  If it could not be told before it is taken for the same, if it
\* cannot be told now it is not.
Compare(k) ==
  /\ alive /\ terms[k].stage = "found"
  /\ \E now \in StartTime(terms[k].pid) :
       /\ MayRead(now, terms[k].pid)
       /\ terms' = [terms EXCEPT ![k].stage = IF terms[k].start \in {Unread, now} THEN "same" ELSE "spared",
                                 ![k].blind = now = Unread]
  /\ UNCHANGED <<tick, living, spawned, hits, blocking, auditing, alive>>

SendKill(k) ==
  /\ alive /\ terms[k].stage = "same"
  /\ terms' = [terms EXCEPT ![k].stage = "over"]
  /\ hits' = hits \cup Reached(k, "kill")
  /\ living' = Without(living, Receivers(Signed(terms[k].pid)))
  /\ UNCHANGED <<tick, spawned, blocking, auditing, alive, faults>>

-----------------------------------------------------------------------------
\* block_ip: table and set are made if they are not there, then the address is added.

AskBlock(family, asked) ==
  /\ alive /\ Len(blocks) < MaxBlocks
  /\ blocks' = Append(blocks, [family |-> family, stage |-> "table",
                               time |-> Clamp(asked, MinBlock, Larger(MaxBlock, MinBlock))])
  /\ UNCHANGED <<signals, nft, auditing, alive, faults>>

\* run_nft: a call fails if it has to, or because nft cannot be started.
FailBlock(k) ==
  /\ faults < MaxFaults /\ faults' = faults + 1
  /\ blocks' = [blocks EXCEPT ![k].stage = "failed"] /\ UNCHANGED nft
DoBlock(k, next, done) ==
  /\ nft' \in done /\ blocks' = [blocks EXCEPT ![k].stage = next] /\ UNCHANGED faults

AddTable(k) ==
  /\ alive /\ blocks[k].stage = "table"
  /\ DoBlock(k, "set", {[nft EXCEPT !.table = TRUE]}) \/ FailBlock(k)
  /\ UNCHANGED <<signals, auditing, alive>>
AddSet(k) ==
  /\ alive /\ blocks[k].stage = "set"
  /\ \/ nft.table /\ DoBlock(k, "element", {[nft EXCEPT !.sets = @ \cup {blocks[k].family}]})
     \/ FailBlock(k)
  /\ UNCHANGED <<signals, auditing, alive>>
\* An address that is in the set already may keep its time or get the new one.
AddElement(k) ==
  LET family == blocks[k].family
      until == tick + blocks[k].time
      times == IF family \in DOMAIN nft.until /\ nft.until[family] > tick
               THEN {nft.until[family], until} ELSE {until}
  IN  /\ alive /\ blocks[k].stage = "element"
      /\ \/ /\ nft.table /\ family \in nft.sets
            /\ DoBlock(k, "done", {[nft EXCEPT !.until = With(@, family, t)] : t \in times})
         \/ FailBlock(k)
      /\ UNCHANGED <<signals, auditing, alive>>

\* Somebody loads another rule set.
Flush ==
  /\ faults < MaxFaults /\ faults' = faults + 1
  /\ nft' = [table |-> FALSE, sets |-> {}, until |-> Missing]
  /\ UNCHANGED <<signals, blocks, auditing, alive>>

-----------------------------------------------------------------------------
\* The audit log.

TooBig == handle /\ Len(logFile) >= LogLimit
Failing(calls) == Cardinality({i \in DOMAIN calls : ~calls[i]})

\* Mutant: a rotated log is begun anew, not set aside.
WriteDownTruncating(renames, opens, writes) ==
  /\ alive /\ entries < MaxEntries /\ entries' = entries + 1
  /\ (~TooBig => renames /\ opens) /\ (~handle => writes)
  /\ faults' = faults + Failing(<<renames, opens, writes>>) /\ faults' <= MaxFaults
  /\ handle' = (handle /\ opens) /\ UNCHANGED oldFile
  /\ LET kept == IF TooBig THEN Missing ELSE logFile
     IN  IF handle' /\ writes
         THEN logFile' = Append(kept, entries + 1) /\ UNCHANGED processLog
         ELSE logFile' = kept /\ processLog' = processLog \cup {entries + 1}
  /\ UNCHANGED <<signals, blocking, alive>>

\* rotate_audit_log: the file before goes over the one set aside last, or stays if that fails.
Rotated(renames) == TooBig /\ renames

\* audit, with rotate_audit_log and open_audit_log, all under one lock.  A file that
\* cannot be opened again stays closed; what cannot be written goes to the log of the
\* process.
WriteDown(renames, opens, writes) ==
  /\ alive /\ entries < MaxEntries /\ entries' = entries + 1
  /\ (~TooBig => renames /\ opens) /\ (~handle => writes)
  /\ faults' = faults + Failing(<<renames, opens, writes>>) /\ faults' <= MaxFaults
  /\ handle' = (handle /\ opens)
  /\ LET kept == IF Rotated(renames) THEN Missing ELSE logFile
     IN  /\ oldFile' = IF Rotated(renames) THEN logFile ELSE oldFile
         /\ IF handle' /\ writes
            THEN logFile' = Append(kept, entries + 1) /\ UNCHANGED processLog
            ELSE logFile' = kept /\ processLog' = processLog \cup {entries + 1}
  /\ UNCHANGED <<signals, blocking, alive>>

\* ActionExecutor::new opens the log for appending, or goes without it.
Start(opens) ==
  /\ ~alive /\ alive' = TRUE
  /\ handle' = opens /\ faults' = faults + Failing(<<opens>>) /\ faults' <= MaxFaults
  /\ UNCHANGED <<signals, blocking, logFile, oldFile, processLog, entries>>

\* The daemon ends, and with it every task that waits, for nft or for a grace to pass.
Stop ==
  /\ alive /\ alive' = FALSE /\ handle' = FALSE
  /\ \A k \in DOMAIN terms : terms[k].stage \notin {"asked", "read", "found", "same"}
  /\ terms' = [k \in DOMAIN terms |->
                 IF terms[k].stage = "sleep" THEN [terms[k] EXCEPT !.stage = "lost"] ELSE terms[k]]
  /\ blocks' = [k \in DOMAIN blocks |->
                  IF blocks[k].stage \in {"done", "failed"} THEN blocks[k] ELSE [blocks[k] EXCEPT !.stage = "lost"]]
  /\ UNCHANGED <<tick, living, spawned, hits, nft, logFile, oldFile, processLog, entries, faults>>

EffectsInit ==
  /\ SignalsInit
  /\ nft = [table |-> FALSE, sets |-> {}, until |-> Missing] /\ blocks = <<>>
  /\ logFile = Missing /\ oldFile = Missing /\ handle = FALSE /\ processLog = {} /\ entries = 0
  /\ alive = FALSE /\ faults = 0

SignalsNext ==
  \/ Tick \/ \E p \in Positive : Spawn(p) \/ Exit(p)
  \/ \E pid \in AskedPids, asked \in AskedGraces : AskTerminate(pid, asked)
  \/ \E k \in DOMAIN terms : ReadStart(k) \/ SendTerm(k) \/ LookAgain(k) \/ Compare(k) \/ SendKill(k)
BlockingNext ==
  \/ Flush \/ \E family \in Families, asked \in AskedBlocks : AskBlock(family, asked)
  \/ \E k \in DOMAIN blocks : AddTable(k) \/ AddSet(k) \/ AddElement(k)
AuditingNext == \E renames, opens, writes \in BOOLEAN : WriteDown(renames, opens, writes)
LifeNext == Stop \/ \E opens \in BOOLEAN : Start(opens)

-----------------------------------------------------------------------------
(* Properties                                                              *)

\* A signal reaches the one process that was asked for, never init, the daemon or a group;
\* SIGKILL that which got SIGTERM, however the pid was given on in between, unless it could
\* not be told apart or the pid changed hands in the last moment; and who got SIGTERM and is
\* still there is not taken for another (spawn_kill_escalation).
SignalsHitOne ==
  /\ \A h \in hits : h.pid = terms[h.attempt].pid /\ h.pid \notin {1, OwnPid}
  /\ \A h \in hits : h.signal = "kill" =>
       \/ terms[h.attempt].start = Unread \/ terms[h.attempt].raced
       \/ \E t \in hits : t.attempt = h.attempt /\ t.signal = "term" /\ t.process = h.process
  /\ \A k \in DOMAIN terms : terms[k].stage = "spared" /\ ~terms[k].blind =>
       \A h \in hits : h.attempt = k /\ h.process.born = terms[k].start =>
         \A p \in DOMAIN living : living[p] # h.process

\* Rule 13: every attempt is in one of the two files or in the log of the process, but for
\* what is older than a whole file; rule 18: and a file that can be rotated keeps its limit.
AttemptsAreKept ==
  LET written == oldFile \o logFile
  IN  /\ \A i, j \in DOMAIN written : i < j => written[i] < written[j]
      /\ \A n \in 1..entries :
           \/ Contains(written, n) \/ n \in processLog
           \/ Len(oldFile) >= LogLimit /\ n < oldFile[1]
      /\ faults = 0 => Len(logFile) <= LogLimit
=============================================================================
