------------------------------ MODULE Actions ------------------------------
(***************************************************************************)
(* The action subsystem (daemon/src/actions.rs): several client sessions   *)
(* call the one ActionExecutor at the same time.  An attempt is checked    *)
(* against the allow-list and the rate limit, enters its target into the   *)
(* self filter of the shared state (daemon/src/state.rs), has its effect,  *)
(* is written to the audit log and answered.  Meanwhile the pipeline meets *)
(* the journal lines the effect causes, and asks the self filter.          *)
(*                                                                         *)
(* The session reads the clock before it calls execute; everything after   *)
(* works with that reading, however much later it happens.  A step is what *)
(* runs under one lock or between two await points.  restart_unit and      *)
(* stop_unit wait for D-Bus, and are dropped there when the process ends;  *)
(* terminate_process does not wait.  Time is in ticks, Second of them to a *)
(* second (the code counts microseconds); the wall clock is taken not to   *)
(* run backwards.  The audit log is the set of attempts written to it or,  *)
(* if that fails, to the process log.  The kinds restart_unit and          *)
(* stop_unit behave alike; block_ip and mute_anomaly differ only in an     *)
(* effect without journal lines.                                           *)
(***************************************************************************)
EXTENDS Integers, Sequences, FiniteSets, Maps

CONSTANTS
  Attempts,      \* attempts; each is made at most once
  Units,         \* unit names, targets of restart_unit
  Processes,     \* processes, targets of terminate_process
  UnitOf,        \* the unit of each process
  Allowed,       \* targets that pass the allow-lists and the parameter checks
  MaxActions,    \* rate_limit_max_actions
  Window,        \* rate_limit_window_minutes
  FilterWindow,  \* self_filter_window_secs
  Second,        \* ticks in a second
  MaxKeys,       \* MAX_RATE_LIMIT_KEYS
  MaxFilter,     \* MAX_SELF_FILTER_ENTRIES
  NoTarget,
  MaxClock       \* bound of the model: the last tick

Targets == Units \cup Processes

ASSUME ActionsAssumption ==
  /\ IsFiniteSet(Attempts) /\ IsFiniteSet(Units) /\ IsFiniteSet(Processes)
  /\ Units \cap Processes = {} /\ UnitOf \in [Processes -> Units]
  /\ Allowed \subseteq Targets
  /\ MaxActions \in Nat /\ Window \in Nat /\ FilterWindow \in Nat
  /\ Second \in Nat \ {0}
  /\ MaxKeys \in Nat \ {0} /\ MaxFilter \in Nat \ {0}
  /\ NoTarget \notin Targets /\ MaxClock \in Nat

VARIABLES
  clock,    \* the wall clock
  dryRun,   \* actions.dry_run
  up,       \* whether the process runs
  stage,    \* per attempt: how far it is
  target,   \* per attempt: what it is aimed at
  at,       \* per attempt: the clock reading it carries
  limits,   \* rate_limits: per known target the attempts that count
  filter,   \* self_filter: per known target when its entry expires
  audit,    \* the attempts in the audit log
  retry,    \* per attempt: retry_after_secs, if the rate limit denied it
  effects,  \* history: the attempts that had their effect
  passed,   \* history: the attempts the rate limit let through
  forgotten, \* history: attempts whose target's record had to make room
  displaced, \* history: attempts whose filter entry had to make room
  shortened, \* history: attempts whose filter entry was replaced by one of an
             \*   attempt with an older clock reading
  leaked    \* history: what was analysed although its cause is in its window

settings    == <<clock, dryRun>>
attemptVars == <<stage, target, at, retry>>
history     == <<effects, passed, forgotten, displaced, shortened, leaked>>
vars == <<settings, up, attemptVars, limits, filter, audit, history>>

\* "asked": the clock is read; "cleared": the rate limit let it through;
\* "entered": in the self filter; "acting": the effect took place or failed;
\* "audited"; "answered"; "lost": dropped with the process.
Stages == {"none", "asked", "cleared", "entered", "acting", "audited", "answered", "lost"}

Init ==
  /\ clock = 0 /\ up = TRUE /\ dryRun \in BOOLEAN
  /\ stage = [r \in Attempts |-> "none"]
  /\ target = [r \in Attempts |-> NoTarget]
  /\ at = [r \in Attempts |-> 0]
  /\ retry = [r \in Attempts |-> 0]
  /\ limits = <<>> /\ filter = <<>>
  /\ audit = {} /\ effects = {} /\ passed = {}
  /\ forgotten = {} /\ displaced = {} /\ shortened = {} /\ leaked = {}

Tick ==
  /\ clock < MaxClock
  /\ clock' = clock + 1
  /\ UNCHANGED <<dryRun, up, attemptVars, limits, filter, audit, history>>

\* The keys that may have to go before key enters a map for size entries: a
\* full map loses an entry that is minimal in rank (ties are open).
Room(map, key, size, rank) ==
  IF key \in DOMAIN map \/ Cardinality(DOMAIN map) < size
  THEN {{}}
  ELSE {{k} : k \in {k \in DOMAIN map : \A l \in DOMAIN map : rank[k] <= rank[l]}}

-----------------------------------------------------------------------------
(* ActionExecutor::execute                                                 *)

\* handle_client_message calls execute with the current time.
Ask(r, t) ==
  /\ up /\ stage[r] = "none"
  /\ stage' = [stage EXCEPT ![r] = "asked"]
  /\ target' = [target EXCEPT ![r] = t]
  /\ at' = [at EXCEPT ![r] = clock]
  /\ UNCHANGED <<settings, up, retry, limits, filter, audit, history>>

\* Not on an allow-list or with a bad parameter: denied, audited.
Deny(r) ==
  /\ up /\ stage[r] = "asked" /\ target[r] \notin Allowed
  /\ stage' = [stage EXCEPT ![r] = "audited"]
  /\ audit' = audit \cup {r}
  /\ UNCHANGED <<settings, up, target, at, retry, limits, filter, history>>

\* Mutants: a reading that is older than a counted one passes for expired;
\* expired attempts are kept.
ElapsedBackwards(r, s) == IF at[r] > at[s] THEN at[r] - at[s] ELSE Window
\* The attempts of target t that still count for attempt r, and the reading
\* of the oldest (the first that was let through, not the smallest).
Elapsed(r, s) == IF at[r] > at[s] THEN at[r] - at[s] ELSE 0
Fresh(r) == {s \in Attempts : Elapsed(r, s) < Window}
Recent(r, seq) == Kept(seq, Fresh(r))
UsedUp(recent) == Len(recent) >= MaxActions
LastAttempt == [t \in DOMAIN limits |->
  IF limits[t] = <<>> THEN 0 ELSE at[limits[t][Len(limits[t])]]]

\* check_rate_limit.  Denied attempts do not count; retry_after_secs is cut
\* to whole seconds.
CheckRateLimit(r) ==
  LET t == target[r] IN
  /\ up /\ stage[r] = "asked" /\ t \in Allowed
  /\ \E gone \in Room(limits, t, MaxKeys, LastAttempt) :
       LET known  == Without(limits, gone)
           recent == Recent(r, IF t \in DOMAIN known THEN known[t] ELSE <<>>)
           full   == UsedUp(recent)
           left   == Window - Elapsed(r, IF recent = <<>> THEN r ELSE recent[1])
       IN /\ forgotten' = forgotten \cup {s \in passed : target[s] \in gone}
          /\ limits' = With(known, t, IF full THEN recent ELSE Append(recent, r))
          /\ IF full
             THEN /\ stage' = [stage EXCEPT ![r] = "audited"]
                  /\ audit' = audit \cup {r}
                  /\ retry' = [retry EXCEPT ![r] = left \div Second]
                  /\ UNCHANGED passed
             ELSE /\ stage' = [stage EXCEPT ![r] = "cleared"]
                  /\ passed' = passed \cup {r}
                  /\ UNCHANGED <<audit, retry>>
  /\ UNCHANGED <<settings, up, target, at, filter, effects, displaced, shortened, leaked>>

\* The attempts that have entered the self filter; their target's entry is theirs.
Entered == {s \in passed : stage[s] # "cleared" /\ ~dryRun}

\* suppress_unit, suppress_pid: the target enters the self filter, over an
\* entry it had, and of a full one the entry that expires first goes.
Suppress(r, until) ==
  \E gone \in Room(filter, target[r], MaxFilter, filter) :
    /\ filter' = With(Without(filter, gone), target[r], until)
    /\ displaced' = displaced \cup {s \in Entered : target[s] \in gone}
    /\ shortened' = shortened \cup {s \in Entered : target[s] = target[r] /\ at[r] < at[s]}

\* A dry run ends here.
DryRun(r) ==
  /\ up /\ stage[r] = "cleared" /\ dryRun
  /\ stage' = [stage EXCEPT ![r] = "audited"]
  /\ audit' = audit \cup {r}
  /\ UNCHANGED <<settings, up, target, at, retry, limits, filter, history>>

\* Before anything is done to the target it enters the self filter.
EnterFilter(r) ==
  /\ up /\ stage[r] = "cleared" /\ ~dryRun
  /\ stage' = [stage EXCEPT ![r] = "entered"]
  /\ Suppress(r, at[r] + FilterWindow)
  /\ UNCHANGED <<settings, up, target, at, retry, limits, audit, effects, passed, forgotten, leaked>>

\* systemd takes the job, or D-Bus or systemd refuse it.
AskSystemd(r) == target[r] \in Units /\ effects' \in {effects, effects \cup {r}}
\* The process gets its signal, or is gone or out of reach.
SendSignal(r) == target[r] \in Processes /\ effects' \in {effects, effects \cup {r}}

Act(r) ==
  /\ up /\ stage[r] = "entered"
  /\ stage' = [stage EXCEPT ![r] = "acting"]
  /\ AskSystemd(r) \/ SendSignal(r)
  /\ UNCHANGED <<settings, up, target, at, retry, limits, filter, audit, passed,
                 forgotten, displaced, shortened, leaked>>

\* Mutant: only what failed is written down.
AuditFailures(r) ==
  /\ up /\ stage[r] = "acting"
  /\ stage' = [stage EXCEPT ![r] = "audited"]
  /\ audit' = IF r \in effects THEN audit ELSE audit \cup {r}
  /\ UNCHANGED <<settings, up, target, at, retry, limits, filter, history>>

\* The outcome is known and written down.
Audit(r) ==
  /\ up /\ stage[r] = "acting"
  /\ stage' = [stage EXCEPT ![r] = "audited"]
  /\ audit' = audit \cup {r}
  /\ UNCHANGED <<settings, up, target, at, retry, limits, filter, history>>

\* The ActionResult.
Answer(r) ==
  /\ up /\ stage[r] = "audited"
  /\ stage' = [stage EXCEPT ![r] = "answered"]
  /\ UNCHANGED <<settings, up, target, at, retry, limits, filter, audit, history>>

\* The process ends: sessions are dropped at the await point they are in, be
\* it D-Bus or the write of the answer.  What does not wait runs to its end.
InSync(r) ==
  \/ stage[r] \in {"asked", "cleared"}
  \/ stage[r] \in {"entered", "acting"} /\ target[r] \in Processes

EndProcess ==
  /\ up /\ \A r \in Attempts : ~InSync(r)
  /\ up' = FALSE
  /\ stage' = [r \in Attempts |->
                 IF stage[r] \in {"entered", "acting", "audited"} THEN "lost" ELSE stage[r]]
  /\ UNCHANGED <<settings, target, at, retry, limits, filter, audit, history>>

-----------------------------------------------------------------------------
(* The pipeline meets a line that the effect of attempt r caused           *)

\* What is_self_filtered compares with the entries: for a unit its own lines
\* and those of systemd about it; for a process its own lines.  A line of
\* systemd about the process carries the unit, and the pid of systemd.
OwnLine == "own"
SystemdLine == "systemd"
KeysOf(r, line) ==
  IF target[r] \in Units THEN {target[r]}
  ELSE IF line = OwnLine THEN {target[r], UnitOf[target[r]]}
  ELSE {UnitOf[target[r]]}

\* Mutant: entries expire a tick early.
MeetLineEarly(r, line) ==
  /\ up /\ r \in effects
  /\ filter' = Without(filter, {k \in DOMAIN filter : filter[k] <= clock + 1})
  /\ leaked' = IF clock < at[r] + FilterWindow /\ KeysOf(r, line) \cap DOMAIN filter' = {}
               THEN leaked \cup {<<r, line>>} ELSE leaked
  /\ UNCHANGED <<settings, up, attemptVars, limits, audit, effects, passed, forgotten,
                 displaced, shortened>>

\* is_self_filtered throws out what has expired, then looks.
MeetLine(r, line) ==
  /\ up /\ r \in effects
  /\ filter' = Without(filter, {k \in DOMAIN filter : filter[k] <= clock})
  /\ leaked' = IF clock < at[r] + FilterWindow /\ KeysOf(r, line) \cap DOMAIN filter' = {}
               THEN leaked \cup {<<r, line>>} ELSE leaked
  /\ UNCHANGED <<settings, up, attemptVars, limits, audit, effects, passed, forgotten,
                 displaced, shortened>>

-----------------------------------------------------------------------------
Next ==
  \/ Tick \/ EndProcess
  \/ \E r \in Attempts :
       \/ \E t \in Targets : Ask(r, t)
       \/ Deny(r) \/ CheckRateLimit(r) \/ DryRun(r) \/ EnterFilter(r) \/ Act(r)
       \/ Audit(r) \/ Answer(r)
       \/ \E line \in {OwnLine, SystemdLine} : MeetLine(r, line)

Spec == Init /\ [][Next]_vars

-----------------------------------------------------------------------------
(* Properties                                                              *)

\* Every variable stays in its domain, and rule 18: both maps stay within
\* their limits whatever targets the clients choose.
TypeOK ==
  /\ clock \in Nat /\ dryRun \in BOOLEAN /\ up \in BOOLEAN
  /\ stage \in [Attempts -> Stages]
  /\ target \in [Attempts -> Targets \cup {NoTarget}]
  /\ at \in [Attempts -> Nat] /\ retry \in [Attempts -> Nat]
  /\ DOMAIN limits \subseteq Targets /\ Cardinality(DOMAIN limits) <= MaxKeys
  /\ \A t \in DOMAIN limits : limits[t] \in Seq(Attempts)
  /\ DOMAIN filter \subseteq Targets /\ Cardinality(DOMAIN filter) <= MaxFilter
  /\ \A t \in DOMAIN filter : filter[t] \in Nat
  /\ audit \subseteq Attempts /\ effects \subseteq Attempts
  /\ passed \subseteq Attempts /\ forgotten \subseteq passed
  /\ displaced \subseteq passed /\ shortened \subseteq passed
  /\ leaked \subseteq Attempts \X {OwnLine, SystemdLine}

\* At any time, of the attempts on one target whose clock reading lies within
\* the last Window at most MaxActions were let through, in whatever order the
\* sessions reached the check.  Not counted are attempts whose target's record
\* has made room for another target since.
RateHeld ==
  \A t \in Targets :
    Cardinality({r \in passed \ forgotten : target[r] = t /\ clock - at[r] < Window})
      <= MaxActions

\* While the process runs, an attempt that had an effect is in the audit log
\* or still before it, and none is answered that is not in the log.
EffectsReachTheLog ==
  up => \A r \in Attempts :
    /\ r \in effects => r \in audit \/ stage[r] = "acting"
    /\ stage[r] \in {"audited", "answered"} <=> r \in audit

\* Rule 13: no line by which the journal names the target of an action (any
\* line about a unit, the lines a process writes itself) is analysed while the
\* action is within its window, also if it is the second on that target.  The
\* exceptions are these: the entry of just this action had to make room in a
\* full filter, or an action on the same target with an older clock reading
\* entered after it and cut its window.
OwnLinesAreFiltered ==
  \A r \in Attempts : \A line \in {OwnLine, SystemdLine} :
    <<r, line>> \in leaked /\ target[r] \in KeysOf(r, line) => r \in displaced \cup shortened

=============================================================================
