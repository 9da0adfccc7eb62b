------------------------------ MODULE Analysis ------------------------------
(***************************************************************************)
(* What becomes of a journal line in the daemon: the pipeline's handle     *)
(* (daemon/src/pipeline.rs) with the analysis engine                       *)
(* (core/src/analysis/engine.rs) and all it learns from; the saves of what *)
(* was learned, the end of the process and its next start.                 *)
(*                                                                         *)
(* The score of an event is floating point and computed from the window,   *)
(* the rates and the baselines (stats.rs).  Here it is any number; only    *)
(* on which side of the thresholds it lies matters.                        *)
(*                                                                         *)
(* Ghosts: log and reports, what the running process analysed and          *)
(* reported; withheld and judged, to state what reports promise; complete, *)
(* whether the histograms hold all that the running process observed.      *)
(***************************************************************************)
EXTENDS Templates, Rates, Baselines

CONSTANTS
  BucketLength,  \* analysis.bucket_seconds
  LearningTime,  \* analysis.learning_phase_minutes
  Cooldown,      \* analysis.cooldown_seconds
  Enter,         \* score_info_threshold, score_warn_threshold, score_critical_threshold
  Exit,          \* the same times hysteresis_exit_factor
  Traffics       \* bounds of the model: the kinds of journal to look at

ASSUME AnalysisAssumption ==
  /\ BucketLength \in Nat \ {0} /\ LearningTime \in Nat /\ Cooldown \in Nat
  /\ Enter \in [1..3 -> Nat] /\ Exit \in [1..3 -> Nat]
  /\ \A level \in 1..3 : Exit[level] <= Enter[level]

\* A line may have the token <*> of its own: the masks let it through.
ASSUME TrafficsAssumption ==
  \A t \in Traffics : t.lines \subseteq Seq(STRING \cup {Wild}) /\ t.steps \subseteq Int

VARIABLES
  traffic,     \* the kind of journal of this behaviour
  clock,       \* the latest time in the journal
  first,       \* first_event_us, or Never
  skipped,     \* learning_skipped
  entropies,   \* entropy_history, by the counts each was computed from
  lastBucket,  \* entropy_bucket
  alarms,      \* states, by template
  file,        \* what was saved last, or NoFile
  log, reports, withheld, judged, complete

engine == <<first, skipped, entropies, lastBucket, alarms>>
ghosts == <<log, reports, withheld, judged, complete>>
vars == <<traffic, clock, registry, window, rateTracker, store, engine, file, ghosts>>

Never == -1
NoFile == <<>>
Levels == 0..3  \* AnomalyLevel: Normal, Info, Warn, Critical

Calm == [level |-> 0, at |-> Never, reported |-> 0, suppressed |-> 0]
Alarm(id) == IF id \in DOMAIN alarms THEN alarms[id] ELSE Calm
Bucket(at) == at \div BucketLength

NotYet == [id |-> <<>>, at |-> 0, level |-> 0, silent |-> TRUE]
EngineInit ==
  /\ WindowInit /\ RatesInit
  /\ first = Never /\ entropies = <<>> /\ lastBucket = 0 /\ alarms = <<>>
  /\ log = <<>> /\ reports = <<>> /\ withheld = <<>> /\ judged = NotYet
EngineReset ==
  /\ WindowReset /\ RatesReset
  /\ first' = Never /\ entropies' = <<>> /\ lastBucket' = 0 /\ alarms' = <<>>
  /\ log' = <<>> /\ reports' = <<>> /\ withheld' = <<>> /\ judged' = NotYet

Init ==
  /\ traffic \in Traffics
  /\ EngineInit /\ BaselinesInit
  /\ clock = 0 /\ registry = <<>> /\ skipped = FALSE /\ file = NoFile /\ complete = TRUE

-----------------------------------------------------------------------------
(* AnalysisEngine::process                                                 *)

\* roll_entropy_bucket: the entropy of the window before the event.
RollEntropy(bucket) ==
  /\ lastBucket' = IF first = Never \/ bucket > lastBucket THEN bucket ELSE lastBucket
  /\ entropies' =
       IF first # Never /\ bucket > lastBucket /\ entries # <<>>
       THEN LastOf(Append(entropies, counts)) ELSE entropies

\* level_with_hysteresis.
LevelAt(previous, score) ==
  LET raw  == Max({0} \cup {l \in 1..3 : score >= Enter[l]})
      held == IF previous > 0 /\ score >= Exit[previous] THEN previous ELSE 0
  IN  Later(raw, held)

\* in_learning_phase, asked after first_event_us was set.
Learning(at) == ~skipped /\ (at < first' \/ at - first' < LearningTime)

\* is_in_cooldown: a rise above the last report breaks it.
\* Mutant: a rise does not.
InCooldownAlways(alarm, at, level) ==
  alarm.at # Never /\ (at < alarm.at \/ at - alarm.at < Cooldown)
InCooldown(alarm, at, level) ==
  /\ alarm.at # Never /\ level <= alarm.reported
  /\ at < alarm.at \/ at - alarm.at < Cooldown

\* Mutant: the count of suppressed reports goes on after a report.
ReportWithoutTaking(alarm, at, level) == [alarm EXCEPT !.at = at, !.reported = level]
AfterReport(alarm, at, level) ==
  [alarm EXCEPT !.at = at, !.reported = level, !.suppressed = 0]

Judge(id, at, score) ==
  LET level  == LevelAt(Alarm(id).level, score)
      alarm  == [Alarm(id) EXCEPT !.level = level]
      silent == level = 0 \/ Learning(at)
      Enters(a) == alarms' = With(alarms, id, a)
  IN  /\ judged' = [id |-> id, at |-> at, level |-> level, silent |-> silent]
      /\ \/ /\ silent
            /\ Enters(alarm) /\ UNCHANGED <<reports, withheld>>
         \/ /\ ~silent /\ InCooldown(alarm, at, level)
            /\ Enters([alarm EXCEPT !.suppressed = @ + 1])
            /\ withheld' = Append(withheld, id) /\ UNCHANGED reports
         \/ /\ ~silent /\ ~InCooldown(alarm, at, level)
            /\ Enters(AfterReport(alarm, at, level))
            /\ reports' = Append(reports, [id |-> id, at |-> at, level |-> level,
                                           suppressed |-> alarm.suppressed,
                                           after |-> Len(withheld)])
            /\ UNCHANGED withheld

Process(id, u, at, score) ==
  /\ first' = IF first = Never THEN at ELSE first
  /\ RollEntropy(Bucket(at))
  /\ RecordRate(Bucket(at), id) /\ Push(at, id)
  /\ RecordBaseline(at, Bucket(at), u, id)
  /\ Judge(id, at, score)
  /\ log' = Append(log, [id |-> id, unit |-> u, at |-> at])
  /\ UNCHANGED <<skipped, complete>>

-----------------------------------------------------------------------------
(* Pipeline                                                                *)

\* handle: the daemon's own lines, lines of its actions, muted and quiet ones
\* are known to the registry and to nothing else.
Filtered(line, at) ==
  /\ ProcessLine(line, at)
  /\ UNCHANGED <<traffic, window, rateTracker, store, engine, file, ghosts>>
Analysed(line, u, at, score) ==
  /\ ProcessLine(line, at)
  /\ Process(Matched(line), u, at, score)
  /\ UNCHANGED <<traffic, file>>

\* Times follow the latest one, some lines come late and some after a pause.
Handle ==
  /\ Len(log) < traffic.events /\ clock < traffic.horizon
  /\ \E line \in traffic.lines, step \in traffic.steps :
       LET at == clock + step
       IN  /\ at >= 0 /\ clock' = Later(clock, at)
           /\ \/ traffic.filters /\ Filtered(line, at)
              \/ \E u \in traffic.units, score \in traffic.scores :
                   Analysed(line, u, at, score)

\* snapshot: the limits are enforced whether or not the file can be written.
Save ==
  /\ traffic.saves
  /\ EnforceLimits
  /\ file' \in {file, [templates |-> Persisted(registry), histograms |-> histograms',
                       profiles |-> profiles']}
  /\ complete' = (complete /\ histograms' = histograms /\ units' = units)
  /\ UNCHANGED <<traffic, clock, registry, window, rateTracker, engine, log, reports, withheld,
                 judged>>

\* The process ends, saved or not, and starts: Pipeline::new, restore_baselines.
Restart ==
  /\ traffic.saves /\ log # <<>>
  /\ EngineReset /\ units' = <<>>
  /\ IF file = NoFile
     THEN registry' = <<>> /\ histograms' = <<>> /\ profiles' = <<>>
     ELSE /\ registry' = Restored(file.templates)
          /\ histograms' = file.histograms /\ profiles' = file.profiles
  /\ skipped' = Trusted(histograms', profiles')
  /\ complete' = (histograms' = <<>>)
  /\ UNCHANGED <<traffic, clock, file>>

Next == Handle \/ Save \/ Restart
Spec == Init /\ [][Next]_vars

-----------------------------------------------------------------------------
(* Properties                                                              *)

\* Rule 18: whatever the journal brings, what the engine keeps per template, bucket
\* and event stays within its limits.
EngineLimits ==
  /\ Len(registry) <= MaxTemplates
  /\ \A i \in DOMAIN registry : DOMAIN registry[i].tokens = DOMAIN registry[i].id
  /\ Len(entries) <= MaxEntries /\ IsABag(counts)
  /\ Cardinality(DOMAIN rates) <= MaxTracked
  /\ \A x \in DOMAIN rates : rates[x].active \in start..current
  /\ Len(entropies) <= HistoryLength
  /\ \A x \in DOMAIN alarms : alarms[x].level \in Levels /\ alarms[x].reported \in Levels

\* No two clusters have one id, although an id is the hash of the line a
\* cluster began with and clusters are generalised, evicted and restored: their
\* rates, baselines and alarms would be one.  But for lines of nothing but <*>,
\* which are like no template, so that each of them begins a cluster anew.
IdsAreUnique ==
  \A i, j \in DOMAIN registry :
    registry[i].id = registry[j].id => i = j \/ Concrete(registry[i].id) = {}

\* The time that had been reached with the i-th event.
Reached(i) == Max({log[j].at : j \in 1..i})

\* The lines that did not come too late for the window, and how many came after one.
Timely == {i \in DOMAIN log : log[i].at >= Reached(i) - WindowLength}
Behind(i) == Cardinality({j \in Timely : j > i})

\* The window holds the latest of the lines that did not come too late: of
\* these it lacks none that is inside window_seconds and among the last
\* max_window_events, and none is older than window_seconds unless one came
\* before it that is not; and the counts are those of just these lines.
WindowIsExact ==
  LET size == Len(entries)
      Inside(i) == log[i].at >= Reached(Len(log)) - WindowLength
  IN  /\ \A n \in DOMAIN entries :
           \E i \in Timely : Behind(i) = size - n /\ entries[n].id = log[i].id
      /\ \A i \in Timely : Behind(i) >= size /\ Inside(i) => Behind(i) >= MaxEntries
      /\ \A i \in Timely : Behind(i) < size => \E j \in Timely : j <= i /\ Inside(j)
      /\ counts = Ids(entries)

\* How often a template occurred in a bucket; no line in the whole of the history.
Seen(x, bucket) == Cardinality({i \in DOMAIN log : log[i].id = x /\ Bucket(Reached(i)) = bucket})
Pause == \A i \in DOMAIN log : Bucket(Reached(i)) \notin current - HistoryLength .. current - 1

\* The k-th last number in the history of a template is how often it occurred
\* k buckets ago, silence, late lines and times of idleness included, as far
\* back as there was anything to see.  Not the oldest number after a pause
\* longer than the history (roll_over_to), nor with limits by which a template
\* is forgotten that the history still knows.
RatesAreExact ==
  Cardinality({log[i].id : i \in DOMAIN log}) <= MaxTracked /\ HistoryLength <= IdleBuckets =>
    \A x \in DOMAIN rates :
      /\ rates[x].count = Seen(x, current)
      /\ Len(rates[x].history) = Least(current - start, HistoryLength)
      /\ \A k \in DOMAIN rates[x].history :
           LET ago == Len(rates[x].history) + 1 - k
           IN  \/ rates[x].history[k] = Seen(x, current - ago)
               \/ ago = HistoryLength /\ Pause

\* The lines of a unit; those that opened a bucket in it; and those that came before the next
\* bucket after the one the i-th line opened.
LinesOf(u) == {i \in DOMAIN log : log[i].unit = u}
Opening(u) ==
  {i \in LinesOf(u) : \A j \in LinesOf(u) : j < i => Bucket(log[j].at) < Bucket(log[i].at)}
Until(u, i) == {j \in LinesOf(u) : \A m \in Opening(u) : m > i => j < m}
IdsOf(u) == {log[i].id : i \in LinesOf(u)}

\* The buckets, by the lines that opened them, that a histogram must have observed: those that
\* ended and were of its slot, since its template was first seen in the unit.
Ended(k) ==
  {i \in Opening(k.unit) : /\ \E m \in Opening(k.unit) : m > i
                           /\ \E j \in Until(k.unit, i) : log[j].id = k.id
                           /\ k.slot \in {AnySlot, SlotOf(log[i].at)}}
Occurrences(k, i) == Cardinality({j \in Until(k.unit, i) : j >= i /\ log[j].id = k.id})

\* A histogram is there once such a bucket has ended, was touched with the last one and has
\* bins for what occurred in them and for nothing else, as long as these are enough.
HasObserved(k) ==
  /\ (k \in DOMAIN histograms) = (Ended(k) # {})
  /\ k \in DOMAIN histograms =>
       /\ histograms[k].touched = Bucket(log[Max(Ended(k))].at)
       /\ Cardinality({Occurrences(k, i) : i \in Ended(k)}) <= MaxBins =>
            DOMAIN histograms[k].bins \subseteq {Occurrences(k, i) : i \in Ended(k)}

\* What all observations come to, faded by their age; and those of one count.
WeighsExactly(k) ==
  LET Weight(S) ==
        MapThenSumSet(LAMBDA i : One \div 2^(histograms[k].touched - Bucket(log[i].at)), S)
  IN  /\ WeightOf(histograms[k]) = Weight(Ended(k))
      /\ Cardinality({Occurrences(k, i) : i \in Ended(k)}) <= MaxBins =>
           \A n \in DOMAIN histograms[k].bins :
             histograms[k].bins[n] = Weight({i \in Ended(k) : Occurrences(k, i) = n})

KeysOf(u) == {Key(u, x, slot) : x \in IdsOf(u), slot \in 0..AnySlot}
HistogramsAreThere ==
  complete => \A u \in {log[i].unit : i \in DOMAIN log} :
    Cardinality(IdsOf(u)) <= MaxProfile => \A k \in KeysOf(u) : HasObserved(k)

\* As long as a store began empty and was not cut, each histogram holds, for
\* each closed bucket of its unit since the template was first seen there, one
\* observation of how often it occurred, faded by its age; in the slot of the
\* line that opened the bucket and in Slot::ANY.
HistogramsAreExact ==
  /\ HistogramsAreThere
  /\ complete => \A u \in {log[i].unit : i \in DOMAIN log} :
       Cardinality(IdsOf(u)) <= MaxProfile =>
         \A k \in KeysOf(u) \cap DOMAIN histograms : WeighsExactly(k)

\* Outside the learning phase nothing above Normal stays unheard: there is a
\* report of the template on at least that level, and it is not older than the
\* cooldown.
SeriousIsHeard ==
  judged.silent \/
    \E i \in DOMAIN reports :
      /\ reports[i].id = judged.id /\ reports[i].level >= judged.level
      /\ judged.at < reports[i].at + Cooldown \/ judged.at = reports[i].at

\* Of the first withheld reports those of x since any of these reports.
Between(x, earlier, last) ==
  {k \in 1..last : /\ withheld[k] = x
                   /\ \A j \in earlier : reports[j].id = x => reports[j].after < k}

\* Each report that was withheld is counted in the next report of its template
\* or still waits for it, once (suppressed_since_last).
SuppressedAreReported ==
  /\ \A i \in DOMAIN reports :
       reports[i].suppressed
         = Cardinality(Between(reports[i].id, 1..i - 1, reports[i].after))
  /\ \A x \in DOMAIN alarms :
       alarms[x].suppressed = Cardinality(Between(x, DOMAIN reports, Len(withheld)))
=============================================================================
