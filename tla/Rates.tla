-------------------------------- MODULE Rates --------------------------------
(***************************************************************************)
(* What is counted by template: among the events of the last               *)
(* window_seconds of journal time (core/src/analysis/window.rs), and in    *)
(* each of the last buckets of time (core/src/analysis/rate.rs).  The      *)
(* window's counters of events that were dropped are left out.             *)
(***************************************************************************)
EXTENDS Integers, SequencesExt, Bags, TLC, Maps

-----------------------------------------------------------------------------
\* SlidingWindow

CONSTANTS
  WindowLength,  \* analysis.window_seconds
  MaxEntries     \* analysis.max_window_events

ASSUME WindowAssumption == WindowLength \in Nat /\ MaxEntries \in Nat \ {0}

VARIABLES
  entries,  \* SlidingWindow::entries
  counts,   \* SlidingWindow::counts, which holds no zeros: a bag
  newest    \* the greatest time so far

window == <<entries, counts, newest>>

WindowInit  == entries = <<>> /\ counts = EmptyBag /\ newest = 0
WindowReset == entries' = <<>> /\ counts' = EmptyBag /\ newest' = 0

Ids(s) ==
  [x \in {s[i].id : i \in DOMAIN s} |-> Cardinality({i \in DOMAIN s : s[i].id = x})]

\* evict_expired looks at the head only; evict_over_capacity follows.
\* Mutant: it looks at one entry.
ExpiredOne(s, cutoff) == IF s[1].at >= cutoff THEN 0 ELSE 1
Expired(s, cutoff) ==
  CHOOSE n \in 0..Len(s) - 1 : s[n + 1].at >= cutoff /\ \A i \in 1..n : s[i].at < cutoff
Surplus(s) == IF Len(s) > MaxEntries THEN Len(s) - MaxEntries ELSE 0

Push(at, id) ==
  LET now    == IF at > newest THEN at ELSE newest
      cutoff == now - WindowLength
      all    == Append(entries, [at |-> at, id |-> id])
      old    == Expired(all, cutoff)
      gone   == old + Surplus(SubSeq(all, old + 1, Len(all)))
  IN  /\ newest' = now
      /\ IF at < cutoff
         THEN UNCHANGED <<entries, counts>>
         ELSE /\ entries' = SubSeq(all, gone + 1, Len(all))
              /\ counts' = (counts (+) Ids(<<[at |-> at, id |-> id]>>))
                             (-) Ids(SubSeq(all, 1, gone))

-----------------------------------------------------------------------------
\* RateTracker

CONSTANTS
  HistoryLength,  \* analysis.rate_history_buckets
  MaxTracked,     \* analysis.max_templates
  IdleBuckets     \* analysis.idle_eviction_buckets

ASSUME RatesAssumption ==
  /\ HistoryLength \in Nat \ {0} /\ MaxTracked \in Nat \ {0}
  /\ IdleBuckets \in Nat \ {0}

VARIABLES
  rates,    \* RateTracker::templates: count, history and active by template
  current,  \* the bucket that is filled
  start     \* the first bucket, or NotStarted

rateTracker == <<rates, current, start>>

NotStarted == -1
RatesInit  == rates = <<>> /\ current = 0 /\ start = NotStarted
RatesReset == rates' = <<>> /\ current' = 0 /\ start' = NotStarted

Zeros(n) == [i \in 1..n |-> 0]
Least(m, n) == IF m < n THEN m ELSE n
\* push_bounded, repeated.
LastOf(s) ==
  SubSeq(s, IF Len(s) > HistoryLength THEN Len(s) - HistoryLength + 1 ELSE 1, Len(s))

\* roll_over_to: the count is closed, skipped buckets are zeros, and who has
\* been idle for too long is forgotten.
\* Mutant: the skipped buckets are not filled in.
ClosedUnfilled(rate, gap) ==
  [rate EXCEPT !.count = 0, !.history = LastOf(@ \o <<rate.count>>)]
Closed(rate, gap) ==
  [rate EXCEPT
     !.count = 0,
     !.history = LastOf(@ \o <<rate.count>> \o Zeros(Least(gap, HistoryLength) - 1))]
RolledOver(bucket) ==
  IF start # NotStarted /\ bucket > current
  THEN [x \in {y \in DOMAIN rates : rates[y].active >= bucket - IdleBuckets} |->
          Closed(rates[x], bucket - current)]
  ELSE rates

\* ensure_capacity: any of those that have been inactive longest.
MadeRoom(rolled, id) ==
  IF id \in DOMAIN rolled \/ Cardinality(DOMAIN rolled) < MaxTracked
  THEN {rolled}
  ELSE {Restrict(rolled, DOMAIN rolled \ {x}) :
          x \in {y \in DOMAIN rolled : \A z \in DOMAIN rolled : rolled[y].active <= rolled[z].active}}

\* A template seen for the first time has been absent since the start.
NewRate(now, begun) ==
  [count |-> 0, history |-> Zeros(Least(now - begun, HistoryLength)), active |-> now]

\* record: a late event counts in the bucket that is filled.
RecordRate(bucket, id) ==
  LET started == start # NotStarted
      now     == IF started /\ current > bucket THEN current ELSE bucket
      begun   == IF started THEN start ELSE bucket
  IN  /\ start' = begun /\ current' = now
      /\ \E kept \in MadeRoom(RolledOver(bucket), id) :
           LET rate == IF id \in DOMAIN kept THEN kept[id] ELSE NewRate(now, begun)
           IN  rates' = With(kept, id, [rate EXCEPT !.count = @ + 1, !.active = now])
=============================================================================
