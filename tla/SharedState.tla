----------------------------- MODULE SharedState -----------------------------
(***************************************************************************)
(* What the tasks of the daemon share (daemon/src/state.rs) besides the    *)
(* anomaly feed and the self filter: the mute store, which client sessions *)
(* fill and the pipeline asks for every line, and the ring of raw lines    *)
(* the pipeline fills and sessions ask for the surroundings of an anomaly. *)
(*                                                                         *)
(* A line carries the time stamp of the journal, which need not grow and   *)
(* has nothing to do with the clock mutes expire by.                       *)
(***************************************************************************)
EXTENDS Integers, SequencesExt, Maps

CONSTANTS
  Templates, UnitNames,  \* UnitNames does not have AnyUnit
  AnyUnit,       \* unit: None
  Scopes,        \* durations of a MuteScope, Forever is Permanent
  Forever,       \* u64::MAX
  MaxMutes,      \* MAX_MUTE_ENTRIES
  Stamps,        \* time stamps lines carry
  RingSize,      \* context_lines
  AskedLines,    \* before and after, as clients ask for them
  ContextMax,    \* context_max_lines
  MaxTurns, MaxNow  \* bounds of the model: lines and requests together, the clock

ASSUME SharedStateAssumption ==
  /\ MaxMutes \in Nat \ {0} /\ RingSize \in Nat \ {0} /\ MaxNow < Forever
  /\ Scopes \cup {Forever} \cup AskedLines \cup {ContextMax} \subseteq Nat
  /\ Stamps \subseteq Nat /\ AnyUnit \notin UnitNames

VARIABLES
  now,        \* the clock
  requests,   \* how many requests to mute there were
  mutes,      \* mute_store: when the entry of a key expires
  asked,      \* history: until when a key was last asked to be mute
  pushedOut,  \* history: what had to leave a full store, and what stayed
  lines,      \* how many lines there were
  ring,       \* ContextRing
  raised,     \* history: the lines that became anomalies
  reply       \* the answer to the last GetContext, NoReply if a line came after it

muteStore == <<now, requests, mutes, asked, pushedOut>>
contextRing == <<lines, ring, raised, reply>>
sharedState == <<muteStore, contextRing>>

NoReply == <<>>

SharedStateInit ==
  /\ now = 0 /\ requests = 0 /\ mutes = <<>> /\ asked = <<>> /\ pushedOut = {}
  /\ lines = 0 /\ ring = <<>> /\ raised = {} /\ reply = NoReply

Pass == now < MaxNow /\ now' = now + 1 /\ UNCHANGED <<requests, mutes, asked, pushedOut, contextRing>>

-----------------------------------------------------------------------------
\* The mute store.

Sooner(key) == {k \in DOMAIN mutes : mutes[k] < mutes[key]}

\* mute: a new key has the soonest expiry leave a full store, a known one gets the new time,
\* also if that is sooner.
Enter(key, until) ==
  LET full == key \notin DOMAIN mutes /\ Cardinality(DOMAIN mutes) >= MaxMutes
  IN  \E out \in IF full THEN {{k} : k \in {k \in DOMAIN mutes : Sooner(k) = {}}} ELSE {{}} :
        /\ mutes' = With(Without(mutes, out), key, until)
        /\ asked' = With(asked, key, until)
        /\ pushedOut' = {e \in pushedOut : e.key # key}
             \cup {[key |-> k, until |-> mutes[k], stayed |-> Without(mutes, out)] : k \in out}

\* dispatch_mute_anomaly, from a reading of the clock.
Mute(template, unit, scope, reading, dryRun) ==
  /\ requests + lines < MaxTurns /\ requests' = requests + 1
  /\ reading \in 0..now
  /\ IF dryRun THEN UNCHANGED <<mutes, asked, pushedOut>>
     ELSE Enter(<<template, unit>>, IF scope = Forever THEN Forever ELSE reading + scope)
  /\ UNCHANGED <<now, contextRing>>

\* is_muted, which drops what has expired: for the unit, or for all of them.
IsMuted(store, template, unit) ==
  \/ <<template, unit>> \in DOMAIN store
  \/ <<template, AnyUnit>> \in DOMAIN store

\* Mutant: by the time stamp of the line.
RetainByStamp(stamp) == Without(mutes, {k \in DOMAIN mutes : mutes[k] <= stamp})
Retain(stamp) == Without(mutes, {k \in DOMAIN mutes : mutes[k] <= now})

-----------------------------------------------------------------------------
\* The pipeline meets a line: into the ring, past the mutes, and the analysis may find it
\* remarkable (handle).  Whether own pid, self filter or quiet rules hold it back is as
\* open as what the analysis says.

Pushed(seq, entry, size) == IF Len(seq) >= size THEN Append(Tail(seq), entry) ELSE Append(seq, entry)

Handle(template, unit, stamp) ==
  LET entry == [number |-> lines + 1, stamp |-> stamp, unit |-> unit]
  IN  /\ requests + lines < MaxTurns /\ lines' = lines + 1
      /\ ring' = Pushed(ring, entry, RingSize) /\ reply' = NoReply
      /\ \/ UNCHANGED <<mutes, raised>>                \* filtered as its own doing
         \/ /\ mutes' = Retain(stamp)
            /\ \/ UNCHANGED raised
               \/ ~IsMuted(mutes', template, unit) /\ raised' = raised \cup {entry}
      /\ UNCHANGED <<now, requests, asked, pushedOut>>

-----------------------------------------------------------------------------
\* GetContext.

Distance(a, b) == IF a > b THEN a - b ELSE b - a
Smaller(a, b) == IF a < b THEN a ELSE b
Bigger(a, b) == IF a > b THEN a ELSE b
OfUnit(seq, unit) == Kept(seq, {e \in ToSet(seq) : unit \in {AnyUnit, e.unit}})

\* The first of those nearest to the time stamp.
NearestIn(seq, stamp) ==
  CHOOSE i \in DOMAIN seq :
    \A j \in DOMAIN seq :
      LET di == Distance(seq[i].stamp, stamp)
          dj == Distance(seq[j].stamp, stamp)
      IN  di < dj \/ (di = dj /\ i <= j)

\* Mutant: the nearest of all lines, and then those of the unit.
QueryFilteringLate(stamp, before, after, unit) ==
  LET filtered == OfUnit(ring, unit)
      i == Smaller(NearestIn(ring, stamp), Len(filtered))
  IN  IF filtered = <<>> THEN [lines |-> <<>>, truncated |-> before > 0 \/ after > 0]
      ELSE [lines |-> SubSeq(filtered, Bigger(i - before, 1), Smaller(i + after, Len(filtered))),
            truncated |-> i - 1 < before \/ Len(filtered) - i < after]

Query(stamp, before, after, unit) ==
  LET filtered == OfUnit(ring, unit)
      i == NearestIn(filtered, stamp)
  IN  IF filtered = <<>> THEN [lines |-> <<>>, truncated |-> before > 0 \/ after > 0]
      ELSE [lines |-> SubSeq(filtered, Bigger(i - before, 1), Smaller(i + after, Len(filtered))),
            truncated |-> i - 1 < before \/ Len(filtered) - i < after]

\* A client asks for what is around an anomaly, of its unit or of all.
GetContext(entry, before, after, unit) ==
  /\ unit \in {AnyUnit, entry.unit}
  /\ reply' = [about |-> entry, unit |-> unit,
               before |-> Smaller(before, ContextMax), after |-> Smaller(after, ContextMax),
               got |-> Query(entry.stamp, Smaller(before, ContextMax), Smaller(after, ContextMax), unit)]
  /\ UNCHANGED <<muteStore, lines, ring, raised>>

HandleNext ==
  \E template \in Templates, unit \in UnitNames, stamp \in Stamps : Handle(template, unit, stamp)
MutesNext ==
  \/ Pass \/ HandleNext
  \/ \E template \in Templates, unit \in UnitNames \cup {AnyUnit}, scope \in Scopes,
        reading \in {now - 1, now}, dryRun \in BOOLEAN : Mute(template, unit, scope, reading, dryRun)
ContextNext ==
  \/ HandleNext
  \/ \E entry \in raised, before, after \in AskedLines, unit \in UnitNames \cup {AnyUnit} :
       GetContext(entry, before, after, unit)

-----------------------------------------------------------------------------
(* Properties                                                              *)

\* What is asked to be mute stays so until its time, whatever time stamps lines carry, unless
\* the store was full of what lasts at least as long (mute, is_muted).
MutesAreKept ==
  /\ \A key \in DOMAIN asked : asked[key] > now =>
       \/ key \in DOMAIN mutes /\ mutes[key] = asked[key]
       \/ \E e \in pushedOut : e.key = key
  /\ \A e \in pushedOut :
       Cardinality(DOMAIN e.stayed) = MaxMutes - 1 /\ \A k \in DOMAIN e.stayed : e.stayed[k] >= e.until

\* The surroundings of an anomaly are lines as they came, one after the other but for those of
\* other units; they have its line, or one of the same time, while the ring has it; and they
\* are all that was asked for unless the reply says otherwise (ContextRing::query).
ContextFits ==
  reply # NoReply =>
    LET got == reply.got.lines
        fitting == OfUnit(ring, reply.unit)
        mine == {i \in DOMAIN ring : ring[i] = reply.about}
    IN  /\ mine # {} => \E i \in DOMAIN got : got[i].stamp = reply.about.stamp
        /\ \A i, j \in DOMAIN got : i < j =>
             got[i].number < got[j].number /\ j - i = Cardinality({k \in DOMAIN fitting :
               got[i].number <= fitting[k].number /\ fitting[k].number < got[j].number})
        /\ Len(got) <= reply.before + reply.after + 1
        /\ ~reply.got.truncated /\ fitting # <<>> => Len(got) = reply.before + reply.after + 1
=============================================================================
