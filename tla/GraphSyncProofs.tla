--------------------------- MODULE GraphSyncProofs ---------------------------
(***************************************************************************)
(* What holds of graphsync for any notes, limits, edits, kills and lost    *)
(* saves: the day's budget, that only what the KI was sent counts as       *)
(* analysed, that no change is without its dirty flag, and that in the     *)
(* graph links go before the KI's edges and those before common terms.     *)
(***************************************************************************)
EXTENDS GraphSync, TLAPS, SequenceTheorems, FiniteSetTheorems, WellFoundedInduction

Today == Day(clock)

\* Records of notes.
IsNote(r) ==
  r = [size |-> r.size, mtime |-> r.mtime, hash |-> r.hash, changed |-> r.changed,
       llmHash |-> r.llmHash, edges |-> r.edges]
Table(files) ==
  /\ files = [f \in DOMAIN files |-> files[f]] /\ IsFiniteSet(DOMAIN files)
  /\ \A f \in DOMAIN files : IsNote(files[f])

\* The ledger of a state is one of today or before; its money is over the
\* limit by less than the last call cost.
Afforded(usd) == usd = 0 \/ \E child \in Children : usd - child.output.cost < MaxUsd
Ledger(l, today) ==
  /\ l = [day |-> l.day, runs |-> l.runs, usd |-> l.usd, next |-> l.next]
  /\ l.day \in Int /\ l.day <= today /\ l.runs \in 0..MaxRuns
  /\ l.usd \in Nat /\ Afforded(l.usd)
IsState(s, today) ==
  s = [files |-> s.files, llm |-> s.llm] /\ Table(s.files) /\ Ledger(s.llm, today)

Types ==
  /\ clock \in 0..MaxTime
  /\ calls \in [Days -> Nat] /\ spent \in [Days -> Nat] /\ lost \in [Days -> Nat]
  /\ IsState(state, Today) /\ IsState(Loaded, Today)

-----------------------------------------------------------------------------
(* The budget                                                              *)

\* No day has costs without a call, none that is to come has any.
DaysInOrder ==
  /\ \A d \in Days : d > Today => calls[d] = 0 /\ lost[d] = 0
  /\ \A d \in Days : calls[d] = 0 => spent[d] = 0

\* The ledger in memory knows of every call of its day that is not lost, and of
\* no other; the one that runs is still to be booked.
Pending == IF pc = "call" THEN 1 ELSE 0
Booking ==
  pc # "off" =>
    /\ state.llm.day # Today => calls[Today] = lost[Today]
    /\ pc = "call" =>
         /\ call.now \in Nat /\ state.llm.day = Day(call.now) /\ state.llm.day \in Days
         /\ state.llm.runs < MaxRuns /\ state.llm.usd < MaxUsd
    /\ LET d == state.llm.day
       IN  d = Today \/ pc = "call" =>
             /\ calls[d] = state.llm.runs + lost[d] + Pending
             /\ lost[d] = 0 => spent[d] <= state.llm.usd

\* The ledger in the file knows of no call there was not; without an abrupt end
\* it knows of all but those of this turn.
Booked(l, today) == IF l.day = today THEN l.runs ELSE 0
Saving ==
  LET l == Loaded.llm
  IN  /\ l.day = Today =>
           /\ l.runs <= calls[Today] /\ (l.runs = calls[Today] => spent[Today] <= l.usd)
           /\ pc = "call" /\ state.llm.day = Today => l.runs < calls[Today]
      /\ ~abrupt /\ pc \notin {"call", "write", "save"} => calls[Today] = Booked(l, Today)

\* The budget by what the answers cost that could be used, which is what is booked.
Within ==
  \A d \in Days :
    /\ calls[d] <= MaxRuns + lost[d]
    /\ lost[d] = 0 /\ spent[d] # 0 =>
         \E child \in Children : spent[d] - child.output.cost < MaxUsd
    /\ ~abrupt => lost[d] = 0

Budget == DaysInOrder /\ Booking /\ Saving /\ Within

-----------------------------------------------------------------------------
(* What the KI was sent, and what is still to be written                   *)

\* During a call the files asked about keep the content that was sent.
Sending ==
  pc = "call" => \A f \in DOMAIN state.files :
    Contains(call.batch, f) => <<f, state.files[f].hash>> \in call.read
Marked == Sending /\ MarkedWasSent

\* Where the turn is, the graph on the disk is that of the state, or what will
\* make the turn write it is set.
Fits == stale \/ out = Graph
Output ==
  /\ pc = "off" => first
  /\ pc = "scan" => first \/ Fits
  /\ pc = "read" => first \/ touched \/ Fits
  /\ pc \in {"ask", "call"} => dirty \/ Fits
  /\ pc \in {"save", "rest"} => Fits

IInv == Types /\ Budget /\ Marked /\ Output

-----------------------------------------------------------------------------
(* What the operators give                                                 *)

LEMMA DayFacts ==
  /\ \A time \in Nat : Day(time) \in Nat
  /\ \A a, b \in Nat : a <= b => Day(a) <= Day(b)
  /\ \A time \in 0..MaxTime : Day(time) \in Days
<1>1. MaxTime \in Nat /\ DayLength \in Nat \ {0}
  BY GraphSyncAssumption
<1>2. \A time \in Nat : time \div DayLength \in Nat
  BY <1>1
<1>3. \A a, b \in Nat : a <= b => a \div DayLength <= b \div DayLength
  BY <1>1
<1>4. \A time \in Nat : Day(time) \in Nat
  BY <1>2 DEF Day
<1>5. \A a, b \in Nat : a <= b => Day(a) <= Day(b)
  BY <1>3 DEF Day
<1>6. ASSUME NEW time \in 0..MaxTime
      PROVE  Day(time) \in 0..Day(MaxTime)
  BY <1>1, <1>4, <1>5
<1> QED
  BY <1>4, <1>5, <1>6 DEF Days

\* Every set of natural numbers that is not empty has a least one.
LEMMA LeastExists ==
  ASSUME NEW T \in SUBSET Nat, T # {}
  PROVE  \E x \in T : \A y \in T : x <= y
<1> DEFINE Less == {pair \in Nat \X Nat : pair[1] < pair[2]}
<1>1. IsWellFoundedOn(Less, Nat)
  BY NatLessThanWellFounded DEF OpToRel
<1>2. PICK x \in T : \A y \in T : <<y, x>> \notin Less
  <2> HIDE DEF Less
  <2> QED
    BY <1>1, WFMin
<1>3. ASSUME NEW y \in T
      PROVE  x <= y
  <2>1. x \in Nat /\ y \in Nat /\ <<y, x>> \notin Less
    BY <1>2
  <2>2. <<y, x>> \in Nat \X Nat /\ <<y, x>>[1] = y /\ <<y, x>>[2] = x
    BY <2>1
  <2>3. ~(y < x)
    BY <2>1, <2>2
  <2> QED
    BY <2>1, <2>3
<1> QED
  BY <1>2, <1>3

\* The function kept of Kept up to n: it exists, as one for n - 1 can be extended.
KeptUpTo(f, n, seq, set) ==
  /\ f[0] = <<>>
  /\ \A i \in 1..n : f[i] = IF seq[i] \in set THEN Append(f[i - 1], seq[i]) ELSE f[i - 1]

LEMMA KeptExists ==
  ASSUME NEW S, NEW seq \in Seq(S), NEW set, NEW n \in 0..Len(seq)
  PROVE  \E f \in [0..n -> Seq(S)] : KeptUpTo(f, n, seq, set)
<1> DEFINE Ok(m) == \E f \in [0..m -> Seq(S)] : KeptUpTo(f, m, seq, set)
           Bad == {m \in 0..Len(seq) : ~Ok(m)}
<1>0. Len(seq) \in Nat
  BY LenProperties
<1> SUFFICES ASSUME Bad # {} PROVE FALSE
  BY <1>0
<1>1. PICK m \in Bad : \A y \in Bad : m <= y
  <2>1. Bad \in SUBSET Nat
    BY <1>0
  <2> QED
    BY <2>1, LeastExists
<1>2. m \in Nat /\ m \in 0..Len(seq) /\ ~Ok(m)
  BY <1>0, <1>1
<1>3. m # 0
  <2> DEFINE f == [i \in 0..0 |-> <<>>]
  <2>1. f \in [0..0 -> Seq(S)] /\ KeptUpTo(f, 0, seq, set)
    BY EmptySeq DEF KeptUpTo
  <2>2. Ok(0)
    BY <2>1
  <2> QED
    BY <1>2, <2>2
<1>4. m - 1 \in 0..Len(seq) /\ m - 1 \in Nat /\ Ok(m - 1)
  <2>1. m - 1 \in 0..Len(seq) /\ ~(m <= m - 1)
    BY <1>0, <1>2, <1>3
  <2>2. m - 1 \notin Bad
    BY <1>1, <2>1
  <2> QED
    BY <2>1, <2>2, <1>2, <1>3
<1>5. PICK f \in [0..(m - 1) -> Seq(S)] : KeptUpTo(f, m - 1, seq, set)
  BY <1>4
<1> DEFINE last == IF seq[m] \in set THEN Append(f[m - 1], seq[m]) ELSE f[m - 1]
           g == [i \in 0..m |-> IF i = m THEN last ELSE f[i]]
<1>6. last \in Seq(S)
  <2>1. f[m - 1] \in Seq(S)
    BY <1>4, <1>5
  <2>2. seq[m] \in S
    BY <1>2, <1>3, ElementOfSeq
  <2> QED
    BY <2>1, <2>2, AppendProperties
<1>7. g \in [0..m -> Seq(S)]
  BY <1>2, <1>5, <1>6
<1>8. KeptUpTo(g, m, seq, set)
  <2>1. g[0] = <<>>
    BY <1>2, <1>3, <1>5 DEF KeptUpTo
  <2>2. ASSUME NEW i \in 1..m
        PROVE  g[i] = IF seq[i] \in set THEN Append(g[i - 1], seq[i]) ELSE g[i - 1]
    <3>1. g[i - 1] = f[i - 1]
      BY <1>2
    <3>2. CASE i = m
      BY <1>2, <3>1, <3>2
    <3>3. CASE i # m
      <4>1. i \in 1..(m - 1) /\ g[i] = f[i]
        BY <1>2, <3>3
      <4> QED
        BY <1>5, <3>1, <4>1 DEF KeptUpTo
    <3> QED
      BY <3>2, <3>3
  <2> QED
    BY <2>1, <2>2 DEF KeptUpTo
<1>9. Ok(m)
  BY <1>7, <1>8
<1> QED
  BY <1>2, <1>9

\* What Kept keeps is in the set.
LEMMA KeptIsIn ==
  ASSUME NEW S, NEW seq \in Seq(S), NEW set
  PROVE  Kept(seq, set) \in Seq(set)
<1> DEFINE N == Len(seq)
           Def(h) == [n \in 0..N |->
                        IF n = 0 THEN <<>>
                        ELSE IF seq[n] \in set THEN Append(h[n - 1], seq[n]) ELSE h[n - 1]]
           kept == CHOOSE h : h = Def(h)
           Bad == {n \in 0..N : kept[n] \notin Seq(set)}
<1>0. N \in Nat
  BY LenProperties
<1>1. kept = Def(kept)
  <2>1. PICK f \in [0..N -> Seq(S)] : KeptUpTo(f, N, seq, set)
    <3>1. N \in 0..Len(seq)
      BY <1>0
    <3> QED
      BY <3>1, KeptExists
  <2>2. f = Def(f)
    <3>1. ASSUME NEW n \in 0..N
          PROVE  f[n] = Def(f)[n]
      <4>1. CASE n = 0
        BY <2>1, <4>1 DEF KeptUpTo
      <4>2. CASE n # 0
        <5>1. n \in 1..N
          BY <1>0, <4>2
        <5> QED
          BY <2>1, <4>2, <5>1 DEF KeptUpTo
      <4> QED
        BY <4>1, <4>2
    <3> QED
      BY <2>1, <3>1
  <2> HIDE DEF Def
  <2> QED
    BY <2>2
<1>2. Kept(seq, set) = kept[N]
  BY DEF Kept
<1>3. kept[0] = <<>>
  <2>1. 0 \in 0..N
    BY <1>0
  <2> HIDE DEF kept
  <2> QED
    BY <1>1, <2>1
<1>4. ASSUME NEW n \in 1..N
      PROVE  kept[n] = IF seq[n] \in set THEN Append(kept[n - 1], seq[n]) ELSE kept[n - 1]
  <2>1. n \in 0..N /\ n # 0
    BY <1>0
  <2> HIDE DEF kept
  <2> QED
    BY <1>1, <2>1
<1> HIDE DEF kept
<1>5. Bad = {}
  <2> SUFFICES ASSUME Bad # {} PROVE FALSE
    OBVIOUS
  <2>1. PICK n \in Bad : \A y \in Bad : n <= y
    <3>1. Bad \in SUBSET Nat
      BY <1>0
    <3> QED
      BY <3>1, LeastExists
  <2>2. n \in 0..N /\ kept[n] \notin Seq(set)
    BY <2>1
  <2>3. n # 0
    BY <1>3, <2>2, EmptySeq
  <2>4. n \in 1..N /\ n - 1 \in 0..N /\ ~(n <= n - 1)
    BY <1>0, <2>2, <2>3
  <2>5. kept[n - 1] \in Seq(set)
    BY <2>1, <2>4
  <2>6. CASE seq[n] \in set
    <3>1. kept[n] = Append(kept[n - 1], seq[n])
      BY <1>4, <2>4, <2>6
    <3>2. Append(kept[n - 1], seq[n]) \in Seq(set)
      BY <2>5, <2>6, AppendProperties
    <3> QED
      BY <2>2, <3>1, <3>2
  <2>7. CASE seq[n] \notin set
    BY <1>4, <2>2, <2>4, <2>5, <2>7
  <2> QED
    BY <2>6, <2>7
<1>6. N \in 0..N
  BY <1>0
<1> QED
  BY <1>2, <1>5, <1>6

LEMMA FirstIsSeq ==
  ASSUME NEW S, NEW seq \in Seq(S), NEW n \in Nat
  PROVE  First(seq, n) \in Seq(S)
<1> DEFINE m == Min({n, Len(seq)})
<1>1. Len(seq) \in Nat
  BY LenProperties
<1>2. m \in Nat /\ m <= Len(seq)
  BY <1>1 DEF Min
<1> HIDE DEF m
<1>3. \A i \in 1..m : seq[i] \in S
  BY <1>1, <1>2, ElementOfSeq
<1>4. SubSeq(seq, 1, m) \in Seq(S)
  BY <1>2, <1>3, SubSeqProperties
<1> QED
  BY <1>4 DEF First, m

\* What is asked about are known notes that are on the disk as they were looked at.
UpToDate == {f \in DOMAIN state.files : Readable(f) /\ disk[f].hash = state.files[f].hash}

LEMMA BatchIsUpToDate ==
  ASSUME Table(state.files)
  PROVE  Batch \in Seq(UpToDate)
<1> DEFINE files == state.files
           now == clock
           due == {g \in DOMAIN files : /\ files[g].llmHash # files[g].hash
                                         /\ now - files[g].changed >= MinStable}
<1>1. Cardinality(due) \in Nat
  <2>1. due \in SUBSET DOMAIN files
    OBVIOUS
  <2>2. IsFiniteSet(due)
    BY <2>1, FS_Subset DEF Table
  <2> QED
    BY <2>2, FS_CardinalityType
<1>2. \E S : Newest(due, files) \in Seq(S)
  <2> DEFINE n == Cardinality(due)
             Before(g, h) == \/ files[g].changed > files[h].changed
                             \/ files[g].changed = files[h].changed /\ g < h
             Nth(i) == CHOOSE g \in due : Cardinality({h \in due : Before(h, g)}) = i - 1
             S == {Nth(i) : i \in 1..n}
  <2>1. Newest(due, files) = [i \in 1..n |-> Nth(i)]
    BY DEF Newest
  <2> HIDE DEF Nth
  <2>2. n \in Nat
    BY <1>1
  <2> HIDE DEF n
  <2>3. [i \in 1..n |-> Nth(i)] \in Seq(S)
    BY <2>2
  <2> HIDE DEF S
  <2> QED
    BY <2>1, <2>3
<1>3. PICK S : Newest(due, files) \in Seq(S)
  BY <1>2
<1>4. LlmCandidates(files, now) \in Seq(S)
  <2>1. LlmCandidates(files, now) = First(Newest(due, files), MaxFilesPerRun)
    BY DEF LlmCandidates
  <2> HIDE DEF due
  <2> QED
    BY <1>3, <2>1, FirstIsSeq, LlmAssumption
<1>5. Batch \in Seq(UpToDate)
  <2>1. Batch = Kept(LlmCandidates(files, now), UpToDate)
    BY DEF Batch, UpToDate
  <2> HIDE DEF files, now
  <2> QED
    BY <1>4, <2>1, KeptIsIn
<1> QED
  BY <1>5

-----------------------------------------------------------------------------
(* States and ledgers                                                      *)

LEMMA NewStateIsState ==
  ASSUME NEW today \in Nat
  PROVE  IsState(NewState, today)
<1>1. DOMAIN <<>> = {}
  BY EmptySeq
<1>2. IsFiniteSet({})
  BY FS_EmptySet
<1>3. Table(<<>>)
  <2>1. \A f : f \notin DOMAIN <<>>
    BY <1>1
  <2>2. <<>> = [f \in DOMAIN <<>> |-> <<>>[f]]
    BY EmptySeq
  <2> QED
    BY <1>1, <1>2, <2>1, <2>2 DEF Table
<1>4. Ledger(NewLedger, today)
  BY LlmAssumption DEF Ledger, NewLedger, NoDay, Afforded
<1> QED
  BY <1>3, <1>4 DEF IsState, NewState

LEMMA StateLater ==
  ASSUME NEW a \in Nat, NEW b \in Nat, a <= b, NEW s, IsState(s, a)
  PROVE  IsState(s, b)
BY DEF IsState, Ledger

LEMMA RollDayFacts ==
  ASSUME NEW today \in Nat, NEW l, Ledger(l, today)
  PROVE  /\ Ledger(RollDay(l, today), today)
         /\ LET r == RollDay(l, today)
            IN  /\ r.day = today
                /\ l.day = today => r = l
                /\ l.day # today => r.runs = 0 /\ r.usd = 0
<1>1. CASE l.day = today
  BY <1>1 DEF RollDay
<1>2. CASE l.day # today
  <2>1. RollDay(l, today) = [day |-> today, runs |-> 0, usd |-> 0, next |-> l.next]
    BY <1>2 DEF RollDay, Ledger
  <2> QED
    BY <1>2, <2>1, LlmAssumption DEF Ledger, Afforded
<1> QED
  BY <1>1, <1>2

\* The fields of a state of which the ledger or the table is set.
LEMMA SetFacts ==
  ASSUME NEW s, s = [files |-> s.files, llm |-> s.llm], NEW x
  PROVE  /\ [s EXCEPT !.llm = x] = [files |-> s.files, llm |-> x]
         /\ [s EXCEPT !.files = x] = [files |-> x, llm |-> s.llm]
OBVIOUS

LEMMA TableWith ==
  ASSUME NEW files, Table(files), NEW f, NEW record, IsNote(record)
  PROVE  Table(With(files, f, record))
<1>1. DOMAIN With(files, f, record) = DOMAIN files \cup {f}
  BY DEF With
<1>2. IsFiniteSet(DOMAIN files \cup {f})
  BY FS_AddElement DEF Table
<1> QED
  BY <1>1, <1>2 DEF Table, With

LEMMA TableWithout ==
  ASSUME NEW files, Table(files), NEW set
  PROVE  Table([f \in DOMAIN files \cap set |-> files[f]])
<1>1. IsFiniteSet(DOMAIN files \cap set)
  <2>1. DOMAIN files \cap set \in SUBSET DOMAIN files
    OBVIOUS
  <2> QED
    BY <2>1, FS_Subset DEF Table
<1> QED
  BY <1>1 DEF Table

\* The record of a note: as it was but for size and time, or with another hash.
LEMMA RecordFacts ==
  ASSUME Table(state.files), NEW meta
  PROVE  /\ IsNote(Record(meta))
         /\ meta.file \in DOMAIN state.files =>
              LET old == state.files[meta.file]
              IN  /\ Record(meta).llmHash = old.llmHash
                  /\ Record(meta).edges = old.edges
         /\ meta.file \notin DOMAIN state.files => Record(meta).llmHash = NoHash
<1> DEFINE old == state.files[meta.file]
           hash == disk[meta.file].hash
           known == meta.file \in DOMAIN state.files
<1>1. CASE known /\ old.hash = hash
  <2>1. IsNote(old)
    BY <1>1 DEF Table
  <2>2. Record(meta) = [old EXCEPT !.size = meta.size, !.mtime = meta.mtime]
    BY <1>1 DEF Record
  <2> HIDE DEF old
  <2>3. Record(meta) = [size |-> meta.size, mtime |-> meta.mtime, hash |-> old.hash,
                        changed |-> old.changed, llmHash |-> old.llmHash, edges |-> old.edges]
    BY <2>1, <2>2 DEF IsNote
  <2> QED
    BY <1>1, <2>3 DEF IsNote, old
<1>2. CASE ~(known /\ old.hash = hash)
  <2>1. Record(meta) = [size |-> meta.size, mtime |-> meta.mtime, hash |-> hash, changed |-> at,
                        llmHash |-> IF known THEN old.llmHash ELSE NoHash,
                        edges |-> IF known THEN old.edges ELSE <<>>]
    BY <1>2 DEF Record
  <2> QED
    BY <2>1 DEF IsNote
<1> QED
  BY <1>1, <1>2

-----------------------------------------------------------------------------
(* Steps that leave a part as it is                                        *)

LEMMA TodayFacts ==
  ASSUME Types
  PROVE  clock \in Nat /\ Today \in Nat /\ Today \in Days
<1>1. clock \in 0..MaxTime /\ MaxTime \in Nat
  BY GraphSyncAssumption DEF Types
<1>2. clock \in Nat
  BY <1>1
<1> QED
  BY <1>1, <1>2, DayFacts DEF Today

LEMMA TypesSame ==
  ASSUME Types, UNCHANGED <<clock, calls, spent, lost>>, state' \in {state, NewState},
         Loaded' = Loaded
  PROVE  Types'
<1>1. Today' = Today /\ Today \in Nat
  BY TodayFacts DEF Today
<1>2. IsState(NewState, Today)
  BY <1>1, NewStateIsState
<1>3. IsState(state', Today')
  BY <1>1, <1>2 DEF Types
<1>4. IsState(Loaded', Today')
  BY <1>1 DEF Types
<1> QED
  BY <1>3, <1>4 DEF Types

\* A step within a turn that asks for nothing.
LEMMA BudgetSame ==
  ASSUME Budget, UNCHANGED <<clock, calls, spent, lost>>,
         state'.llm = state.llm, Loaded' = Loaded, call' = call,
         abrupt => abrupt', pc' = "off" <=> pc = "off", pc' = "call" <=> pc = "call",
         ~abrupt' /\ pc' \notin {"call", "write", "save"} => pc \notin {"call", "write", "save"}
  PROVE  Budget'
<1>1. Today' = Today
  BY DEF Today
<1>2. DaysInOrder'
  BY <1>1 DEF Budget, DaysInOrder
<1>3. Booking'
  BY <1>1 DEF Budget, Booking, Pending
<1>4. Saving'
  BY <1>1 DEF Budget, Saving, Booked
<1>5. Within'
  BY DEF Budget, Within
<1> QED
  BY <1>2, <1>3, <1>4, <1>5 DEF Budget

\* A step with which the program has ended.
LEMMA BudgetEnds ==
  ASSUME Budget, UNCHANGED <<clock, calls, spent, lost>>, Loaded' = Loaded, pc' = "off",
         ~abrupt' => ~abrupt /\ pc \notin {"call", "write", "save"}
  PROVE  Budget'
<1>1. Today' = Today
  BY DEF Today
<1>2. DaysInOrder'
  BY <1>1 DEF Budget, DaysInOrder
<1>3. Booking'
  BY DEF Booking
<1>4. Saving'
  BY <1>1 DEF Budget, Saving, Booked
<1>5. Within'
  BY DEF Budget, Within
<1> QED
  BY <1>2, <1>3, <1>4, <1>5 DEF Budget

LEMMA MarkedSame ==
  ASSUME Marked, UNCHANGED sent, state'.files \in {state.files, <<>>}, Loaded' = Loaded,
         pc' = "call" => pc = "call" /\ state' = state /\ call' = call
  PROVE  Marked'
<1>1. Sending'
  BY DEF Marked, Sending
<1>2. MarkedWasSent'
  <2>1. DOMAIN <<>> = {}
    BY EmptySeq
  <2>2. \A f \in DOMAIN state'.files : state'.files[f].llmHash # NoHash =>
          <<f, state'.files[f].llmHash>> \in sent'
    BY <2>1 DEF Marked, MarkedWasSent
  <2>3. \A f \in DOMAIN Loaded'.files : Loaded'.files[f].llmHash # NoHash =>
          <<f, Loaded'.files[f].llmHash>> \in sent'
    BY DEF Marked, MarkedWasSent
  <2> QED
    BY <2>2, <2>3 DEF MarkedWasSent
<1> QED
  BY <1>1, <1>2 DEF Marked

LEMMA GraphSame ==
  ASSUME DOMAIN state'.files = DOMAIN state.files,
         \A f \in DOMAIN state.files :
           state'.files[f].hash = state.files[f].hash /\ state'.files[f].edges = state.files[f].edges
  PROVE  Graph' = Graph
<1> DEFINE view == [f \in DOMAIN state.files |->
                      [hash |-> state.files[f].hash, edges |-> state.files[f].edges]]
<1>1. view' = view
  OBVIOUS
<1>2. Graph = Build(view) /\ Graph' = Build(view')
  BY DEF Graph
<1> HIDE DEF view
<1> QED
  BY <1>1, <1>2

LEMMA OutputSame ==
  ASSUME Output, UNCHANGED <<stale, out, first, touched, dirty, pc>>, state' = state
  PROVE  Output'
<1>1. Graph' = Graph
  BY GraphSame
<1> QED
  BY <1>1 DEF Output, Fits

LEMMA OutputEnds ==
  ASSUME pc' = "off", first' = TRUE
  PROVE  Output'
BY DEF Output

\* The program has ended, in whatever way, and nothing else has changed.
LEMMA EndsSound ==
  ASSUME IInv, ProcessEnds, UNCHANGED <<clock, calls, spent, lost, sent, stored>>,
         ~abrupt' => ~abrupt /\ pc \notin {"call", "write", "save"}
  PROVE  IInv'
<1>1. /\ pc' = "off" /\ first' = TRUE /\ state' = NewState /\ state'.files = <<>>
      /\ Loaded' = Loaded
  BY DEF ProcessEnds, NewState, Loaded
<1>2. Types'
  BY <1>1, TypesSame DEF IInv
<1>3. Budget'
  BY <1>1, BudgetEnds DEF IInv
<1>4. Marked'
  BY <1>1, MarkedSame DEF IInv
<1>5. Output'
  BY <1>1, OutputEnds
<1> QED
  BY <1>2, <1>3, <1>4, <1>5 DEF IInv

LEMMA UnchangedSound ==
  ASSUME IInv, UNCHANGED <<clock, written, pc, process, ghosts>>
  PROVE  IInv'
<1> USE DEF written, process, scanning, ghosts
<1>1. Loaded' = Loaded
  BY DEF Loaded
<1>2. Types'
  BY <1>1, TypesSame DEF IInv
<1>3. Budget'
  BY <1>1, BudgetSame DEF IInv
<1>4. Marked'
  BY <1>1, MarkedSame DEF IInv
<1>5. Output'
  BY OutputSame DEF IInv
<1> QED
  BY <1>2, <1>3, <1>4, <1>5 DEF IInv

\* A step of a turn that leaves the ledgers and changes the files of the state at most.
LEMMA LookingSound ==
  ASSUME IInv, UNCHANGED <<clock, calls, spent, lost, sent, abrupt, stored, call>>,
         pc \notin {"off", "call"}, pc' \notin {"off", "call"},
         pc \in {"write", "save"} => pc' \in {"write", "save"},
         NEW files, Table(files), state' = [state EXCEPT !.files = files],
         \A f \in DOMAIN files :
           \/ files[f].llmHash = NoHash
           \/ f \in DOMAIN state.files /\ files[f].llmHash = state.files[f].llmHash,
         Output'
  PROVE  IInv'
<1>1. state'.files = files /\ state'.llm = state.llm /\ Loaded' = Loaded /\ Today' = Today
      /\ state' = [files |-> state'.files, llm |-> state'.llm]
  BY SetFacts DEF IInv, Types, IsState, Loaded, Today
<1>2. Types'
  BY <1>1 DEF IInv, Types, IsState
<1>3. Budget'
  BY <1>1, BudgetSame DEF IInv
<1>4. Marked'
  BY <1>1 DEF IInv, Marked, MarkedWasSent, Sending
<1> QED
  BY <1>2, <1>3, <1>4 DEF IInv

-----------------------------------------------------------------------------
(* Around the program                                                      *)

LEMMA TickSound ==
  ASSUME IInv, Tick
  PROVE  IInv'
<1> USE DEF written, process, scanning, ghosts
<1>1. /\ clock \in Nat /\ clock' = clock + 1 /\ clock' \in 0..MaxTime
      /\ UNCHANGED <<stored, out, pc, process, ghosts>>
  BY TodayFacts, GraphSyncAssumption DEF IInv, Tick
<1>2. /\ Today \in Nat /\ Today \in Days /\ Today' \in Nat /\ Today' \in Days
      /\ Today <= Today'
  BY <1>1, TodayFacts, DayFacts DEF IInv, Today
<1>3. Loaded' = Loaded
  BY <1>1 DEF Loaded
<1>4. Types'
  BY <1>1, <1>2, <1>3, StateLater DEF IInv, Types
<1>5. DaysInOrder'
  <2>1. \A d \in Days : d \in Int
    BY DayFacts, GraphSyncAssumption DEF Days
  <2> QED
    BY <1>1, <1>2, <2>1 DEF IInv, Budget, DaysInOrder
<1>6. Booking' /\ Saving'
  <2>1. CASE Today' = Today
    BY <1>1, <1>3, <2>1 DEF IInv, Budget, Booking, Saving, Pending, Booked
  <2>2. CASE Today' # Today
    <3>1. /\ calls[Today'] = 0 /\ lost[Today'] = 0
          /\ state.llm.day # Today' /\ Loaded.llm.day # Today'
      BY <1>2, <2>2 DEF IInv, Types, IsState, Ledger, Budget, DaysInOrder
    <3>2. Booking'
      BY <1>1, <3>1 DEF IInv, Budget, Booking, Pending
    <3>3. Saving'
      BY <1>1, <1>3, <3>1 DEF Saving, Booked
    <3> QED
      BY <3>2, <3>3
  <2> QED
    BY <2>1, <2>2
<1>7. Budget'
  BY <1>1, <1>5, <1>6 DEF IInv, Budget, Within
<1>8. Marked'
  BY <1>1, <1>3, MarkedSame DEF IInv
<1>9. Output'
  BY <1>1, OutputSame DEF IInv
<1> QED
  BY <1>4, <1>7, <1>8, <1>9 DEF IInv

LEMMA TerminateSound ==
  ASSUME IInv, Terminate
  PROVE  IInv'
<1>1. UNCHANGED <<clock, stored, out, calls, spent, lost, sent, stale>>
  BY DEF Terminate, written
<1>2. CASE ~listening \/ pc = "rest"
  <2>1. ProcessEnds /\ (~abrupt' => ~abrupt /\ pc \notin {"call", "write", "save"})
    BY <1>2 DEF Terminate
  <2> QED
    BY <1>1, <2>1, EndsSound
<1>3. CASE ~(~listening \/ pc = "rest")
  <2>1. /\ UNCHANGED <<pc, mode, state, scanning, dirty, first, call, listening>>
        /\ abrupt' = (abrupt \/ ~listening)
    BY <1>3 DEF Terminate
  <2>2. Loaded' = Loaded
    BY <1>1 DEF Loaded
  <2> USE DEF process, scanning
  <2>3. Types'
    BY <1>1, <2>1, <2>2, TypesSame DEF IInv
  <2>4. Budget'
    BY <1>1, <1>3, <2>1, <2>2, BudgetSame DEF IInv
  <2>5. Marked'
    BY <1>1, <2>1, <2>2, MarkedSame DEF IInv
  <2>6. Output'
    BY <1>1, <2>1, OutputSame DEF IInv
  <2> QED
    BY <2>3, <2>4, <2>5, <2>6 DEF IInv
<1> QED
  BY <1>2, <1>3

\* A start takes what the file says; what it does not know of is lost.
LEMMA StartSound ==
  ASSUME IInv, NEW m \in Modes, Start(m)
  PROVE  IInv'
<1> DEFINE l == Loaded.llm
<1>1. /\ pc = "off" /\ pc' = "scan" /\ state' = Loaded /\ stale' = FALSE
      /\ UNCHANGED <<clock, out, first, call, calls, spent, sent, abrupt>>
      /\ stored' = IF stored = Unusable THEN Missing ELSE stored
      /\ lost' = [lost EXCEPT ![Today] = calls[Today] - Booked(l, Today)]
  BY DEF Start, Today, Booked
<1>2. Loaded' = Loaded
  BY <1>1 DEF Loaded
<1>3. /\ Today' = Today /\ Today \in Days /\ Today \in Nat
      /\ calls \in [Days -> Nat] /\ spent \in [Days -> Nat] /\ lost \in [Days -> Nat]
      /\ IsState(Loaded, Today) /\ Ledger(l, Today)
  BY <1>1, TodayFacts DEF IInv, Types, Today, IsState
<1>4. /\ Booked(l, Today) \in 0..MaxRuns /\ Booked(l, Today) <= calls[Today]
      /\ l.day # Today => Booked(l, Today) = 0
      /\ l.day = Today => Booked(l, Today) = l.runs
      /\ l.day = Today /\ l.runs = calls[Today] => spent[Today] <= l.usd
      /\ ~abrupt => calls[Today] = Booked(l, Today)
  BY <1>1, <1>3, LlmAssumption DEF IInv, Budget, Saving, Booked, Ledger
<1>5. /\ lost' \in [Days -> Nat] /\ lost'[Today] = calls[Today] - Booked(l, Today)
      /\ \A d \in Days : d # Today => lost'[d] = lost[d]
  BY <1>1, <1>3, <1>4
<1>6. Types'
  BY <1>1, <1>2, <1>3, <1>5 DEF IInv, Types
<1> HIDE DEF l
<1>7. DaysInOrder'
  <2>1. \A d \in Days : d \in Int
    BY DayFacts, GraphSyncAssumption DEF Days
  <2> QED
    BY <1>1, <1>3, <1>5, <2>1 DEF IInv, Budget, DaysInOrder
<1>8. Booking'
  <2>1. state'.llm = l /\ l.runs \in Nat
    BY <1>1, <1>3, LlmAssumption DEF l, Ledger
  <2>2. l.day # Today => calls[Today] = lost'[Today]
    BY <1>3, <1>4, <1>5
  <2>3. l.day = Today => calls[l.day] = l.runs + lost'[l.day] + 0
    BY <1>3, <1>4, <1>5, <2>1
  <2>4. l.day = Today /\ lost'[l.day] = 0 => spent[l.day] <= l.usd
    BY <1>3, <1>4, <1>5, <2>1
  <2> QED
    BY <1>1, <1>3, <2>1, <2>2, <2>3, <2>4 DEF Booking, Pending
<1>9. Saving'
  <2>1. pc' # "call"
    BY <1>1
  <2> QED
    BY <1>1, <1>2, <1>3, <1>4, <2>1 DEF Saving, l
<1>10. Within'
  <2>1. MaxRuns \in Nat
    BY LlmAssumption
  <2>2. calls[Today] <= MaxRuns + lost'[Today]
    BY <1>3, <1>4, <1>5, <2>1
  <2>3. lost'[Today] = 0 /\ spent[Today] # 0 =>
          \E child \in Children : spent[Today] - child.output.cost < MaxUsd
    <3> SUFFICES ASSUME lost'[Today] = 0, spent[Today] # 0
                 PROVE  \E child \in Children : spent[Today] - child.output.cost < MaxUsd
      OBVIOUS
    <3>1. calls[Today] # 0
      BY <1>3 DEF IInv, Budget, DaysInOrder
    <3>2. l.day = Today /\ l.runs = calls[Today] /\ spent[Today] <= l.usd
      BY <1>3, <1>4, <1>5, <3>1
    <3>3. l.usd \in Nat /\ Afforded(l.usd) /\ spent[Today] \in Nat
      BY <1>3 DEF Ledger
    <3>4. PICK child \in Children : l.usd - child.output.cost < MaxUsd
      BY <3>2, <3>3 DEF Afforded
    <3>5. child.output.cost \in Nat /\ MaxUsd \in Nat
      BY GraphSyncAssumption, LlmAssumption
    <3>6. spent[Today] - child.output.cost < MaxUsd
      BY <3>2, <3>3, <3>4, <3>5
    <3> QED
      BY <3>6
  <2>4. ~abrupt => lost'[Today] = 0
    BY <1>3, <1>4, <1>5
  <2> QED
    BY <1>1, <1>5, <2>2, <2>3, <2>4 DEF IInv, Budget, Within
<1>11. Marked'
  BY <1>1, <1>2 DEF IInv, Marked, Sending, MarkedWasSent
<1>12. Output'
  BY <1>1 DEF IInv, Output
<1> QED
  BY <1>6, <1>7, <1>8, <1>9, <1>10, <1>11, <1>12 DEF IInv, Budget

-----------------------------------------------------------------------------
(* The look at the notes, and the end of a turn                            *)

LEMMA HandleSound ==
  ASSUME IInv, Handle
  PROVE  IInv'
<1> DEFINE meta == Head(todo)
           reads == ~Unchanged(meta) /\ Readable(meta.file)
           new == Record(meta)
           files == IF state' = state THEN state.files ELSE With(state.files, meta.file, new)
<1>1. /\ pc = "read" /\ pc' = "read"
      /\ UNCHANGED <<clock, stored, out, call, calls, spent, lost, sent, abrupt, stale, first>>
  BY DEF Handle, written, ghosts
<1>2. /\ Table(state.files) /\ IsNote(new)
      /\ meta.file \in DOMAIN state.files =>
           /\ new.llmHash = state.files[meta.file].llmHash
           /\ new.edges = state.files[meta.file].edges
      /\ meta.file \notin DOMAIN state.files => new.llmHash = NoHash
  BY RecordFacts DEF IInv, Types, IsState
<1>3. \/ state' = state /\ (touched => touched')
      \/ /\ state' = [state EXCEPT !.files = With(@, meta.file, new)]
         /\ touched => touched'
         /\ (meta.file \in DOMAIN state.files => new.hash # state.files[meta.file].hash) => touched'
  <2> HIDE DEF new
  <2>1. CASE meta.size > MaxFileBytes \/ (~Unchanged(meta) /\ ~reads)
    BY <2>1 DEF Handle
  <2>2. CASE ~(meta.size > MaxFileBytes \/ (~Unchanged(meta) /\ ~reads))
    BY <2>2 DEF Handle, new
  <2> QED
    BY <2>1, <2>2
<1> HIDE DEF new, meta
<1>4. state = [files |-> state.files, llm |-> state.llm]
  BY DEF IInv, Types, IsState
<1>5. CASE state' = state /\ (touched => touched')
  <2>1. Output'
    <3>1. Graph' = Graph
      BY <1>5, GraphSame
    <3> QED
      BY <1>1, <1>5, <3>1 DEF IInv, Output, Fits
  <2>2. state' = [state EXCEPT !.files = state.files]
    BY <1>4, <1>5
  <2> QED
    BY <1>1, <1>2, <2>1, <2>2, LookingSound
<1>6. CASE /\ state' = [state EXCEPT !.files = With(@, meta.file, new)]
           /\ touched => touched'
           /\ (meta.file \in DOMAIN state.files => new.hash # state.files[meta.file].hash) => touched'
  <2> DEFINE with == With(state.files, meta.file, new)
  <2>1. Table(with)
    BY <1>2, TableWith
  <2>2. \A f \in DOMAIN with :
          \/ with[f].llmHash = NoHash
          \/ f \in DOMAIN state.files /\ with[f].llmHash = state.files[f].llmHash
    BY <1>2 DEF With
  <2>3. state'.files = with
    BY <1>4, <1>6
  <2>4. Output'
    <3>1. CASE touched'
      BY <1>1, <3>1 DEF Output
    <3>2. CASE ~touched'
      <4>1. meta.file \in DOMAIN state.files /\ new.hash = state.files[meta.file].hash
        BY <1>6, <3>2
      <4>2. Graph' = Graph
        BY <1>2, <2>3, <4>1, GraphSame DEF With
      <4> QED
        BY <1>1, <1>6, <3>2, <4>2 DEF IInv, Output, Fits
    <3> QED
      BY <3>1, <3>2
  <2>5. state' = [state EXCEPT !.files = with]
    BY <1>6
  <2> HIDE DEF with
  <2> QED
    BY <1>1, <2>1, <2>2, <2>4, <2>5, LookingSound
<1> QED
  BY <1>3, <1>5, <1>6

LEMMA EndScanSound ==
  ASSUME IInv, EndScan
  PROVE  IInv'
<1> DEFINE kept == [f \in DOMAIN state.files \cap present |-> state.files[f]]
<1>1. /\ pc = "read" /\ pc' = "ask"
      /\ UNCHANGED <<clock, stored, out, call, calls, spent, lost, sent, abrupt, stale>>
      /\ state' = [state EXCEPT !.files = kept]
      /\ dirty' = (first \/ touched \/ ~(DOMAIN state.files \subseteq present))
  BY DEF EndScan, written, ghosts
<1>2. Table(state.files) /\ Table(kept) /\ state'.files = kept
  BY <1>1, TableWithout, SetFacts DEF IInv, Types, IsState
<1>3. Output'
  <2>1. CASE dirty'
    BY <1>1, <2>1 DEF Output
  <2>2. CASE ~dirty'
    <3>1. DOMAIN state.files \subseteq present /\ ~first /\ ~touched
      BY <1>1, <2>2
    <3>2. Graph' = Graph
      BY <1>2, <3>1, GraphSame
    <3> QED
      BY <1>1, <3>1, <3>2 DEF IInv, Output, Fits
  <2> QED
    BY <2>1, <2>2
<1>4. \A f \in DOMAIN kept : f \in DOMAIN state.files /\ kept[f].llmHash = state.files[f].llmHash
  OBVIOUS
<1> HIDE DEF kept
<1> QED
  BY <1>1, <1>2, <1>3, <1>4, LookingSound

LEMMA TurnedSound ==
  ASSUME IInv, Scan \/ WriteOutput \/ Wake
  PROVE  IInv'
<1>1. /\ UNCHANGED <<clock, stored, state, call, calls, spent, lost, sent, abrupt, first>>
      /\ pc \notin {"off", "call"} /\ pc' \notin {"off", "call"}
      /\ pc \in {"write", "save"} => pc' \in {"write", "save"}
  BY DEF Scan, WriteOutput, Wake, written, scanning, ghosts
<1>2. state' = [state EXCEPT !.files = state.files] /\ Table(state.files)
  BY <1>1 DEF IInv, Types, IsState
<1>3. Graph' = Graph
  BY <1>1, GraphSame
<1>4. Output'
  <2>1. CASE Scan
    BY <1>1, <1>3, <2>1 DEF Scan, IInv, Output, Fits, written, ghosts
  <2>2. CASE WriteOutput
    BY <1>1, <1>3, <2>2 DEF WriteOutput, Output, Fits
  <2>3. CASE Wake
    BY <1>1, <1>3, <2>3 DEF Wake, IInv, Output, Fits, written, ghosts
  <2> QED
    BY <2>1, <2>2, <2>3
<1> QED
  BY <1>1, <1>2, <1>4, LookingSound

-----------------------------------------------------------------------------
(* The question and the answer                                             *)

\* The ledger is rolled to today; nothing is asked.
LEMMA RolledSound ==
  ASSUME IInv, UNCHANGED <<clock, stored, call, calls, spent, lost, sent, abrupt>>,
         pc = "ask", pc' \notin {"off", "call"}, Output',
         state' = [state EXCEPT !.llm = RollDay(@, Today)]
  PROVE  IInv'
<1>1. /\ Today' = Today /\ Today \in Nat /\ Today \in Days /\ Loaded' = Loaded
      /\ IsState(state, Today)
  BY TodayFacts DEF IInv, Types, Today, Loaded
<1>2. /\ state' = [files |-> state.files, llm |-> RollDay(state.llm, Today)]
      /\ state'.files = state.files /\ state'.llm = RollDay(state.llm, Today)
  BY <1>1, SetFacts DEF IsState
<1>3. /\ Ledger(state'.llm, Today) /\ state'.llm.day = Today
      /\ state.llm.day = Today => state'.llm = state.llm
      /\ state.llm.day # Today => state'.llm.runs = 0 /\ state'.llm.usd = 0
  BY <1>1, <1>2, RollDayFacts DEF IsState
<1>4. Types'
  BY <1>1, <1>2, <1>3 DEF IInv, Types, IsState
<1>5. Booking'
  <2>1. CASE state.llm.day = Today
    BY <1>1, <1>3, <2>1 DEF IInv, Budget, Booking, Pending
  <2>2. CASE state.llm.day # Today
    <3>1. calls[Today] = lost[Today] /\ lost[Today] \in Nat
      BY <1>1, <2>2 DEF IInv, Types, Budget, Booking
    <3>2. lost[Today] = 0 => spent[Today] = 0
      BY <1>1, <3>1 DEF IInv, Budget, DaysInOrder
    <3> QED
      BY <1>1, <1>3, <2>2, <3>1, <3>2 DEF Booking, Pending
  <2> QED
    BY <2>1, <2>2
<1>6. Saving'
  BY <1>1 DEF IInv, Budget, Saving, Booked
<1>7. DaysInOrder' /\ Within'
  BY <1>1 DEF IInv, Budget, DaysInOrder, Within
<1>8. Marked'
  BY <1>1, <1>2, MarkedSame DEF IInv
<1> QED
  BY <1>4, <1>5, <1>6, <1>7, <1>8 DEF IInv, Budget

LEMMA AskNothingSound ==
  ASSUME IInv, AskNothing
  PROVE  IInv'
<1> DEFINE s == IF mode.llm THEN [state EXCEPT !.llm = RollDay(state.llm, Today)] ELSE state
<1>1. /\ UNCHANGED <<clock, stored, out, stale, calls, spent, lost, sent, abrupt>> /\ pc = "ask"
      /\ \/ dirty /\ pc' = "write" /\ state' = s /\ UNCHANGED call
         \/ ~dirty /\ ProcessEnds
         \/ ~dirty /\ pc' = "rest" /\ state' = s /\ UNCHANGED call
  BY DEF AskNothing, EndTurn, Today, written, ghosts
<1>2. CASE ~dirty /\ ProcessEnds
  BY <1>1, <1>2, EndsSound
<1>3. CASE /\ pc' = "write" \/ (~dirty /\ pc' = "rest")
           /\ state' = s /\ UNCHANGED call
  <2>1. s.files = state.files /\ state = [state EXCEPT !.files = state.files] /\ Table(state.files)
    BY SetFacts DEF IInv, Types, IsState
  <2>2. Graph' = Graph
    BY <1>3, <2>1, GraphSame
  <2>3. Output'
    BY <1>1, <1>3, <2>2 DEF IInv, Output, Fits
  <2>4. CASE mode.llm
    BY <1>1, <1>3, <2>3, <2>4, RolledSound
  <2>5. CASE ~mode.llm
    <3>1. /\ state' = state /\ UNCHANGED <<clock, calls, spent, lost, sent, abrupt, call>>
          /\ pc = "ask" /\ pc' \notin {"off", "call"}
      BY <1>1, <1>3, <2>5
    <3>2. Loaded' = Loaded
      BY <1>1 DEF Loaded
    <3>3. Types'
      BY <3>1, <3>2, TypesSame DEF IInv
    <3>4. Budget'
      <4> HIDE DEF s
      <4> QED
        BY <3>1, <3>2, BudgetSame DEF IInv
    <3>5. Marked'
      BY <3>1, <3>2, MarkedSame DEF IInv
    <3> QED
      BY <2>3, <3>3, <3>4, <3>5 DEF IInv
  <2> QED
    BY <2>4, <2>5
<1> QED
  BY <1>1, <1>2, <1>3

\* The question: of the day, within the budget, and of what is on the disk.
LEMMA AskSound ==
  ASSUME IInv, Ask
  PROVE  IInv'
<1> DEFINE llm == RollDay(state.llm, Today)
<1>1. /\ pc = "ask" /\ pc' = "call" /\ UNCHANGED <<clock, stored, spent, lost, sent, abrupt, dirty, out, stale>>
      /\ state' = [state EXCEPT !.llm = llm] /\ call'.now = clock /\ call'.batch = Batch
      /\ call'.read = {<<f, disk[f].hash>> : f \in ToSet(Batch)}
      /\ calls' = [calls EXCEPT ![Today] = @ + 1]
      /\ ~Blocked(llm, clock)
  BY DEF Ask, Today, written
<1>2. /\ Today' = Today /\ Today \in Nat /\ Today \in Days /\ clock \in Nat /\ Loaded' = Loaded
      /\ IsState(state, Today) /\ MaxRuns \in Nat /\ MaxUsd \in Nat
      /\ calls \in [Days -> Nat] /\ spent \in [Days -> Nat] /\ lost \in [Days -> Nat]
  BY <1>1, TodayFacts, LlmAssumption DEF IInv, Types, Today, Loaded
<1>3. /\ state' = [files |-> state.files, llm |-> llm]
      /\ state'.files = state.files /\ state'.llm = llm
  BY <1>1, <1>2, SetFacts DEF IsState
<1>4. /\ Ledger(llm, Today) /\ llm.day = Today /\ llm.runs \in Nat /\ llm.usd \in Nat
      /\ state.llm.day = Today => llm = state.llm
      /\ state.llm.day # Today => llm.runs = 0 /\ llm.usd = 0
  BY <1>2, RollDayFacts, LlmAssumption DEF IsState, Ledger
<1>5. llm.runs < MaxRuns /\ llm.usd < MaxUsd
  BY <1>1, <1>2, <1>4 DEF Blocked
<1>6. /\ calls' \in [Days -> Nat] /\ calls'[Today] = calls[Today] + 1
      /\ \A d \in Days : d # Today => calls'[d] = calls[d]
  BY <1>1, <1>2
<1>7. /\ calls[Today] = llm.runs + lost[Today]
      /\ lost[Today] = 0 => spent[Today] <= llm.usd
  <2>1. CASE state.llm.day = Today
    BY <1>1, <1>2, <1>4, <2>1 DEF IInv, Budget, Booking, Pending
  <2>2. CASE state.llm.day # Today
    <3>1. calls[Today] = lost[Today]
      BY <1>1, <1>2, <2>2 DEF IInv, Budget, Booking
    <3>2. lost[Today] = 0 => spent[Today] = 0
      BY <1>2, <3>1 DEF IInv, Budget, DaysInOrder
    <3> QED
      BY <1>2, <1>4, <2>2, <3>1, <3>2
  <2> QED
    BY <2>1, <2>2
<1> HIDE DEF llm
<1>8. Types'
  BY <1>1, <1>2, <1>3, <1>4, <1>6 DEF IInv, Types, IsState
<1>9. DaysInOrder'
  <2>1. \A d \in Days : d \in Int
    BY DayFacts, GraphSyncAssumption DEF Days
  <2> QED
    BY <1>1, <1>2, <1>6, <2>1 DEF IInv, Budget, DaysInOrder
<1>10. Booking'
  <2>1. calls'[Today] = llm.runs + lost[Today] + 1
    BY <1>2, <1>4, <1>6, <1>7
  <2> QED
    BY <1>1, <1>2, <1>3, <1>4, <1>5, <1>7, <2>1 DEF Booking, Pending, Today
<1>11. Saving'
  <2> DEFINE l == Loaded.llm
  <2>1. l.day = Today => l.runs <= calls[Today] /\ l.runs \in Nat
    BY <1>2, LlmAssumption DEF IInv, Types, IsState, Ledger, Budget, Saving
  <2>2. l.day = Today => l.runs < calls'[Today]
    BY <1>2, <1>6, <2>1
  <2> QED
    BY <1>1, <1>2, <1>6, <2>1, <2>2 DEF Saving
<1>12. Within'
  <2>1. calls'[Today] <= MaxRuns + lost[Today]
    BY <1>2, <1>4, <1>5, <1>6, <1>7
  <2> QED
    BY <1>1, <1>2, <1>6, <2>1 DEF IInv, Budget, Within
<1>13. Sending'
  <2> SUFFICES ASSUME NEW f \in DOMAIN state.files, Contains(Batch, f)
               PROVE  <<f, state.files[f].hash>> \in call'.read
    BY <1>1, <1>3 DEF Sending
  <2>1. Batch \in Seq(UpToDate)
    BY <1>2, BatchIsUpToDate DEF IsState
  <2>2. PICK i \in 1..Len(Batch) : Batch[i] = f
    BY DEF Contains
  <2>3. i \in DOMAIN Batch /\ f \in UpToDate
    BY <2>1, <2>2, ElementOfSeq
  <2>4. f \in ToSet(Batch) /\ disk[f].hash = state.files[f].hash
    BY <2>2, <2>3 DEF ToSet, UpToDate
  <2> QED
    BY <1>1, <2>4
<1>14. Marked'
  BY <1>1, <1>2, <1>3, <1>13 DEF IInv, Marked, MarkedWasSent
<1>15. Output'
  <2>1. Graph' = Graph
    BY <1>3, GraphSame
  <2> QED
    BY <1>1, <2>1 DEF IInv, Output, Fits
<1> QED
  BY <1>8, <1>9, <1>10, <1>11, <1>12, <1>14, <1>15 DEF IInv, Budget

LEMMA RecordedFacts ==
  ASSUME NEW l, l = [day |-> l.day, runs |-> l.runs, usd |-> l.usd, next |-> l.next],
         NEW now, NEW cost
  PROVE  /\ RecordSuccess(l, now, cost) =
              [day |-> l.day, runs |-> l.runs + 1, usd |-> l.usd + cost, next |-> now + MinInterval]
         /\ RecordFailure(l, now) =
              [day |-> l.day, runs |-> l.runs + 1, usd |-> l.usd, next |-> now + Backoff]
<1> DEFINE succeeded == RecordSuccess(l, now, cost)
           failed == RecordFailure(l, now)
<1>1. /\ succeeded = [l EXCEPT !.runs = @ + 1, !.usd = @ + cost, !.next = now + MinInterval]
      /\ failed = [l EXCEPT !.runs = @ + 1, !.next = now + Backoff]
  BY DEF RecordSuccess, RecordFailure
<1> HIDE DEF succeeded, failed
<1>2. succeeded =
        [day |-> l.day, runs |-> l.runs + 1, usd |-> l.usd + cost, next |-> now + MinInterval]
  BY <1>1
<1>3. failed = [day |-> l.day, runs |-> l.runs + 1, usd |-> l.usd, next |-> now + Backoff]
  BY <1>1
<1> QED
  BY <1>2, <1>3 DEF succeeded, failed

LEMMA AnsweredFacts ==
  ASSUME NEW r, IsNote(r), NEW hash, NEW edges
  PROVE  [r EXCEPT !.llmHash = hash, !.edges = edges] =
           [size |-> r.size, mtime |-> r.mtime, hash |-> r.hash, changed |-> r.changed,
            llmHash |-> hash, edges |-> edges]
<1> DEFINE q == [r EXCEPT !.llmHash = hash, !.edges = edges]
<1>1. q = [r EXCEPT !.llmHash = hash, !.edges = edges]
  OBVIOUS
<1> HIDE DEF q
<1>2. q = [size |-> r.size, mtime |-> r.mtime, hash |-> r.hash, changed |-> r.changed,
           llmHash |-> hash, edges |-> edges]
  BY <1>1 DEF IsNote
<1> QED
  BY <1>2 DEF q

LEMMA ReplyCost ==
  ASSUME NEW child \in Children, NEW reply \in Reply(child)
  PROVE  reply.cost \in Nat /\ reply.cost <= child.output.cost
<1>1. child.output.cost \in Nat
  BY GraphSyncAssumption
<1>2. PICK o \in RunCommand(child) : \E a \in ParseCliOutput(o) : \E raw \in ParseEdges(a.text) :
        reply = [raw |-> raw, cost |-> a.cost]
  BY DEF Reply
<1>3. o = child.output
  BY <1>2 DEF RunCommand
<1>4. \A a \in ParseCliOutput(o) : a.cost \in {0, o.cost}
  BY DEF ParseCliOutput
<1> QED
  BY <1>1, <1>2, <1>3, <1>4

\* The call is booked to the day of the question, which may be over, with what
\* it cost if there was an answer.
LEMMA BookedSound ==
  ASSUME IInv, pc = "call", pc' = "write",
         UNCHANGED <<clock, stored, calls, lost, abrupt, out, stale>>, dirty' = TRUE,
         NEW cost \in Nat, cost = 0 \/ \E child \in Children : cost <= child.output.cost,
         NEW files, Table(files), NEW next,
         state' = [files |-> files,
                   llm |-> [day |-> state.llm.day, runs |-> state.llm.runs + 1,
                            usd |-> state.llm.usd + cost, next |-> next]],
         spent' = [spent EXCEPT ![Day(call.now)] = @ + cost],
         MarkedWasSent'
  PROVE  IInv'
<1> DEFINE d == state.llm.day
           runs == state.llm.runs
           usd == state.llm.usd
<1>1. /\ Today' = Today /\ Today \in Nat /\ Today \in Days /\ Loaded' = Loaded
      /\ calls \in [Days -> Nat] /\ spent \in [Days -> Nat] /\ lost \in [Days -> Nat]
      /\ MaxRuns \in Nat /\ MaxUsd \in Nat
  BY TodayFacts, LlmAssumption DEF IInv, Types, Today, Loaded
<1>2. /\ d = Day(call.now) /\ d \in Days /\ runs < MaxRuns /\ usd < MaxUsd
      /\ runs \in Nat /\ usd \in Nat /\ d \in Int /\ d <= Today
      /\ calls[d] = runs + lost[d] + 1 /\ (lost[d] = 0 => spent[d] <= usd)
  BY <1>1 DEF IInv, Types, IsState, Ledger, Budget, Booking, Pending
<1>3. /\ spent' \in [Days -> Nat] /\ spent'[d] = spent[d] + cost
      /\ \A e \in Days : e # d => spent'[e] = spent[e]
  BY <1>1, <1>2
<1> DEFINE llm == [day |-> d, runs |-> runs + 1, usd |-> usd + cost, next |-> next]
<1>4. state'.files = files /\ state'.llm = llm /\ state' = [files |-> files, llm |-> llm]
  OBVIOUS
<1>5. Afforded(usd + cost)
  <2>1. CASE cost = 0
    BY <1>2, <2>1 DEF IInv, Types, IsState, Ledger
  <2>2. CASE cost # 0
    <3>1. \A child \in Children : child.output.cost \in Nat
      BY GraphSyncAssumption
    <3>2. PICK child \in Children : cost <= child.output.cost
      BY <2>2
    <3> HIDE DEF usd
    <3>3. usd + cost - child.output.cost < MaxUsd
      BY <1>1, <1>2, <3>1, <3>2
    <3> QED
      BY <1>2, <3>1, <3>3 DEF Afforded
  <2> QED
    BY <2>1, <2>2
<1>6. Types'
  <2>1. Ledger(llm, Today)
    BY <1>1, <1>2, <1>5 DEF Ledger
  <2>2. IsState(state', Today)
    BY <1>4, <2>1 DEF IsState
  <2> QED
    BY <1>1, <1>3, <2>2 DEF IInv, Types
<1>7. llm.day = d /\ llm.runs = runs + 1 /\ llm.usd = usd + cost
  OBVIOUS
<1> HIDE DEF d, runs, usd, llm
<1>8. DaysInOrder'
  <2>1. calls[d] # 0
    BY <1>1, <1>2
  <2> QED
    BY <1>1, <1>3, <2>1 DEF IInv, Budget, DaysInOrder
<1>9. Booking'
  <2>1. d # Today => calls[Today] = lost[Today]
    BY DEF IInv, Budget, Booking, d
  <2>2. calls[d] = runs + 1 + lost[d] + 0
    BY <1>1, <1>2
  <2>3. lost[d] = 0 => spent'[d] <= usd + cost
    BY <1>1, <1>2, <1>3
  <2> QED
    BY <1>1, <1>4, <1>7, <2>1, <2>2, <2>3 DEF Booking, Pending
<1>10. Saving'
  <2> DEFINE l == Loaded.llm
  <2>1. /\ l.day = Today =>
             /\ l.runs <= calls[Today] /\ l.runs \in Nat
             /\ (l.runs = calls[Today] => spent[Today] <= l.usd)
             /\ d = Today => l.runs < calls[Today]
    BY LlmAssumption DEF IInv, Types, IsState, Ledger, Budget, Saving, d
  <2> HIDE DEF l
  <2>2. l.day = Today /\ l.runs = calls[Today] => spent'[Today] <= l.usd
    BY <1>1, <1>3, <2>1
  <2>3. l' = l
    BY <1>1 DEF l
  <2> QED
    BY <1>1, <2>1, <2>2 DEF Saving, l
<1>11. Within'
  <2>1. ASSUME lost[d] = 0, spent'[d] # 0
        PROVE  \E child \in Children : spent'[d] - child.output.cost < MaxUsd
    <3>1. spent'[d] <= usd + cost /\ spent'[d] \in Nat /\ usd + cost # 0
      BY <1>1, <1>2, <1>3, <2>1
    <3>3. \A child \in Children : child.output.cost \in Nat
      BY GraphSyncAssumption
    <3>2. PICK child \in Children : usd + cost - child.output.cost < MaxUsd
      BY <1>2, <1>5, <3>1, <3>3 DEF Afforded
    <3>4. spent'[d] - child.output.cost < MaxUsd
      BY <1>1, <1>2, <3>1, <3>2, <3>3
    <3> QED
      BY <3>4
  <2> QED
    BY <1>3, <2>1 DEF IInv, Budget, Within
<1>12. Marked' /\ Output'
  BY DEF Marked, Sending, Output
<1> QED
  BY <1>6, <1>8, <1>9, <1>10, <1>11, <1>12 DEF IInv, Budget

LEMMA BookSound ==
  ASSUME IInv, NEW replies, NEW named, Book(replies, named),
         \A reply \in replies :
           reply.cost \in Nat /\ \E child \in Children : reply.cost <= child.output.cost
  PROVE  IInv'
<1>1. /\ pc = "call" /\ pc' = "write" /\ dirty' = TRUE
      /\ UNCHANGED <<clock, stored, calls, lost, abrupt, out, stale>>
  BY DEF Book, written
<1>2. /\ state = [files |-> state.files, llm |-> state.llm] /\ Table(state.files)
      /\ state.llm = [day |-> state.llm.day, runs |-> state.llm.runs, usd |-> state.llm.usd,
                      next |-> state.llm.next]
      /\ state.llm.usd \in Nat /\ spent \in [Days -> Nat] /\ Day(call.now) \in Days
      /\ Loaded' = Loaded
  BY <1>1 DEF IInv, Types, IsState, Ledger, Budget, Booking, Loaded
<1>3. CASE replies = {}
  <2>1. /\ state' = [state EXCEPT !.llm = RecordFailure(@, call.now)] /\ UNCHANGED <<spent, sent>>
    BY <1>3 DEF Book
  <2> DEFINE llm == state.llm
  <2>2. RecordFailure(llm, call.now) = [day |-> llm.day, runs |-> llm.runs + 1, usd |-> llm.usd,
                                        next |-> call.now + Backoff]
    BY <1>2, RecordedFacts
  <2>3. llm.usd + 0 = llm.usd
    BY <1>2
  <2>4. state' = [files |-> state.files,
                  llm |-> [day |-> state.llm.day, runs |-> state.llm.runs + 1,
                           usd |-> state.llm.usd + 0, next |-> call.now + Backoff]]
    BY <1>2, <2>1, <2>2, <2>3, SetFacts
  <2>5. spent' = [spent EXCEPT ![Day(call.now)] = @ + 0]
    BY <1>2, <2>1
  <2>6. state'.files = state.files
    BY <2>4
  <2>7. MarkedWasSent'
    BY <1>2, <2>1, <2>6 DEF IInv, Marked, MarkedWasSent
  <2> HIDE DEF llm
  <2> QED
    BY <1>1, <1>2, <2>4, <2>5, <2>7, BookedSound
<1>4. CASE replies # {}
  <2>1. PICK reply \in replies :
          LET found == Validate(reply.raw, call.known, call.batch)
          IN  /\ state' = [files |-> [f \in DOMAIN state.files |->
                              IF Contains(call.batch, f)
                              THEN [state.files[f] EXCEPT !.llmHash = state.files[f].hash,
                                                          !.edges = TargetsOf(f, found)]
                              ELSE state.files[f]],
                            llm |-> RecordSuccess(state.llm, call.now, reply.cost)]
              /\ spent' = [spent EXCEPT ![Day(call.now)] = @ + reply.cost]
              /\ sent' = sent \cup call.read
    BY <1>4 DEF Book
  <2> DEFINE New(f) == [size |-> state.files[f].size, mtime |-> state.files[f].mtime,
                        hash |-> state.files[f].hash, changed |-> state.files[f].changed,
                        llmHash |-> state.files[f].hash,
                        edges |-> TargetsOf(f, Validate(reply.raw, call.known, call.batch))]
             files == [f \in DOMAIN state.files |->
                         IF Contains(call.batch, f) THEN New(f) ELSE state.files[f]]
  <2>2. state' = [files |-> files, llm |-> RecordSuccess(state.llm, call.now, reply.cost)]
    <3>1. \A f \in DOMAIN state.files :
            [state.files[f] EXCEPT !.llmHash = state.files[f].hash,
                                   !.edges = TargetsOf(f, Validate(reply.raw, call.known, call.batch))]
            = New(f)
      BY <1>2, AnsweredFacts DEF Table
    <3> HIDE DEF New
    <3> QED
      BY <2>1, <3>1
  <2>3. RecordSuccess(state.llm, call.now, reply.cost) =
          [day |-> state.llm.day, runs |-> state.llm.runs + 1,
           usd |-> state.llm.usd + reply.cost, next |-> call.now + MinInterval]
    BY <1>2, RecordedFacts
  <2>4. Table(files)
    BY <1>2 DEF Table, IsNote
  <2>5. MarkedWasSent'
    <3>1. ASSUME NEW f \in DOMAIN files, files[f].llmHash # NoHash
          PROVE  <<f, files[f].llmHash>> \in sent'
      <4>1. CASE Contains(call.batch, f)
        BY <1>1, <2>1, <3>1, <4>1 DEF IInv, Marked, Sending
      <4>2. CASE ~Contains(call.batch, f)
        BY <2>1, <3>1, <4>2 DEF IInv, Marked, MarkedWasSent
      <4> QED
        BY <4>1, <4>2
    <3>2. state'.files = files
      BY <2>2
    <3> HIDE DEF files
    <3>3. \A f \in DOMAIN Loaded.files : Loaded.files[f].llmHash # NoHash =>
            <<f, Loaded.files[f].llmHash>> \in sent'
      BY <2>1 DEF IInv, Marked, MarkedWasSent
    <3> QED
      BY <1>2, <3>1, <3>2, <3>3 DEF MarkedWasSent
  <2>6. /\ state' = [files |-> files,
                     llm |-> [day |-> state.llm.day, runs |-> state.llm.runs + 1,
                              usd |-> state.llm.usd + reply.cost, next |-> call.now + MinInterval]]
        /\ spent' = [spent EXCEPT ![Day(call.now)] = @ + reply.cost]
        /\ reply.cost \in Nat /\ \E child \in Children : reply.cost <= child.output.cost
    <3> HIDE DEF files
    <3> QED
      BY <2>1, <2>2, <2>3
  <2> HIDE DEF files
  <2> QED
    BY <1>1, <2>4, <2>5, <2>6, BookedSound
<1> QED
  BY <1>3, <1>4

-----------------------------------------------------------------------------
(* The state is saved                                                      *)

LEMMA SaveSound ==
  ASSUME IInv, SaveState
  PROVE  IInv'
<1>1. /\ pc = "save" /\ UNCHANGED <<clock, out, stale, calls, spent, lost, sent>>
      /\ \/ stored' = state /\ UNCHANGED abrupt
         \/ UNCHANGED stored /\ abrupt' = TRUE
      /\ \/ pc' = "off" /\ state' = NewState /\ first' = TRUE
         \/ pc' = "rest" /\ state' = state
  BY DEF SaveState, EndTurn, ProcessEnds
<1>2. /\ Today' = Today /\ Today \in Nat /\ Today \in Days
      /\ IsState(state, Today) /\ IsState(NewState, Today) /\ IsState(Loaded, Today)
      /\ NewState.files = <<>>
  BY <1>1, TodayFacts, NewStateIsState DEF IInv, Types, Today, NewState
<1>3. \/ Loaded' = state /\ UNCHANGED abrupt
      \/ Loaded' = Loaded /\ abrupt' = TRUE
  <2>1. CASE stored' = state /\ UNCHANGED abrupt
    <3>1. state # Missing /\ state # Unusable
      <4>1. state = [files |-> state.files, llm |-> state.llm]
        BY <1>2 DEF IsState
      <4>2. DOMAIN [files |-> state.files, llm |-> state.llm] = {"files", "llm"}
        OBVIOUS
      <4>3. "files" \in DOMAIN state
        BY <4>1, <4>2
      <4>4. "files" \notin DOMAIN Missing /\ "files" \notin DOMAIN Unusable
        BY EmptySeq DEF Missing, Unusable
      <4> QED
        BY <4>3, <4>4
    <3> QED
      BY <2>1, <3>1 DEF Loaded
  <2>2. CASE UNCHANGED stored /\ abrupt' = TRUE
    BY <2>2 DEF Loaded
  <2> QED
    BY <1>1, <2>1, <2>2
<1>4. Types'
  <2>1. IsState(state', Today) /\ IsState(Loaded', Today)
    BY <1>1, <1>2, <1>3
  <2> QED
    BY <1>1, <1>2, <2>1 DEF IInv, Types
<1>5. DaysInOrder' /\ Within'
  <2>1. UNCHANGED <<calls, spent, lost>> /\ Today' = Today /\ (~abrupt' => ~abrupt)
    BY <1>1, <1>2
  <2>2. DaysInOrder'
    BY <2>1 DEF IInv, Budget, DaysInOrder
  <2>3. Within'
    BY <2>1 DEF IInv, Budget, Within
  <2> QED
    BY <2>2, <2>3
<1>6. Booking'
  BY <1>1, <1>2 DEF IInv, Budget, Booking, Pending
<1>7. Saving'
  <2>1. CASE Loaded' = state /\ UNCHANGED abrupt
    <3> DEFINE l == state.llm
    <3>1. /\ l.day = Today => calls[Today] = l.runs + lost[Today] + 0
          /\ l.day = Today /\ lost[Today] = 0 => spent[Today] <= l.usd
          /\ l.day # Today => calls[Today] = lost[Today]
      BY <1>1, <1>2 DEF IInv, Budget, Booking, Pending
    <3>2. ~abrupt => lost[Today] = 0
      BY <1>2 DEF IInv, Budget, Within
    <3>3. l.runs \in Nat /\ lost[Today] \in Nat /\ calls[Today] \in Nat
      BY <1>2, LlmAssumption DEF IsState, Ledger, IInv, Types
    <3> HIDE DEF l
    <3>4. /\ l.day = Today => l.runs <= calls[Today] /\ (l.runs = calls[Today] => spent[Today] <= l.usd)
          /\ ~abrupt => calls[Today] = Booked(l, Today)
      BY <3>1, <3>2, <3>3 DEF Booked
    <3>5. pc' # "call"
      BY <1>1
    <3> QED
      BY <1>1, <1>2, <2>1, <3>4, <3>5 DEF Saving, l
  <2>2. CASE Loaded' = Loaded /\ abrupt' = TRUE
    BY <1>1, <1>2, <2>2 DEF IInv, Budget, Saving
  <2> QED
    BY <1>3, <2>1, <2>2
<1>8. Marked'
  <2>1. \A f : f \notin DOMAIN NewState.files
    BY <1>2, EmptySeq
  <2>2. \A s \in {state', Loaded'} : s \in {state, Loaded, NewState}
    BY <1>1, <1>3
  <2>3. \A s \in {state, Loaded, NewState} : \A f \in DOMAIN s.files :
          s.files[f].llmHash # NoHash => <<f, s.files[f].llmHash>> \in sent
    BY <2>1 DEF IInv, Marked, MarkedWasSent
  <2>4. MarkedWasSent'
    BY <1>1, <2>2, <2>3 DEF MarkedWasSent
  <2> QED
    BY <1>1, <2>4 DEF Marked, Sending
<1>9. Output'
  <2>1. CASE pc' = "off" /\ first' = TRUE
    BY <2>1, OutputEnds
  <2>2. CASE pc' = "rest" /\ state' = state
    <3>1. Graph' = Graph
      BY <2>2, GraphSame
    <3> QED
      BY <1>1, <2>2, <3>1 DEF IInv, Output, Fits
  <2> QED
    BY <1>1, <2>1, <2>2
<1> QED
  BY <1>4, <1>5, <1>6, <1>7, <1>8, <1>9 DEF IInv, Budget

-----------------------------------------------------------------------------
(* Theorems                                                                *)

LEMMA StartsSound == Init => IInv
<1> SUFFICES ASSUME Init PROVE IInv
  OBVIOUS
<1> USE DEF Init
<1>1. /\ clock = 0 /\ clock \in Nat /\ clock \in 0..MaxTime /\ Today \in Nat /\ Today \in Days
  BY DayFacts, GraphSyncAssumption DEF Today
<1>2. Loaded = NewState /\ state = NewState /\ IsState(NewState, Today)
  BY <1>1, NewStateIsState DEF Loaded
<1>3. Types
  BY <1>1, <1>2 DEF Types
<1>4. DaysInOrder
  BY DEF DaysInOrder
<1>5. Booking
  BY DEF Booking
<1>6. Saving
  <2>1. NewState.llm.day = NoDay /\ NoDay # Today
    BY <1>1 DEF NewState, NewLedger, NoDay
  <2> QED
    BY <1>1, <1>2, <2>1 DEF Saving, Booked
<1>7. Within
  BY LlmAssumption DEF Within
<1>8. Marked
  <2>1. \A f : f \notin DOMAIN NewState.files
    BY EmptySeq DEF NewState
  <2> QED
    BY <1>2, <2>1 DEF Marked, Sending, MarkedWasSent
<1>9. Output
  BY DEF Output
<1> QED
  BY <1>3, <1>4, <1>5, <1>6, <1>7, <1>8, <1>9 DEF IInv, Budget

LEMMA StaysSound == IInv /\ [Next]_vars => IInv'
<1> SUFFICES ASSUME IInv, [Next]_vars PROVE IInv'
  OBVIOUS
<1>1. CASE Tick
  BY <1>1, TickSound
<1>2. CASE Terminate
  BY <1>2, TerminateSound
<1>3. CASE Kill
  <2>1. /\ ProcessEnds /\ abrupt' = TRUE
        /\ UNCHANGED <<clock, calls, spent, lost, sent, stored>>
    BY <1>3 DEF Kill, written
  <2> QED
    BY <2>1, EndsSound
<1>4. ASSUME NEW f \in Files, NEW c, Edit(f, c)
      PROVE  IInv'
  BY <1>4, UnchangedSound DEF Edit
<1>5. ASSUME NEW f \in Files, NEW access, Bar(f, access)
      PROVE  IInv'
  BY <1>5, UnchangedSound DEF Bar
<1>6. ASSUME NEW m \in Modes, Start(m)
      PROVE  IInv'
  BY <1>6, StartSound
<1>7. CASE Scan \/ WriteOutput \/ Wake
  BY <1>7, TurnedSound
<1>8. CASE Handle
  BY <1>8, HandleSound
<1>9. CASE EndScan
  BY <1>9, EndScanSound
<1>10. CASE AskNothing
  BY <1>10, AskNothingSound
<1>11. CASE Ask
  BY <1>11, AskSound
<1>12. ASSUME NEW child \in Children, Answer(child)
       PROVE  IInv'
  <2>1. \A reply \in Reply(child) : reply.cost \in Nat /\ reply.cost <= child.output.cost
    BY ReplyCost
  <2> QED
    BY <1>12, <2>1, BookSound DEF Answer
<1>13. CASE TimeOut
  BY <1>13, BookSound DEF TimeOut
<1>14. CASE SaveState
  BY <1>14, SaveSound
<1>15. CASE UNCHANGED vars
  BY <1>15, UnchangedSound DEF vars
<1> QED
  BY <1>1, <1>2, <1>3, <1>4, <1>5, <1>6, <1>7, <1>8, <1>9, <1>10, <1>11, <1>12, <1>13, <1>14,
     <1>15 DEF Next, Turn

LEMMA AlwaysSound == Spec => []IInv
BY StartsSound, StaysSound, PTL DEF Spec

\* What answers cost that cannot be used is only ever added to.
Counted == unread \in [Days -> Nat]

LEMMA UnreadCounted == Spec => []Counted
<1>1. Init => Counted
  BY DEF Init, Counted
<1>2. Counted /\ [Next]_vars => Counted'
  <2> SUFFICES ASSUME unread \in [Days -> Nat], [Next]_vars PROVE unread' \in [Days -> Nat]
    BY DEF Counted
  <2>1. ASSUME NEW child \in Children, Answer(child)
        PROVE  unread' \in [Days -> Nat]
    <3>1. Named(child) \in Nat
      BY GraphSyncAssumption DEF Named
    <3>2. \/ unread' = unread
          \/ unread' = [unread EXCEPT ![Day(call.now)] = @ + Named(child)]
      BY <2>1 DEF Answer, Book
    <3> QED
      BY <3>1, <3>2
  <2>2. CASE TimeOut
    <3>1. \/ unread' = unread
          \/ unread' = [unread EXCEPT ![Day(call.now)] = @ + 0]
      BY <2>2 DEF TimeOut, Book
    <3> QED
      BY <3>1
  <2>3. CASE UNCHANGED unread
    BY <2>3
  <2>4. ASSUME NEW f \in Files, NEW x, Edit(f, x) \/ Bar(f, x)
        PROVE  UNCHANGED unread
    BY <2>4 DEF Edit, Bar, ghosts
  <2>5. Tick \/ Terminate \/ Kill \/ UNCHANGED vars => UNCHANGED unread
    BY DEF Tick, Terminate, Kill, vars, ghosts
  <2>6. ASSUME NEW m \in Modes, Start(m)
        PROVE  UNCHANGED unread
    BY <2>6 DEF Start
  <2>7. Scan \/ Handle \/ EndScan => UNCHANGED unread
    BY DEF Scan, Handle, EndScan, ghosts
  <2>8. AskNothing \/ Ask => UNCHANGED unread
    BY DEF AskNothing, Ask, ghosts
  <2>9. WriteOutput \/ SaveState \/ Wake => UNCHANGED unread
    BY DEF WriteOutput, SaveState, Wake, ghosts
  <2> QED
    BY <2>1, <2>2, <2>3, <2>4, <2>5, <2>6, <2>7, <2>8, <2>9 DEF Next, Turn
<1> QED
  BY <1>1, <1>2, PTL DEF Spec

\* Whatever is edited, killed, started again or fails, a day sees no more calls
\* than allowed and costs less than the limit and one call, but for answers that
\* could not be used and calls whose booking was lost; and only a kill or a failed
\* save loses one.
THEOREM BudgetKept == Spec => []BudgetHeld
<1>1. IInv /\ Counted => BudgetHeld
  <2> SUFFICES ASSUME IInv, unread \in [Days -> Nat] PROVE BudgetHeld
    BY DEF Counted
  <2>1. Within /\ spent \in [Days -> Nat]
    BY DEF IInv, Budget, Types
  <2>2. ASSUME NEW d \in Days, lost[d] = 0, spent[d] # 0
        PROVE  \E child \in Children : Cost(d) - child.output.cost < MaxUsd + unread[d]
    <3>1. PICK child \in Children : spent[d] - child.output.cost < MaxUsd
      BY <2>1, <2>2 DEF Within
    <3>2. spent[d] \in Nat /\ unread[d] \in Nat /\ child.output.cost \in Nat /\ MaxUsd \in Nat
      BY <2>1, GraphSyncAssumption, LlmAssumption
    <3>3. Cost(d) - child.output.cost < MaxUsd + unread[d]
      BY <3>1, <3>2 DEF Cost
    <3> QED
      BY <3>3
  <2> QED
    BY <2>1, <2>2 DEF Within, BudgetHeld
<1> QED
  BY <1>1, AlwaysSound, UnreadCounted, PTL

\* No content counts as analysed that the KI was not sent, in memory or in the file.
THEOREM OnlySentIsMarked == Spec => []MarkedWasSent
<1>1. IInv => MarkedWasSent
  BY DEF IInv, Marked
<1> QED
  BY <1>1, AlwaysSound, PTL

\* At rest the graph on the disk is that of the state, unless the last attempt
\* to write it failed: the dirty flag misses no change.
THEOREM GraphIsWritten == Spec => []OutputMatches
<1>1. IInv => OutputMatches
  BY DEF IInv, Output, Fits, OutputMatches
<1> QED
  BY <1>1, AlwaysSound, PTL

-----------------------------------------------------------------------------
(* Steps one after the other                                               *)

\* What holds of 0, and of n when it holds of n - 1, holds as far as it goes.
LEMMA UpToTheEnd ==
  ASSUME NEW N \in Nat, NEW P, 0 \in P, \A n \in 1..N : n - 1 \in P => n \in P
  PROVE  0..N \subseteq P
<1> DEFINE Missed == (0..N) \ P
<1> SUFFICES ASSUME Missed # {} PROVE FALSE
  OBVIOUS
<1>1. PICK n \in Missed : \A y \in Missed : n <= y
  <2>1. Missed \in SUBSET Nat
    OBVIOUS
  <2> HIDE DEF Missed
  <2> QED
    BY <2>1, LeastExists
<1>2. n \in 1..N /\ n \notin P
  BY <1>1
<1>3. n - 1 \in 0..N /\ ~(n <= n - 1)
  BY <1>2
<1>4. n - 1 \in P
  BY <1>1, <1>3
<1> QED
  BY <1>2, <1>4

\* A step taken one time after the other.
Takes(f, c, step, N) == f[0] = c /\ \A n \in 1..N : f[n] = step[<<f[n - 1], n>>]

LEMMA StepsAreTaken ==
  ASSUME NEW N \in Nat, NEW T, NEW c \in T, NEW step \in [T \X (1..N) -> T]
  PROVE  \E f \in [0..N -> T] : Takes(f, c, step, N)
<1> DEFINE P == {n \in 0..N : \E f \in [0..n -> T] : Takes(f, c, step, n)}
<1>1. 0 \in P
  <2> DEFINE f == [i \in 0..0 |-> c]
  <2>1. f \in [0..0 -> T] /\ Takes(f, c, step, 0)
    BY DEF Takes
  <2> QED
    BY <2>1
<1>2. ASSUME NEW n \in 1..N, n - 1 \in P
      PROVE  n \in P
  <2>1. PICK f \in [0..(n - 1) -> T] : Takes(f, c, step, n - 1)
    BY <1>2
  <2> DEFINE last == step[<<f[n - 1], n>>]
             g == [i \in 0..n |-> IF i = n THEN last ELSE f[i]]
  <2>2. last \in T
    <3>1. f[n - 1] \in T
      BY <2>1
    <3> QED
      BY <3>1
  <2>3. g \in [0..n -> T]
    BY <2>1, <2>2
  <2>4. Takes(g, c, step, n)
    <3>1. g[0] = c
      BY <2>1 DEF Takes
    <3>2. ASSUME NEW i \in 1..n
          PROVE  g[i] = step[<<g[i - 1], i>>]
      <4>1. g[i - 1] = f[i - 1]
        OBVIOUS
      <4>2. CASE i = n
        BY <4>1, <4>2, SMTT(30)
      <4>3. CASE i # n
        <5>1. i \in 1..(n - 1) /\ g[i] = f[i]
          BY <4>3
        <5> QED
          BY <2>1, <4>1, <5>1 DEF Takes
      <4> QED
        BY <4>2, <4>3
    <3> QED
      BY <3>1, <3>2 DEF Takes
  <2> QED
    BY <2>3, <2>4
<1>3. 0..N \subseteq P
  <2> HIDE DEF P
  <2> QED
    BY <1>1, <1>2, UpToTheEnd
<1> QED
  BY <1>3

-----------------------------------------------------------------------------
(* The edges of the graph                                                  *)

EdgesFrom(X, origins) == Seq([a : X, b : X, origin : origins])

\* More edges than before, none where there is no room.
Grown(old, new) ==
  /\ Len(old) <= Len(new) /\ \A i \in 1..Len(old) : new[i] = old[i]
  /\ Len(old) >= MaxEdges => new = old

\* The two are joined, or there was no room.
Settled(edges, a, b) ==
  (\E i \in 1..Len(edges) : Joins(edges[i], a, b)) \/ Len(edges) >= MaxEdges

\* What edges may have become when each of these pairs has had its turn.
After(U, edges, pairs) ==
  {s \in U : Grown(edges, s) /\ \A p \in pairs : p[1] # p[2] => Settled(s, p[1], p[2])}

LEMMA AfterNothing ==
  ASSUME NEW U, NEW edges \in U, Len(edges) \in Nat
  PROVE  edges \in After(U, edges, {})
BY DEF After, Grown

LEMMA AfterFewer ==
  ASSUME NEW U, NEW edges, NEW P, NEW Q \in SUBSET P, NEW s \in After(U, edges, P)
  PROVE  s \in After(U, edges, Q)
BY DEF After

LEMMA SettledStays ==
  ASSUME NEW X, NEW O, NEW s \in EdgesFrom(X, O), NEW t \in EdgesFrom(X, O), Grown(s, t),
         NEW a, NEW b, Settled(s, a, b)
  PROVE  Settled(t, a, b)
<1>1. Len(s) \in Nat /\ Len(t) \in Nat /\ MaxEdges \in Nat
  BY NotesAssumption DEF EdgesFrom
<1> QED
  BY <1>1 DEF Settled, Grown

LEMMA AfterMore ==
  ASSUME NEW X, NEW O, NEW edges \in EdgesFrom(X, O), NEW P, NEW Q,
         NEW s \in After(EdgesFrom(X, O), edges, P), NEW t \in After(EdgesFrom(X, O), s, Q)
  PROVE  t \in After(EdgesFrom(X, O), edges, P \cup Q)
<1>1. /\ Len(edges) \in Nat /\ Len(s) \in Nat /\ Len(t) \in Nat /\ MaxEdges \in Nat
      /\ s \in EdgesFrom(X, O) /\ t \in EdgesFrom(X, O)
  BY NotesAssumption DEF EdgesFrom, After
<1>2. Grown(edges, t)
  BY <1>1 DEF After, Grown
<1>3. Grown(s, t)
  BY DEF After
<1>4. ASSUME NEW p \in P \cup Q, p[1] # p[2]
      PROVE  Settled(t, p[1], p[2])
  <2>1. CASE p \in P
    <3>1. Settled(s, p[1], p[2])
      BY <1>4, <2>1 DEF After
    <3> QED
      BY <1>1, <1>3, <3>1, SettledStays
  <2>2. CASE p \in Q
    BY <1>4, <2>2 DEF After
  <2> QED
    BY <2>1, <2>2
<1> QED
  BY <1>1, <1>2, <1>4 DEF After

LEMMA PushSettles ==
  ASSUME NEW X, NEW O, NEW s \in EdgesFrom(X, O), NEW a \in X, NEW b \in X, NEW o \in O
  PROVE  Push(s, Edge(a, b, o)) \in After(EdgesFrom(X, O), s, {<<a, b>>})
<1> DEFINE e == Edge(a, b, o)
           t == Push(s, e)
<1>1. Len(s) \in Nat /\ MaxEdges \in Nat /\ e \in [a : X, b : X, origin : O]
      /\ e.a = a /\ e.b = b /\ DOMAIN s = 1..Len(s)
  BY NotesAssumption DEF EdgesFrom, Edge
<1> HIDE DEF e
<1>2. CASE t = s
  <2>1. a # b => Settled(s, a, b)
    <3>1. CASE \/ a = b \/ Len(s) >= MaxEdges \/ \E i \in 1..Len(s) : Joins(s[i], a, b)
      BY <3>1 DEF Settled
    <3>2. CASE ~(\/ a = b \/ Len(s) >= MaxEdges \/ \E i \in 1..Len(s) : Joins(s[i], a, b))
      <4>1. t = Append(s, e)
        BY <1>1, <3>2 DEF Push
      <4>2. Len(t) = Len(s) + 1
        BY <1>1, <4>1 DEF EdgesFrom
      <4> QED
        BY <1>1, <1>2, <4>2
    <3> QED
      BY <3>1, <3>2
  <2>2. Grown(s, s)
    BY <1>1 DEF Grown
  <2> HIDE DEF t
  <2> QED
    BY <1>2, <2>1, <2>2 DEF After, t, e
<1>3. CASE t # s
  <2>1. t = Append(s, e) /\ ~(Len(s) >= MaxEdges)
    BY <1>3 DEF Push
  <2>2. t \in EdgesFrom(X, O) /\ Len(t) = Len(s) + 1 /\ t[Len(s) + 1] = e
        /\ \A i \in 1..Len(s) : t[i] = s[i]
    BY <1>1, <2>1 DEF EdgesFrom
  <2> HIDE DEF t
  <2>3. Grown(s, t)
    <3>1. Len(s) <= Len(t)
      BY <1>1, <2>2
    <3> QED
      BY <2>1, <2>2, <3>1 DEF Grown
  <2>4. Settled(t, a, b)
    <3>1. Joins(t[Len(s) + 1], a, b) /\ Len(s) + 1 \in 1..Len(t)
      BY <1>1, <2>2 DEF Joins
    <3> QED
      BY <3>1 DEF Settled
  <2> QED
    BY <2>2, <2>3, <2>4 DEF After, t, e
<1> QED
  BY <1>2, <1>3

AllOf(Q, N) == UNION {Q[n] : n \in 1..N}

\* After a row of steps the pairs of all of them have had their turn.
LEMMA AfterAll ==
  ASSUME NEW X, NEW O, NEW edges \in EdgesFrom(X, O), NEW N \in Nat, NEW Q, NEW h, h[0] = edges,
         \A n \in 1..N : h[n - 1] \in EdgesFrom(X, O)
                           => h[n] \in After(EdgesFrom(X, O), h[n - 1], Q[n])
  PROVE  h[N] \in After(EdgesFrom(X, O), edges, AllOf(Q, N))
<1> DEFINE U == EdgesFrom(X, O)
           So(n) == UNION {Q[i] : i \in 1..n}
           P == {n \in 0..N : h[n] \in After(U, edges, So(n))}
<1>1. 0 \in P
  <2>1. So(0) = {}
    OBVIOUS
  <2>2. Len(edges) \in Nat
    BY DEF EdgesFrom
  <2>3. edges \in After(U, edges, So(0))
    BY <2>1, <2>2, AfterNothing
  <2> HIDE DEF So, U
  <2> QED
    BY <2>3
<1>2. ASSUME NEW n \in 1..N, n - 1 \in P
      PROVE  n \in P
  <2>1. h[n - 1] \in After(U, edges, So(n - 1))
    BY <1>2
  <2>2. h[n - 1] \in U
    BY <2>1 DEF After
  <2>3. h[n] \in After(U, h[n - 1], Q[n])
    BY <2>2
  <2>4. h[n] \in After(U, edges, So(n - 1) \cup Q[n])
    <3> HIDE DEF So
    <3> QED
      BY <2>1, <2>3, AfterMore
  <2>5. So(n) \subseteq So(n - 1) \cup Q[n]
    <3>1. \A i \in 1..n : i = n \/ i \in 1..(n - 1)
      OBVIOUS
    <3> QED
      BY <3>1
  <2>6. h[n] \in After(U, edges, So(n))
    <3> HIDE DEF So, U
    <3> QED
      BY <2>4, <2>5, AfterFewer
  <2> HIDE DEF So, U
  <2> QED
    BY <2>6
<1>3. N \in P
  <2>1. 0..N \subseteq P
    <3> HIDE DEF P
    <3> QED
      BY <1>1, <1>2, UpToTheEnd
  <2> QED
    BY <2>1
<1> QED
  BY <1>3 DEF AllOf

-----------------------------------------------------------------------------
(* What a link means                                                       *)

LEMMA FileFacts ==
  /\ Files = 1..Len(Names) /\ Len(Names) \in Nat /\ IsFiniteSet(Files)
  /\ \A f \in Files : Names[f] \in Paths
<1>1. Names \in Seq(Paths)
  BY NotesAssumption
<1>2. Files = 1..Len(Names) /\ Len(Names) \in Nat /\ \A f \in Files : Names[f] \in Paths
  BY <1>1 DEF Files
<1>3. IsFiniteSet(1..Len(Names))
  BY <1>2, FS_Interval
<1> QED
  BY <1>2, <1>3

LEMMA LastOfSame ==
  ASSUME NEW S, NEW s \in Seq(S), NEW t \in Seq(S), NEW a \in S, NEW b \in S,
         Append(s, a) = Append(t, b)
  PROVE  s = t /\ a = b
<1> DEFINE u == Append(s, a)
           v == Append(t, b)
<1>1. /\ u \in Seq(S) /\ Len(u) = Len(s) + 1 /\ u[Len(s) + 1] = a
      /\ \A i \in 1..Len(s) : u[i] = s[i]
  BY AppendProperties
<1>2. /\ v \in Seq(S) /\ Len(v) = Len(t) + 1 /\ v[Len(t) + 1] = b
      /\ \A i \in 1..Len(t) : v[i] = t[i]
  BY AppendProperties
<1>3. u = v
  OBVIOUS
<1> HIDE DEF u, v
<1>4. Len(s) = Len(t) /\ Len(s) \in Nat
  BY <1>1, <1>2, <1>3
<1>5. \A i \in 1..Len(s) : s[i] = t[i]
  BY <1>1, <1>2, <1>3, <1>4
<1>6. s = t
  BY <1>4, <1>5, SeqEqual
<1> QED
  BY <1>1, <1>2, <1>3, <1>4, <1>6

\* Two files of one path are one.
LEMMA PathIsOne ==
  ASSUME NEW f \in Files, NEW g \in Files,
         Append(Names[f].dir, Names[f].stem) = Append(Names[g].dir, Names[g].stem),
         Names[f].ext = Names[g].ext
  PROVE  f = g
<1>1. Names[f] \in Paths /\ Names[g] \in Paths
  BY FileFacts
<1>2. /\ Names[f].dir \in Seq(STRING) /\ Names[g].dir \in Seq(STRING)
      /\ Names[f].stem \in STRING /\ Names[g].stem \in STRING
  BY <1>1 DEF Paths
<1>3. Names[f].dir = Names[g].dir /\ Names[f].stem = Names[g].stem
  <2> DEFINE d == Names[f].dir
             e == Names[g].dir
             a == Names[f].stem
             b == Names[g].stem
  <2>1. d \in Seq(STRING) /\ e \in Seq(STRING) /\ a \in STRING /\ b \in STRING
        /\ Append(d, a) = Append(e, b)
    BY <1>2
  <2> HIDE DEF d, e, a, b
  <2>2. d = e /\ a = b
    BY <2>1, LastOfSame
  <2> QED
    BY <2>2 DEF d, e, a, b
<1>4. [Names[f] EXCEPT !.len = 0] = [Names[g] EXCEPT !.len = 0]
  BY <1>1, <1>3 DEF Paths
<1> QED
  BY <1>4, NotesAssumption

\* A link means one of the files, or none.
LEMMA ResolveIsOne ==
  ASSUME NEW files, DOMAIN files \subseteq Files, NEW from, NEW link
  PROVE  /\ Resolve(from, link, files) \subseteq DOMAIN files
         /\ \A f, g \in Resolve(from, link, files) : f = g
<1>0. Files \subseteq Nat
  BY FileFacts
<1>1. CASE link.kind = "wiki"
  <2> DEFINE fits == {f \in DOMAIN files : /\ Names[f].stem = Last(link.path)
                                           /\ IsSuffix(link.path, Append(Names[f].dir, Names[f].stem))}
             near == {f \in fits : Names[f].dir = Names[from].dir}
             Before(f, g) == \/ Names[f].len < Names[g].len
                             \/ Names[f].len = Names[g].len /\ f <= g
             found == IF near # {} THEN {CHOOSE f \in near : \A g \in near : f <= g}
                      ELSE {f \in fits : \A g \in fits : Before(f, g)}
  <2>1. Resolve(from, link, files) = found
    BY <1>1 DEF Resolve, ResolveWiki
  <2>2. near \subseteq fits /\ fits \subseteq DOMAIN files
    OBVIOUS
  <2>3. CASE near # {}
    <3>1. \E f \in near : \A g \in near : f <= g
      <4>1. near \in SUBSET Nat
        BY <1>0, <2>2
      <4> HIDE DEF near
      <4> QED
        BY <2>3, <4>1, LeastExists
    <3>2. (CHOOSE f \in near : \A g \in near : f <= g) \in near
      <4> HIDE DEF near
      <4> QED
        BY <3>1
    <3> HIDE DEF near, fits
    <3> QED
      BY <2>1, <2>2, <2>3, <3>2
  <2>4. CASE near = {}
    <3>1. \A f \in fits : f \in Nat /\ Names[f].len \in Nat
      BY <1>0, <2>2, FileFacts DEF Paths
    <3> HIDE DEF near, fits
    <3>2. found \subseteq fits /\ \A f, g \in found : Before(f, g)
      BY <2>4
    <3>3. \A f, g \in found : f = g
      <4> TAKE f, g \in found
      <4>1. f \in fits /\ g \in fits /\ Before(f, g) /\ Before(g, f)
        BY <3>2
      <4> QED
        BY <3>1, <4>1
    <3> QED
      BY <2>1, <2>2, <3>2, <3>3
  <2> QED
    BY <2>3, <2>4
<1>2. CASE link.kind # "wiki"
  <2> DEFINE path == Normalize(IF link.absolute THEN link.path ELSE Names[from].dir \o link.path)
             Is(f, ending) == Append(Names[f].dir, Names[f].stem) = path /\ Names[f].ext = ending
             exact == {f \in DOMAIN files : Is(f, link.ext)}
             tried == {k \in DOMAIN Extensions : \E f \in DOMAIN files : Is(f, Extensions[k])}
             ending == IF exact # {} \/ link.ext # "" \/ tried = {} THEN link.ext
                       ELSE Extensions[CHOOSE k \in tried : \A j \in tried : k <= j]
  <2>1. Resolve(from, link, files) = {f \in DOMAIN files : Is(f, ending)}
    <3>1. ResolvePath(from, link, files) =
            IF exact # {} \/ link.ext # "" \/ tried = {} THEN exact
            ELSE {f \in DOMAIN files : Is(f, Extensions[CHOOSE k \in tried : \A j \in tried : k <= j])}
      BY DEF ResolvePath
    <3> HIDE DEF tried, path
    <3> QED
      BY <1>2, <3>1 DEF Resolve
  <2> HIDE DEF ending, path
  <2>2. ASSUME NEW f \in Files, NEW g \in Files, Is(f, ending), Is(g, ending)
        PROVE  f = g
    BY <2>2, PathIsOne
  <2> QED
    BY <2>1, <2>2
<1> QED
  BY <1>1, <1>2

LEMMA ResolveSame ==
  ASSUME NEW files, NEW view, DOMAIN view = DOMAIN files, NEW from, NEW link
  PROVE  Resolve(from, link, view) = Resolve(from, link, files)
BY DEF Resolve, ResolveWiki, ResolvePath

LEMMA PushLinkSettles ==
  ASSUME NEW files, DOMAIN files \subseteq Files, NEW X, DOMAIN files \subseteq X,
         NEW O, "links" \in O, NEW s \in EdgesFrom(X, O), NEW a \in DOMAIN files, NEW link
  PROVE  PushLink(s, a, link, files) \in After(EdgesFrom(X, O), s, {a} \X Resolve(a, link, files))
<1> DEFINE to == Resolve(a, link, files)
           b == CHOOSE c \in to : TRUE
<1>1. to \subseteq DOMAIN files /\ \A c, d \in to : c = d
  BY ResolveIsOne
<1>2. PushLink(s, a, link, files) = IF to = {} THEN s ELSE Push(s, Edge(a, b, "links"))
  BY DEF PushLink
<1> HIDE DEF to
<1>3. CASE to = {}
  <2>1. Len(s) \in Nat
    BY DEF EdgesFrom
  <2>2. s \in After(EdgesFrom(X, O), s, {})
    BY <2>1, AfterNothing
  <2>3. {a} \X to = {}
    BY <1>3
  <2> QED
    BY <1>2, <1>3, <2>2, <2>3 DEF to
<1>4. CASE to # {}
  <2>1. b \in to
    BY <1>4
  <2>2. {a} \X to = {<<a, b>>}
    BY <1>1, <2>1
  <2>3. Push(s, Edge(a, b, "links")) \in After(EdgesFrom(X, O), s, {<<a, b>>})
    <3>1. a \in X /\ b \in X
      BY <1>1, <2>1
    <3> HIDE DEF b
    <3> QED
      BY <3>1, PushSettles
  <2> QED
    BY <1>2, <1>4, <2>2, <2>3 DEF to
<1> QED
  BY <1>3, <1>4

LEMMA PushTargetSettles ==
  ASSUME NEW files, NEW X, DOMAIN files \subseteq X,
         NEW O, "llm" \in O, NEW s \in EdgesFrom(X, O), NEW a \in DOMAIN files, NEW b
  PROVE  PushTarget(s, a, b, files) \in After(EdgesFrom(X, O), s, {a} \X ({b} \cap DOMAIN files))
<1>1. CASE b \notin DOMAIN files
  <2>1. Len(s) \in Nat
    BY DEF EdgesFrom
  <2>2. s \in After(EdgesFrom(X, O), s, {})
    BY <2>1, AfterNothing
  <2>3. {a} \X ({b} \cap DOMAIN files) = {}
    BY <1>1
  <2> QED
    BY <1>1, <2>2, <2>3 DEF PushTarget
<1>2. CASE b \in DOMAIN files
  <2>1. {a} \X ({b} \cap DOMAIN files) = {<<a, b>>}
    BY <1>2
  <2>2. Push(s, Edge(a, b, "llm")) \in After(EdgesFrom(X, O), s, {<<a, b>>})
    BY <1>2, PushSettles
  <2> QED
    BY <1>2, <2>1, <2>2 DEF PushTarget
<1> QED
  BY <1>1, <1>2

LEMMA PushTermSettles ==
  ASSUME NEW X, NEW O, "terms" \in O, NEW s \in EdgesFrom(X, O), NEW pair,
         pair.a \in X, pair.b \in X
  PROVE  PushTerm(s, pair) \in After(EdgesFrom(X, O), s, {})
<1>1. s \in After(EdgesFrom(X, O), s, {})
  <2>1. Len(s) \in Nat
    BY DEF EdgesFrom
  <2> QED
    BY <2>1, AfterNothing
<1>2. Push(s, Edge(pair.a, pair.b, "terms")) \in After(EdgesFrom(X, O), s, {})
  <2> DEFINE pairs == {<<pair.a, pair.b>>}
  <2>1. Push(s, Edge(pair.a, pair.b, "terms")) \in After(EdgesFrom(X, O), s, pairs)
    BY PushSettles
  <2> HIDE DEF pairs
  <2> QED
    BY <2>1, AfterFewer
<1> QED
  BY <1>1, <1>2 DEF PushTerm
-----------------------------------------------------------------------------
(* The loops                                                               *)

\* Where the links of a file lead.
Linked(files, a) ==
  LET links == Extracted[files[a].hash].links
      to == [n \in 1..Len(links) |-> Resolve(a, links[n], files)]
  IN  AllOf(to, Len(links))

LEMMA LinksOfFileSettle ==
  ASSUME NEW files, DOMAIN files \subseteq Files, NEW X, DOMAIN files \subseteq X,
         NEW O, "links" \in O, NEW edges \in EdgesFrom(X, O), NEW a \in DOMAIN files,
         Len(Extracted[files[a].hash].links) \in Nat
  PROVE  LinksOfFile(edges, a, files) \in After(EdgesFrom(X, O), edges, {a} \X Linked(files, a))
<1> DEFINE U == EdgesFrom(X, O)
           links == Extracted[files[a].hash].links
           N == Len(links)
           Q == [n \in 1..N |-> {a} \X Resolve(a, links[n], files)]
           step == [p \in U \X (1..N) |-> PushLink(p[1], a, links[p[2]], files)]
           Def(h) == [n \in 0..N |-> IF n = 0 THEN edges
                                     ELSE PushLink(h[n - 1], a, links[n], files)]
           after == CHOOSE h : h = Def(h)
<1>1. N \in Nat
  OBVIOUS
<1>2. ASSUME NEW s \in U, NEW n \in 1..N
      PROVE  PushLink(s, a, links[n], files) \in After(U, s, Q[n])
  <2> DEFINE link == links[n]
  <2> HIDE DEF link, links
  <2>1. PushLink(s, a, link, files) \in After(U, s, {a} \X Resolve(a, link, files))
    BY PushLinkSettles
  <2> QED
    BY <2>1 DEF link
<1>3. \A s \in U, n \in 1..N : PushLink(s, a, links[n], files) \in U
  <2> HIDE DEF U, Q, N
  <2> QED
    BY <1>2 DEF After
<1>4. step \in [U \X (1..N) -> U]
  <2> HIDE DEF U, N
  <2> QED
    BY <1>3
<1>5. PICK f \in [0..N -> U] : Takes(f, edges, step, N)
  <2> HIDE DEF N, U, step
  <2> QED
    BY <1>1, <1>4, StepsAreTaken DEF U
<1>6. f = Def(f)
  <2> HIDE DEF N, U
  <2>1. ASSUME NEW n \in 1..N
        PROVE  f[n] = PushLink(f[n - 1], a, links[n], files)
    <3> DEFINE s == f[n - 1]
    <3>1. s \in U
      BY <1>1, <1>5
    <3>2. f[n] = step[<<s, n>>]
      BY <1>5 DEF Takes
    <3> HIDE DEF s
    <3>3. step[<<s, n>>] = PushLink(s, a, links[n], files)
      BY <3>1
    <3> QED
      BY <3>2, <3>3 DEF s
  <2>2. f[0] = edges
    BY <1>5 DEF Takes
  <2> QED
    BY <1>1, <2>1, <2>2
<1>7. after = Def(after)
  <2> HIDE DEF Def
  <2> QED
    BY <1>6
<1> HIDE DEF after
<1>8. LinksOfFile(edges, a, files) = after[N]
  BY DEF LinksOfFile, after
<1>9. after[0] = edges
  <2> HIDE DEF N
  <2> QED
    BY <1>1, <1>7
<1>10. \A n \in 1..N : after[n - 1] \in U => after[n] \in After(U, after[n - 1], Q[n])
  <2> TAKE n \in 1..N
  <2> HAVE after[n - 1] \in U
  <2>1. after[n] = Def(after)[n] /\ n \in 0..N /\ n # 0
    <3> HIDE DEF N, Def
    <3> QED
      BY <1>1, <1>7
  <2> DEFINE s == after[n - 1]
  <2>2. after[n] = PushLink(s, a, links[n], files)
    BY <2>1
  <2> HIDE DEF U, Q, N, s
  <2>3. s \in U
    BY DEF s
  <2> QED
    BY <1>2, <2>2, <2>3 DEF s
<1>11. after[N] \in After(U, edges, AllOf(Q, N))
  <2> HIDE DEF Q, N
  <2> QED
    BY <1>1, <1>9, <1>10, AfterAll
<1>12. {a} \X Linked(files, a) \subseteq AllOf(Q, N)
  <2> DEFINE to == [n \in 1..N |-> Resolve(a, links[n], files)]
  <2>1. Linked(files, a) = AllOf(to, N)
    BY DEF Linked
  <2>2. ASSUME NEW p \in {a} \X AllOf(to, N)
        PROVE  p \in AllOf(Q, N)
    <3>1. PICK n \in 1..N : p \in {a} \X to[n]
      BY DEF AllOf
    <3>2. Q[n] = {a} \X to[n]
      OBVIOUS
    <3> HIDE DEF Q, N, to
    <3> QED
      BY <3>1, <3>2 DEF AllOf
  <2> HIDE DEF Q, N, to
  <2> QED
    BY <2>1, <2>2
<1> QED
  <2> HIDE DEF Q, N, U
  <2> QED
    BY <1>8, <1>11, <1>12, AfterFewer DEF U

LEMMA TargetsOfFileSettle ==
  ASSUME NEW files, NEW X, DOMAIN files \subseteq X,
         NEW O, "llm" \in O, NEW edges \in EdgesFrom(X, O), NEW a \in DOMAIN files,
         Len(files[a].edges) \in Nat
  PROVE  TargetsOfFile(edges, a, files) \in
           After(EdgesFrom(X, O), edges, {a} \X {b \in DOMAIN files : Contains(files[a].edges, b)})
<1> DEFINE U == EdgesFrom(X, O)
           targets == files[a].edges
           N == Len(targets)
           Q == [n \in 1..N |-> {a} \X ({targets[n]} \cap DOMAIN files)]
           step == [p \in U \X (1..N) |-> PushTarget(p[1], a, targets[p[2]], files)]
           Def(h) == [n \in 0..N |-> IF n = 0 THEN edges
                                     ELSE PushTarget(h[n - 1], a, targets[n], files)]
           after == CHOOSE h : h = Def(h)
<1>1. N \in Nat
  OBVIOUS
<1>2. ASSUME NEW s \in U, NEW n \in 1..N
      PROVE  PushTarget(s, a, targets[n], files) \in After(U, s, Q[n])
  <2> DEFINE b == targets[n]
  <2> HIDE DEF b, targets
  <2>1. PushTarget(s, a, b, files) \in After(U, s, {a} \X ({b} \cap DOMAIN files))
    BY PushTargetSettles
  <2> QED
    BY <2>1 DEF b
<1>3. \A s \in U, n \in 1..N : PushTarget(s, a, targets[n], files) \in U
  <2> HIDE DEF U, Q, N
  <2> QED
    BY <1>2 DEF After
<1>4. step \in [U \X (1..N) -> U]
  <2> HIDE DEF U, N
  <2> QED
    BY <1>3
<1>5. PICK f \in [0..N -> U] : Takes(f, edges, step, N)
  <2> HIDE DEF N, U, step
  <2> QED
    BY <1>1, <1>4, StepsAreTaken DEF U
<1>6. f = Def(f)
  <2> HIDE DEF N, U
  <2>1. ASSUME NEW n \in 1..N
        PROVE  f[n] = PushTarget(f[n - 1], a, targets[n], files)
    <3> DEFINE s == f[n - 1]
    <3>1. s \in U
      BY <1>1, <1>5
    <3>2. f[n] = step[<<s, n>>]
      BY <1>5 DEF Takes
    <3> HIDE DEF s
    <3>3. step[<<s, n>>] = PushTarget(s, a, targets[n], files)
      BY <3>1
    <3> QED
      BY <3>2, <3>3 DEF s
  <2>2. f[0] = edges
    BY <1>5 DEF Takes
  <2> QED
    BY <1>1, <2>1, <2>2
<1>7. after = Def(after)
  <2> HIDE DEF Def
  <2> QED
    BY <1>6
<1> HIDE DEF after
<1>8. TargetsOfFile(edges, a, files) = after[N]
  BY DEF TargetsOfFile, after
<1>9. after[0] = edges
  <2> HIDE DEF N
  <2> QED
    BY <1>1, <1>7
<1>10. \A n \in 1..N : after[n - 1] \in U => after[n] \in After(U, after[n - 1], Q[n])
  <2> TAKE n \in 1..N
  <2> HAVE after[n - 1] \in U
  <2>1. after[n] = Def(after)[n] /\ n \in 0..N /\ n # 0
    <3> HIDE DEF N, Def
    <3> QED
      BY <1>1, <1>7
  <2> DEFINE s == after[n - 1]
  <2>2. after[n] = PushTarget(s, a, targets[n], files)
    BY <2>1
  <2> HIDE DEF U, Q, N, s
  <2>3. s \in U
    BY DEF s
  <2> QED
    BY <1>2, <2>2, <2>3 DEF s
<1>11. after[N] \in After(U, edges, AllOf(Q, N))
  <2> HIDE DEF Q, N
  <2> QED
    BY <1>1, <1>9, <1>10, AfterAll
<1>12. {a} \X {b \in DOMAIN files : Contains(files[a].edges, b)} \subseteq AllOf(Q, N)
  <2> SUFFICES ASSUME NEW b \in DOMAIN files, Contains(files[a].edges, b)
               PROVE  <<a, b>> \in AllOf(Q, N)
    OBVIOUS
  <2>1. PICK n \in 1..N : targets[n] = b
    BY DEF Contains
  <2>2. <<a, b>> \in Q[n]
    BY <2>1
  <2> HIDE DEF Q, N
  <2> QED
    BY <2>1, <2>2 DEF AllOf
<1> QED
  <2> HIDE DEF Q, N, U
  <2> QED
    BY <1>8, <1>11, <1>12, AfterFewer DEF U

\* Files graphsync knows: notes there are, with what can be gone through.
Readings(files) ==
  /\ DOMAIN files \subseteq Files
  /\ \A f \in DOMAIN files : /\ Len(Extracted[files[f].hash].links) \in Nat
                             /\ Len(files[f].edges) \in Nat
LinkPairs(files) == {p \in (DOMAIN files) \X (DOMAIN files) : p[2] \in Linked(files, p[1])}
TargetPairs(files) == {p \in (DOMAIN files) \X (DOMAIN files) : Contains(files[p[1]].edges, p[2])}

LEMMA LinkEdgesSettle ==
  ASSUME NEW files, Readings(files), NEW X, DOMAIN files \subseteq X,
         NEW O, "links" \in O, NEW edges \in EdgesFrom(X, O)
  PROVE  LinkEdges(edges, files) \in After(EdgesFrom(X, O), edges, LinkPairs(files))
<1> DEFINE U == EdgesFrom(X, O)
           N == Len(Names)
           Q == [n \in 1..N |-> IF n \in DOMAIN files THEN {n} \X Linked(files, n) ELSE {}]
           step == [p \in U \X (1..N) |->
                      IF p[2] \in DOMAIN files THEN LinksOfFile(p[1], p[2], files) ELSE p[1]]
           Def(h) == [n \in 0..N |-> IF n = 0 THEN edges
                                     ELSE IF n \in DOMAIN files THEN LinksOfFile(h[n - 1], n, files)
                                     ELSE h[n - 1]]
           after == CHOOSE h : h = Def(h)
           Go(s, n) == IF n \in DOMAIN files THEN LinksOfFile(s, n, files) ELSE s
<1>1. N \in Nat
  BY FileFacts
<1>2. ASSUME NEW s \in U, NEW n \in 1..N
      PROVE  Go(s, n) \in After(U, s, Q[n])
  <2>1. CASE n \in DOMAIN files
    <3>1. LinksOfFile(s, n, files) \in After(U, s, {n} \X Linked(files, n))
      BY <2>1, LinksOfFileSettle DEF Readings
    <3> QED
      BY <2>1, <3>1
  <2>2. CASE n \notin DOMAIN files
    <3>1. Len(s) \in Nat
      BY DEF EdgesFrom
    <3> QED
      BY <2>2, <3>1, AfterNothing
  <2> QED
    BY <2>1, <2>2
<1>3. \A s \in U, n \in 1..N : Go(s, n) \in U
  <2> HIDE DEF U, Q, N
  <2> QED
    BY <1>2 DEF After
<1>4. step \in [U \X (1..N) -> U]
  <2> HIDE DEF U, N
  <2> QED
    BY <1>3
<1>5. PICK f \in [0..N -> U] : Takes(f, edges, step, N)
  <2> HIDE DEF N, U, step
  <2> QED
    BY <1>1, <1>4, StepsAreTaken DEF U
<1>6. f = Def(f)
  <2> HIDE DEF N, U
  <2>1. ASSUME NEW n \in 1..N
        PROVE  f[n] = IF n \in DOMAIN files THEN LinksOfFile(f[n - 1], n, files) ELSE f[n - 1]
    <3> DEFINE s == f[n - 1]
    <3>1. s \in U
      BY <1>1, <1>5
    <3>2. f[n] = step[<<s, n>>]
      BY <1>5 DEF Takes
    <3> HIDE DEF s
    <3>3. step[<<s, n>>] = Go(s, n)
      BY <3>1
    <3> QED
      BY <3>2, <3>3 DEF s
  <2>2. f[0] = edges
    BY <1>5 DEF Takes
  <2> QED
    BY <1>1, <2>1, <2>2
<1>7. after = Def(after)
  <2> HIDE DEF Def
  <2> QED
    BY <1>6
<1> HIDE DEF after
<1>8. LinkEdges(edges, files) = after[N]
  BY DEF LinkEdges, after
<1>9. after[0] = edges
  <2> HIDE DEF N
  <2> QED
    BY <1>1, <1>7
<1>10. \A n \in 1..N : after[n - 1] \in U => after[n] \in After(U, after[n - 1], Q[n])
  <2> TAKE n \in 1..N
  <2> HAVE after[n - 1] \in U
  <2>1. after[n] = Def(after)[n] /\ n \in 0..N /\ n # 0
    <3> HIDE DEF N, Def
    <3> QED
      BY <1>1, <1>7
  <2> DEFINE s == after[n - 1]
  <2>2. after[n] = Go(s, n)
    BY <2>1
  <2> HIDE DEF U, Q, N, s
  <2>3. s \in U
    BY DEF s
  <2> QED
    BY <1>2, <2>2, <2>3 DEF s
<1>11. after[N] \in After(U, edges, AllOf(Q, N))
  <2> HIDE DEF Q, N
  <2> QED
    BY <1>1, <1>9, <1>10, AfterAll
<1>12. LinkPairs(files) \subseteq AllOf(Q, N)
  <2> SUFFICES ASSUME NEW p \in LinkPairs(files)
               PROVE  p \in AllOf(Q, N)
    OBVIOUS
  <2> DEFINE n == p[1]
  <2>1. n \in 1..N /\ n \in DOMAIN files
    BY FileFacts DEF LinkPairs, Readings
  <2>2. p \in {n} \X Linked(files, n)
    BY DEF LinkPairs
  <2>3. Q[n] = {n} \X Linked(files, n)
    BY <2>1
  <2> HIDE DEF Q, N, n
  <2> QED
    BY <2>1, <2>2, <2>3 DEF AllOf
<1> QED
  <2> HIDE DEF Q, N, U
  <2> QED
    BY <1>8, <1>11, <1>12, AfterFewer DEF U

LEMMA LlmEdgesSettle ==
  ASSUME NEW files, Readings(files), NEW X, DOMAIN files \subseteq X,
         NEW O, "llm" \in O, NEW edges \in EdgesFrom(X, O)
  PROVE  LlmEdges(edges, files) \in After(EdgesFrom(X, O), edges, TargetPairs(files))
<1> DEFINE U == EdgesFrom(X, O)
           N == Len(Names)
           Q == [n \in 1..N |->
                   IF n \in DOMAIN files THEN {n} \X {b \in DOMAIN files : Contains(files[n].edges, b)}
                   ELSE {}]
           step == [p \in U \X (1..N) |->
                      IF p[2] \in DOMAIN files THEN TargetsOfFile(p[1], p[2], files) ELSE p[1]]
           Def(h) == [n \in 0..N |-> IF n = 0 THEN edges
                                     ELSE IF n \in DOMAIN files THEN TargetsOfFile(h[n - 1], n, files)
                                     ELSE h[n - 1]]
           after == CHOOSE h : h = Def(h)
           Go(s, n) == IF n \in DOMAIN files THEN TargetsOfFile(s, n, files) ELSE s
<1>1. N \in Nat
  BY FileFacts
<1>2. ASSUME NEW s \in U, NEW n \in 1..N
      PROVE  Go(s, n) \in After(U, s, Q[n])
  <2>1. CASE n \in DOMAIN files
    <3>1. TargetsOfFile(s, n, files) \in After(U, s, {n} \X {b \in DOMAIN files : Contains(files[n].edges, b)})
      BY <2>1, TargetsOfFileSettle DEF Readings
    <3> QED
      BY <2>1, <3>1
  <2>2. CASE n \notin DOMAIN files
    <3>1. Len(s) \in Nat
      BY DEF EdgesFrom
    <3> QED
      BY <2>2, <3>1, AfterNothing
  <2> QED
    BY <2>1, <2>2
<1>3. \A s \in U, n \in 1..N : Go(s, n) \in U
  <2> HIDE DEF U, Q, N
  <2> QED
    BY <1>2 DEF After
<1>4. step \in [U \X (1..N) -> U]
  <2> HIDE DEF U, N
  <2> QED
    BY <1>3
<1>5. PICK f \in [0..N -> U] : Takes(f, edges, step, N)
  <2> HIDE DEF N, U, step
  <2> QED
    BY <1>1, <1>4, StepsAreTaken DEF U
<1>6. f = Def(f)
  <2> HIDE DEF N, U
  <2>1. ASSUME NEW n \in 1..N
        PROVE  f[n] = IF n \in DOMAIN files THEN TargetsOfFile(f[n - 1], n, files) ELSE f[n - 1]
    <3> DEFINE s == f[n - 1]
    <3>1. s \in U
      BY <1>1, <1>5
    <3>2. f[n] = step[<<s, n>>]
      BY <1>5 DEF Takes
    <3> HIDE DEF s
    <3>3. step[<<s, n>>] = Go(s, n)
      BY <3>1
    <3> QED
      BY <3>2, <3>3 DEF s
  <2>2. f[0] = edges
    BY <1>5 DEF Takes
  <2> QED
    BY <1>1, <2>1, <2>2
<1>7. after = Def(after)
  <2> HIDE DEF Def
  <2> QED
    BY <1>6
<1> HIDE DEF after
<1>8. LlmEdges(edges, files) = after[N]
  BY DEF LlmEdges, after
<1>9. after[0] = edges
  <2> HIDE DEF N
  <2> QED
    BY <1>1, <1>7
<1>10. \A n \in 1..N : after[n - 1] \in U => after[n] \in After(U, after[n - 1], Q[n])
  <2> TAKE n \in 1..N
  <2> HAVE after[n - 1] \in U
  <2>1. after[n] = Def(after)[n] /\ n \in 0..N /\ n # 0
    <3> HIDE DEF N, Def
    <3> QED
      BY <1>1, <1>7
  <2> DEFINE s == after[n - 1]
  <2>2. after[n] = Go(s, n)
    BY <2>1
  <2> HIDE DEF U, Q, N, s
  <2>3. s \in U
    BY DEF s
  <2> QED
    BY <1>2, <2>2, <2>3 DEF s
<1>11. after[N] \in After(U, edges, AllOf(Q, N))
  <2> HIDE DEF Q, N
  <2> QED
    BY <1>1, <1>9, <1>10, AfterAll
<1>12. TargetPairs(files) \subseteq AllOf(Q, N)
  <2> SUFFICES ASSUME NEW p \in TargetPairs(files)
               PROVE  p \in AllOf(Q, N)
    OBVIOUS
  <2> DEFINE n == p[1]
  <2>1. n \in 1..N /\ n \in DOMAIN files
    BY FileFacts DEF TargetPairs, Readings
  <2>2. p \in {n} \X {b \in DOMAIN files : Contains(files[n].edges, b)}
    BY DEF TargetPairs
  <2>3. Q[n] = {n} \X {b \in DOMAIN files : Contains(files[n].edges, b)}
    BY <2>1
  <2> HIDE DEF Q, N, n
  <2> QED
    BY <2>1, <2>2, <2>3 DEF AllOf
<1> QED
  <2> HIDE DEF Q, N, U
  <2> QED
    BY <1>8, <1>11, <1>12, AfterFewer DEF U

LEMMA TermPairsAreFinite ==
  ASSUME NEW files, DOMAIN files \subseteq Files
  PROVE  Len(TermCandidates(files)) \in Nat
<1> DEFINE pairs == {q \in (DOMAIN files) \X (DOMAIN files) : q[1] < q[2]}
           scored == {[a |-> p[1], b |-> p[2], score |-> Score(p[1], p[2], files)] : p \in pairs}
           enough == {p \in scored : p.score > 0 /\ p.score >= MinScore}
           Before(p, q) == \/ p.score > q.score
                           \/ p.score = q.score /\ (p.a < q.a \/ (p.a = q.a /\ p.b < q.b))
           Nth(i) == CHOOSE p \in enough : Cardinality({q \in enough : Before(q, p)}) = i - 1
           n == Cardinality(enough)
<1>1. TermCandidates(files) = [i \in 1..n |-> Nth(i)]
  BY DEF TermCandidates
<1>2. n \in Nat
  <2>1. IsFiniteSet(DOMAIN files)
    BY FileFacts, FS_Subset
  <2>2. IsFiniteSet((DOMAIN files) \X (DOMAIN files))
    BY <2>1, FS_Product
  <2>3. pairs \subseteq (DOMAIN files) \X (DOMAIN files)
    OBVIOUS
  <2>4. IsFiniteSet(pairs)
    <3> HIDE DEF pairs
    <3> QED
      BY <2>2, <2>3, FS_Subset
  <2> DEFINE Scored(p) == [a |-> p[1], b |-> p[2], score |-> Score(p[1], p[2], files)]
             g == [p \in pairs |-> Scored(p)]
  <2>5. enough \subseteq {g[p] : p \in pairs}
    <3> HIDE DEF pairs
    <3> QED
      OBVIOUS
  <2> HIDE DEF enough, pairs, g, Scored
  <2>6. g \in Surjection(pairs, {g[p] : p \in pairs})
    <3>1. g = [p \in pairs |-> g[p]]
      BY DEF g
    <3> QED
      BY <3>1 DEF Surjection
  <2>7. IsFiniteSet({g[p] : p \in pairs})
    BY <2>4, <2>6, FS_Surjection
  <2>8. IsFiniteSet(enough)
    BY <2>5, <2>7, FS_Subset
  <2> QED
    BY <2>8, FS_CardinalityType
<1> HIDE DEF Nth, n
<1>3. Len([i \in 1..n |-> Nth(i)]) = n
  BY <1>2
<1> QED
  BY <1>1, <1>2, <1>3

LEMMA TermEdgesSettle ==
  ASSUME NEW files, DOMAIN files \subseteq Files, NEW X,
         \A n \in 1..Len(TermCandidates(files)) :
           TermCandidates(files)[n].a \in X /\ TermCandidates(files)[n].b \in X,
         NEW O, "terms" \in O, NEW edges \in EdgesFrom(X, O)
  PROVE  TermEdges(edges, files) \in After(EdgesFrom(X, O), edges, {})
<1> DEFINE U == EdgesFrom(X, O)
           pairs == TermCandidates(files)
           N == Len(pairs)
           Q == [n \in 1..N |-> {}]
           step == [p \in U \X (1..N) |-> PushTerm(p[1], pairs[p[2]])]
           Def(h) == [n \in 0..N |-> IF n = 0 THEN edges
                                     ELSE PushTerm(h[n - 1], pairs[n])]
           after == CHOOSE h : h = Def(h)
<1>1. N \in Nat
  BY TermPairsAreFinite
<1>2. ASSUME NEW s \in U, NEW n \in 1..N
      PROVE  PushTerm(s, pairs[n]) \in After(U, s, Q[n])
  <2> DEFINE pair == pairs[n]
  <2>1. pair.a \in X /\ pair.b \in X
    OBVIOUS
  <2> HIDE DEF pair, pairs
  <2>2. PushTerm(s, pair) \in After(U, s, {})
    BY <2>1, PushTermSettles
  <2> QED
    BY <2>2 DEF pair
<1>3. \A s \in U, n \in 1..N : PushTerm(s, pairs[n]) \in U
  <2> HIDE DEF U, Q, N
  <2> QED
    BY <1>2 DEF After
<1>4. step \in [U \X (1..N) -> U]
  <2> HIDE DEF U, N
  <2> QED
    BY <1>3
<1>5. PICK f \in [0..N -> U] : Takes(f, edges, step, N)
  <2> HIDE DEF N, U, step
  <2> QED
    BY <1>1, <1>4, StepsAreTaken DEF U
<1>6. f = Def(f)
  <2> HIDE DEF N, U
  <2>1. ASSUME NEW n \in 1..N
        PROVE  f[n] = PushTerm(f[n - 1], pairs[n])
    <3> DEFINE s == f[n - 1]
    <3>1. s \in U
      BY <1>1, <1>5
    <3>2. f[n] = step[<<s, n>>]
      BY <1>5 DEF Takes
    <3> HIDE DEF s
    <3>3. step[<<s, n>>] = PushTerm(s, pairs[n])
      BY <3>1
    <3> QED
      BY <3>2, <3>3 DEF s
  <2>2. f[0] = edges
    BY <1>5 DEF Takes
  <2> QED
    BY <1>1, <2>1, <2>2
<1>7. after = Def(after)
  <2> HIDE DEF Def
  <2> QED
    BY <1>6
<1> HIDE DEF after
<1>8. TermEdges(edges, files) = after[N]
  BY DEF TermEdges, after
<1>9. after[0] = edges
  <2> HIDE DEF N
  <2> QED
    BY <1>1, <1>7
<1>10. \A n \in 1..N : after[n - 1] \in U => after[n] \in After(U, after[n - 1], Q[n])
  <2> TAKE n \in 1..N
  <2> HAVE after[n - 1] \in U
  <2>1. after[n] = Def(after)[n] /\ n \in 0..N /\ n # 0
    <3> HIDE DEF N, Def
    <3> QED
      BY <1>1, <1>7
  <2> DEFINE s == after[n - 1]
  <2>2. after[n] = PushTerm(s, pairs[n])
    BY <2>1
  <2> HIDE DEF U, Q, N, s
  <2>3. s \in U
    BY DEF s
  <2> QED
    BY <1>2, <2>2, <2>3 DEF s
<1>11. after[N] \in After(U, edges, AllOf(Q, N))
  <2> HIDE DEF Q, N
  <2> QED
    BY <1>1, <1>9, <1>10, AfterAll
<1>12. {} \subseteq AllOf(Q, N)
  OBVIOUS
<1> QED
  <2> HIDE DEF Q, N, U
  <2> QED
    BY <1>8, <1>11, <1>12, AfterFewer DEF U

LEMMA MoreOrigins ==
  ASSUME NEW X, NEW O, NEW P, O \subseteq P, NEW edges \in EdgesFrom(X, O)
  PROVE  edges \in EdgesFrom(X, P)
<1> DEFINE S == [a : X, b : X, origin : O]
           T == [a : X, b : X, origin : P]
<1>1. S \subseteq T /\ edges \in Seq(S)
  BY DEF EdgesFrom
<1> HIDE DEF S, T
<1>2. edges \in Seq(T)
  BY <1>1, SeqMonotonic
<1> QED
  BY <1>2 DEF EdgesFrom, T

\* What was settled by edges of some origins is theirs in all that becomes of them.
LEMMA SettledFirst ==
  ASSUME NEW X, NEW O, NEW P, NEW before \in EdgesFrom(X, O), NEW edges \in EdgesFrom(X, P),
         Grown(before, edges), NEW a, NEW b, Settled(before, a, b)
  PROVE  JoinedBy(edges, a, b, O) \/ FullOf(edges, O)
<1>1. /\ Len(before) \in Nat /\ Len(edges) \in Nat
      /\ DOMAIN edges = 1..Len(edges) /\ DOMAIN before = 1..Len(before)
      /\ \A i \in 1..Len(before) : before[i].origin \in O
  <2>1. \A i \in 1..Len(before) : before[i] \in [a : X, b : X, origin : O]
    BY ElementOfSeq DEF EdgesFrom
  <2> QED
    BY <2>1 DEF EdgesFrom
<1>2. CASE Len(before) >= MaxEdges
  BY <1>1, <1>2, NotesAssumption DEF Grown, FullOf
<1>3. CASE \E i \in 1..Len(before) : Joins(before[i], a, b)
  <2>1. PICK i \in 1..Len(before) : Joins(before[i], a, b)
    BY <1>3
  <2>2. i \in 1..Len(edges) /\ edges[i] = before[i]
    BY <1>1 DEF Grown
  <2> QED
    BY <1>1, <2>1, <2>2 DEF JoinedBy
<1> QED
  BY <1>2, <1>3 DEF Settled

LEMMA BuildSettles ==
  ASSUME NEW files, Readings(files), NEW a \in DOMAIN files, NEW b \in DOMAIN files, a # b
  PROVE  LET edges == Build(files).edges
         IN  /\ b \in Linked(files, a)
                  => JoinedBy(edges, a, b, {"links"}) \/ FullOf(edges, {"links"})
             /\ Contains(files[a].edges, b)
                  => JoinedBy(edges, a, b, {"links", "llm"}) \/ FullOf(edges, {"links", "llm"})
<1> DEFINE pairs == TermCandidates(files)
           X == Files \cup {pairs[n].a : n \in 1..Len(pairs)} \cup {pairs[n].b : n \in 1..Len(pairs)}
           linked == LinkEdges(<<>>, files)
           joined == LlmEdges(linked, files)
           edges == TermEdges(joined, files)
           L == {"links"}
           A == {"links", "llm"}
           All == {"links", "llm", "terms"}
<1>1. /\ DOMAIN files \subseteq Files /\ DOMAIN files \subseteq X
      /\ \A n \in 1..Len(pairs) : pairs[n].a \in X /\ pairs[n].b \in X
  BY DEF Readings
<1>2. Build(files).edges = edges
  BY DEF Build
<1>3. linked \in After(EdgesFrom(X, L), <<>>, LinkPairs(files))
  <2>1. <<>> \in EdgesFrom(X, L)
    BY DEF EdgesFrom
  <2> HIDE DEF X
  <2> QED
    BY <1>1, <2>1, LinkEdgesSettle
<1>4. joined \in After(EdgesFrom(X, A), linked, TargetPairs(files))
  <2>1. linked \in EdgesFrom(X, L)
    BY <1>3 DEF After
  <2> HIDE DEF X, linked
  <2>2. linked \in EdgesFrom(X, A)
    BY <2>1, MoreOrigins
  <2> QED
    BY <1>1, <2>2, LlmEdgesSettle
<1>5. edges \in After(EdgesFrom(X, All), joined, {})
  <2>1. joined \in EdgesFrom(X, A)
    BY <1>4 DEF After
  <2>2. \A n \in 1..Len(TermCandidates(files)) :
           TermCandidates(files)[n].a \in X /\ TermCandidates(files)[n].b \in X
    BY <1>1
  <2> HIDE DEF X, joined, pairs
  <2>3. joined \in EdgesFrom(X, All)
    BY <2>1, MoreOrigins
  <2> QED
    BY <1>1, <2>2, <2>3, TermEdgesSettle
<1> HIDE DEF X, linked, joined, edges, pairs
<1>6. /\ linked \in EdgesFrom(X, L) /\ joined \in EdgesFrom(X, A) /\ edges \in EdgesFrom(X, All)
      /\ Grown(linked, joined) /\ Grown(joined, edges)
  BY <1>3, <1>4, <1>5 DEF After
<1>7. Grown(linked, edges)
  <2>1. Len(linked) \in Nat /\ Len(joined) \in Nat /\ Len(edges) \in Nat /\ MaxEdges \in Nat
    BY <1>6, NotesAssumption DEF EdgesFrom
  <2> QED
    BY <1>6, <2>1 DEF Grown
<1>8. ASSUME b \in Linked(files, a)
      PROVE  JoinedBy(edges, a, b, L) \/ FullOf(edges, L)
  <2>1. Settled(linked, a, b)
    <3> DEFINE p == <<a, b>>
    <3>1. p \in LinkPairs(files) /\ p[1] = a /\ p[2] = b
      BY <1>8 DEF LinkPairs
    <3> HIDE DEF p
    <3> QED
      BY <1>3, <3>1 DEF After
  <2> HIDE DEF L, All
  <2> QED
    BY <1>6, <1>7, <2>1, SettledFirst
<1>9. ASSUME Contains(files[a].edges, b)
      PROVE  JoinedBy(edges, a, b, A) \/ FullOf(edges, A)
  <2>1. Settled(joined, a, b)
    <3> DEFINE p == <<a, b>>
    <3>1. p \in TargetPairs(files) /\ p[1] = a /\ p[2] = b
      BY <1>9 DEF TargetPairs
    <3> HIDE DEF p
    <3> QED
      BY <1>4, <3>1 DEF After
  <2> HIDE DEF A, All
  <2> QED
    BY <1>6, <2>1, SettledFirst
<1> QED
  BY <1>2, <1>8, <1>9

-----------------------------------------------------------------------------
(* What is read of a note                                                  *)

Distinct(seq) == \A i, j \in 1..Len(seq) : seq[i] = seq[j] => i = j

\* Of what is new all has been added, or as much as there was room for.
Gathers(S, old, new) ==
  {s \in Seq(S) :
     /\ Distinct(s) /\ Len(old) <= Len(s)
     /\ ToSet(old) \subseteq ToSet(s) /\ ToSet(s) \subseteq ToSet(old) \cup new
     /\ new \subseteq ToSet(s) \/ Len(s) >= MaxLinks}

LEMMA ToSetIs ==
  ASSUME NEW S, NEW s \in Seq(S)
  PROVE  /\ Len(s) \in Nat /\ DOMAIN s = 1..Len(s)
         /\ \A x : x \in ToSet(s) <=> \E i \in 1..Len(s) : s[i] = x
         /\ \A x : Contains(s, x) <=> x \in ToSet(s)
BY DEF ToSet, Contains

LEMMA GathersNothing ==
  ASSUME NEW S, NEW s \in Seq(S), Distinct(s)
  PROVE  s \in Gathers(S, s, {})
<1>1. Len(s) \in Nat
  OBVIOUS
<1> QED
  BY <1>1 DEF Gathers

LEMMA GathersMore ==
  ASSUME NEW S, NEW old \in Seq(S), NEW A, NEW B, NEW s \in Gathers(S, old, A), NEW t \in Gathers(S, s, B)
  PROVE  t \in Gathers(S, old, A \cup B)
<1>1. Len(old) \in Nat /\ Len(s) \in Nat /\ Len(t) \in Nat /\ MaxLinks \in Nat
  BY NotesAssumption DEF Gathers
<1>2. Len(old) <= Len(t)
  BY <1>1 DEF Gathers
<1>3. A \cup B \subseteq ToSet(t) \/ Len(t) >= MaxLinks
  BY <1>1 DEF Gathers
<1>4. ToSet(old) \subseteq ToSet(t) /\ ToSet(t) \subseteq ToSet(old) \cup (A \cup B)
  BY DEF Gathers
<1> QED
  BY <1>2, <1>3, <1>4 DEF Gathers

LEMMA AddNewGathers ==
  ASSUME NEW S, NEW s \in Seq(S), Distinct(s), NEW x \in S
  PROVE  AddNew(s, x, MaxLinks) \in Gathers(S, s, {x})
<1> DEFINE t == AddNew(s, x, MaxLinks)
<1>1. Len(s) \in Nat /\ MaxLinks \in Nat
  BY NotesAssumption
<1>2. CASE Len(s) < MaxLinks /\ ~Contains(s, x)
  <2>1. t = Append(s, x)
    BY <1>2 DEF AddNew
  <2>2. t \in Seq(S) /\ Len(t) = Len(s) + 1 /\ t[Len(s) + 1] = x /\ \A i \in 1..Len(s) : t[i] = s[i]
    BY <2>1, AppendProperties
  <2> HIDE DEF t
  <2>3. Distinct(t)
    <3>1. \A i \in 1..Len(s) : s[i] # x
      BY <1>2 DEF Contains
    <3>2. \A i \in 1..Len(t) : i = Len(s) + 1 \/ i \in 1..Len(s)
      BY <1>1, <2>2
    <3> QED
      BY <1>1, <2>2, <3>1, <3>2 DEF Distinct
  <2>4. \A y : y \in ToSet(t) <=> y \in ToSet(s) \/ y = x
    <3>1. \A i \in 1..Len(t) : i = Len(s) + 1 \/ i \in 1..Len(s)
      BY <1>1, <2>2
    <3>2. Len(s) + 1 \in 1..Len(t) /\ 1..Len(s) \subseteq 1..Len(t)
      BY <1>1, <2>2
    <3> QED
      BY <2>2, <3>1, <3>2, ToSetIs
  <2> QED
    BY <1>1, <2>2, <2>3, <2>4 DEF Gathers, t
<1>3. CASE ~(Len(s) < MaxLinks /\ ~Contains(s, x))
  <2>1. t = s
    BY <1>3 DEF AddNew
  <2>2. x \in ToSet(s) \/ Len(s) >= MaxLinks
    BY <1>1, <1>3, ToSetIs
  <2> HIDE DEF t
  <2> QED
    BY <1>1, <2>1, <2>2 DEF Gathers, t
<1> QED
  BY <1>2, <1>3

\* The links of a line that are of this kind.
OfKind(line, kind) == {line.links[n] : n \in {k \in 1..Len(line.links) : line.links[k].kind = kind}}

LEMMA AddLinksGathers ==
  ASSUME NEW line, line.links \in Seq(LinkRefs), NEW links \in Seq(LinkRefs), Distinct(links), NEW kind
  PROVE  AddLinks(links, line, kind) \in Gathers(LinkRefs, links, OfKind(line, kind))
<1> DEFINE N == Len(line.links)
           T == {s \in Seq(LinkRefs) : Distinct(s)}
           Go(s, n) == IF line.links[n].kind = kind THEN AddNew(s, line.links[n], MaxLinks) ELSE s
           New(n) == IF line.links[n].kind = kind THEN {line.links[n]} ELSE {}
           step == [p \in T \X (1..N) |-> Go(p[1], p[2])]
           Def(h) == [n \in 0..N |->
                        IF n = 0 THEN links
                        ELSE IF line.links[n].kind = kind THEN AddNew(h[n - 1], line.links[n], MaxLinks)
                        ELSE h[n - 1]]
           after == CHOOSE h : h = Def(h)
           Upto(n) == UNION {New(i) : i \in 1..n}
<1>1. N \in Nat /\ links \in T /\ \A n \in 1..N : line.links[n] \in LinkRefs
  BY ElementOfSeq
<1>2. ASSUME NEW s \in T, NEW n \in 1..N
      PROVE  Go(s, n) \in Gathers(LinkRefs, s, New(n))
  <2>1. CASE line.links[n].kind = kind
    <3> DEFINE x == line.links[n]
    <3>1. x \in LinkRefs
      BY <1>1
    <3> HIDE DEF x
    <3>2. AddNew(s, x, MaxLinks) \in Gathers(LinkRefs, s, {x})
      BY <3>1, AddNewGathers
    <3> QED
      BY <2>1, <3>2 DEF x
  <2>2. CASE line.links[n].kind # kind
    BY <2>2, GathersNothing
  <2> QED
    BY <2>1, <2>2
<1>3. \A s \in T, n \in 1..N : Go(s, n) \in T
  <2> HIDE DEF Go, New
  <2> QED
    BY <1>2 DEF Gathers
<1>4. step \in [T \X (1..N) -> T]
  <2> HIDE DEF T, N, Go
  <2> QED
    BY <1>3
<1>5. PICK f \in [0..N -> T] : Takes(f, links, step, N)
  <2> HIDE DEF N, T, step
  <2> QED
    BY <1>1, <1>4, StepsAreTaken
<1>6. f = Def(f)
  <2> HIDE DEF N, T
  <2>1. ASSUME NEW n \in 1..N
        PROVE  f[n] = Go(f[n - 1], n)
    <3> DEFINE s == f[n - 1]
    <3>1. s \in T
      BY <1>1, <1>5
    <3>2. f[n] = step[<<s, n>>]
      BY <1>5 DEF Takes
    <3> HIDE DEF s
    <3>3. step[<<s, n>>] = Go(s, n)
      BY <3>1
    <3> QED
      BY <3>2, <3>3 DEF s
  <2>2. f[0] = links
    BY <1>5 DEF Takes
  <2> QED
    BY <1>1, <2>1, <2>2
<1>7. after = Def(after)
  <2> HIDE DEF Def
  <2> QED
    BY <1>6
<1> HIDE DEF after
<1>8. AddLinks(links, line, kind) = after[N]
  BY DEF AddLinks, after
<1> DEFINE P == {n \in 0..N : after[n] \in Gathers(LinkRefs, links, Upto(n))}
<1>9. 0 \in P
  <2>1. after[0] = links
    <3> HIDE DEF N
    <3> QED
      BY <1>1, <1>7
  <2>2. Upto(0) = {}
    OBVIOUS
  <2>3. links \in Gathers(LinkRefs, links, Upto(0))
    BY <2>2, GathersNothing
  <2> HIDE DEF Upto, N
  <2> QED
    BY <1>1, <2>1, <2>3
<1>10. ASSUME NEW n \in 1..N, n - 1 \in P
       PROVE  n \in P
  <2>1. after[n] = Def(after)[n] /\ n \in 0..N /\ n # 0
    <3> HIDE DEF N, Def
    <3> QED
      BY <1>1, <1>7
  <2> DEFINE s == after[n - 1]
  <2>2. after[n] = Go(s, n)
    BY <2>1
  <2>3. s \in Gathers(LinkRefs, links, Upto(n - 1))
    BY <1>10
  <2> HIDE DEF s, Go, New, N
  <2>4. s \in T
    BY <2>3 DEF Gathers
  <2>5. after[n] \in Gathers(LinkRefs, s, New(n))
    BY <1>2, <2>2, <2>4
  <2>6. after[n] \in Gathers(LinkRefs, links, Upto(n - 1) \cup New(n))
    <3> HIDE DEF Upto
    <3> QED
      BY <2>3, <2>5, GathersMore
  <2>7. Upto(n) = Upto(n - 1) \cup New(n)
    <3>1. 1..n = 1..(n - 1) \cup {n}
      BY <1>1
    <3> QED
      BY <3>1
  <2> HIDE DEF Upto
  <2> QED
    BY <2>1, <2>6, <2>7
<1>11. N \in P
  <2>1. 0..N \subseteq P
    <3> HIDE DEF P, N
    <3> QED
      BY <1>1, <1>9, <1>10, UpToTheEnd
  <2>2. N \in 0..N
    <3> HIDE DEF N
    <3> QED
      BY <1>1
  <2> HIDE DEF P, N
  <2> QED
    BY <2>1, <2>2
<1>12. Upto(N) = OfKind(line, kind)
  BY DEF OfKind
<1> QED
  BY <1>8, <1>11, <1>12

LEMMA FrontmatterEndIs ==
  ASSUME NEW lines, Len(lines) \in Nat
  PROVE  FrontmatterEnd(lines) \in 0..Len(lines)
<1> DEFINE closing == {i \in 2..Len(lines) : lines[i].kind \in {"---", "..."}}
<1>1. CASE closing = {}
  BY <1>1 DEF FrontmatterEnd
<1>2. CASE closing # {}
  <2>1. PICK x \in closing : \A y \in closing : x <= y
    <3>1. closing \in SUBSET Nat
      OBVIOUS
    <3> HIDE DEF closing
    <3> QED
      BY <1>2, <3>1, LeastExists
  <2>2. closing \subseteq 0..Len(lines)
    OBVIOUS
  <2> HIDE DEF closing
  <2> DEFINE least == Min(closing)
  <2>3. least \in closing
    BY <2>1 DEF Min
  <2>4. FrontmatterEnd(lines) = 0 \/ FrontmatterEnd(lines) = least
    BY DEF FrontmatterEnd, closing
  <2> HIDE DEF least
  <2>5. least \in 0..Len(lines)
    BY <2>2, <2>3
  <2> QED
    BY <2>4, <2>5
<1> QED
  BY <1>1, <1>2

LEMMA UpToCount ==
  ASSUME NEW n \in Nat
  PROVE  IsFiniteSet(1..n) /\ Cardinality(1..n) = n
BY FS_Interval

LEMMA ElementsAreFinite ==
  ASSUME NEW S, NEW s \in Seq(S)
  PROVE  IsFiniteSet(ToSet(s)) /\ (Distinct(s) => Cardinality(ToSet(s)) = Len(s))
<1> DEFINE N == Len(s)
<1>1. N \in Nat /\ s \in [1..N -> ToSet(s)] /\ \A x \in ToSet(s) : \E i \in 1..N : s[i] = x
  <2>1. N \in Nat /\ s = [i \in 1..N |-> s[i]] /\ DOMAIN s = 1..N
    BY LenProperties
  <2> QED
    BY <2>1 DEF ToSet
<1>2. IsFiniteSet(1..N) /\ Cardinality(1..N) = N
  <2> HIDE DEF N
  <2> QED
    BY <1>1, UpToCount
<1>3. s \in Surjection(1..N, ToSet(s))
  BY <1>1 DEF Surjection
<1>4. Distinct(s) => s \in Injection(1..N, ToSet(s))
  BY <1>1 DEF Distinct, Injection, IsInjective
<1> HIDE DEF N
<1>5. IsFiniteSet(ToSet(s)) /\ (s \in Injection(1..N, ToSet(s)) => Cardinality(ToSet(s)) = Cardinality(1..N))
  BY <1>2, <1>3, FS_Surjection
<1> QED
  BY <1>2, <1>4, <1>5 DEF N

\* The fences among the lines behind the front matter up to the n-th.
Fences(lines, n) == {k \in (FrontmatterEnd(lines) + 1)..n : lines[k].kind = "fence"}

LEMMA FencesAlternate ==
  ASSUME NEW lines, Len(lines) \in Nat, NEW n \in (FrontmatterEnd(lines) + 1)..Len(lines)
  PROVE  /\ Cardinality(Fences(lines, n)) \in Nat /\ Cardinality(Fences(lines, n - 1)) \in Nat
         /\ Cardinality(Fences(lines, n)) =
              Cardinality(Fences(lines, n - 1)) + (IF lines[n].kind = "fence" THEN 1 ELSE 0)
<1> DEFINE begin == FrontmatterEnd(lines) + 1
           old == Fences(lines, n - 1)
           new == Fences(lines, n)
<1>1. begin \in Nat /\ n \in Nat /\ n >= begin
  BY FrontmatterEndIs
<1>2. IsFiniteSet(old) /\ Cardinality(old) \in Nat /\ n \notin old
  <2>1. IsFiniteSet(begin..(n - 1))
    BY <1>1, FS_Interval
  <2>2. old \subseteq begin..(n - 1)
    BY DEF Fences
  <2>3. IsFiniteSet(old)
    BY <2>1, <2>2, FS_Subset
  <2>4. n \notin begin..(n - 1)
    BY <1>1
  <2> HIDE DEF old
  <2> QED
    BY <2>2, <2>3, <2>4, FS_CardinalityType
<1>3. begin..n = begin..(n - 1) \cup {n}
  BY <1>1
<1>4. CASE lines[n].kind = "fence"
  <2>1. new = old \cup {n}
    BY <1>3, <1>4 DEF Fences
  <2> HIDE DEF new, old
  <2>2. Cardinality(new) = Cardinality(old) + 1
    BY <1>2, <2>1, FS_AddElement
  <2> QED
    BY <1>2, <1>4, <2>2 DEF new, old
<1>5. CASE lines[n].kind # "fence"
  <2>1. new = old
    BY <1>3, <1>5 DEF Fences
  <2> HIDE DEF new, old
  <2> QED
    BY <1>2, <1>5, <2>1 DEF new, old
<1> QED
  BY <1>4, <1>5

LEMMA ProseIs ==
  ASSUME NEW lines
  PROVE  \A n : n \in Prose(lines) <=>
           /\ n \in (FrontmatterEnd(lines) + 1)..Len(lines)
           /\ lines[n].kind # "fence" /\ Cardinality(Fences(lines, n)) % 2 = 0
BY DEF Prose, Fences

LEMMA LinksGrow ==
  ASSUME NEW lines, Len(lines) \in Nat, NEW n \in (FrontmatterEnd(lines) + 1)..Len(lines)
  PROVE  /\ n \in Prose(lines) => LinksUpTo(lines, n) = LinksUpTo(lines, n - 1) \cup LinksIn(lines[n])
         /\ n \notin Prose(lines) => LinksUpTo(lines, n) = LinksUpTo(lines, n - 1)
<1>1. n \in Nat /\ n >= 1
  BY FrontmatterEndIs
<1>2. 1..n = 1..(n - 1) \cup {n}
  BY <1>1
<1>3. ASSUME n \in Prose(lines)
      PROVE  LinksUpTo(lines, n) = LinksUpTo(lines, n - 1) \cup LinksIn(lines[n])
  <2>1. Prose(lines) \cap 1..n = (Prose(lines) \cap 1..(n - 1)) \cup {n}
    BY <1>2, <1>3
  <2> QED
    BY <2>1 DEF LinksUpTo
<1>4. ASSUME n \notin Prose(lines)
      PROVE  LinksUpTo(lines, n) = LinksUpTo(lines, n - 1)
  <2>1. Prose(lines) \cap 1..n = Prose(lines) \cap 1..(n - 1)
    BY <1>2, <1>4
  <2> QED
    BY <2>1 DEF LinksUpTo
<1> QED
  BY <1>3, <1>4

\* The links are taken of which there are no more than fit up to the end of their line.
Taken(lines, links, n) ==
  \A i \in Prose(lines) \cap 1..n :
    Cardinality(LinksUpTo(lines, i)) <= MaxLinks => LinksIn(lines[i]) \subseteq ToSet(links)

\* What is known of a note when n lines have been read.
IsRead(lines, s, n) ==
  /\ DOMAIN s = {"fenced", "links", "terms"}
  /\ s.fenced \in BOOLEAN /\ (s.fenced <=> Cardinality(Fences(lines, n)) % 2 = 1)
  /\ s.links \in Seq(LinkRefs) /\ Distinct(s.links)
  /\ ToSet(s.links) \subseteq LinksUpTo(lines, n) /\ IsFiniteSet(LinksUpTo(lines, n))
  /\ Taken(lines, s.links, n)

LEMMA ParityFlips ==
  ASSUME NEW n \in Nat
  PROVE  /\ n % 2 = 0 <=> n % 2 # 1
         /\ n % 2 = 0 <=> (n + 1) % 2 = 1
OBVIOUS

LEMMA LinksInAreFinite ==
  ASSUME NEW line, line.links \in Seq(LinkRefs)
  PROVE  /\ IsFiniteSet(LinksIn(line))
         /\ LinksIn(line) = OfKind(line, "wiki") \cup OfKind(line, "path")
<1> DEFINE all == ToSet(line.links)
<1>1. IsFiniteSet(all)
  BY ElementsAreFinite
<1>2. LinksIn(line) \subseteq all
  BY DEF LinksIn
<1>3. IsFiniteSet(LinksIn(line))
  <2> HIDE DEF all
  <2> QED
    BY <1>1, <1>2, FS_Subset
<1>4. \A l : l \in all <=> \E i \in 1..Len(line.links) : line.links[i] = l
  BY ToSetIs
<1>5. LinksIn(line) \subseteq OfKind(line, "wiki") \cup OfKind(line, "path")
  BY <1>4 DEF LinksIn, OfKind
<1>6. OfKind(line, "wiki") \cup OfKind(line, "path") \subseteq LinksIn(line)
  BY <1>4 DEF LinksIn, OfKind
<1> QED
  BY <1>3, <1>5, <1>6

\* A line of the text: its links are added, as many as fit.
LEMMA LinksAreTaken ==
  ASSUME NEW lines \in Seq(NoteLines), NEW n \in (FrontmatterEnd(lines) + 1)..Len(lines),
         n \in Prose(lines), NEW old \in Seq(LinkRefs), Distinct(old),
         ToSet(old) \subseteq LinksUpTo(lines, n - 1), IsFiniteSet(LinksUpTo(lines, n - 1)),
         Taken(lines, old, n - 1),
         NEW new \in Gathers(LinkRefs, old, LinksIn(lines[n])), IsFiniteSet(LinksIn(lines[n]))
  PROVE  /\ ToSet(new) \subseteq LinksUpTo(lines, n) /\ IsFiniteSet(LinksUpTo(lines, n))
         /\ Taken(lines, new, n)
<1>1. Len(lines) \in Nat /\ n \in Nat /\ MaxLinks \in Nat
  <2>1. Len(lines) \in Nat
    BY LenProperties
  <2>2. n \in Nat
    BY <2>1, FrontmatterEndIs
  <2>3. MaxLinks \in Nat
    BY NotesAssumption
  <2> QED
    BY <2>1, <2>2, <2>3
<1>2. LinksUpTo(lines, n) = LinksUpTo(lines, n - 1) \cup LinksIn(lines[n])
  BY <1>1, LinksGrow
<1>3. IsFiniteSet(LinksUpTo(lines, n))
  <2> DEFINE before == LinksUpTo(lines, n - 1)
             own == LinksIn(lines[n])
  <2>1. IsFiniteSet(before) /\ IsFiniteSet(own) /\ LinksUpTo(lines, n) = before \cup own
    BY <1>2
  <2> HIDE DEF before, own
  <2>2. IsFiniteSet(before \cup own)
    BY <2>1, FS_Union
  <2> QED
    BY <2>1, <2>2
<1>4. ToSet(new) \subseteq LinksUpTo(lines, n) /\ ToSet(old) \subseteq ToSet(new)
  BY <1>2 DEF Gathers
<1>5. ASSUME Cardinality(LinksUpTo(lines, n)) <= MaxLinks
      PROVE  LinksIn(lines[n]) \subseteq ToSet(new)
  <2>1. CASE Len(new) >= MaxLinks
    <3>1. Len(new) \in Nat /\ IsFiniteSet(ToSet(new)) /\ Cardinality(ToSet(new)) = Len(new)
      BY ElementsAreFinite, ToSetIs DEF Gathers
    <3>2. /\ Cardinality(LinksUpTo(lines, n)) \in Nat
          /\ Cardinality(ToSet(new)) <= Cardinality(LinksUpTo(lines, n))
          /\ Cardinality(LinksUpTo(lines, n)) = Cardinality(ToSet(new)) => LinksUpTo(lines, n) = ToSet(new)
      BY <1>3, <1>4, FS_Subset, FS_CardinalityType
    <3>3. LinksUpTo(lines, n) = ToSet(new)
      BY <1>1, <1>5, <2>1, <3>1, <3>2
    <3> QED
      BY <1>2, <3>3
  <2>2. CASE ~(Len(new) >= MaxLinks)
    BY <2>2 DEF Gathers
  <2> QED
    BY <2>1, <2>2
<1>6. Taken(lines, new, n)
  <2> SUFFICES ASSUME NEW i \in Prose(lines) \cap 1..n, Cardinality(LinksUpTo(lines, i)) <= MaxLinks
               PROVE  LinksIn(lines[i]) \subseteq ToSet(new)
    BY DEF Taken
  <2>1. CASE i = n
    BY <1>5, <2>1
  <2>2. CASE i # n
    <3>1. i \in Prose(lines) \cap 1..(n - 1)
      BY <1>1, <2>2
    <3> QED
      BY <1>4, <3>1 DEF Taken
  <2> QED
    BY <2>1, <2>2
<1> QED
  BY <1>3, <1>4, <1>6

LEMMA LineIsRead ==
  ASSUME NEW lines \in Seq(NoteLines), NEW n \in (FrontmatterEnd(lines) + 1)..Len(lines),
         NEW s, IsRead(lines, s, n - 1)
  PROVE  IsRead(lines, ExtractLine(s, lines[n]), n)
<1> DEFINE line == lines[n]
           t == ExtractLine(s, line)
           c == Cardinality(Fences(lines, n - 1))
           d == Cardinality(Fences(lines, n))
<1>1. /\ Len(lines) \in Nat /\ n \in Nat /\ n \in 1..Len(lines) /\ line \in NoteLines
      /\ line.links \in Seq(LinkRefs)
  <2>1. Len(lines) \in Nat /\ n \in Nat /\ n \in 1..Len(lines)
    BY FrontmatterEndIs
  <2>2. line \in NoteLines
    BY <2>1, ElementOfSeq
  <2>3. line.links \in Seq(LinkRefs)
    BY <2>2 DEF NoteLines
  <2> QED
    BY <2>1, <2>2, <2>3
<1> HIDE DEF line
<1>2. c \in Nat /\ d \in Nat /\ d = c + (IF line.kind = "fence" THEN 1 ELSE 0)
  BY <1>1, FencesAlternate DEF line
<1>3. n \in Prose(lines) <=> line.kind # "fence" /\ d % 2 = 0
  BY ProseIs DEF line
<1> HIDE DEF c, d
<1>4. s.fenced \in BOOLEAN /\ (s.fenced <=> c % 2 = 1) /\ DOMAIN s = {"fenced", "links", "terms"}
  BY DEF IsRead, c
<1>5. ASSUME t.links = s.links, n \notin Prose(lines)
      PROVE  /\ t.links \in Seq(LinkRefs) /\ Distinct(t.links)
             /\ ToSet(t.links) \subseteq LinksUpTo(lines, n) /\ IsFiniteSet(LinksUpTo(lines, n))
             /\ Taken(lines, t.links, n)
  <2>1. LinksUpTo(lines, n) = LinksUpTo(lines, n - 1)
    BY <1>1, <1>5, LinksGrow
  <2>2. \A i \in Prose(lines) \cap 1..n : i \in Prose(lines) \cap 1..(n - 1)
    BY <1>1, <1>5
  <2>3. Taken(lines, s.links, n)
    BY <2>2 DEF IsRead, Taken
  <2> HIDE DEF t
  <2> QED
    BY <1>5, <2>1, <2>3 DEF IsRead
<1>6. CASE line.kind = "fence"
  <2>1. t = [s EXCEPT !.fenced = ~@]
    BY <1>6 DEF ExtractLine
  <2>2. DOMAIN t = DOMAIN s /\ t.links = s.links /\ t.fenced = ~s.fenced
    BY <1>4, <2>1
  <2>3. t.fenced \in BOOLEAN /\ (t.fenced <=> d % 2 = 1)
    <3>1. d = c + 1
      BY <1>2, <1>6
    <3>2. (c % 2 = 0 <=> c % 2 # 1) /\ (c % 2 = 0 <=> d % 2 = 1)
      BY <1>2, <3>1, ParityFlips
    <3> QED
      BY <1>4, <2>2, <3>2
  <2> HIDE DEF t
  <2> QED
    BY <1>3, <1>4, <1>5, <1>6, <2>2, <2>3 DEF IsRead, d, t, line
<1>7. CASE line.kind # "fence" /\ s.fenced
  <2>1. t = s
    BY <1>7 DEF ExtractLine
  <2>2. d = c /\ n \notin Prose(lines)
    <3>1. d = c
      BY <1>2, <1>7
    <3> QED
      BY <1>2, <1>3, <1>4, <1>7, <3>1
  <2> HIDE DEF t
  <2> QED
    BY <1>4, <1>5, <2>1, <2>2 DEF IsRead, d, t, line
<1>8. CASE line.kind # "fence" /\ ~s.fenced
  <2> DEFINE wiki == AddLinks(s.links, line, "wiki")
             both == AddLinks(wiki, line, "path")
             terms == AddTerms(s.terms, IF line.kind = "heading" THEN HeadingWords(line.words)
                                        ELSE NormalizeTags(line.tags))
  <2>1. t = [s EXCEPT !.links = both, !.terms = terms]
    BY <1>8 DEF ExtractLine
  <2>2. DOMAIN t = DOMAIN s /\ t.links = both /\ t.fenced = s.fenced
    <3> HIDE DEF both, terms
    <3> QED
      BY <1>4, <2>1
  <2>3. wiki \in Gathers(LinkRefs, s.links, OfKind(line, "wiki"))
    BY <1>1, AddLinksGathers DEF IsRead
  <2>4. both \in Gathers(LinkRefs, wiki, OfKind(line, "path"))
    <3> HIDE DEF wiki
    <3> QED
      BY <1>1, <2>3, AddLinksGathers DEF Gathers
  <2>5. both \in Gathers(LinkRefs, s.links, LinksIn(line)) /\ IsFiniteSet(LinksIn(line))
    <3> HIDE DEF wiki, both
    <3>1. both \in Gathers(LinkRefs, s.links, OfKind(line, "wiki") \cup OfKind(line, "path"))
      BY <2>3, <2>4, GathersMore DEF IsRead
    <3> QED
      BY <1>1, <3>1, LinksInAreFinite
  <2>6. d = c /\ n \in Prose(lines)
    <3>1. d = c
      BY <1>2, <1>8
    <3>2. c % 2 = 0
      BY <1>2, <1>4, <1>8, ParityFlips
    <3> QED
      BY <1>3, <1>8, <3>1, <3>2
  <2> HIDE DEF both, t
  <2>7. both \in Seq(LinkRefs) /\ Distinct(both)
    BY <2>5 DEF Gathers
  <2>8. /\ ToSet(both) \subseteq LinksUpTo(lines, n) /\ IsFiniteSet(LinksUpTo(lines, n))
        /\ Taken(lines, both, n)
    BY <2>5, <2>6, LinksAreTaken DEF IsRead, line
  <2> QED
    BY <1>4, <2>2, <2>6, <2>7, <2>8 DEF IsRead, d, t, line
<1> QED
  BY <1>4, <1>6, <1>7, <1>8

LEMMA NoteIsRead ==
  ASSUME NEW lines \in Seq(NoteLines)
  PROVE  IsRead(lines, Extract(lines), Len(lines))
<1> DEFINE end == FrontmatterEnd(lines)
           start == [fenced |-> FALSE, links |-> <<>>,
                     terms |-> AddTerms(<<>>, ParseFrontmatter(SubSeq(lines, 2, end - 1)))]
           Def(h) == [n \in end..Len(lines) |->
                        IF n = end THEN start ELSE ExtractLine(h[n - 1], lines[n])]
           after == CHOOSE h : h = Def(h)
           M == Len(lines) - end
           Agrees(f, m) == /\ f = [i \in end..(end + m) |-> f[i]] /\ f[end] = start
                         /\ \A i \in (end + 1)..(end + m) : f[i] = ExtractLine(f[i - 1], lines[i])
<1>1. Len(lines) \in Nat /\ end \in 0..Len(lines) /\ end \in Nat /\ M \in Nat /\ end + M = Len(lines)
  BY FrontmatterEndIs
<1>2. IsRead(lines, start, end)
  <2>1. Fences(lines, end) = {} /\ Prose(lines) \cap 1..end = {}
    BY <1>1 DEF Fences, Prose
  <2>2. LinksUpTo(lines, end) = {}
    BY <2>1 DEF LinksUpTo
  <2>3. Cardinality({}) = 0 /\ 0 % 2 # 1 /\ IsFiniteSet({})
    BY FS_EmptySet
  <2>4. <<>> \in Seq(LinkRefs) /\ Len(<<>>) = 0 /\ ToSet(<<>>) = {} /\ Distinct(<<>>)
    BY EmptySeq DEF ToSet, Distinct
  <2>5. DOMAIN start = {"fenced", "links", "terms"} /\ start.fenced = FALSE /\ start.links = <<>>
    OBVIOUS
  <2> HIDE DEF start, end
  <2> QED
    BY <2>1, <2>2, <2>3, <2>4, <2>5 DEF IsRead, Taken
<1> HIDE DEF end, start, M
<1>3. \E f : Agrees(f, M)
  <2> DEFINE P == {m \in 0..M : \E f : Agrees(f, m)}
  <2>1. 0 \in P
    <3> DEFINE f == [i \in end..(end + 0) |-> start]
    <3>1. Agrees(f, 0)
      BY <1>1
    <3> HIDE DEF f, Agrees
    <3> QED
      BY <1>1, <3>1
  <2>2. ASSUME NEW m \in 1..M, m - 1 \in P
        PROVE  m \in P
    <3>1. PICK f : Agrees(f, m - 1)
      BY <2>2
    <3> DEFINE last == ExtractLine(f[end + m - 1], lines[end + m])
               g == [i \in end..(end + m) |-> IF i = end + m THEN last ELSE f[i]]
    <3>2. g = [i \in end..(end + m) |-> g[i]]
      <4> HIDE DEF last
      <4> QED
        OBVIOUS
    <3>3. g[end] = start
      BY <1>1, <3>1
    <3>4. ASSUME NEW i \in (end + 1)..(end + m)
          PROVE  g[i] = ExtractLine(g[i - 1], lines[i])
      <4>1. g[i - 1] = f[i - 1]
        BY <1>1
      <4>2. CASE i = end + m
        <5>1. g[i] = last /\ i - 1 = end + m - 1
          BY <1>1, <4>2
        <5> QED
          BY <4>1, <4>2, <5>1
      <4>3. CASE i # end + m
        <5>1. i \in (end + 1)..(end + (m - 1)) /\ g[i] = f[i]
          BY <1>1, <4>3
        <5> HIDE DEF g
        <5> QED
          BY <3>1, <4>1, <5>1
      <4> QED
        BY <4>2, <4>3
    <3> HIDE DEF g
    <3>5. Agrees(g, m)
      BY <3>2, <3>3, <3>4
    <3> HIDE DEF Agrees
    <3> QED
      BY <3>5
  <2>3. 0..M \subseteq P
    <3> HIDE DEF P
    <3> QED
      BY <1>1, <2>1, <2>2, UpToTheEnd
  <2> HIDE DEF Agrees
  <2> QED
    BY <1>1, <2>3
<1>4. PICK f : Agrees(f, M)
  BY <1>3
<1>5. f = Def(f)
  <2>1. ASSUME NEW n \in end..Len(lines)
        PROVE  f[n] = Def(f)[n]
    <3>1. CASE n = end
      BY <1>4, <3>1
    <3>2. CASE n # end
      <4>1. n \in (end + 1)..(end + M)
        BY <1>1, <3>2
      <4>2. f[n] = ExtractLine(f[n - 1], lines[n])
        BY <1>4, <4>1
      <4> QED
        BY <3>2, <4>2
    <3> QED
      BY <3>1, <3>2
  <2>2. f = [n \in end..Len(lines) |-> f[n]]
    BY <1>1, <1>4
  <2> QED
    BY <2>1, <2>2
<1>6. after = Def(after)
  <2> HIDE DEF Def
  <2> QED
    BY <1>5
<1> HIDE DEF after
<1>7. Extract(lines) = after[Len(lines)]
  BY DEF Extract, after, start, end
<1>8. after[end] = start
  BY <1>1, <1>6
<1> DEFINE P == {m \in 0..M : IsRead(lines, after[end + m], end + m)}
<1>9. 0 \in P
  <2>1. end + 0 = end
    BY <1>1
  <2> QED
    BY <1>1, <1>2, <1>8, <2>1
<1>10. ASSUME NEW m \in 1..M, m - 1 \in P
       PROVE  m \in P
  <2> DEFINE n == end + m
             s == after[n - 1]
  <2>1. n \in (end + 1)..Len(lines) /\ n \in end..Len(lines) /\ n # end /\ end + (m - 1) = n - 1
    BY <1>1
  <2> HIDE DEF n
  <2>2. after[n] = ExtractLine(s, lines[n])
    BY <1>6, <2>1
  <2> HIDE DEF s
  <2>3. IsRead(lines, s, n - 1)
    BY <1>10, <2>1 DEF s
  <2>4. IsRead(lines, ExtractLine(s, lines[n]), n)
    BY <2>1, <2>3, LineIsRead DEF end
  <2> QED
    BY <2>2, <2>4 DEF n
<1>11. M \in P
  <2>1. 0..M \subseteq P
    <3> HIDE DEF P
    <3> QED
      BY <1>1, <1>9, <1>10, UpToTheEnd
  <2> HIDE DEF P
  <2> QED
    BY <1>1, <2>1
<1> QED
  BY <1>1, <1>7, <1>11

\* What a note's links lead to, of those that fit, is among its links.
LEMMA LinksAreExtracted ==
  ASSUME NEW hash \in Contents
  PROVE  LET lines == Bodies[hash].lines
             links == Extracted[hash].links
         IN  /\ Len(links) \in Nat
             /\ \A i \in Prose(lines) : Cardinality(LinksUpTo(lines, i)) <= MaxLinks =>
                  \A l \in LinksIn(lines[i]) : \E n \in 1..Len(links) : links[n] = l
<1> DEFINE lines == Bodies[hash].lines
           read == Extract(lines)
<1>1. lines \in Seq(NoteLines)
  <2> DEFINE Body == [size : Nat, lines : Seq(NoteLines)]
  <2>1. Bodies \in Seq(Body)
    BY NotesAssumption
  <2> HIDE DEF Body
  <2>2. hash \in 1..Len(Bodies)
    BY <2>1 DEF Contents
  <2>3. Bodies[hash] \in Body
    BY <2>1, <2>2, ElementOfSeq
  <2> QED
    BY <2>3 DEF Body
<1>2. Extracted[hash] = read
  BY DEF Extracted
<1> HIDE DEF lines
<1>3. IsRead(lines, read, Len(lines))
  BY <1>1, NoteIsRead
<1> HIDE DEF read
<1>4. /\ Len(read.links) \in Nat
      /\ \A l : l \in ToSet(read.links) <=> \E n \in 1..Len(read.links) : read.links[n] = l
  BY <1>3, ToSetIs DEF IsRead
<1>5. \A i \in Prose(lines) : i \in 1..Len(lines)
  <2>1. Len(lines) \in Nat
    BY <1>1
  <2> QED
    BY <2>1, FrontmatterEndIs DEF Prose
<1>6. ASSUME NEW i \in Prose(lines), Cardinality(LinksUpTo(lines, i)) <= MaxLinks,
             NEW l \in LinksIn(lines[i])
      PROVE  l \in ToSet(read.links)
  BY <1>3, <1>5, <1>6 DEF IsRead, Taken
<1> QED
  BY <1>2, <1>4, <1>6 DEF lines

-----------------------------------------------------------------------------
(* What graphsync knows of the notes                                       *)

\* The disk, what is still to be looked at, and the records of the two states.
Metas == [file : Files, size : Nat, mtime : Nat]
Records(files) ==
  /\ DOMAIN files \subseteq Files
  /\ \A f \in DOMAIN files : files[f].hash \in Contents /\ Len(files[f].edges) \in Nat
Known ==
  /\ edits \in Nat
  /\ disk \in [Files -> [hash : Contents \cup {NoHash}, mtime : Nat, access : {"open", "barred", "hidden"}]]
  /\ todo \in Seq(Metas)
  /\ Records(state.files) /\ Records(Loaded.files)

LEMMA NothingRecorded == Records(<<>>)
<1>1. DOMAIN <<>> = {}
  BY EmptySeq
<1> QED
  BY <1>1 DEF Records

LEMMA ValidIsSeq ==
  ASSUME NEW raw, Len(raw) \in Nat, NEW known, NEW batch
  PROVE  \E S : Validate(raw, known, batch) \in Seq(S)
<1> DEFINE N == Len(raw)
           New(n) == [source |-> known[raw[n].source], target |-> known[raw[n].target]]
           S == {New(n) : n \in 1..N}
           T == Seq(S)
           step == [p \in T \X (1..N) |-> Accept(p[1], raw[p[2]], known, batch)]
           Def(h) == [n \in 0..N |-> IF n = 0 THEN <<>> ELSE Accept(h[n - 1], raw[n], known, batch)]
           after == CHOOSE h : h = Def(h)
<1>1. N \in Nat /\ <<>> \in T
  BY EmptySeq
<1>2. ASSUME NEW s \in T, NEW n \in 1..N
      PROVE  Accept(s, raw[n], known, batch) \in T
  <2>1. Accept(s, raw[n], known, batch) \in {s, Append(s, New(n))}
    BY DEF Accept
  <2>2. New(n) \in S
    OBVIOUS
  <2> HIDE DEF S, New
  <2>3. Append(s, New(n)) \in T
    BY <2>2, AppendProperties
  <2> QED
    BY <2>1, <2>3
<1>3. step \in [T \X (1..N) -> T]
  <2> HIDE DEF T, N
  <2> QED
    BY <1>2
<1>4. PICK f \in [0..N -> T] : Takes(f, <<>>, step, N)
  <2> HIDE DEF N, T, step
  <2> QED
    BY <1>1, <1>3, StepsAreTaken
<1>5. f = Def(f)
  <2> HIDE DEF N, T
  <2>1. ASSUME NEW n \in 1..N
        PROVE  f[n] = Accept(f[n - 1], raw[n], known, batch)
    <3> DEFINE s == f[n - 1]
    <3>1. s \in T
      BY <1>1, <1>4
    <3>2. f[n] = step[<<s, n>>]
      BY <1>4 DEF Takes
    <3> HIDE DEF s
    <3>3. step[<<s, n>>] = Accept(s, raw[n], known, batch)
      BY <3>1
    <3> QED
      BY <3>2, <3>3 DEF s
  <2>2. f[0] = <<>>
    BY <1>4 DEF Takes
  <2> QED
    BY <1>1, <2>1, <2>2
<1>6. after = Def(after)
  <2> HIDE DEF Def
  <2> QED
    BY <1>5
<1> HIDE DEF after
<1>7. Validate(raw, known, batch) = after[N]
  BY DEF Validate, after
<1> DEFINE P == {n \in 0..N : after[n] \in T}
<1>8. 0 \in P
  <2> HIDE DEF T, N
  <2> QED
    BY <1>1, <1>6
<1>9. ASSUME NEW n \in 1..N, n - 1 \in P
      PROVE  n \in P
  <2>1. after[n] = Accept(after[n - 1], raw[n], known, batch)
    <3> HIDE DEF N, T
    <3> QED
      BY <1>1, <1>6
  <2>2. after[n - 1] \in T
    BY <1>9
  <2> HIDE DEF N, T
  <2> QED
    BY <1>1, <1>2, <2>1, <2>2
<1>10. N \in P
  <2>1. 0..N \subseteq P
    <3> HIDE DEF P, N
    <3> QED
      BY <1>1, <1>8, <1>9, UpToTheEnd
  <2>2. N \in 0..N
    <3> HIDE DEF N
    <3> QED
      BY <1>1
  <2> HIDE DEF P, N
  <2> QED
    BY <2>1, <2>2
<1> QED
  <2> HIDE DEF S
  <2> QED
    BY <1>7, <1>10

\* What is kept of an answer with a file can be gone through.
LEMMA TargetsAreSeq ==
  ASSUME NEW f, NEW raw, Len(raw) \in Nat, NEW known, NEW batch
  PROVE  Len(TargetsOf(f, Validate(raw, known, batch))) \in Nat
<1> DEFINE edges == Validate(raw, known, batch)
           mine == {e \in ToSet(edges) : e.source = f}
           own == Kept(edges, mine)
<1>1. PICK S : edges \in Seq(S)
  BY ValidIsSeq
<1> HIDE DEF edges
<1>2. own \in Seq(mine)
  <2> HIDE DEF mine
  <2> QED
    BY <1>1, KeptIsIn
<1>3. TargetsOf(f, edges) = [i \in DOMAIN own |-> own[i].target]
  BY DEF TargetsOf
<1> HIDE DEF own, mine
<1>4. Len(own) \in Nat /\ DOMAIN own = 1..Len(own)
  BY <1>2
<1>5. Len([i \in 1..Len(own) |-> own[i].target]) = Len(own)
  BY <1>4
<1> QED
  BY <1>3, <1>4, <1>5 DEF edges

LEMMA ReplyIsSeq ==
  ASSUME NEW child \in Children, NEW reply \in Reply(child)
  PROVE  Len(reply.raw) \in Nat
<1> DEFINE items == child.output.text.items
           Both == {e \in ToSet(items) : DOMAIN e = {"source", "target"}}
<1>1. items \in Seq([source : Nat, target : Nat] \cup [source : Nat])
  BY GraphSyncAssumption
<1>2. Kept(items, Both) \in Seq(Both)
  <2> DEFINE S == [source : Nat, target : Nat] \cup [source : Nat]
  <2>1. items \in Seq(S)
    BY <1>1
  <2> HIDE DEF S, Both, items
  <2> QED
    BY <2>1, KeptIsIn
<1>3. PICK a \in UNION {ParseCliOutput(o) : o \in RunCommand(child)} : reply.raw \in ParseEdges(a.text)
  BY DEF Reply
<1>4. PICK o \in RunCommand(child) : a \in ParseCliOutput(o)
  BY <1>3
<1>5. o = child.output
  BY <1>4 DEF RunCommand
<1>6. a.text = child.output.text
  BY <1>4, <1>5 DEF ParseCliOutput
<1>7. reply.raw = Kept(items, Both)
  BY <1>3, <1>6 DEF ParseEdges
<1> HIDE DEF Both, items
<1> QED
  BY <1>2, <1>7

LEMMA ListingIsKnown ==
  ASSUME Known, NEW found \in SUBSET {f \in Files : Seen(f)}
  PROVE  Listing(found) \in Seq(Metas)
<1> DEFINE files == Kept([f \in Files |-> f], found)
           Meta(f) == [file |-> f, size |-> Bodies[disk[f].hash].size, mtime |-> disk[f].mtime]
<1>1. files \in Seq(found)
  <2>1. [f \in Files |-> f] \in Seq(Files)
    <3>1. \A n \in Nat : [f \in 1..n |-> f] \in Seq(1..n)
      OBVIOUS
    <3> QED
      BY <3>1, FileFacts
  <2> QED
    BY <2>1, KeptIsIn
<1>2. Listing(found) = [i \in DOMAIN files |-> Meta(files[i])]
  BY DEF Listing
<1>3. ASSUME NEW f \in found
      PROVE  Meta(f) \in Metas
  <2>1. f \in Files /\ disk[f].hash \in Contents /\ disk[f].mtime \in Nat
    BY DEF Known, Seen
  <2>2. Bodies[disk[f].hash].size \in Nat
    <3> DEFINE Body == [size : Nat, lines : Seq(NoteLines)]
               hash == disk[f].hash
    <3>1. Bodies \in Seq(Body) /\ hash \in Contents
      BY <2>1, NotesAssumption
    <3> HIDE DEF Body, hash
    <3>2. hash \in 1..Len(Bodies)
      BY <3>1 DEF Contents
    <3>3. Bodies[hash] \in Body
      BY <3>1, <3>2, ElementOfSeq
    <3>4. Bodies[hash].size \in Nat
      BY <3>3 DEF Body
    <3> QED
      BY <3>4 DEF hash
  <2> QED
    BY <2>1, <2>2 DEF Metas
<1> HIDE DEF files, Meta
<1>4. Len(files) \in Nat /\ DOMAIN files = 1..Len(files) /\ \A i \in 1..Len(files) : files[i] \in found
  BY <1>1, ElementOfSeq
<1>5. \A i \in 1..Len(files) : Meta(files[i]) \in Metas
  BY <1>3, <1>4
<1>6. [i \in 1..Len(files) |-> Meta(files[i])] \in Seq(Metas)
  BY <1>4, <1>5
<1> QED
  BY <1>2, <1>4, <1>6

\* A step that leaves the notes and what is known of them.
LEMMA KnownSame ==
  ASSUME Known, UNCHANGED <<edits, disk, stored>>, todo' \in {todo, <<>>},
         state'.files \in {state.files, <<>>}
  PROVE  Known'
<1>1. Loaded' = Loaded
  BY DEF Loaded
<1>2. <<>> \in Seq(Metas)
  OBVIOUS
<1>3. Records(state'.files)
  BY NothingRecorded DEF Known
<1> QED
  BY <1>1, <1>2, <1>3 DEF Known

LEMMA EndsKnown ==
  ASSUME ProcessEnds
  PROVE  todo' = <<>> /\ state'.files = <<>>
BY DEF ProcessEnds, ScanIsOver, NewState

LEMMA EditKnown ==
  ASSUME Known, NEW f \in Files, NEW c \in Contents \cup {NoHash}, Edit(f, c)
  PROVE  Known'
<1>1. /\ edits' = edits + 1 /\ UNCHANGED <<todo, state, stored>>
      /\ disk' = [disk EXCEPT ![f] = [hash |-> c, mtime |-> edits + 1, access |-> "open"]]
  BY DEF Edit, written, process, scanning
<1>2. Loaded' = Loaded
  BY <1>1 DEF Loaded
<1> QED
  BY <1>1, <1>2 DEF Known

LEMMA BarKnown ==
  ASSUME Known, NEW f \in Files, NEW access \in {"open", "barred", "hidden"}, Bar(f, access)
  PROVE  Known'
<1>1. /\ edits' = edits + 1 /\ UNCHANGED <<todo, state, stored>>
      /\ disk' = [disk EXCEPT ![f].access = access]
  BY DEF Bar, written, process, scanning
<1>2. Loaded' = Loaded
  BY <1>1 DEF Loaded
<1> DEFINE Note == [hash : Contents \cup {NoHash}, mtime : Nat, access : {"open", "barred", "hidden"}]
           note == [disk[f] EXCEPT !.access = access]
<1>3. disk \in [Files -> Note] /\ disk' = [disk EXCEPT ![f] = note]
  BY <1>1 DEF Known
<1>4. note \in Note
  <2>1. disk[f] \in Note
    BY <1>3
  <2> QED
    BY <2>1
<1>5. disk' \in [Files -> Note]
  <2> HIDE DEF Note, note
  <2> QED
    BY <1>3, <1>4
<1> QED
  BY <1>1, <1>2, <1>5 DEF Known

LEMMA StartKnown ==
  ASSUME Known, NEW m \in Modes, Start(m)
  PROVE  Known'
<1>1. /\ UNCHANGED <<edits, disk, todo>> /\ state' = Loaded
      /\ stored' = IF stored = Unusable THEN Missing ELSE stored
  BY DEF Start, scanning
<1>2. Loaded' = Loaded
  BY <1>1 DEF Loaded
<1> QED
  BY <1>1, <1>2 DEF Known

LEMMA HandleKnown ==
  ASSUME IInv, Known, Handle
  PROVE  Known'
<1> DEFINE meta == Head(todo)
           f == meta.file
           files == state.files
           new == Record(meta)
<1>1. /\ todo # <<>> /\ todo' = Tail(todo) /\ UNCHANGED <<edits, disk, stored>>
      /\ \/ state' = state
         \/ Readable(f) /\ state' = [state EXCEPT !.files = With(@, f, new)]
  BY DEF Handle, written
<1>2. meta \in Metas /\ Tail(todo) \in Seq(Metas)
  BY <1>1, HeadTailProperties DEF Known
<1>3. f \in Files
  BY <1>2 DEF Metas
<1>4. Loaded' = Loaded
  BY <1>1 DEF Loaded
<1> HIDE DEF meta
<1>5. ASSUME Readable(f)
      PROVE  Records(With(files, f, new))
  <2>1. disk[f].hash \in Contents
    BY <1>3, <1>5 DEF Known, Readable
  <2>2. new.hash \in Contents /\ Len(new.edges) \in Nat
    <3> DEFINE old == files[f]
               hash == disk[f].hash
    <3>1. CASE f \in DOMAIN files /\ old.hash = hash
      <4>1. new = [old EXCEPT !.size = meta.size, !.mtime = meta.mtime]
        BY <3>1 DEF Record
      <4>2. IsNote(old)
        BY <3>1 DEF IInv, Types, IsState, Table
      <4> HIDE DEF old, new
      <4>3. new.hash = old.hash /\ new.edges = old.edges
        BY <4>1, <4>2 DEF IsNote
      <4> QED
        BY <3>1, <4>3 DEF Known, Records, old
    <3>2. CASE ~(f \in DOMAIN files /\ old.hash = hash)
      <4>1. new = [size |-> meta.size, mtime |-> meta.mtime, hash |-> hash, changed |-> at,
                   llmHash |-> IF f \in DOMAIN files THEN old.llmHash ELSE NoHash,
                   edges |-> IF f \in DOMAIN files THEN old.edges ELSE <<>>]
        BY <3>2 DEF Record
      <4>2. new.hash = hash /\ new.edges = IF f \in DOMAIN files THEN old.edges ELSE <<>>
        BY <4>1
      <4>3. Len(<<>>) \in Nat /\ (f \in DOMAIN files => Len(old.edges) \in Nat)
        BY DEF Known, Records
      <4> HIDE DEF old, new
      <4> QED
        BY <2>1, <4>2, <4>3
    <3> QED
      BY <3>1, <3>2
  <2>3. DOMAIN With(files, f, new) = DOMAIN files \cup {f}
    BY DEF With
  <2>4. \A g \in DOMAIN files \cup {f} :
          With(files, f, new)[g] = IF g = f THEN new ELSE files[g]
    BY DEF With
  <2> HIDE DEF f, new
  <2> QED
    BY <1>3, <2>2, <2>3, <2>4 DEF Known, Records
<1>6. Records(state'.files)
  <2>1. CASE state' = state
    BY <2>1 DEF Known
  <2>2. CASE Readable(f) /\ state' = [state EXCEPT !.files = With(@, f, new)]
    <3>1. state = [files |-> state.files, llm |-> state.llm]
      BY DEF IInv, Types, IsState
    <3>2. state'.files = With(files, f, new)
      <4> HIDE DEF f, new
      <4> QED
        BY <2>2, <3>1
    <3> QED
      BY <1>5, <2>2, <3>2
  <2> QED
    BY <1>1, <2>1, <2>2
<1> QED
  BY <1>1, <1>2, <1>4, <1>6 DEF Known

LEMMA EndScanKnown ==
  ASSUME IInv, Known, EndScan
  PROVE  Known'
<1>1. /\ todo' = <<>> /\ UNCHANGED <<edits, disk, stored>>
      /\ state' = [state EXCEPT !.files = [f \in DOMAIN @ \cap present |-> @[f]]]
  BY DEF EndScan, ScanIsOver, written
<1>2. Loaded' = Loaded /\ <<>> \in Seq(Metas)
  BY <1>1 DEF Loaded
<1>3. state = [files |-> state.files, llm |-> state.llm]
  BY DEF IInv, Types, IsState
<1>4. state'.files = [f \in DOMAIN state.files \cap present |-> state.files[f]]
  BY <1>1, <1>3
<1>5. Records(state'.files)
  BY <1>4 DEF Known, Records
<1> QED
  BY <1>1, <1>2, <1>5 DEF Known

LEMMA BookKnown ==
  ASSUME IInv, Known, NEW replies, NEW named, Book(replies, named), \A reply \in replies : Len(reply.raw) \in Nat
  PROVE  Known'
<1>1. UNCHANGED <<edits, disk, stored, todo>>
  BY DEF Book, written, scanning
<1>2. Loaded' = Loaded
  BY <1>1 DEF Loaded
<1>3. state = [files |-> state.files, llm |-> state.llm] /\ Table(state.files)
  BY DEF IInv, Types, IsState
<1>4. Records(state'.files)
  <2>1. CASE replies = {}
    <3>1. state' = [state EXCEPT !.llm = RecordFailure(@, call.now)]
      BY <2>1 DEF Book
    <3>2. state'.files = state.files
      BY <1>3, <3>1
    <3> QED
      BY <3>2 DEF Known
  <2>2. CASE replies # {}
    <3>1. PICK reply \in replies :
            state' = [files |-> [f \in DOMAIN state.files |->
                        IF Contains(call.batch, f)
                        THEN [state.files[f] EXCEPT
                                !.llmHash = state.files[f].hash,
                                !.edges = TargetsOf(f, Validate(reply.raw, call.known, call.batch))]
                        ELSE state.files[f]],
                      llm |-> RecordSuccess(state.llm, call.now, reply.cost)]
      BY <2>2 DEF Book
    <3>2. DOMAIN state'.files = DOMAIN state.files
      BY <3>1
    <3>3. ASSUME NEW f \in DOMAIN state.files
          PROVE  state'.files[f].hash \in Contents /\ Len(state'.files[f].edges) \in Nat
      <4> DEFINE targets == TargetsOf(f, Validate(reply.raw, call.known, call.batch))
                 old == state.files[f]
      <4>1. Len(targets) \in Nat
        BY TargetsAreSeq
      <4>2. IsNote(old) /\ old.hash \in Contents /\ Len(old.edges) \in Nat
        BY <1>3 DEF Table, Known, Records
      <4>3. CASE Contains(call.batch, f)
        <5>1. state'.files[f] = [old EXCEPT !.llmHash = old.hash, !.edges = targets]
          BY <3>1, <4>3
        <5> HIDE DEF targets, old
        <5>2. state'.files[f].hash = old.hash /\ state'.files[f].edges = targets
          BY <4>2, <5>1 DEF IsNote
        <5> QED
          BY <4>1, <4>2, <5>2
      <4>4. CASE ~Contains(call.batch, f)
        <5>1. state'.files[f] = old
          BY <3>1, <4>4
        <5> QED
          BY <4>2, <5>1
      <4> QED
        BY <4>3, <4>4
    <3> QED
      BY <3>2, <3>3 DEF Known, Records
  <2> QED
    BY <2>1, <2>2
<1> QED
  BY <1>1, <1>2, <1>4 DEF Known

LEMMA AskNothingKnown ==
  ASSUME IInv, Known, AskNothing
  PROVE  Known'
<1> DEFINE llm == RollDay(state.llm, Day(clock))
           s == IF mode.llm THEN [state EXCEPT !.llm = llm] ELSE state
<1>1. /\ UNCHANGED <<edits, disk, stored>>
      /\ \/ state' = s /\ UNCHANGED scanning
         \/ EndTurn(s)
  BY DEF AskNothing, written
<1>2. s.files = state.files
  <2>1. state = [files |-> state.files, llm |-> state.llm]
    BY DEF IInv, Types, IsState
  <2> QED
    BY <2>1
<1>3. (state' = s /\ UNCHANGED scanning) \/ ProcessEnds
  BY <1>1 DEF EndTurn
<1> HIDE DEF s
<1>4. todo' \in {todo, <<>>} /\ state'.files \in {state.files, <<>>}
  BY <1>2, <1>3, EndsKnown DEF scanning
<1> QED
  BY <1>1, <1>4, KnownSame

LEMMA SaveKnown ==
  ASSUME IInv, Known, SaveState
  PROVE  Known'
<1>1. /\ UNCHANGED <<edits, disk>> /\ (stored' = state \/ UNCHANGED stored)
      /\ ((state' = state /\ UNCHANGED scanning) \/ ProcessEnds)
  BY DEF SaveState, EndTurn
<1>2. todo' \in {todo, <<>>} /\ state'.files \in {state.files, <<>>}
  BY <1>1, EndsKnown DEF scanning
<1>3. Records(state'.files) /\ <<>> \in Seq(Metas)
  BY <1>2, NothingRecorded DEF Known
<1>4. Records(Loaded'.files)
  <2>1. CASE UNCHANGED stored
    BY <2>1 DEF Known, Loaded
  <2>2. CASE stored' = state
    <3>1. NewState.files = <<>>
      BY DEF NewState
    <3>2. Loaded' = state \/ Loaded' = NewState
      BY <2>2 DEF Loaded
    <3> QED
      BY <3>1, <3>2, NothingRecorded DEF Known
  <2> QED
    BY <1>1, <2>1, <2>2
<1> QED
  BY <1>1, <1>2, <1>3, <1>4 DEF Known

LEMMA KnownStarts == Init => Known
<1> SUFFICES ASSUME Init PROVE Known
  OBVIOUS
<1>1. edits = 0 /\ todo = <<>> /\ state = NewState /\ stored \in {Missing, Unusable}
  BY DEF Init
<1>2. PICK d \in Disks : disk = [f \in Files |-> [hash |-> d[f], mtime |-> 0, access |-> "open"]]
  BY DEF Init
<1>3. d \in [Files -> Contents \cup {NoHash}]
  BY GraphSyncAssumption
<1>4. disk \in [Files -> [hash : Contents \cup {NoHash}, mtime : Nat, access : {"open", "barred", "hidden"}]]
  BY <1>2, <1>3
<1>5. Loaded = NewState /\ NewState.files = <<>> /\ <<>> \in Seq(Metas)
  BY <1>1 DEF Loaded, NewState
<1> QED
  BY <1>1, <1>4, <1>5, NothingRecorded DEF Known

LEMMA KnownStays == IInv /\ Known /\ [Next]_vars => Known'
<1> SUFFICES ASSUME IInv, Known, [Next]_vars PROVE Known'
  OBVIOUS
<1> USE DEF written, process, scanning
<1>1. CASE Tick
  BY <1>1, KnownSame DEF Tick
<1>2. CASE Terminate
  BY <1>2, KnownSame, EndsKnown DEF Terminate
<1>3. CASE Kill
  BY <1>3, KnownSame, EndsKnown DEF Kill
<1>4. ASSUME NEW f \in Files, NEW c \in Contents \cup {NoHash}, Edit(f, c)
      PROVE  Known'
  BY <1>4, EditKnown
<1>5. ASSUME NEW f \in Files, NEW access \in {"open", "barred", "hidden"}, Bar(f, access)
      PROVE  Known'
  BY <1>5, BarKnown
<1>6. ASSUME NEW m \in Modes, Start(m)
      PROVE  Known'
  BY <1>6, StartKnown
<1>7. CASE Scan
  <2>1. PICK found \in SUBSET {f \in Files : Seen(f)} : todo' = Listing(found)
    BY <1>7 DEF Scan
  <2>2. UNCHANGED <<edits, disk, stored, state>>
    BY <1>7 DEF Scan
  <2>3. Loaded' = Loaded
    BY <2>2 DEF Loaded
  <2>4. todo' \in Seq(Metas)
    BY <2>1, ListingIsKnown
  <2> QED
    BY <2>2, <2>3, <2>4 DEF Known
<1>8. CASE Handle
  BY <1>8, HandleKnown
<1>9. CASE EndScan
  BY <1>9, EndScanKnown
<1>10. CASE AskNothing
  BY <1>10, AskNothingKnown
<1>11. CASE Ask
  <2>1. /\ UNCHANGED <<edits, disk, stored, todo>>
        /\ state' = [state EXCEPT !.llm = RollDay(state.llm, Day(clock))]
    BY <1>11 DEF Ask
  <2>2. state = [files |-> state.files, llm |-> state.llm]
    BY DEF IInv, Types, IsState
  <2>3. state'.files = state.files
    BY <2>1, <2>2
  <2> QED
    BY <2>1, <2>3, KnownSame
<1>12. ASSUME NEW child \in Children, Answer(child)
       PROVE  Known'
  BY <1>12, BookKnown, ReplyIsSeq DEF Answer
<1>13. CASE TimeOut
  BY <1>13, BookKnown DEF TimeOut
<1>14. CASE WriteOutput
  BY <1>14, KnownSame DEF WriteOutput
<1>15. CASE SaveState
  BY <1>15, SaveKnown
<1>16. CASE Wake
  BY <1>16, KnownSame DEF Wake
<1>17. CASE UNCHANGED vars
  BY <1>17, KnownSame DEF vars
<1> QED
  BY <1>1, <1>2, <1>3, <1>4, <1>5, <1>6, <1>7, <1>8, <1>9, <1>10, <1>11, <1>12, <1>13, <1>14,
     <1>15, <1>16, <1>17 DEF Next, Turn

LEMMA KnownIsStrongest ==
  ASSUME IInv, Known
  PROVE  StrongestFirst
<1> DEFINE LinkMeans(a, b) ==
             LET lines == Bodies[state.files[a].hash].lines
             IN  \E i \in Prose(lines) :
                   /\ Cardinality(LinksUpTo(lines, i)) <= MaxLinks
                   /\ \E l \in LinksIn(lines[i]) : b \in Resolve(a, l, state.files)
<1> SUFFICES ASSUME pc = "save", ~stale, NEW a \in DOMAIN state.files, NEW b \in DOMAIN state.files, a # b
             PROVE  /\ LinkMeans(a, b) => JoinedBy(out.edges, a, b, {"links"}) \/ FullOf(out.edges, {"links"})
                    /\ Contains(state.files[a].edges, b)
                       => JoinedBy(out.edges, a, b, {"links", "llm"}) \/ FullOf(out.edges, {"links", "llm"})
  BY DEF StrongestFirst
<1> DEFINE view == [f \in DOMAIN state.files |->
                      [hash |-> state.files[f].hash, edges |-> state.files[f].edges]]
           edges == Build(view).edges
<1>1. out.edges = edges
  BY DEF IInv, Output, Fits, Graph
<1>2. /\ DOMAIN view = DOMAIN state.files
      /\ \A f \in DOMAIN view : view[f].hash = state.files[f].hash /\ view[f].edges = state.files[f].edges
  OBVIOUS
<1> HIDE DEF view
<1>3. Readings(view)
  <2>1. \A f \in DOMAIN view : view[f].hash \in Contents
    BY <1>2 DEF Known, Records
  <2> QED
    BY <1>2, <2>1, LinksAreExtracted DEF Readings, Known, Records
<1> HIDE DEF edges
<1>4. /\ b \in Linked(view, a)
             => JoinedBy(edges, a, b, {"links"}) \/ FullOf(edges, {"links"})
      /\ Contains(view[a].edges, b)
             => JoinedBy(edges, a, b, {"links", "llm"}) \/ FullOf(edges, {"links", "llm"})
  BY <1>2, <1>3, BuildSettles DEF edges
<1>5. ASSUME LinkMeans(a, b)
      PROVE  b \in Linked(view, a)
  <2> DEFINE hash == state.files[a].hash
             lines == Bodies[hash].lines
             links == Extracted[hash].links
             to == [n \in 1..Len(links) |-> Resolve(a, links[n], view)]
  <2>1. hash \in Contents /\ view[a].hash = hash
    BY <1>2 DEF Known, Records
  <2>2. PICK i \in Prose(lines) :
          /\ Cardinality(LinksUpTo(lines, i)) <= MaxLinks
          /\ \E l \in LinksIn(lines[i]) : b \in Resolve(a, l, state.files)
    BY <1>5
  <2>3. PICK l \in LinksIn(lines[i]) : b \in Resolve(a, l, state.files)
    BY <2>2
  <2>4. Linked(view, a) = AllOf(to, Len(links))
    BY <2>1 DEF Linked
  <2> HIDE DEF hash
  <2>5. \A j \in Prose(lines) : Cardinality(LinksUpTo(lines, j)) <= MaxLinks =>
          \A k \in LinksIn(lines[j]) : \E n \in 1..Len(links) : links[n] = k
    BY <2>1, LinksAreExtracted
  <2>6. PICK n \in 1..Len(links) : links[n] = l
    BY <2>2, <2>5
  <2>7. b \in to[n]
    BY <1>2, <2>3, <2>6, ResolveSame
  <2> HIDE DEF to, links
  <2> QED
    BY <2>4, <2>6, <2>7 DEF AllOf
<1> HIDE DEF LinkMeans
<1> QED
  BY <1>1, <1>2, <1>4, <1>5

\* For any notes and any limits: whatever is edited, asked, killed or lost, a link in a note,
\* as far as the note's links are taken, is in the graph before an edge of the KI, and that
\* before a common term; only where there is no room for more is one missing.
THEOREM LinksComeFirst == Spec => []StrongestFirst
<1>1. IInv /\ Known => StrongestFirst
  BY KnownIsStrongest
<1> QED
  BY <1>1, AlwaysSound, KnownStarts, KnownStays, PTL DEF Spec
=============================================================================
