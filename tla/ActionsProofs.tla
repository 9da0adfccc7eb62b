--------------------------- MODULE ActionsProofs ---------------------------
(***************************************************************************)
(* What the action subsystem keeps whatever the order in which sessions    *)
(* reach the rate limit, the self filter and the audit log, for any number *)
(* of attempts and targets and any limits: IInv is inductive and implies   *)
(* the invariants of Actions.                                              *)
(***************************************************************************)
EXTENDS Actions, TLAPS, NaturalsInduction, WellFoundedInduction, SequenceTheorems,
        FiniteSetTheorems, FunctionTheorems

Elems(seq) == {seq[i] : i \in 1..Len(seq)}

\* What an attempt carries and has left behind fits its stage.
Begun ==
  \A r \in Attempts :
    /\ at[r] <= clock
    /\ stage[r] = "none" => r \notin passed
    /\ stage[r] # "none" => target[r] \in Targets
    /\ stage[r] \in {"cleared", "entered", "acting"} => r \in passed

HadEffect ==
  /\ effects \subseteq passed
  /\ \A r \in Attempts, line \in {OwnLine, SystemdLine} : <<r, line>> \in leaked => r \in effects

\* The ways in which the entry of attempt r may be missing from the self filter.
Replaced(r) == r \in displaced \cup shortened
Covered(r) ==
  \/ Replaced(r)
  \/ target[r] \in DOMAIN filter /\ filter[target[r]] >= at[r] + FilterWindow
  \/ clock >= at[r] + FilterWindow

\* From the entry on, an attempt that may have an effect is covered.
AreCovered ==
  \A r \in Attempts : stage[r] \in {"entered", "acting"} \/ r \in effects => Covered(r)

\* An attempt that was let through and lies within the window is on record,
\* and no record has more attempts than may pass.
OnRecord ==
  /\ \A r \in passed :
       r \notin forgotten /\ clock - at[r] < Window =>
         target[r] \in DOMAIN limits /\ r \in Elems(limits[target[r]])
  /\ \A t \in DOMAIN limits : Len(limits[t]) <= MaxActions

IInv ==
  /\ TypeOK /\ EffectsReachTheLog /\ Begun /\ HadEffect
  /\ AreCovered /\ OwnLinesAreFiltered /\ OnRecord

-----------------------------------------------------------------------------
(* Records of a target                                                     *)

\* A set of numbers has a least one.
LEMMA LeastExists ==
  ASSUME NEW T \in SUBSET Nat, T # {}
  PROVE  \E x \in T : \A y \in T : x <= y
<1> DEFINE Less == {pair \in Nat \X Nat : pair[1] < pair[2]}
<1>1. IsWellFoundedOn(Less, Nat)
  BY NatLessThanWellFounded DEF OpToRel
<1>2. PICK x \in T : \A y \in T : <<y, x>> \notin Less
  <2> HIDE DEF Less
  <2> QED
    BY <1>1, WFMin
<1>3. ASSUME NEW y \in T
      PROVE  x <= y
  <2>1. x \in Nat /\ y \in Nat /\ <<y, x>> \notin Less
    BY <1>2
  <2>2. <<y, x>> \in Nat \X Nat /\ <<y, x>>[1] = y /\ <<y, x>>[2] = x
    BY <2>1
  <2>3. ~(y < x)
    BY <2>1, <2>2
  <2> QED
    BY <2>1, <2>3
<1> QED
  BY <1>2, <1>3

\* Appending adds one element behind the others.
LEMMA AppendElems ==
  ASSUME NEW S, NEW seq \in Seq(S), NEW x \in S
  PROVE  /\ Append(seq, x) \in Seq(S)
         /\ Len(Append(seq, x)) = Len(seq) + 1
         /\ Elems(Append(seq, x)) = Elems(seq) \cup {x}
<1>1. /\ Append(seq, x) \in Seq(S)
      /\ Len(Append(seq, x)) = Len(seq) + 1
      /\ \A i \in 1..Len(seq) : Append(seq, x)[i] = seq[i]
      /\ Append(seq, x)[Len(seq) + 1] = x
  BY AppendProperties
<1>2. Len(seq) \in Nat
  BY LenProperties
<1>3. \A i : i \in 1..(Len(seq) + 1) <=> i \in 1..Len(seq) \/ i = Len(seq) + 1
  BY <1>2
<1> QED
  BY <1>1, <1>3 DEF Elems

\* The function kept of Kept up to n: it exists, as one for n - 1 can be extended.
KeptUpTo(f, n, seq, set) ==
  /\ f[0] = <<>>
  /\ \A i \in 1..n : f[i] = IF seq[i] \in set THEN Append(f[i - 1], seq[i]) ELSE f[i - 1]

LEMMA KeptExists ==
  ASSUME NEW S, NEW seq \in Seq(S), NEW set, NEW n \in 0..Len(seq)
  PROVE  \E f \in [0..n -> Seq(S)] : KeptUpTo(f, n, seq, set)
<1> DEFINE Ok(m) == \E f \in [0..m -> Seq(S)] : KeptUpTo(f, m, seq, set)
           Bad == {m \in 0..Len(seq) : ~Ok(m)}
<1>0. Len(seq) \in Nat
  BY LenProperties
<1> SUFFICES ASSUME Bad # {} PROVE FALSE
  BY <1>0
<1>1. PICK m \in Bad : \A y \in Bad : m <= y
  <2>1. Bad \in SUBSET Nat
    BY <1>0
  <2> QED
    BY <2>1, LeastExists
<1>2. m \in Nat /\ m \in 0..Len(seq) /\ ~Ok(m)
  BY <1>0, <1>1
<1>3. m # 0
  <2> DEFINE f == [i \in 0..0 |-> <<>>]
  <2>1. f \in [0..0 -> Seq(S)] /\ KeptUpTo(f, 0, seq, set)
    BY EmptySeq DEF KeptUpTo
  <2>2. Ok(0)
    BY <2>1
  <2> QED
    BY <1>2, <2>2
<1>4. m - 1 \in 0..Len(seq) /\ m - 1 \in Nat /\ Ok(m - 1)
  <2>1. m - 1 \in 0..Len(seq) /\ ~(m <= m - 1)
    BY <1>0, <1>2, <1>3
  <2>2. m - 1 \notin Bad
    BY <1>1, <2>1
  <2> QED
    BY <2>1, <2>2, <1>2, <1>3
<1>5. PICK f \in [0..(m - 1) -> Seq(S)] : KeptUpTo(f, m - 1, seq, set)
  BY <1>4
<1> DEFINE last == IF seq[m] \in set THEN Append(f[m - 1], seq[m]) ELSE f[m - 1]
           g == [i \in 0..m |-> IF i = m THEN last ELSE f[i]]
<1>6. last \in Seq(S)
  <2>1. f[m - 1] \in Seq(S)
    BY <1>4, <1>5
  <2>2. seq[m] \in S
    BY <1>2, <1>3, ElementOfSeq
  <2> QED
    BY <2>1, <2>2, AppendProperties
<1>7. g \in [0..m -> Seq(S)]
  BY <1>2, <1>5, <1>6
<1>8. KeptUpTo(g, m, seq, set)
  <2>1. g[0] = <<>>
    BY <1>2, <1>3, <1>5 DEF KeptUpTo
  <2>2. ASSUME NEW i \in 1..m
        PROVE  g[i] = IF seq[i] \in set THEN Append(g[i - 1], seq[i]) ELSE g[i - 1]
    <3>1. g[i - 1] = f[i - 1]
      BY <1>2
    <3>2. CASE i = m
      BY <1>2, <3>1, <3>2
    <3>3. CASE i # m
      <4>1. i \in 1..(m - 1) /\ g[i] = f[i]
        BY <1>2, <3>3
      <4> QED
        BY <1>5, <3>1, <4>1 DEF KeptUpTo
    <3> QED
      BY <3>2, <3>3
  <2> QED
    BY <2>1, <2>2 DEF KeptUpTo
<1>9. Ok(m)
  BY <1>7, <1>8
<1> QED
  BY <1>2, <1>9

\* What Kept keeps: the elements of seq in the set, and never more of them.
LEMMA KeptFacts ==
  ASSUME NEW S, NEW seq \in Seq(S), NEW set
  PROVE  /\ Kept(seq, set) \in Seq(S)
         /\ Len(Kept(seq, set)) <= Len(seq)
         /\ Elems(Kept(seq, set)) = Elems(seq) \cap set
<1> DEFINE N == Len(seq)
           Def(h) == [n \in 0..N |->
                        IF n = 0 THEN <<>>
                        ELSE IF seq[n] \in set THEN Append(h[n - 1], seq[n]) ELSE h[n - 1]]
           kept == CHOOSE h : h = Def(h)
           Upto(n) == {seq[i] : i \in 1..n}
           Good(n) == /\ kept[n] \in Seq(S) /\ Len(kept[n]) <= n
                      /\ Elems(kept[n]) = Upto(n) \cap set
           Bad == {n \in 0..N : ~Good(n)}
<1>0. N \in Nat
  BY LenProperties
<1>1. kept = Def(kept)
  <2>1. PICK f \in [0..N -> Seq(S)] : KeptUpTo(f, N, seq, set)
    <3>1. N \in 0..Len(seq)
      BY <1>0
    <3> QED
      BY <3>1, KeptExists
  <2>2. f = Def(f)
    <3>1. ASSUME NEW n \in 0..N
          PROVE  f[n] = Def(f)[n]
      <4>1. CASE n = 0
        BY <2>1, <4>1 DEF KeptUpTo
      <4>2. CASE n # 0
        <5>1. n \in 1..N
          BY <1>0, <4>2
        <5> QED
          BY <2>1, <4>2, <5>1 DEF KeptUpTo
      <4> QED
        BY <4>1, <4>2
    <3> QED
      BY <2>1, <3>1
  <2> HIDE DEF Def
  <2> QED
    BY <2>2
<1>2. Kept(seq, set) = kept[N]
  BY DEF Kept
<1>3. kept[0] = <<>>
  <2>1. 0 \in 0..N
    BY <1>0
  <2> HIDE DEF kept
  <2> QED
    BY <1>1, <2>1
<1>4. ASSUME NEW n \in 1..N
      PROVE  kept[n] = IF seq[n] \in set THEN Append(kept[n - 1], seq[n]) ELSE kept[n - 1]
  <2>1. n \in 0..N /\ n # 0
    BY <1>0
  <2> HIDE DEF kept
  <2> QED
    BY <1>1, <2>1
<1> HIDE DEF kept
<1>5. Bad = {}
  <2> SUFFICES ASSUME Bad # {} PROVE FALSE
    OBVIOUS
  <2>1. PICK n \in Bad : \A y \in Bad : n <= y
    <3>1. Bad \in SUBSET Nat
      BY <1>0
    <3> QED
      BY <3>1, LeastExists
  <2>2. n \in Nat /\ n \in 0..N /\ ~Good(n)
    BY <1>0, <2>1
  <2>3. n # 0
    <3>1. Upto(0) = {} /\ Elems(<<>>) = {}
      BY DEF Elems
    <3>2. Good(0)
      BY <1>3, <3>1, EmptySeq
    <3> QED
      BY <2>2, <3>2
  <2>4. n - 1 \in 0..N /\ n \in 1..N /\ Good(n - 1)
    <3>1. n - 1 \in 0..N /\ n \in 1..N /\ ~(n <= n - 1)
      BY <1>0, <2>2, <2>3
    <3>2. n - 1 \notin Bad
      BY <2>1, <3>1
    <3> QED
      BY <3>1, <3>2
  <2>5. Upto(n) = Upto(n - 1) \cup {seq[n]}
    <3>1. \A i : i \in 1..n <=> i \in 1..(n - 1) \/ i = n
      BY <2>2, <2>3
    <3> QED
      BY <3>1
  <2>6. seq[n] \in S
    BY <2>4, ElementOfSeq
  <2>7. CASE seq[n] \in set
    <3> DEFINE prev == kept[n - 1]
    <3>1. kept[n] = Append(prev, seq[n])
      BY <1>4, <2>4, <2>7
    <3>2. prev \in Seq(S) /\ Len(prev) <= n - 1 /\ Elems(prev) = Upto(n - 1) \cap set
      BY <2>4
    <3>3. Len(prev) \in Nat
      BY <3>2, LenProperties
    <3> HIDE DEF prev
    <3>4. /\ Append(prev, seq[n]) \in Seq(S) /\ Len(Append(prev, seq[n])) = Len(prev) + 1
          /\ Elems(Append(prev, seq[n])) = Elems(prev) \cup {seq[n]}
      BY <2>6, <3>2, AppendElems
    <3>5. Elems(prev) \cup {seq[n]} = Upto(n) \cap set
      <4> HIDE DEF Upto
      <4> QED
        BY <2>5, <2>7, <3>2
    <3>6. Len(prev) + 1 <= n
      BY <2>2, <3>2, <3>3
    <3>7. Good(n)
      <4> HIDE DEF Upto
      <4> QED
        BY <3>1, <3>4, <3>5, <3>6
    <3> QED
      BY <2>2, <3>7
  <2>8. CASE seq[n] \notin set
    <3> DEFINE prev == kept[n - 1]
    <3>1. kept[n] = prev
      BY <1>4, <2>4, <2>8
    <3>2. prev \in Seq(S) /\ Len(prev) <= n - 1 /\ Elems(prev) = Upto(n - 1) \cap set
      BY <2>4
    <3>3. Len(prev) \in Nat
      BY <3>2, LenProperties
    <3>4. Elems(prev) = Upto(n) \cap set
      <4> HIDE DEF Upto, prev
      <4> QED
        BY <2>5, <2>8, <3>2
    <3>5. Len(prev) <= n
      BY <2>2, <3>2, <3>3
    <3>6. Good(n)
      <4> HIDE DEF Upto, prev
      <4> QED
        BY <3>1, <3>2, <3>4, <3>5
    <3> QED
      BY <2>2, <3>6
  <2> QED
    BY <2>7, <2>8
<1>6. Good(N)
  <2>1. N \in 0..N
    BY <1>0
  <2> HIDE DEF Good
  <2> QED
    BY <1>5, <2>1
<1>7. Upto(N) = Elems(seq)
  BY DEF Elems
<1> QED
  BY <1>2, <1>6, <1>7

\* A sequence has at most as many elements as places.
LEMMA ElemsBound ==
  ASSUME NEW S, NEW seq \in Seq(S)
  PROVE  IsFiniteSet(Elems(seq)) /\ Cardinality(Elems(seq)) <= Len(seq)
<1>1. Len(seq) \in Nat /\ seq \in [1..Len(seq) -> S]
  BY LenProperties
<1>2. seq \in Surjection(1..Len(seq), Elems(seq))
  BY <1>1 DEF Elems, Surjection
<1>3. IsFiniteSet(1..Len(seq)) /\ Cardinality(1..Len(seq)) = Len(seq)
  <2>1. /\ IsFiniteSet(1..Len(seq))
        /\ Cardinality(1..Len(seq)) = IF 1 > Len(seq) THEN 0 ELSE Len(seq) - 1 + 1
    BY <1>1, 1 \in Int, Len(seq) \in Int, FS_Interval
  <2> QED
    BY <1>1, <2>1
<1> QED
  BY <1>2, <1>3, FS_Surjection

-----------------------------------------------------------------------------
(* Types and sizes                                                         *)

\* A map that makes room before a key enters stays within its size.
LEMMA RoomSuffices ==
  ASSUME NEW map, NEW key, NEW size \in Nat \ {0}, NEW rank,
         IsFiniteSet(DOMAIN map), Cardinality(DOMAIN map) <= size,
         NEW gone \in Room(map, key, size, rank)
  PROVE  /\ gone \subseteq DOMAIN map
         /\ Cardinality((DOMAIN map \ gone) \cup {key}) <= size
<1> DEFINE D == DOMAIN map
<1>0. Cardinality(D) \in Nat
  BY FS_CardinalityType
<1>1. CASE key \in D \/ Cardinality(D) < size
  <2>1. gone = {}
    BY <1>1 DEF Room
  <2>2. Cardinality(D \cup {key}) = IF key \in D THEN Cardinality(D) ELSE Cardinality(D) + 1
    BY FS_AddElement
  <2> QED
    BY <1>0, <1>1, <2>1, <2>2
<1>2. CASE ~(key \in D \/ Cardinality(D) < size)
  <2>1. PICK k \in D : gone = {k}
    BY <1>2 DEF Room
  <2>2. IsFiniteSet(D \ {k}) /\ Cardinality(D \ {k}) = Cardinality(D) - 1
    BY FS_RemoveElement
  <2>3. /\ key \notin D \ {k}
        /\ Cardinality((D \ {k}) \cup {key}) = Cardinality(D \ {k}) + 1
    BY <1>2, <2>2, FS_AddElement
  <2> QED
    BY <1>0, <2>1, <2>2, <2>3
<1> QED
  BY <1>1, <1>2

LEMMA TargetsFinite == IsFiniteSet(Targets)
BY ActionsAssumption, FS_Union DEF Targets

\* What counts for an attempt are attempts of the record that are recent for it.
LEMMA RecentFacts ==
  ASSUME NEW r \in Attempts, NEW seq \in Seq(Attempts)
  PROVE  /\ Recent(r, seq) \in Seq(Attempts)
         /\ Len(Recent(r, seq)) \in Nat
         /\ Len(Recent(r, seq)) <= Len(seq)
         /\ Elems(Recent(r, seq)) = {s \in Elems(seq) : s \in Attempts /\ Elapsed(r, s) < Window}
<1>1. /\ Recent(r, seq) \in Seq(Attempts)
      /\ Len(Recent(r, seq)) <= Len(seq)
      /\ Elems(Recent(r, seq)) = Elems(seq) \cap Fresh(r)
  BY KeptFacts DEF Recent
<1> QED
  BY <1>1, LenProperties DEF Fresh

\* The record CheckRateLimit starts from.
Prior(known, t) == IF t \in DOMAIN known THEN known[t] ELSE <<>>

LEMMA PriorIsRecord ==
  ASSUME TypeOK, NEW gone, NEW t
  PROVE  Prior(Without(limits, gone), t) \in Seq(Attempts)
BY EmptySeq DEF Prior, Without, TypeOK

LEMMA RetryIsNat ==
  ASSUME TypeOK, NEW r \in Attempts, NEW seq \in Seq(Attempts)
  PROVE  LET recent == Recent(r, seq)
         IN  (Window - Elapsed(r, IF recent = <<>> THEN r ELSE recent[1])) \div Second \in Nat
<1> DEFINE recent == Recent(r, seq)
           oldest == IF recent = <<>> THEN r ELSE recent[1]
<1>1. oldest \in Attempts /\ Elapsed(r, oldest) <= Window
  <2>1. CASE recent = <<>>
    <3>1. Elapsed(r, r) = 0
      BY DEF TypeOK, Elapsed
    <3> QED
      BY <2>1, <3>1, ActionsAssumption
  <2>2. CASE recent # <<>>
    <3>1. recent \in Seq(Attempts)
      BY RecentFacts
    <3>2. 1 \in 1..Len(recent)
      BY <2>2, <3>1, EmptySeq
    <3>3. recent[1] \in Elems(recent)
      BY <3>2 DEF Elems
    <3>4. recent[1] \in Attempts /\ Elapsed(r, recent[1]) < Window
      BY <3>3, RecentFacts
    <3>5. Elapsed(r, recent[1]) \in Int
      BY <3>4 DEF Elapsed, TypeOK
    <3> QED
      BY <2>2, <3>4, <3>5, ActionsAssumption
  <2> QED
    BY <2>1, <2>2
<1>2. Elapsed(r, oldest) \in Int
  BY <1>1 DEF Elapsed, TypeOK
<1> HIDE DEF oldest
<1> DEFINE left == Window - Elapsed(r, oldest)
<1>3. left \in Nat
  BY <1>1, <1>2, ActionsAssumption
<1> HIDE DEF left
<1>4. left \div Second \in Nat
  BY <1>3, ActionsAssumption
<1> QED
  BY <1>4 DEF left, oldest

LEMMA TypesInit == Init => TypeOK
<1> SUFFICES ASSUME Init PROVE TypeOK
  OBVIOUS
<1>1. DOMAIN limits = {} /\ DOMAIN filter = {}
  BY DEF Init
<1>2. Cardinality(DOMAIN limits) <= MaxKeys /\ Cardinality(DOMAIN filter) <= MaxFilter
  BY <1>1, FS_EmptySet, ActionsAssumption
<1> QED
  BY <1>1, <1>2 DEF Init, TypeOK, Stages

LEMMA FilterTypes ==
  ASSUME TypeOK, NEW r \in Attempts, target[r] \in Targets, NEW until \in Nat,
         Suppress(r, until)
  PROVE  /\ DOMAIN filter' \subseteq Targets /\ Cardinality(DOMAIN filter') <= MaxFilter
         /\ \A t \in DOMAIN filter' : filter'[t] \in Nat
         /\ displaced' \subseteq passed /\ shortened' \subseteq passed
<1> DEFINE key == target[r]
<1>1. PICK gone \in Room(filter, key, MaxFilter, filter) :
        /\ filter' = [k \in (DOMAIN filter \ gone) \cup {key} |->
                        IF k = key THEN until ELSE [l \in DOMAIN filter \ gone |-> filter[l]][k]]
        /\ displaced' = displaced \cup {s \in Entered : target[s] \in gone}
        /\ shortened' = shortened \cup {s \in Entered : target[s] = key /\ at[r] < at[s]}
  BY DEF Suppress, With, Without
<1>2. IsFiniteSet(DOMAIN filter)
  BY TargetsFinite, FS_Subset DEF TypeOK
<1>3. /\ gone \subseteq DOMAIN filter
      /\ Cardinality((DOMAIN filter \ gone) \cup {key}) <= MaxFilter
  BY <1>2, RoomSuffices, ActionsAssumption DEF TypeOK
<1>4. DOMAIN filter' = (DOMAIN filter \ gone) \cup {key}
  BY <1>1
<1>5. displaced' \subseteq passed /\ shortened' \subseteq passed
  BY <1>1 DEF Entered, TypeOK
<1> QED
  BY <1>1, <1>3, <1>4, <1>5 DEF TypeOK

LEMMA TypesStep ==
  ASSUME IInv, [Next]_vars
  PROVE  TypeOK'
<1> USE DEF settings, attemptVars, history
<1>0. TypeOK /\ Begun
  BY DEF IInv
<1>1. CASE Tick
  BY <1>0, <1>1 DEF TypeOK, Tick
<1>2. CASE EndProcess
  BY <1>0, <1>2 DEF TypeOK, EndProcess, Stages
<1>3. ASSUME NEW r \in Attempts, NEW t \in Targets, Ask(r, t)
      PROVE  TypeOK'
  BY <1>0, <1>3 DEF TypeOK, Ask, Stages
<1>4. ASSUME NEW r \in Attempts, Deny(r) \/ DryRun(r) \/ Audit(r) \/ Answer(r)
      PROVE  TypeOK'
  BY <1>0, <1>4 DEF TypeOK, Deny, DryRun, Audit, Answer, Stages
<1>5. ASSUME NEW r \in Attempts, CheckRateLimit(r)
      PROVE  TypeOK'
  <2> DEFINE t == target[r]
  <2>1. PICK gone \in Room(limits, t, MaxKeys, LastAttempt) :
          LET known  == Without(limits, gone)
              recent == Recent(r, Prior(known, t))
              full   == UsedUp(recent)
              left   == Window - Elapsed(r, IF recent = <<>> THEN r ELSE recent[1])
          IN /\ forgotten' = forgotten \cup {s \in passed : target[s] \in gone}
             /\ limits' = [k \in DOMAIN known \cup {t} |->
                             IF k # t THEN known[k]
                             ELSE IF full THEN recent ELSE Append(recent, r)]
             /\ IF full
                THEN /\ stage' = [stage EXCEPT ![r] = "audited"]
                     /\ audit' = audit \cup {r}
                     /\ retry' = [retry EXCEPT ![r] = left \div Second]
                     /\ UNCHANGED passed
                ELSE /\ stage' = [stage EXCEPT ![r] = "cleared"]
                     /\ passed' = passed \cup {r}
                     /\ UNCHANGED <<audit, retry>>
    BY <1>5 DEF CheckRateLimit, Prior, With
  <2> DEFINE known  == Without(limits, gone)
             recent == Recent(r, Prior(known, t))
             full   == UsedUp(recent)
             left   == Window - Elapsed(r, IF recent = <<>> THEN r ELSE recent[1])
  <2>2. t \in Targets /\ stage[r] = "asked" /\ UNCHANGED <<settings, up, target, at, filter, effects, displaced, shortened, leaked>>
    BY <1>0, <1>5, ActionsAssumption DEF CheckRateLimit
  <2>3. IsFiniteSet(DOMAIN limits)
    BY <1>0, TargetsFinite, FS_Subset DEF TypeOK
  <2>4. /\ gone \subseteq DOMAIN limits
        /\ Cardinality((DOMAIN limits \ gone) \cup {t}) <= MaxKeys
    BY <1>0, <2>1, <2>3, RoomSuffices, ActionsAssumption DEF TypeOK
  <2>5. Prior(known, t) \in Seq(Attempts)
    BY <1>0, PriorIsRecord
  <2>6. recent \in Seq(Attempts) /\ Append(recent, r) \in Seq(Attempts)
    BY <2>5, RecentFacts, AppendElems
  <2>7. left \div Second \in Nat
    BY <1>0, <2>5, RetryIsNat
  <2>8. /\ DOMAIN known = DOMAIN limits \ gone
        /\ \A k \in DOMAIN known : known[k] \in Seq(Attempts)
    BY <1>0 DEF Without, TypeOK
  <2> HIDE DEF t, known, recent, full, left
  <2>9. /\ DOMAIN limits' \subseteq Targets /\ Cardinality(DOMAIN limits') <= MaxKeys
        /\ \A k \in DOMAIN limits' : limits'[k] \in Seq(Attempts)
        /\ forgotten' \subseteq passed
    <3>1. /\ forgotten' = forgotten \cup {s \in passed : target[s] \in gone}
          /\ limits' = [k \in DOMAIN known \cup {t} |->
                          IF k # t THEN known[k]
                          ELSE IF full THEN recent ELSE Append(recent, r)]
      BY <2>1 DEF t, known, recent, full
    <3>2. DOMAIN limits' = (DOMAIN limits \ gone) \cup {t}
      BY <2>8, <3>1
    <3>3. \A k \in DOMAIN limits' : limits'[k] \in Seq(Attempts)
      BY <2>6, <2>8, <3>1
    <3> QED
      BY <1>0, <2>2, <2>4, <3>1, <3>2, <3>3 DEF TypeOK
  <2>10. /\ stage' \in [Attempts -> Stages] /\ retry' \in [Attempts -> Nat]
         /\ audit' \subseteq Attempts /\ passed' \subseteq Attempts /\ passed \subseteq passed'
    <3>1. IF full
          THEN /\ stage' = [stage EXCEPT ![r] = "audited"]
               /\ audit' = audit \cup {r}
               /\ retry' = [retry EXCEPT ![r] = left \div Second]
               /\ UNCHANGED passed
          ELSE /\ stage' = [stage EXCEPT ![r] = "cleared"]
               /\ passed' = passed \cup {r}
               /\ UNCHANGED <<audit, retry>>
      BY <2>1 DEF t, known, recent, full, left
    <3> QED
      BY <1>0, <2>7, <3>1 DEF TypeOK, Stages
  <2> QED
    BY <1>0, <2>2, <2>9, <2>10 DEF TypeOK
<1>6. ASSUME NEW r \in Attempts, EnterFilter(r)
      PROVE  TypeOK'
  <2>1. target[r] \in Targets /\ at[r] + FilterWindow \in Nat
    BY <1>0, <1>6, ActionsAssumption DEF TypeOK, Begun, EnterFilter
  <2>2. Suppress(r, at[r] + FilterWindow)
    BY <1>6 DEF EnterFilter
  <2>3. /\ DOMAIN filter' \subseteq Targets /\ Cardinality(DOMAIN filter') <= MaxFilter
        /\ \A t \in DOMAIN filter' : filter'[t] \in Nat
        /\ displaced' \subseteq passed /\ shortened' \subseteq passed
    BY <1>0, <2>1, <2>2, FilterTypes
  <2> QED
    BY <1>0, <1>6, <2>3 DEF TypeOK, EnterFilter, Stages
<1>7. ASSUME NEW r \in Attempts, Act(r)
      PROVE  TypeOK'
  BY <1>0, <1>7 DEF TypeOK, Act, AskSystemd, SendSignal, Stages
<1>8. ASSUME NEW r \in Attempts, NEW line \in {OwnLine, SystemdLine}, MeetLine(r, line)
      PROVE  TypeOK'
  <2> DEFINE gone == {k \in DOMAIN filter : filter[k] <= clock}
  <2>1. filter' = Without(filter, gone)
    BY <1>8 DEF MeetLine
  <2>2. DOMAIN filter' = DOMAIN filter \ gone /\ \A k \in DOMAIN filter' : filter'[k] = filter[k]
    BY <2>1 DEF Without
  <2>3. IsFiniteSet(DOMAIN filter)
    BY <1>0, TargetsFinite, FS_Subset DEF TypeOK
  <2>4. /\ Cardinality(DOMAIN filter') <= Cardinality(DOMAIN filter)
        /\ Cardinality(DOMAIN filter) \in Nat /\ Cardinality(DOMAIN filter') \in Nat
    BY <2>2, <2>3, FS_Subset, FS_CardinalityType
  <2>5. leaked' \subseteq Attempts \X {OwnLine, SystemdLine}
    BY <1>0, <1>8 DEF MeetLine, TypeOK
  <2>6. Cardinality(DOMAIN filter') <= MaxFilter
    BY <1>0, <2>4, ActionsAssumption DEF TypeOK
  <2> QED
    BY <1>0, <1>8, <2>2, <2>5, <2>6 DEF TypeOK, MeetLine
<1>9. CASE UNCHANGED vars
  BY <1>0, <1>9 DEF TypeOK, vars
<1> QED
  BY <1>1, <1>2, <1>3, <1>4, <1>5, <1>6, <1>7, <1>8, <1>9 DEF Next

-----------------------------------------------------------------------------
(* The audit log                                                           *)

LEMMA LogStep ==
  ASSUME IInv, [Next]_vars
  PROVE  EffectsReachTheLog'
<1> USE DEF settings, attemptVars, history
<1>0. TypeOK /\ EffectsReachTheLog
  BY DEF IInv
<1>1. CASE Tick \/ UNCHANGED vars
  BY <1>0, <1>1 DEF EffectsReachTheLog, Tick, vars
<1>2. CASE EndProcess
  BY <1>0, <1>2 DEF EffectsReachTheLog, EndProcess
<1>3. ASSUME NEW r \in Attempts, NEW t \in Targets, Ask(r, t)
      PROVE  EffectsReachTheLog'
  BY <1>0, <1>3 DEF EffectsReachTheLog, TypeOK, Ask
<1>4. ASSUME NEW r \in Attempts, Deny(r) \/ DryRun(r) \/ Audit(r) \/ Answer(r)
      PROVE  EffectsReachTheLog'
  BY <1>0, <1>4 DEF EffectsReachTheLog, TypeOK, Deny, DryRun, Audit, Answer
<1>5. ASSUME NEW r \in Attempts, CheckRateLimit(r)
      PROVE  EffectsReachTheLog'
  <2>1. /\ up /\ stage[r] = "asked" /\ UNCHANGED <<up, effects>>
        /\ \/ stage' = [stage EXCEPT ![r] = "audited"] /\ audit' = audit \cup {r}
           \/ stage' = [stage EXCEPT ![r] = "cleared"] /\ audit' = audit
    BY <1>5 DEF CheckRateLimit
  <2> QED
    BY <1>0, <2>1 DEF EffectsReachTheLog, TypeOK
<1>6. ASSUME NEW r \in Attempts, EnterFilter(r)
      PROVE  EffectsReachTheLog'
  BY <1>0, <1>6 DEF EffectsReachTheLog, TypeOK, EnterFilter
<1>7. ASSUME NEW r \in Attempts, Act(r)
      PROVE  EffectsReachTheLog'
  BY <1>0, <1>7 DEF EffectsReachTheLog, TypeOK, Act, AskSystemd, SendSignal
<1>8. ASSUME NEW r \in Attempts, NEW line \in {OwnLine, SystemdLine}, MeetLine(r, line)
      PROVE  EffectsReachTheLog'
  BY <1>0, <1>8 DEF EffectsReachTheLog, MeetLine
<1> QED
  BY <1>1, <1>2, <1>3, <1>4, <1>5, <1>6, <1>7, <1>8 DEF Next

-----------------------------------------------------------------------------
(* Attempts and their effects                                              *)

LEMMA BegunStep ==
  ASSUME IInv, [Next]_vars
  PROVE  Begun' /\ HadEffect'
<1> USE DEF settings, attemptVars, history
<1>0. TypeOK /\ Begun /\ HadEffect
  BY DEF IInv
<1>1. CASE Tick
  BY <1>0, <1>1 DEF Begun, HadEffect, TypeOK, Tick
<1>2. CASE EndProcess
  BY <1>0, <1>2 DEF Begun, HadEffect, TypeOK, EndProcess
<1>3. ASSUME NEW r \in Attempts, NEW t \in Targets, Ask(r, t)
      PROVE  Begun' /\ HadEffect'
  BY <1>0, <1>3 DEF Begun, HadEffect, TypeOK, Ask
<1>4. ASSUME NEW r \in Attempts, Deny(r) \/ DryRun(r) \/ Audit(r) \/ Answer(r)
      PROVE  Begun' /\ HadEffect'
  BY <1>0, <1>4 DEF Begun, HadEffect, TypeOK, Deny, DryRun, Audit, Answer
<1>5. ASSUME NEW r \in Attempts, CheckRateLimit(r)
      PROVE  Begun' /\ HadEffect'
  <2>1. /\ stage[r] = "asked" /\ UNCHANGED <<clock, target, at, effects, leaked>>
        /\ \/ stage' = [stage EXCEPT ![r] = "audited"] /\ passed' = passed
           \/ stage' = [stage EXCEPT ![r] = "cleared"] /\ passed' = passed \cup {r}
    BY <1>5 DEF CheckRateLimit
  <2> QED
    BY <1>0, <2>1 DEF Begun, HadEffect, TypeOK
<1>6. ASSUME NEW r \in Attempts, EnterFilter(r)
      PROVE  Begun' /\ HadEffect'
  BY <1>0, <1>6 DEF Begun, HadEffect, TypeOK, EnterFilter
<1>7. ASSUME NEW r \in Attempts, Act(r)
      PROVE  Begun' /\ HadEffect'
  BY <1>0, <1>7 DEF Begun, HadEffect, TypeOK, Act, AskSystemd, SendSignal
<1>8. ASSUME NEW r \in Attempts, NEW line \in {OwnLine, SystemdLine}, MeetLine(r, line)
      PROVE  Begun' /\ HadEffect'
  <2>1. UNCHANGED <<clock, stage, target, at, passed, effects>>
    BY <1>8 DEF MeetLine
  <2>2. leaked' = leaked \/ leaked' = leaked \cup {<<r, line>>}
    BY <1>8 DEF MeetLine
  <2>3. r \in effects
    BY <1>8 DEF MeetLine
  <2>4. HadEffect'
    BY <1>0, <2>1, <2>2, <2>3 DEF HadEffect
  <2> QED
    BY <1>0, <2>1, <2>4 DEF Begun
<1>9. CASE UNCHANGED vars
  BY <1>0, <1>9 DEF Begun, HadEffect, vars
<1> QED
  BY <1>1, <1>2, <1>3, <1>4, <1>5, <1>6, <1>7, <1>8, <1>9 DEF Next

-----------------------------------------------------------------------------
(* The self filter                                                         *)

\* An attempt stays covered as long as nobody touches its entry; what made
\* room or was replaced stays known.
LEMMA StaysCovered ==
  ASSUME TypeOK, NEW r \in Attempts, Covered(r),
         clock' \in Nat, clock' >= clock, at'[r] = at[r], target'[r] = target[r],
         displaced \subseteq displaced', shortened \subseteq shortened',
         target[r] \in DOMAIN filter =>
           \/ target[r] \in DOMAIN filter' /\ filter'[target[r]] = filter[target[r]]
           \/ filter[target[r]] <= clock
           \/ r \in displaced'
  PROVE  Covered(r)'
<1>1. CASE Replaced(r)
  <2>1. Replaced(r)'
    BY <1>1 DEF Replaced
  <2> QED
    BY <2>1 DEF Covered
<1>2. CASE target[r] \in DOMAIN filter /\ filter[target[r]] >= at[r] + FilterWindow
  <2>1. filter[target[r]] \in Nat /\ at[r] \in Nat /\ clock \in Nat
    BY <1>2 DEF TypeOK
  <2>2. CASE target[r] \in DOMAIN filter' /\ filter'[target[r]] = filter[target[r]]
    BY <1>2, <2>2 DEF Covered
  <2>3. CASE filter[target[r]] <= clock
    <3>1. clock' >= at'[r] + FilterWindow
      BY <1>2, <2>1, <2>3, ActionsAssumption
    <3> QED
      BY <3>1 DEF Covered
  <2>4. CASE r \in displaced'
    BY <2>4 DEF Covered, Replaced
  <2> QED
    BY <1>2, <2>2, <2>3, <2>4
<1>3. CASE clock >= at[r] + FilterWindow
  <2>1. clock' >= at'[r] + FilterWindow
    BY <1>3, ActionsAssumption DEF TypeOK
  <2> QED
    BY <2>1 DEF Covered
<1> QED
  BY <1>1, <1>2, <1>3 DEF Covered

LEMMA CoveredStep ==
  ASSUME IInv, [Next]_vars
  PROVE  AreCovered'
<1> USE DEF settings, attemptVars, history
<1>0. TypeOK /\ Begun /\ HadEffect /\ AreCovered
  BY DEF IInv
<1> SUFFICES ASSUME NEW r \in Attempts, stage'[r] \in {"entered", "acting"} \/ r \in effects'
             PROVE  Covered(r)'
  BY DEF AreCovered
<1> DEFINE Live == stage[r] \in {"entered", "acting"} \/ r \in effects
           Quiet == /\ at'[r] = at[r] /\ target'[r] = target[r]
                    /\ clock' \in Nat /\ clock' >= clock
                    /\ displaced \subseteq displaced' /\ shortened \subseteq shortened'
<1>1. ASSUME Live, Quiet, filter' = filter
      PROVE  Covered(r)'
  BY <1>0, <1>1, StaysCovered DEF AreCovered
<1>2. CASE Tick \/ EndProcess \/ UNCHANGED vars
  <2>1. Live /\ Quiet /\ filter' = filter
    BY <1>0, <1>2 DEF TypeOK, Tick, EndProcess, vars
  <2> QED
    BY <1>1, <2>1
<1>3. ASSUME NEW q \in Attempts, NEW t \in Targets, Ask(q, t)
      PROVE  Covered(r)'
  <2>1. Live /\ Quiet /\ filter' = filter
    BY <1>0, <1>3 DEF TypeOK, Begun, HadEffect, Ask
  <2> QED
    BY <1>1, <2>1
<1>4. ASSUME NEW q \in Attempts, Deny(q) \/ DryRun(q) \/ Audit(q) \/ Answer(q)
      PROVE  Covered(r)'
  <2>1. Live /\ Quiet /\ filter' = filter
    BY <1>0, <1>4 DEF TypeOK, Deny, DryRun, Audit, Answer
  <2> QED
    BY <1>1, <2>1
<1>5. ASSUME NEW q \in Attempts, CheckRateLimit(q)
      PROVE  Covered(r)'
  <2>1. /\ UNCHANGED <<clock, target, at, filter, effects, displaced, shortened>>
        /\ \/ stage' = [stage EXCEPT ![q] = "audited"]
           \/ stage' = [stage EXCEPT ![q] = "cleared"]
    BY <1>5 DEF CheckRateLimit
  <2>2. Live /\ Quiet /\ filter' = filter
    BY <1>0, <2>1 DEF TypeOK
  <2> QED
    BY <1>1, <2>2
<1>6. ASSUME NEW q \in Attempts, EnterFilter(q)
      PROVE  Covered(r)'
  <2> DEFINE until == at[q] + FilterWindow
  <2>1. PICK gone \in Room(filter, target[q], MaxFilter, filter) :
          /\ filter' = [k \in (DOMAIN filter \ gone) \cup {target[q]} |->
                          IF k = target[q] THEN until
                          ELSE [l \in DOMAIN filter \ gone |-> filter[l]][k]]
          /\ displaced' = displaced \cup {s \in Entered : target[s] \in gone}
          /\ shortened' = shortened \cup {s \in Entered : target[s] = target[q] /\ at[q] < at[s]}
    BY <1>6 DEF EnterFilter, Suppress, With, Without
  <2>2. /\ UNCHANGED <<clock, target, at, effects, passed>> /\ up /\ ~dryRun
        /\ stage[q] = "cleared" /\ stage' = [stage EXCEPT ![q] = "entered"]
    BY <1>6 DEF EnterFilter
  <2>3. q \in passed /\ at[q] \in Nat /\ at[r] \in Nat /\ until \in Nat
    BY <1>0, <2>2, ActionsAssumption DEF Begun, TypeOK
  <2>4. DOMAIN filter' = (DOMAIN filter \ gone) \cup {target[q]} /\ filter'[target[q]] = until
    BY <2>1
  <2>5. CASE target[r] = target[q] /\ at[q] >= at[r]
    <3>1. target'[r] \in DOMAIN filter' /\ filter'[target'[r]] >= at'[r] + FilterWindow
      BY <2>2, <2>3, <2>4, <2>5, ActionsAssumption
    <3> QED
      BY <3>1 DEF Covered
  <2>6. ASSUME r # q
        PROVE  Live /\ r \in Entered
    <3>1. Live
      BY <1>0, <2>2, <2>6 DEF TypeOK
    <3>2. r \in passed /\ stage[r] # "cleared"
      BY <1>0, <2>2, <3>1 DEF Begun, HadEffect, IInv, EffectsReachTheLog
    <3> QED
      BY <2>2, <3>1, <3>2 DEF Entered
  <2>7. CASE target[r] = target[q] /\ ~(at[q] >= at[r])
    <3>1. r # q
      BY <2>3, <2>7
    <3>2. r \in shortened'
      BY <2>1, <2>3, <2>6, <2>7, <3>1
    <3> QED
      BY <3>2 DEF Covered, Replaced
  <2>8. CASE target[r] # target[q]
    <3>1. r # q
      BY <2>8
    <3>2. Live /\ Quiet
      BY <1>0, <2>1, <2>2, <2>6, <3>1 DEF TypeOK
    <3>3. target[r] \in DOMAIN filter =>
            \/ target[r] \in DOMAIN filter' /\ filter'[target[r]] = filter[target[r]]
            \/ r \in displaced'
      BY <2>1, <2>6, <2>8, <3>1
    <3> QED
      BY <1>0, <3>2, <3>3, StaysCovered DEF AreCovered
  <2> QED
    BY <2>5, <2>7, <2>8
<1>7. ASSUME NEW q \in Attempts, Act(q)
      PROVE  Covered(r)'
  <2>1. Live /\ Quiet /\ filter' = filter
    BY <1>0, <1>7 DEF TypeOK, Act, AskSystemd, SendSignal
  <2> QED
    BY <1>1, <2>1
<1>8. ASSUME NEW q \in Attempts, NEW line \in {OwnLine, SystemdLine}, MeetLine(q, line)
      PROVE  Covered(r)'
  <2>1. Live /\ Quiet
    BY <1>0, <1>8 DEF TypeOK, MeetLine
  <2>2. filter' = [k \in DOMAIN filter \ {k \in DOMAIN filter : filter[k] <= clock} |-> filter[k]]
    BY <1>8 DEF MeetLine, Without
  <2>3. target[r] \in DOMAIN filter =>
          \/ target[r] \in DOMAIN filter' /\ filter'[target[r]] = filter[target[r]]
          \/ filter[target[r]] <= clock
    BY <2>2
  <2> QED
    BY <1>0, <2>1, <2>3, StaysCovered DEF AreCovered
<1> QED
  BY <1>2, <1>3, <1>4, <1>5, <1>6, <1>7, <1>8 DEF Next

\* A line is only analysed if its target is not in the filter, and while the
\* attempt is covered and within its window that has one of two reasons.
LEMMA FilteredStep ==
  ASSUME IInv, [Next]_vars
  PROVE  OwnLinesAreFiltered'
<1> USE DEF settings, attemptVars, history
<1>0. TypeOK /\ Begun /\ HadEffect /\ AreCovered /\ OwnLinesAreFiltered /\ TypeOK'
  BY TypesStep DEF IInv
<1>1. displaced \subseteq displaced' /\ shortened \subseteq shortened'
  <2>1. CASE \E q \in Attempts : Deny(q) \/ CheckRateLimit(q) \/ DryRun(q) \/ EnterFilter(q)
    BY <2>1 DEF Deny, CheckRateLimit, DryRun, EnterFilter, Suppress
  <2>2. CASE \E q \in Attempts, t \in Targets : Ask(q, t)
    BY <2>2 DEF Ask
  <2>3. CASE \/ Tick \/ EndProcess \/ UNCHANGED vars
             \/ \E q \in Attempts, line \in {OwnLine, SystemdLine} : MeetLine(q, line)
    BY <2>3 DEF Tick, EndProcess, MeetLine, vars
  <2>4. CASE \E q \in Attempts : Act(q) \/ Audit(q) \/ Answer(q)
    BY <2>4 DEF Act, Audit, Answer
  <2> QED
    BY <2>1, <2>2, <2>3, <2>4 DEF Next
<1>2. ASSUME NEW r \in Attempts, r \in effects
      PROVE  target'[r] = target[r]
  <2>1. stage[r] # "none"
    BY <1>0, <1>2 DEF Begun, HadEffect
  <2>2. CASE \E q \in Attempts, t \in Targets : Ask(q, t)
    BY <1>0, <2>1, <2>2 DEF Ask, TypeOK
  <2>3. CASE UNCHANGED target
    BY <2>3
  <2> QED
    BY <2>2, <2>3 DEF Next, vars, Tick, EndProcess, Deny, CheckRateLimit, DryRun, EnterFilter,
                      Act, Audit, Answer, MeetLine
<1>3. ASSUME NEW r \in Attempts, NEW line \in {OwnLine, SystemdLine},
             <<r, line>> \in leaked, target'[r] \in KeysOf(r, line)'
      PROVE  Replaced(r)'
  <2>1. target'[r] = target[r]
    BY <1>0, <1>2, <1>3 DEF HadEffect
  <2>2. target[r] \in KeysOf(r, line)
    BY <1>3, <2>1 DEF KeysOf
  <2>3. Replaced(r)
    BY <1>0, <1>3, <2>2 DEF OwnLinesAreFiltered, Replaced
  <2> QED
    BY <1>1, <2>3 DEF Replaced
<1>4. CASE leaked' = leaked
  BY <1>3, <1>4 DEF OwnLinesAreFiltered, Replaced
<1>5. ASSUME NEW q \in Attempts, NEW l \in {OwnLine, SystemdLine}, MeetLine(q, l)
      PROVE  OwnLinesAreFiltered'
  <2> SUFFICES ASSUME NEW r \in Attempts, NEW line \in {OwnLine, SystemdLine},
                      <<r, line>> \in leaked', target'[r] \in KeysOf(r, line)'
               PROVE  Replaced(r)'
    BY DEF OwnLinesAreFiltered, Replaced
  <2>1. CASE <<r, line>> \in leaked
    BY <1>3, <2>1
  <2>2. CASE <<r, line>> \notin leaked
    <3>1. /\ r = q /\ line = l /\ r \in effects /\ UNCHANGED <<target, displaced, shortened>>
          /\ clock < at[r] + FilterWindow /\ KeysOf(r, line) \cap DOMAIN filter' = {}
      BY <1>5, <2>2 DEF MeetLine
    <3>2. Covered(r)
      BY <1>0, <3>1 DEF AreCovered
    <3>3. ~(clock >= at[r] + FilterWindow)
      BY <1>0, <3>1, ActionsAssumption DEF TypeOK
    <3>4. target[r] \in KeysOf(r, line)
      BY <3>1 DEF KeysOf
    <3>5. ~(target[r] \in DOMAIN filter /\ filter[target[r]] >= at[r] + FilterWindow)
      <4> SUFFICES ASSUME target[r] \in DOMAIN filter, filter[target[r]] >= at[r] + FilterWindow
                   PROVE  FALSE
        OBVIOUS
      <4>1. ~(filter[target[r]] <= clock)
        BY <1>0, <3>1, ActionsAssumption DEF TypeOK
      <4>2. DOMAIN filter' = DOMAIN filter \ {k \in DOMAIN filter : filter[k] <= clock}
        BY <1>5 DEF MeetLine, Without
      <4> QED
        BY <3>1, <3>4, <4>1, <4>2
    <3>6. Replaced(r)
      BY <3>2, <3>3, <3>5 DEF Covered
    <3> QED
      BY <1>1, <3>6 DEF Replaced
  <2> QED
    BY <2>1, <2>2
<1> QED
  BY <1>4, <1>5 DEF Next, vars, Tick, EndProcess, Ask, Deny, CheckRateLimit, DryRun, EnterFilter,
                    Act, Audit, Answer

-----------------------------------------------------------------------------
(* The rate limit                                                          *)

\* What is within the window counts for an attempt, whose reading may be old.
LEMMA RecentCounts ==
  ASSUME IInv, NEW q \in Attempts, NEW r \in Attempts, clock - at[r] < Window
  PROVE  Elapsed(q, r) < Window
<1>1. at[q] \in Nat /\ at[r] \in Nat /\ clock \in Nat /\ at[q] <= clock /\ at[r] <= clock
  BY DEF IInv, TypeOK, Begun
<1> QED
  BY <1>1, ActionsAssumption DEF Elapsed

LEMMA RecordStep ==
  ASSUME IInv, [Next]_vars
  PROVE  OnRecord'
<1> USE DEF settings, attemptVars, history
<1>0. TypeOK /\ Begun /\ OnRecord /\ TypeOK'
  BY TypesStep DEF IInv
<1>1. CASE UNCHANGED <<target, at, limits, passed, forgotten>> /\ clock' >= clock
  <2>1. \A r \in passed : clock' - at'[r] < Window => clock - at[r] < Window
    BY <1>0, <1>1, ActionsAssumption DEF TypeOK
  <2> QED
    BY <1>0, <1>1, <2>1 DEF OnRecord, Elems
<1>2. ASSUME NEW q \in Attempts, NEW t \in Targets, Ask(q, t)
      PROVE  OnRecord'
  <2>1. \A r \in passed : r \in Attempts /\ target'[r] = target[r] /\ at'[r] = at[r]
    BY <1>0, <1>2 DEF TypeOK, Begun, Ask
  <2>2. UNCHANGED <<clock, limits, passed, forgotten>>
    BY <1>2 DEF Ask
  <2> QED
    BY <1>0, <2>1, <2>2 DEF OnRecord, Elems
<1>3. ASSUME NEW q \in Attempts, CheckRateLimit(q)
      PROVE  OnRecord'
  <2> DEFINE t == target[q]
  <2>1. PICK gone \in Room(limits, t, MaxKeys, LastAttempt) :
          LET known  == Without(limits, gone)
              recent == Recent(q, Prior(known, t))
              full   == UsedUp(recent)
          IN /\ forgotten' = forgotten \cup {s \in passed : target[s] \in gone}
             /\ limits' = [k \in DOMAIN known \cup {t} |->
                             IF k # t THEN known[k]
                             ELSE IF full THEN recent ELSE Append(recent, q)]
             /\ passed' = IF full THEN passed ELSE passed \cup {q}
    BY <1>3 DEF CheckRateLimit, Prior, With
  <2> DEFINE known  == Without(limits, gone)
             prior  == Prior(known, t)
             recent == Recent(q, prior)
             full   == UsedUp(recent)
  <2>2. UNCHANGED <<clock, target, at>>
    BY <1>3 DEF CheckRateLimit
  <2>3. DOMAIN known = DOMAIN limits \ gone /\ \A k \in DOMAIN known : known[k] = limits[k]
    BY DEF Without
  <2>4. prior \in Seq(Attempts) /\ Len(prior) <= MaxActions
    <3>1. prior \in Seq(Attempts)
      BY <1>0, PriorIsRecord
    <3>2. CASE t \in DOMAIN known
      BY <1>0, <2>3, <3>1, <3>2 DEF Prior, OnRecord
    <3>3. CASE t \notin DOMAIN known
      BY <3>1, <3>3, EmptySeq, ActionsAssumption DEF Prior
    <3> QED
      BY <3>2, <3>3
  <2>5. /\ recent \in Seq(Attempts) /\ Len(recent) \in Nat /\ Len(recent) <= Len(prior)
        /\ Elems(recent) = {s \in Elems(prior) : s \in Attempts /\ Elapsed(q, s) < Window}
    BY <2>4, RecentFacts
  <2>6. /\ Len(Append(recent, q)) = Len(recent) + 1
        /\ Elems(Append(recent, q)) = Elems(recent) \cup {q}
    BY <2>5, AppendElems
  <2>7. Len(prior) \in Nat
    BY <2>4, LenProperties
  <2> HIDE DEF known, prior, recent, full
  <2>8. /\ forgotten' = forgotten \cup {s \in passed : target[s] \in gone}
        /\ limits' = [k \in DOMAIN known \cup {t} |->
                        IF k # t THEN known[k] ELSE IF full THEN recent ELSE Append(recent, q)]
        /\ passed' = IF full THEN passed ELSE passed \cup {q}
    BY <2>1 DEF known, prior, recent, full
  <2>9. ASSUME NEW k \in DOMAIN limits'
        PROVE  Len(limits'[k]) <= MaxActions
    <3>1. CASE k # t
      BY <1>0, <2>3, <2>8, <3>1 DEF OnRecord
    <3>2. CASE k = t /\ full
      <4>1. limits'[k] = recent
        BY <2>8, <3>2
      <4> QED
        BY <2>4, <2>5, <2>7, <4>1, ActionsAssumption
    <3>3. CASE k = t /\ ~full
      <4>1. limits'[k] = Append(recent, q)
        BY <2>8, <3>3
      <4>2. ~(Len(recent) >= MaxActions)
        BY <3>3 DEF full, UsedUp
      <4> QED
        BY <2>5, <2>6, <4>1, <4>2, ActionsAssumption
    <3> QED
      BY <3>1, <3>2, <3>3
  <2>10. ASSUME NEW r \in passed', r \notin forgotten', clock - at[r] < Window
         PROVE  target[r] \in DOMAIN limits' /\ r \in Elems(limits'[target[r]])
    <3>1. r \in Attempts /\ t \in DOMAIN limits'
      BY <1>0, <2>8 DEF TypeOK
    <3>2. CASE r \notin passed
      <4>1. r = q /\ limits'[t] = Append(recent, q)
        BY <2>8, <3>2
      <4> QED
        BY <2>6, <3>1, <4>1
    <3>3. CASE r \in passed
      <4>1. target[r] \in DOMAIN known /\ r \in Elems(known[target[r]])
        BY <1>0, <2>3, <2>8, <2>10, <3>3 DEF OnRecord
      <4>2. CASE target[r] # t
        <5>1. target[r] \in DOMAIN limits' /\ limits'[target[r]] = known[target[r]]
          BY <2>8, <4>1, <4>2
        <5> QED
          BY <4>1, <5>1
      <4>3. CASE target[r] = t
        <5>1. r \in Elems(prior)
          BY <4>1, <4>3 DEF prior, Prior
        <5>2. r \in Elems(recent)
          BY <2>5, <2>10, <3>1, <5>1, RecentCounts
        <5>3. limits'[t] = recent \/ limits'[t] = Append(recent, q)
          BY <2>8
        <5> QED
          BY <2>6, <3>1, <4>3, <5>2, <5>3
      <4> QED
        BY <4>2, <4>3
    <3> QED
      BY <3>2, <3>3
  <2> QED
    BY <2>2, <2>9, <2>10 DEF OnRecord, Elems
<1>4. clock' >= clock \/ \E q \in Attempts : CheckRateLimit(q) \/ \E t \in Targets : Ask(q, t)
  <2>1. clock \in Int
    BY <1>0 DEF TypeOK
  <2>2. clock' \in {clock, clock + 1}
    BY DEF Next, vars, Tick, EndProcess, Ask, Deny, CheckRateLimit, DryRun, EnterFilter, Act,
           Audit, Answer, MeetLine
  <2> QED
    BY <2>1, <2>2
<1>5. \/ UNCHANGED <<target, at, limits, passed, forgotten>>
      \/ \E q \in Attempts : CheckRateLimit(q) \/ \E t \in Targets : Ask(q, t)
  BY DEF Next, vars, Tick, EndProcess, Deny, DryRun, EnterFilter, Act, Audit, Answer, MeetLine
<1> QED
  BY <1>1, <1>2, <1>3, <1>4, <1>5

\* What passed within the window is on the target's record, which is short enough.
LEMMA RecordLimits == IInv => RateHeld
<1> SUFFICES ASSUME IInv, NEW t \in Targets
             PROVE  Cardinality({r \in passed \ forgotten :
                                   target[r] = t /\ clock - at[r] < Window}) <= MaxActions
  BY DEF RateHeld
<1> DEFINE counted == {r \in passed \ forgotten : target[r] = t /\ clock - at[r] < Window}
<1>1. CASE counted = {}
  <2> HIDE DEF counted
  <2>1. Cardinality(counted) <= MaxActions
    BY <1>1, FS_EmptySet, ActionsAssumption
  <2> QED
    BY <2>1 DEF counted
<1>2. CASE counted # {}
  <2>1. t \in DOMAIN limits /\ counted \subseteq Elems(limits[t])
    BY <1>2 DEF IInv, OnRecord
  <2>2. limits[t] \in Seq(Attempts) /\ Len(limits[t]) <= MaxActions
    BY <2>1 DEF IInv, TypeOK, OnRecord
  <2>3. IsFiniteSet(Elems(limits[t])) /\ Cardinality(Elems(limits[t])) <= Len(limits[t])
    BY <2>2, ElemsBound
  <2> HIDE DEF counted
  <2>4. Cardinality(counted) <= Cardinality(Elems(limits[t]))
    BY <2>1, <2>3, FS_Subset
  <2>5. /\ Cardinality(counted) \in Nat /\ Cardinality(Elems(limits[t])) \in Nat
        /\ Len(limits[t]) \in Nat
    BY <2>1, <2>2, <2>3, FS_Subset, FS_CardinalityType, LenProperties
  <2>6. Cardinality(counted) <= MaxActions
    BY <2>2, <2>3, <2>4, <2>5, ActionsAssumption
  <2> QED
    BY <2>6 DEF counted
<1> QED
  BY <1>1, <1>2

-----------------------------------------------------------------------------
(* Theorems                                                                *)

LEMMA StartsSound == Init => IInv
<1> SUFFICES ASSUME Init PROVE IInv
  OBVIOUS
<1>1. TypeOK
  BY TypesInit
<1>2. DOMAIN limits = {}
  BY DEF Init
<1>3. EffectsReachTheLog /\ Begun /\ HadEffect /\ AreCovered /\ OwnLinesAreFiltered /\ OnRecord
  BY <1>2 DEF Init, EffectsReachTheLog, Begun, HadEffect, AreCovered, OwnLinesAreFiltered, OnRecord
<1> QED
  BY <1>1, <1>3 DEF IInv

LEMMA StaysSound == IInv /\ [Next]_vars => IInv'
BY TypesStep, LogStep, BegunStep, CoveredStep, FilteredStep, RecordStep DEF IInv

LEMMA AlwaysSound == Spec => []IInv
BY StartsSound, StaysSound, PTL DEF Spec

\* The subsystem stays in its domains, and neither the rate limits nor the
\* self filter ever exceeds its size, whatever targets clients choose (rule 18).
THEOREM ActionTypes == Spec => []TypeOK
<1>1. IInv => TypeOK
  BY DEF IInv
<1> QED
  BY <1>1, AlwaysSound, PTL

\* Whoever asks, and in whatever order sessions reach check_rate_limit after
\* they read the clock: of the attempts on one target within the window at most
\* MaxActions were let through, those apart whose record had to make room for
\* another target.  The limit is per target, not per client.
THEOREM LimitHolds == Spec => []RateHeld
BY RecordLimits, AlwaysSound, PTL

\* What had an effect is written down before it is answered; only the end of
\* the process comes between.
THEOREM LogIsComplete == Spec => []EffectsReachTheLog
<1>1. IInv => EffectsReachTheLog
  BY DEF IInv
<1> QED
  BY <1>1, AlwaysSound, PTL

\* Rule 13: the lines that name the target of an action are kept from the
\* analysis for the window of each action, the second and third on the same
\* target as well; but for an action whose own entry had to make room in the
\* full filter, or was replaced by one of an action with an older clock reading.
THEOREM FilterHolds == Spec => []OwnLinesAreFiltered
<1>1. IInv => OwnLinesAreFiltered
  BY DEF IInv
<1> QED
  BY <1>1, AlwaysSound, PTL

=============================================================================
