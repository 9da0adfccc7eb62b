--------------------------- MODULE AnalysisProofs ---------------------------
(***************************************************************************)
(* What the engine keeps of the journal, for any limits, threshold and     *)
(* lines, saves and restarts included.                                     *)
(*                                                                         *)
(* Templates: the tokens of a cluster are those of the line it began with, *)
(* some of them generalised, and at least one concrete one is not          *)
(* (Describes), unless the line itself was nothing but wildcards.  So that *)
(* line agrees with all concrete tokens and always finds a cluster: no     *)
(* second one can begin with it.  A table keeps them by their ids, each at *)
(* a place of its own (TableSound), so a restart finds them all in order.  *)
(*                                                                         *)
(* Reports: the state of an alarm is that of its last report (Remembered). *)
(*                                                                         *)
(* Rates: a template that is forgotten has not occurred within a history   *)
(* (Known), so one that comes back has only zeros to be given.             *)
(*                                                                         *)
(* Window: the entries are the latest timely lines, by how many timely     *)
(* ones came after them (Shown).                                           *)
(*                                                                         *)
(* Histograms: what is open in a unit are the lines since the last one     *)
(* that opened a bucket (IsOpen); the next of these makes that line one    *)
(* of those each histogram must have observed (OneEnds, ObservedMore).     *)
(***************************************************************************)
EXTENDS Analysis, TLAPS, NaturalsInduction, WellFoundedInduction, SequenceTheorems,
        FiniteSetTheorems

Token == STRING \cup {Wild}
Line == Seq(Token)
Clusters == [id : Line, tokens : Seq(Token), seen : Nat]

Describes(c) ==
  /\ Len(c.tokens) = Len(c.id)
  /\ \A k \in 1..Len(c.id) : c.tokens[k] \in {c.id[k], Wild}
  /\ Concrete(c.tokens) = {} => Concrete(c.id) = {}

Sound(r) ==
  /\ r \in Seq(Clusters)
  /\ \A i \in 1..Len(r) : Describes(r[i])
  /\ \A i, j \in 1..Len(r) : r[i].id = r[j].id => i = j \/ Concrete(r[i].id) = {}

\* A table of templates: each is that of a cluster, and no two have one place in their order.
Tabled(table, id) == [id |-> id, tokens |-> table[id].tokens, seen |-> table[id].seen]
TableSound(table) ==
  /\ IsFiniteSet(DOMAIN table)
  /\ \A id \in DOMAIN table :
       table[id].order \in Nat /\ Tabled(table, id) \in Clusters /\ Describes(Tabled(table, id))
  /\ \A a, b \in DOMAIN table : table[a].order = table[b].order => a = b

IInv ==
  /\ traffic \in Traffics /\ clock \in Nat
  /\ Sound(registry)
  /\ file # NoFile => TableSound(file.templates)

\* A set of numbers has a least one.
LEMMA LeastExists ==
  ASSUME NEW T \in SUBSET Nat, T # {}
  PROVE  \E x \in T : \A y \in T : x <= y
<1> DEFINE Less == {pair \in Nat \X Nat : pair[1] < pair[2]}
<1>1. IsWellFoundedOn(Less, Nat)
  BY NatLessThanWellFounded DEF OpToRel
<1>2. PICK x \in T : \A y \in T : <<y, x>> \notin Less
  <2> HIDE DEF Less
  <2> QED
    BY <1>1, WFMin
<1>3. ASSUME NEW y \in T
      PROVE  x <= y
  <2>1. x \in Nat /\ y \in Nat /\ <<y, x>> \notin Less
    BY <1>2
  <2>2. <<y, x>> \in Nat \X Nat /\ <<y, x>>[1] = y /\ <<y, x>>[2] = x
    BY <2>1
  <2>3. ~(y < x)
    BY <2>1, <2>2
  <2> QED
    BY <2>1, <2>3
<1> QED
  BY <1>2, <1>3

-----------------------------------------------------------------------------
(* Similarity                                                              *)

\* A similarity is a share: of something, and no more than all of it.
LEMMA SimilarityIsShare ==
  ASSUME NEW t \in Seq(Token), NEW line
  PROVE  /\ Similarity(t, line)[1] \in Nat /\ Similarity(t, line)[2] \in Nat \ {0}
         /\ Similarity(t, line)[1] <= Similarity(t, line)[2]
<1>1. CASE Concrete(t) = {}
  BY <1>1 DEF Similarity
<1>2. CASE Concrete(t) # {}
  <2>1. IsFiniteSet(Concrete(t))
    <3>1. Concrete(t) \subseteq 1..Len(t) /\ Len(t) \in Nat
      BY LenProperties DEF Concrete
    <3>2. IsFiniteSet(1..Len(t))
      BY <3>1, FS_Interval
    <3> QED
      BY <3>1, <3>2, FS_Subset
  <2>2. Agreeing(t, line) \subseteq Concrete(t)
    BY DEF Agreeing
  <2>3. /\ Cardinality(Agreeing(t, line)) <= Cardinality(Concrete(t))
        /\ Cardinality(Agreeing(t, line)) \in Nat /\ Cardinality(Concrete(t)) \in Nat
    BY <2>1, <2>2, FS_Subset, FS_CardinalityType
  <2>4. Cardinality(Concrete(t)) # 0
    BY <1>2, <2>1, FS_EmptySet
  <2> QED
    BY <1>2, <2>3, <2>4 DEF Similarity
<1> QED
  BY <1>1, <1>2

\* The line a cluster began with agrees with all its concrete tokens.
LEMMA OwnLineAgrees ==
  ASSUME NEW c \in Clusters, Describes(c), Concrete(c.id) # {}
  PROVE  Similarity(c.tokens, c.id)[1] = Similarity(c.tokens, c.id)[2]
<1>1. DOMAIN c.tokens = 1..Len(c.id)
  BY LenProperties DEF Clusters, Describes
<1>2. Agreeing(c.tokens, c.id) = Concrete(c.tokens)
  BY <1>1 DEF Describes, Agreeing, Concrete
<1> QED
  BY <1>2 DEF Describes, Similarity

LEMMA AllIsEnough ==
  ASSUME NEW n \in Nat, NEW t \in 1..100
  PROVE  n * 100 >= t * n
OBVIOUS

\* The line a cluster of the registry began with finds a cluster.
LEMMA OwnLineMatches ==
  ASSUME Sound(registry), NEW i \in 1..Len(registry), Concrete(registry[i].id) # {}
  PROVE  Best(registry[i].id) # {}
<1> DEFINE line == registry[i].id
           Sim(j) == Similarity(registry[j].tokens, line)
           Perfect == {j \in Candidates(line) : Sim(j)[1] = Sim(j)[2]}
<1>1. Len(registry) \in Nat /\ DOMAIN registry = 1..Len(registry)
  BY LenProperties DEF Sound
<1>2. \A j \in 1..Len(registry) : registry[j] \in Clusters /\ Describes(registry[j])
  BY ElementOfSeq DEF Sound
<1>3. \A j \in 1..Len(registry) :
        Sim(j)[1] \in Nat /\ Sim(j)[2] \in Nat \ {0} /\ Sim(j)[1] <= Sim(j)[2]
  <2> SUFFICES ASSUME NEW j \in 1..Len(registry)
               PROVE  Sim(j)[1] \in Nat /\ Sim(j)[2] \in Nat \ {0} /\ Sim(j)[1] <= Sim(j)[2]
    OBVIOUS
  <2>1. registry[j].tokens \in Seq(Token)
    BY <1>2 DEF Clusters
  <2> QED
    BY <2>1, SimilarityIsShare
<1>4. i \in Perfect
  <2>1. Sim(i)[1] = Sim(i)[2]
    BY <1>2, OwnLineAgrees
  <2>2. Sim(i)[1] * 100 >= Threshold * Sim(i)[2]
    BY <1>3, <2>1, AllIsEnough, TemplatesAssumption
  <2>3. Len(registry[i].tokens) = Len(line)
    BY <1>2 DEF Describes
  <2> QED
    BY <1>1, <2>1, <2>2, <2>3 DEF Candidates
<1>5. Perfect \subseteq 1..Len(registry) /\ Perfect \in SUBSET Nat
  BY <1>1 DEF Candidates
<1>6. PICK x \in Perfect : \A y \in Perfect : x <= y
  BY <1>4, <1>5, LeastExists
<1>7. ASSUME NEW j \in Candidates(line) \ {x}
      PROVE  IF j < x THEN Exceeds(Sim(x), Sim(j)) ELSE ~Exceeds(Sim(j), Sim(x))
  <2>1. j \in 1..Len(registry) /\ x \in 1..Len(registry)
    BY <1>1, <1>5 DEF Candidates
  <2>2. Sim(x)[1] = Sim(x)[2]
    BY <1>6
  <2> DEFINE m == Sim(x)[2]
             a == Sim(j)[1]
             b == Sim(j)[2]
  <2>3. m \in Nat \ {0} /\ a \in Nat /\ b \in Nat /\ a <= b
    BY <1>3, <2>1
  <2>4. CASE j < x
    <3>1. a # b
      BY <1>5, <1>6, <2>1, <2>4
    <3>2. m * b > a * m
      <4> HIDE DEF m, a, b
      <4> QED
        BY <2>3, <3>1
    <3> QED
      BY <2>2, <2>4, <3>2 DEF Exceeds
  <2>5. CASE ~(j < x)
    <3>1. ~(a * m > m * b)
      <4> HIDE DEF m, a, b
      <4> QED
        BY <2>3
    <3> QED
      BY <2>2, <2>5, <3>1 DEF Exceeds
  <2> QED
    BY <2>4, <2>5
<1>8. x \in Best(line)
  BY <1>6, <1>7 DEF Best
<1> QED
  BY <1>8
-----------------------------------------------------------------------------
(* The registry                                                            *)

\* Any of several clusters can be taken out.
LEMMA RemoveKeeps ==
  ASSUME NEW r, Sound(r), NEW i \in 1..Len(r)
  PROVE  /\ Sound(RemoveAt(r, i)) /\ Len(RemoveAt(r, i)) = Len(r) - 1
         /\ \A k \in 1..Len(RemoveAt(r, i)) : \E j \in 1..Len(r) : RemoveAt(r, i)[k] = r[j]
<1> DEFINE n == Len(r)
           before == SubSeq(r, 1, i - 1)
           after == SubSeq(r, i + 1, n)
           At(k) == IF k < i THEN k ELSE k + 1
<1>1. /\ n \in Nat /\ i \in 1..n
      /\ \A k \in 1..n : r[k] \in Clusters
  BY LenProperties, ElementOfSeq DEF Sound
<1>2. /\ before \in Seq(Clusters) /\ Len(before) = i - 1
      /\ \A k \in 1..i - 1 : before[k] = r[k]
  <2> HIDE DEF n
  <2>1. \A k \in 1..i - 1 : r[k] \in Clusters
    BY <1>1
  <2> QED
    BY <1>1, <2>1, SubSeqProperties
<1>3. /\ after \in Seq(Clusters) /\ Len(after) = n - i
      /\ \A k \in 1..n - i : after[k] = r[i + k]
  <2> HIDE DEF n
  <2>1. \A k \in i + 1..n : r[k] \in Clusters
    BY <1>1
  <2> QED
    BY <1>1, <2>1, SubSeqProperties
<1>4. /\ RemoveAt(r, i) \in Seq(Clusters) /\ Len(RemoveAt(r, i)) = n - 1
      /\ \A k \in 1..n - 1 : RemoveAt(r, i)[k] = r[At(k)] /\ At(k) \in 1..n
  <2>1. RemoveAt(r, i) = before \o after
    BY DEF RemoveAt
  <2> HIDE DEF n, before, after
  <2>2. /\ before \o after \in Seq(Clusters)
        /\ Len(before \o after) = (i - 1) + (n - i)
        /\ \A k \in 1..(i - 1) + (n - i) : (before \o after)[k] =
              IF k <= i - 1 THEN before[k] ELSE after[k - (i - 1)]
    <3>1. before \in Seq(Clusters) /\ after \in Seq(Clusters)
      BY <1>2, <1>3
    <3>2. /\ before \o after \in Seq(Clusters)
          /\ Len(before \o after) = Len(before) + Len(after)
          /\ \A k \in 1..Len(before) + Len(after) : (before \o after)[k] =
                IF k <= Len(before) THEN before[k] ELSE after[k - Len(before)]
      BY <3>1, ConcatProperties
    <3> QED
      BY <1>2, <1>3, <3>2
  <2>3. (i - 1) + (n - i) = n - 1
    BY <1>1
  <2>4. ASSUME NEW k \in 1..n - 1
        PROVE  (before \o after)[k] = r[At(k)] /\ At(k) \in 1..n
    <3>1. CASE k < i
      BY <1>1, <1>2, <2>2, <2>3, <3>1
    <3>2. CASE ~(k < i)
      <4>1. k - (i - 1) \in 1..n - i /\ i + (k - (i - 1)) = k + 1
        BY <1>1, <3>2
      <4> QED
        BY <1>1, <1>3, <2>2, <2>3, <3>2, <4>1
    <3> QED
      BY <3>1, <3>2
  <2> QED
    BY <2>1, <2>2, <2>3, <2>4
<1>5. \A k, l \in 1..n - 1 : At(k) = At(l) => k = l
  BY <1>1
<1> DEFINE rest == RemoveAt(r, i)
<1>6. rest \in Seq(Clusters) /\ Len(rest) = n - 1 /\ n - 1 \in Nat
  BY <1>1, <1>4
<1>7. \A k \in 1..n - 1 : rest[k] = r[At(k)] /\ At(k) \in 1..n
  BY <1>4
<1>8. /\ \A k \in 1..n : Describes(r[k])
      /\ \A k, l \in 1..n : r[k].id = r[l].id => k = l \/ Concrete(r[k].id) = {}
  BY DEF Sound
<1> HIDE DEF At, n, rest
<1>9. \A k \in 1..n - 1 : Describes(rest[k])
  BY <1>7, <1>8
<1>10. \A k, l \in 1..n - 1 : rest[k].id = rest[l].id => k = l \/ Concrete(rest[k].id) = {}
  BY <1>5, <1>7, <1>8
<1>11. Sound(rest)
  BY <1>6, <1>9, <1>10 DEF Sound
<1>12. \A k \in 1..Len(rest) : \E j \in 1..n : rest[k] = r[j]
  BY <1>6, <1>7
<1> QED
  BY <1>6, <1>11, <1>12 DEF rest, n

\* A cluster with another id can be added, and one of nothing but wildcards.
LEMMA AppendKeeps ==
  ASSUME NEW r, Sound(r), NEW c \in Clusters, Describes(c),
         \A i \in 1..Len(r) : r[i].id # c.id \/ Concrete(c.id) = {}
  PROVE  Sound(Append(r, c))
<1> DEFINE n == Len(r)
<1>1. n \in Nat /\ r \in Seq(Clusters)
  BY LenProperties DEF Sound
<1>2. /\ Append(r, c) \in Seq(Clusters) /\ Len(Append(r, c)) = n + 1
      /\ \A i \in 1..n : Append(r, c)[i] = r[i]
      /\ Append(r, c)[n + 1] = c
  BY <1>1, AppendProperties
<1>3. \A i \in 1..n + 1 : i \in 1..n \/ i = n + 1
  BY <1>1
<1>4. \A i \in 1..n : Describes(r[i]) /\ (r[i].id # c.id \/ Concrete(c.id) = {})
  BY DEF Sound
<1>5. \A i, j \in 1..n : r[i].id = r[j].id => i = j \/ Concrete(r[i].id) = {}
  BY DEF Sound
<1> HIDE DEF n
<1> QED
  BY <1>2, <1>3, <1>4, <1>5 DEF Sound

\* A set of places has a last one.
LEMMA LastOfIdIs ==
  ASSUME NEW r, Sound(r), NEW k \in 1..Len(r)
  PROVE  LastOfId(r, r[k].id) \in 1..Len(r) /\ r[LastOfId(r, r[k].id)].id = r[k].id
<1> DEFINE n == Len(r)
           Ago == {n - i : i \in {j \in 1..n : r[j].id = r[k].id}}
<1>1. n \in Nat /\ DOMAIN r = 1..n
  BY LenProperties DEF Sound
<1> HIDE DEF n
<1>2. Ago \in SUBSET Nat /\ n - k \in Ago
  BY <1>1 DEF n
<1>3. PICK a \in Ago : \A b \in Ago : a <= b
  BY <1>2, LeastExists
<1>4. PICK i \in 1..n : r[i].id = r[k].id /\ a = n - i
  BY <1>3
<1>5. \A j \in DOMAIN r : r[j].id = r[k].id => j <= i
  <2> SUFFICES ASSUME NEW j \in 1..n, r[j].id = r[k].id PROVE j <= i
    BY <1>1
  <2>1. n - j \in Ago
    OBVIOUS
  <2>2. n - i <= n - j
    BY <1>3, <1>4, <2>1
  <2> QED BY <1>1, <1>4, <2>2
<1> QED BY <1>1, <1>4, <1>5 DEF LastOfId, n

\* What a save writes is a sound table.
LEMMA PersistedIsSound ==
  ASSUME NEW r, Sound(r)
  PROVE  TableSound(Persisted(r))
<1> DEFINE table == Persisted(r)
           ids == {r[i].id : i \in DOMAIN r}
           Of(id) == LastOfId(r, id)
<1>1. Len(r) \in Nat /\ DOMAIN r = 1..Len(r)
  BY LenProperties DEF Sound
<1>2. DOMAIN table = ids
  BY DEF Persisted
<1>3. ASSUME NEW id \in ids
      PROVE  /\ Of(id) \in 1..Len(r) /\ r[Of(id)].id = id
             /\ table[id].order = Of(id)
             /\ table[id].tokens = r[Of(id)].tokens /\ table[id].seen = r[Of(id)].seen
  <2>1. PICK k \in 1..Len(r) : id = r[k].id
    BY <1>1, <1>3
  <2>2. Of(id) \in 1..Len(r) /\ r[Of(id)].id = id
    BY <2>1, LastOfIdIs
  <2> QED BY <2>2 DEF Persisted
<1>4. IsFiniteSet(ids)
  <2> DEFINE f == [i \in 1..Len(r) |-> r[i].id]
  <2>1. f \in Surjection(1..Len(r), ids)
    BY <1>1 DEF Surjection
  <2>2. IsFiniteSet(1..Len(r))
    BY <1>1, FS_Interval
  <2> HIDE DEF f, ids
  <2> QED BY <2>1, <2>2, FS_Surjection
<1> HIDE DEF table, ids, Of
<1>5. ASSUME NEW id \in ids
      PROVE  table[id].order \in Nat /\ Tabled(table, id) \in Clusters /\ Describes(Tabled(table, id))
  <2> DEFINE c == r[Of(id)]
  <2>1. c \in Clusters /\ Describes(c)
    BY <1>3, ElementOfSeq DEF Sound
  <2>2. c = [id |-> c.id, tokens |-> c.tokens, seen |-> c.seen]
    BY <2>1 DEF Clusters
  <2>3. Tabled(table, id) = c
    BY <1>3, <2>2 DEF Tabled
  <2> HIDE DEF c
  <2>4. table[id].order \in Nat
    BY <1>1, <1>3
  <2> QED BY <2>1, <2>3, <2>4
<1>6. \A a, b \in ids : table[a].order = table[b].order => a = b
  BY <1>3
<1> QED BY <1>2, <1>4, <1>5, <1>6 DEF TableSound, table

\* Each number up to that of the templates is the place of one of them.
LEMMA PlacesAreTaken ==
  ASSUME NEW table, TableSound(table), NEW n \in 1..Cardinality(DOMAIN table)
  PROVE  \E id \in DOMAIN table : Place(table, id) = n
<1> DEFINE ids == DOMAIN table
           size == Cardinality(ids)
           Upto(id) == {other \in ids : table[other].order <= table[id].order}
           place == [id \in ids |-> Place(table, id)]
<1>1. IsFiniteSet(ids) /\ size \in Nat
  BY FS_CardinalityType DEF TableSound
<1>2. ASSUME NEW id \in ids
      PROVE  /\ IsFiniteSet(Upto(id)) /\ id \in Upto(id)
             /\ Cardinality(Upto(id)) \in 1..size
  <2>1. Upto(id) \in SUBSET ids /\ id \in Upto(id)
    BY DEF TableSound
  <2>2. IsFiniteSet(Upto(id)) /\ Cardinality(Upto(id)) <= size
    BY <1>1, <2>1, FS_Subset
  <2>3. Cardinality(Upto(id)) \in Nat /\ Cardinality(Upto(id)) # 0
    BY <2>1, <2>2, FS_CardinalityType, FS_EmptySet
  <2> QED BY <1>1, <2>1, <2>2, <2>3
<1>3. ASSUME NEW a \in ids, NEW b \in ids, table[a].order < table[b].order
      PROVE  Cardinality(Upto(a)) # Cardinality(Upto(b))
  <2>1. Upto(a) \in SUBSET Upto(b) /\ b \in Upto(b) /\ b \notin Upto(a)
    BY <1>3 DEF TableSound
  <2>2. Upto(a) # Upto(b) /\ IsFiniteSet(Upto(b))
    BY <1>2, <2>1
  <2> QED BY <2>1, <2>2, FS_Subset
<1>4. \A id \in ids : place[id] = Cardinality(Upto(id))
  BY DEF Place
<1>5. place \in Injection(ids, 1..size)
  <2>1. place \in [ids -> 1..size]
    BY <1>2, <1>4
  <2>2. ASSUME NEW a \in ids, NEW b \in ids, place[a] = place[b]
        PROVE  a = b
    <3>1. table[a].order \in Nat /\ table[b].order \in Nat
      BY DEF TableSound
    <3>2. ~(table[a].order < table[b].order) /\ ~(table[b].order < table[a].order)
      BY <1>3, <1>4, <2>2
    <3> QED BY <3>1, <3>2 DEF TableSound
  <2> HIDE DEF place
  <2> QED BY <2>1, <2>2 DEF Injection, IsInjective
<1>6. place \in Surjection(ids, 1..size)
  <2>1. IsFiniteSet(1..size) /\ Cardinality(1..size) = size
    BY <1>1, FS_Interval
  <2> HIDE DEF place
  <2> QED BY <1>5, <2>1, FS_Injection
<1>7. \E id \in ids : place[id] = n
  <2> HIDE DEF place
  <2> QED BY <1>6 DEF Surjection
<1> QED BY <1>7

\* A restart takes the first clusters of the table.
LEMMA RestoreKeeps ==
  ASSUME NEW table, TableSound(table)
  PROVE  Sound(Restored(table))
<1> DEFINE size == Cardinality(DOMAIN table)
           m == IF size > MaxTemplates THEN MaxTemplates ELSE size
           At(n) == CHOOSE id \in DOMAIN table : Place(table, id) = n
           r == Restored(table)
<1>1. size \in Nat /\ m \in Nat /\ m <= size
  BY FS_CardinalityType, TemplatesAssumption DEF TableSound
<1>2. ASSUME NEW n \in 1..m
      PROVE  At(n) \in DOMAIN table /\ Place(table, At(n)) = n /\ r[n] = Tabled(table, At(n))
  <2>1. n \in 1..size
    BY <1>1
  <2>2. At(n) \in DOMAIN table /\ Place(table, At(n)) = n
    BY <2>1, PlacesAreTaken
  <2> QED BY <2>2 DEF Restored, Tabled
<1>3. r = [n \in 1..m |-> r[n]]
  BY DEF Restored
<1> HIDE DEF m, At, r
<1>4. ASSUME NEW n \in 1..m
      PROVE  r[n] \in Clusters /\ Describes(r[n]) /\ r[n].id = At(n)
  <2>1. At(n) \in DOMAIN table /\ r[n] = Tabled(table, At(n))
    BY <1>2
  <2>2. Tabled(table, At(n)) \in Clusters /\ Describes(Tabled(table, At(n)))
    BY <2>1 DEF TableSound
  <2>3. Tabled(table, At(n)).id = At(n)
    BY DEF Tabled
  <2> QED BY <2>1, <2>2, <2>3
<1>5. r \in Seq(Clusters) /\ Len(r) = m
  BY <1>1, <1>3, <1>4
<1>6. \A i, j \in 1..m : r[i].id = r[j].id => i = j
  BY <1>2, <1>4
<1> QED BY <1>4, <1>5, <1>6 DEF Sound, r

\* A cluster that is merged with a line goes on describing where it began.
LEMMA MergeKeeps ==
  ASSUME Sound(registry), NEW line \in Line, NEW at \in Nat, NEW i \in Best(line)
  PROVE  Sound([registry EXCEPT ![i].tokens = Merged(@, line), ![i].seen = at])
<1> DEFINE n == Len(registry)
           c == registry[i]
           t == Merged(c.tokens, line)
           d == [c EXCEPT !.tokens = t, !.seen = at]
           merged == [registry EXCEPT ![i].tokens = Merged(@, line), ![i].seen = at]
<1>1. /\ n \in Nat /\ DOMAIN registry = 1..n /\ registry \in Seq(Clusters)
      /\ i \in Candidates(line) /\ i \in 1..n
  BY LenProperties DEF Sound, Best, Candidates
<1>2. c \in Clusters /\ Describes(c)
  BY <1>1, ElementOfSeq DEF Sound
<1>3. /\ c.tokens \in Seq(Token) /\ DOMAIN c.tokens = 1..Len(c.id)
      /\ Len(c.id) \in Nat
  BY <1>2, LenProperties DEF Clusters, Describes
<1>4. Agreeing(c.tokens, line) # {}
  <2> DEFINE s == Similarity(c.tokens, line)
  <2>1. s[1] \in Nat /\ s[2] \in Nat \ {0}
    BY <1>3, SimilarityIsShare
  <2>2. s[1] * 100 >= Threshold * s[2]
    BY <1>1 DEF Candidates
  <2>3. s[1] # 0
    <3> HIDE DEF s
    <3> QED
      BY <2>1, <2>2, TemplatesAssumption
  <2>4. s[1] = Cardinality(Agreeing(c.tokens, line))
    BY <2>3 DEF Similarity
  <2> QED
    BY <2>3, <2>4, FS_EmptySet
<1>5. /\ DOMAIN t = 1..Len(c.id)
      /\ \A k \in 1..Len(c.id) : t[k] = IF c.tokens[k] = line[k] THEN c.tokens[k] ELSE Wild
  BY <1>3 DEF Merged
<1>6. \A k \in 1..Len(c.id) : t[k] \in {c.id[k], Wild} /\ t[k] \in Token
  <2>1. \A k \in 1..Len(c.id) : c.tokens[k] \in {c.id[k], Wild}
    BY <1>2 DEF Describes
  <2>2. \A k \in 1..Len(c.id) : c.id[k] \in Token
    BY <1>2, ElementOfSeq DEF Clusters, Line, Token
  <2> HIDE DEF t, c
  <2> QED
    BY <1>5, <2>1, <2>2 DEF Token
<1>7. t \in Seq(Token) /\ Len(t) = Len(c.id)
  <2>1. t \in [1..Len(c.id) -> Token]
    <3>1. t = [k \in 1..Len(c.id) |-> t[k]]
      BY <1>3 DEF Merged
    <3> HIDE DEF t
    <3> QED
      BY <1>6, <3>1
  <2> DEFINE m == Len(c.id)
  <2> HIDE DEF t, m
  <2>2. m \in Nat /\ t \in [1..m -> Token]
    BY <1>3, <2>1 DEF m
  <2>3. t \in Seq(Token)
    BY <2>2
  <2>4. Len(t) = m
    BY <2>2
  <2> QED
    BY <2>3, <2>4 DEF m
<1>8. Agreeing(c.tokens, line) \subseteq Concrete(t)
  <2> HIDE DEF t
  <2> QED
    BY <1>3, <1>5 DEF Agreeing, Concrete
<1>9. d \in Clusters /\ Describes(d) /\ d.id = c.id
  <2>1. d.id = c.id /\ d.tokens = t /\ d.seen = at /\ d \in Clusters
    <3> HIDE DEF t, c
    <3> QED
      BY <1>2, <1>7 DEF Clusters
  <2> HIDE DEF d, t, c
  <2> QED
    BY <1>4, <1>6, <1>7, <1>8, <2>1 DEF Describes
<1>10. /\ merged \in Seq(Clusters) /\ Len(merged) = n
       /\ \A k \in 1..n : merged[k] = IF k = i THEN d ELSE registry[k]
  <2>1. merged = [registry EXCEPT ![i] = d]
    BY <1>1
  <2> HIDE DEF d, merged
  <2>2. merged \in Seq(Clusters) /\ Len(merged) = Len(registry)
    BY <1>1, <1>9, <2>1, ExceptSeq
  <2>3. \A k \in 1..n : merged[k] = IF k = i THEN d ELSE registry[k]
    BY <1>1, <2>1
  <2> QED
    BY <2>2, <2>3
<1>11. /\ \A k \in 1..n : Describes(registry[k])
       /\ \A k, l \in 1..n : registry[k].id = registry[l].id => k = l \/ Concrete(registry[k].id) = {}
  BY DEF Sound
<1> HIDE DEF n, d, merged
<1>12. \A k \in 1..n : Describes(merged[k]) /\ merged[k].id = registry[k].id
  BY <1>9, <1>10, <1>11
<1>13. \A k, l \in 1..n : merged[k].id = merged[l].id => k = l \/ Concrete(merged[k].id) = {}
  BY <1>11, <1>12
<1>14. Sound(merged)
  BY <1>10, <1>12, <1>13 DEF Sound
<1> QED
  BY <1>14 DEF merged

\* There is one cluster to evict.
LEMMA StalestIsIndex ==
  ASSUME Sound(registry), Len(registry) # 0
  PROVE  Stalest \in 1..Len(registry)
<1> DEFINE n == Len(registry)
           Times == {registry[i].seen : i \in 1..n}
<1>1. n \in Nat \ {0} /\ DOMAIN registry = 1..n
  BY LenProperties DEF Sound
<1>2. \A i \in 1..n : registry[i].seen \in Nat
  <2> SUFFICES ASSUME NEW i \in 1..n
               PROVE  registry[i].seen \in Nat
    OBVIOUS
  <2>1. registry[i] \in Clusters
    BY ElementOfSeq DEF Sound
  <2> QED
    BY <2>1 DEF Clusters
<1> HIDE DEF n
<1>3. Times \in SUBSET Nat /\ Times # {}
  BY <1>1, <1>2
<1>4. PICK x \in Times : \A y \in Times : x <= y
  BY <1>3, LeastExists
<1> DEFINE Oldest == {i \in 1..n : registry[i].seen = x}
<1>5. Oldest \in SUBSET Nat /\ Oldest # {}
  BY <1>1, <1>4
<1>6. PICK i \in Oldest : \A j \in Oldest : i <= j
  BY <1>5, LeastExists
<1>7. ASSUME NEW j \in 1..n
      PROVE  /\ registry[i].seen <= registry[j].seen
             /\ j < i => registry[i].seen < registry[j].seen
  <2>1. registry[i].seen = x /\ x <= registry[j].seen /\ i \in 1..n
    BY <1>4, <1>6
  <2>2. j < i => registry[j].seen # x
    BY <1>1, <1>6, <2>1
  <2> QED
    BY <1>2, <2>1, <2>2
<1>8. \E k \in DOMAIN registry : \A j \in DOMAIN registry :
        /\ registry[k].seen <= registry[j].seen
        /\ j < k => registry[k].seen < registry[j].seen
  BY <1>1, <1>6, <1>7
<1>9. Stalest \in DOMAIN registry
  BY <1>8 DEF Stalest
<1> QED
  BY <1>1, <1>9 DEF n

\* A line leaves the registry sound.
LEMMA LineKeeps ==
  ASSUME Sound(registry), NEW line \in Line, NEW at \in Nat, ProcessLine(line, at)
  PROVE  Sound(registry')
<1>1. CASE UNCHANGED registry
  BY <1>1
<1>2. ASSUME NEW i \in Best(line),
             registry' = [registry EXCEPT ![i].tokens = Merged(@, line), ![i].seen = at]
      PROVE  Sound(registry')
  BY <1>2, MergeKeeps
<1>3. ASSUME line # <<>>, Best(line) = {},
             registry' = Append(WithRoom, [id |-> line, tokens |-> line, seen |-> at])
      PROVE  Sound(registry')
  <2> DEFINE c == [id |-> line, tokens |-> line, seen |-> at]
  <2>1. /\ Len(line) \in Nat \ {0} /\ DOMAIN line = 1..Len(line)
    BY <1>3, LenProperties, EmptySeq DEF Line
  <2>2. c \in Clusters
    BY DEF Clusters, Line
  <2>3. Describes(c)
    BY <2>1 DEF Describes
  <2>4. \A i \in 1..Len(registry) : registry[i].id # line \/ Concrete(line) = {}
    BY <1>3, OwnLineMatches
  <2>5. /\ Sound(WithRoom)
        /\ \A k \in 1..Len(WithRoom) : \E j \in 1..Len(registry) : WithRoom[k] = registry[j]
    <3>1. CASE Len(registry) >= MaxTemplates
      <4>1. Len(registry) # 0
        BY <3>1, TemplatesAssumption
      <4>2. Stalest \in 1..Len(registry)
        BY <4>1, StalestIsIndex
      <4> QED
        BY <3>1, <4>2, RemoveKeeps DEF WithRoom
    <3>2. CASE ~(Len(registry) >= MaxTemplates)
      BY <3>2 DEF WithRoom
    <3> QED
      BY <3>1, <3>2
  <2>6. \A k \in 1..Len(WithRoom) : WithRoom[k].id # c.id \/ Concrete(c.id) = {}
    BY <2>4, <2>5
  <2> HIDE DEF c
  <2>7. Sound(Append(WithRoom, c))
    BY <2>2, <2>3, <2>5, <2>6, AppendKeeps
  <2> QED
    BY <1>3, <2>7 DEF c
<1> QED
  BY <1>1, <1>2, <1>3 DEF ProcessLine

-----------------------------------------------------------------------------
(* The invariant                                                           *)

LEMMA NoneIsSound == Sound(<<>>)
BY EmptySeq DEF Sound

LEMMA InitSound == Init => IInv
BY NoneIsSound DEF Init, IInv

LEMMA HandleKeeps == IInv /\ Handle => IInv'
<1> SUFFICES ASSUME IInv, Handle
             PROVE  IInv'
  OBVIOUS
<1>1. PICK line \in traffic.lines, step \in traffic.steps :
        LET at == clock + step
        IN  /\ at >= 0 /\ clock' = Later(clock, at)
            /\ ProcessLine(line, at) /\ UNCHANGED <<traffic, file>>
  BY DEF Handle, Filtered, Analysed
<1>2. line \in Line /\ step \in Int
  BY TrafficsAssumption DEF IInv, Line, Token
<1>3. clock + step \in Nat /\ clock' \in Nat
  BY <1>1, <1>2 DEF IInv, Later
<1>4. Sound(registry')
  BY <1>1, <1>2, <1>3, LineKeeps DEF IInv
<1> QED
  BY <1>1, <1>3, <1>4 DEF IInv

LEMMA SaveKeeps == IInv /\ Save => IInv'
<1> SUFFICES ASSUME IInv, Save PROVE IInv'
  OBVIOUS
<1>1. TableSound(Persisted(registry)) /\ UNCHANGED <<traffic, clock, registry>>
  BY PersistedIsSound DEF IInv, Save
<1>2. file' = file \/ file'.templates = Persisted(registry)
  BY DEF Save
<1> QED BY <1>1, <1>2 DEF IInv

LEMMA RestartKeeps == IInv /\ Restart => IInv'
<1> SUFFICES ASSUME IInv, Restart
             PROVE  IInv'
  OBVIOUS
<1>1. Sound(registry')
  <2>1. CASE file = NoFile
    BY <2>1, NoneIsSound DEF Restart
  <2>2. CASE file # NoFile
    BY <2>2, RestoreKeeps DEF IInv, Restart
  <2> QED
    BY <2>1, <2>2
<1> QED
  BY <1>1 DEF IInv, Restart

LEMMA NextKeeps == IInv /\ [Next]_vars => IInv'
<1> SUFFICES ASSUME IInv, [Next]_vars
             PROVE  IInv'
  OBVIOUS
<1>1. CASE Next
  BY <1>1, HandleKeeps, SaveKeeps, RestartKeeps DEF Next
<1>2. CASE UNCHANGED vars
  BY <1>2 DEF IInv, vars
<1> QED
  BY <1>1, <1>2

\* No two clusters of the registry ever have one id, across merges, evictions,
\* saves and restarts (TemplateEngine::process, evict_least_recently_seen,
\* restore), for any lines: what is learned of one template is never mixed with
\* another's, but for templates of nothing but <*>.
THEOREM ClustersAreNeverConfused == Spec => []IdsAreUnique
<1>1. IInv => IdsAreUnique
  <2> SUFFICES ASSUME IInv
               PROVE  IdsAreUnique
    OBVIOUS
  <2>1. DOMAIN registry = 1..Len(registry)
    BY LenProperties DEF IInv, Sound
  <2> QED
    BY <2>1 DEF IInv, Sound, IdsAreUnique
<1> QED
  BY InitSound, NextKeeps, <1>1, PTL DEF Spec

-----------------------------------------------------------------------------
(* What a step does to the engine                                          *)

\* The id process returns for a line is a line.
LEMMA MatchedIsLine ==
  ASSUME Sound(registry), NEW line \in Line
  PROVE  Matched(line) \in Line
<1>1. CASE Best(line) = {}
  BY <1>1 DEF Matched
<1>2. CASE Best(line) # {}
  <2> DEFINE i == CHOOSE i \in Best(line) : TRUE
  <2>1. i \in Best(line)
    BY <1>2
  <2>2. i \in 1..Len(registry)
    <3>1. DOMAIN registry = 1..Len(registry)
      BY LenProperties DEF Sound
    <3> HIDE DEF i
    <3> QED
      BY <2>1, <3>1 DEF Best, Candidates
  <2>3. registry[i] \in Clusters
    <3> HIDE DEF i
    <3> QED
      BY <2>2, ElementOfSeq DEF Sound
  <2>4. Matched(line) = registry[i].id
    BY <1>2 DEF Matched
  <2> HIDE DEF i
  <2> QED
    BY <2>3, <2>4 DEF Clusters
<1> QED
  BY <1>1, <1>2

Units == UNION {t.units : t \in Traffics}
learned == <<window, rateTracker, first, entropies, lastBucket, alarms, log, reports, withheld,
             judged>>

\* A step analyses one line, resets the engine, or leaves it alone.
LEMMA StepKinds ==
  ASSUME IInv, [Next]_vars
  PROVE  \/ \E id \in Line, u \in Units, at \in Nat : \E score : Process(id, u, at, score)
         \/ EngineReset
         \/ UNCHANGED learned
<1>1. CASE Handle
  <2>1. PICK line \in traffic.lines, step \in traffic.steps :
          LET at == clock + step
          IN  /\ at >= 0
              /\ \/ Filtered(line, at)
                 \/ \E u \in traffic.units, score \in traffic.scores : Analysed(line, u, at, score)
    BY <1>1 DEF Handle
  <2>2. line \in Line /\ clock + step \in Nat
    BY <2>1, TrafficsAssumption DEF IInv, Line, Token
  <2>3. CASE Filtered(line, clock + step)
    BY <2>3 DEF Filtered, learned, engine, ghosts
  <2>4. ASSUME NEW u \in traffic.units, NEW score \in traffic.scores,
               Analysed(line, u, clock + step, score)
        PROVE  \E id \in Line, v \in Units, at \in Nat : \E s : Process(id, v, at, s)
    <3>1. Process(Matched(line), u, clock + step, score)
      BY <2>4 DEF Analysed
    <3>2. Matched(line) \in Line
      BY <2>2, MatchedIsLine DEF IInv
    <3>3. u \in Units
      BY DEF IInv, Units
    <3> QED
      BY <2>2, <3>1, <3>2, <3>3
  <2> QED
    BY <2>1, <2>3, <2>4
<1>2. CASE Save
  BY <1>2 DEF Save, learned, engine
<1>3. CASE Restart
  BY <1>3 DEF Restart
<1>4. CASE UNCHANGED vars
  BY <1>4 DEF vars, learned, engine, ghosts
<1> QED
  BY <1>1, <1>2, <1>3, <1>4 DEF Next

-----------------------------------------------------------------------------
(* Levels and reports                                                      *)

Alarms == [level : Levels, at : Nat \cup {Never}, reported : Levels, suppressed : Nat]
Reports == [id : Line, at : Nat, level : Levels, suppressed : Nat, after : Nat]

Judgements ==
  /\ alarms \in [DOMAIN alarms -> Alarms]
  /\ reports \in Seq(Reports) /\ withheld \in Seq(Line)
  /\ \A i \in 1..Len(reports) : reports[i].after <= Len(withheld)
  /\ \A k \in 1..Len(withheld) : withheld[k] \in DOMAIN alarms
  /\ judged.level \in Levels /\ judged.at \in Nat

\* What the state of an alarm says of its last report.
Remembered ==
  \A x \in DOMAIN alarms : alarms[x].at # Never =>
    \E i \in 1..Len(reports) : /\ reports[i].id = x /\ reports[i].at = alarms[x].at
                               /\ reports[i].level = alarms[x].reported

JudgeInv == Judgements /\ Remembered /\ SeriousIsHeard /\ SuppressedAreReported

\* A level is one of the four, whatever the score.
LEMMA LevelIsLevel ==
  ASSUME NEW previous \in Levels, NEW score
  PROVE  LevelAt(previous, score) \in Levels
<1> DEFINE Entered == {0} \cup {l \in 1..3 : score >= Enter[l]}
           held == IF previous > 0 /\ score >= Exit[previous] THEN previous ELSE 0
<1>1. Entered \subseteq 0..3 /\ 0 \in Entered
  OBVIOUS
<1>2. Max(Entered) \in 0..3
  <2> HIDE DEF Entered
  <2>1. \E x \in Entered : \A y \in Entered : x >= y
    <3>1. CASE 3 \in Entered
      BY <1>1, <3>1
    <3>2. CASE 3 \notin Entered /\ 2 \in Entered
      BY <1>1, <3>2
    <3>3. CASE 3 \notin Entered /\ 2 \notin Entered /\ 1 \in Entered
      BY <1>1, <3>3
    <3>4. CASE 3 \notin Entered /\ 2 \notin Entered /\ 1 \notin Entered
      BY <1>1, <3>4
    <3> QED
      BY <3>1, <3>2, <3>3, <3>4
  <2>2. Max(Entered) \in Entered
    BY <2>1 DEF Max
  <2> QED
    BY <1>1, <2>2
<1>3. held \in 0..3
  BY DEF Levels
<1>4. LevelAt(previous, score) = Later(Max(Entered), held)
  BY DEF LevelAt
<1> HIDE DEF Entered, held
<1> QED
  BY <1>2, <1>3, <1>4 DEF Later, Levels

\* Appending changes nothing of what was there.
LEMMA AppendNth ==
  ASSUME NEW S, NEW s \in Seq(S), NEW e \in S
  PROVE  /\ Append(s, e) \in Seq(S) /\ Len(s) \in Nat
         /\ Len(Append(s, e)) = Len(s) + 1
         /\ \A i \in 1..Len(s) : Append(s, e)[i] = s[i]
         /\ Append(s, e)[Len(s) + 1] = e
         /\ DOMAIN s = 1..Len(s) /\ DOMAIN Append(s, e) = 1..Len(s) + 1
BY AppendProperties, LenProperties

\* Between, of any two sequences.
Since(w, r, x, earlier, n) ==
  {k \in 1..n : w[k] = x /\ \A j \in earlier : r[j].id = x => r[j].after < k}

\* The withheld reports that count are finitely many.
LEMMA SinceIsFinite ==
  ASSUME NEW w, NEW r, NEW x, NEW earlier, NEW n \in Nat
  PROVE  /\ IsFiniteSet(Since(w, r, x, earlier, n)) /\ Since(w, r, x, earlier, n) \subseteq 1..n
         /\ Cardinality(Since(w, r, x, earlier, n)) \in Nat
<1>1. Since(w, r, x, earlier, n) \subseteq 1..n
  BY DEF Since
<1>2. IsFiniteSet(1..n)
  BY FS_Interval
<1>3. IsFiniteSet(Since(w, r, x, earlier, n))
  BY <1>1, <1>2, FS_Subset
<1> QED
  BY <1>1, <1>3, FS_CardinalityType

\* What Judge does to the state of an alarm and to the ghosts.
LEMMA JudgeTypes ==
  ASSUME Judgements, NEW id \in Line, NEW at \in Nat, NEW score, Judge(id, at, score)
  PROVE  /\ Judgements'
         /\ DOMAIN alarms' = DOMAIN alarms \cup {id}
         /\ \A x \in DOMAIN alarms : x # id => alarms'[x] = alarms[x]
<1> DEFINE level == LevelAt(Alarm(id).level, score)
           alarm == [Alarm(id) EXCEPT !.level = level]
           silent == level = 0 \/ Learning(at)
           report == [id |-> id, at |-> at, level |-> level, suppressed |-> alarm.suppressed,
                      after |-> Len(withheld)]
<1>1. Alarm(id) \in Alarms
  <2>1. Calm \in Alarms
    BY DEF Calm, Alarms, Levels
  <2> QED
    BY <2>1 DEF Alarm, Judgements
<1>2. level \in Levels
  BY <1>1, LevelIsLevel DEF Alarms
<1>3. alarm \in Alarms /\ Len(withheld) \in Nat /\ report \in Reports
  <2> HIDE DEF level
  <2> QED
    BY <1>1, <1>2, LenProperties DEF Alarms, Reports, Judgements
<1>4. /\ judged' = [id |-> id, at |-> at, level |-> level, silent |-> silent]
      /\ judged'.level \in Levels /\ judged'.at \in Nat
  <2>1. judged' = [id |-> id, at |-> at, level |-> level, silent |-> silent]
    BY DEF Judge
  <2> HIDE DEF level, silent
  <2> QED
    BY <1>2, <2>1
<1>5. PICK a \in Alarms :
        /\ alarms' = With(alarms, id, a)
        /\ \/ UNCHANGED <<reports, withheld>>
           \/ withheld' = Append(withheld, id) /\ UNCHANGED reports
           \/ reports' = Append(reports, report) /\ UNCHANGED withheld
  <2> DEFINE more == [alarm EXCEPT !.suppressed = @ + 1]
             after == AfterReport(alarm, at, level)
  <2>1. \/ alarms' = With(alarms, id, alarm) /\ UNCHANGED <<reports, withheld>>
        \/ /\ alarms' = With(alarms, id, more)
           /\ withheld' = Append(withheld, id) /\ UNCHANGED reports
        \/ /\ alarms' = With(alarms, id, after)
           /\ reports' = Append(reports, report) /\ UNCHANGED withheld
    BY DEF Judge
  <2>2. more \in Alarms
    <3> HIDE DEF alarm
    <3> QED
      BY <1>3 DEF Alarms
  <2>3. after \in Alarms
    <3> HIDE DEF alarm, level
    <3> QED
      BY <1>2, <1>3 DEF Alarms, AfterReport, Levels
  <2> HIDE DEF alarm, more, after, report
  <2> QED
    BY <1>3, <2>1, <2>2, <2>3
<1> HIDE DEF level, alarm, silent, report
<1>6. /\ DOMAIN alarms' = DOMAIN alarms \cup {id}
      /\ \A x \in DOMAIN alarms : x # id => alarms'[x] = alarms[x]
      /\ alarms'[id] = a
      /\ alarms' = [x \in DOMAIN alarms \cup {id} |-> IF x = id THEN a ELSE alarms[x]]
  BY <1>5 DEF With
<1>7. alarms' \in [DOMAIN alarms' -> Alarms]
  <2>1. alarms \in [DOMAIN alarms -> Alarms]
    BY DEF Judgements
  <2> QED
    BY <1>6, <2>1
<1>8. /\ reports \in Seq(Reports) /\ withheld \in Seq(Line)
      /\ \A i \in 1..Len(reports) : reports[i].after <= Len(withheld)
      /\ \A k \in 1..Len(withheld) : withheld[k] \in DOMAIN alarms
  BY DEF Judgements
<1>9. /\ reports' \in Seq(Reports) /\ withheld' \in Seq(Line)
      /\ \A i \in 1..Len(reports') : reports'[i].after <= Len(withheld')
      /\ \A k \in 1..Len(withheld') : withheld'[k] \in DOMAIN alarms'
  <2>1. CASE UNCHANGED <<reports, withheld>>
    BY <1>6, <1>8, <2>1
  <2>2. CASE withheld' = Append(withheld, id) /\ UNCHANGED reports
    <3>1. /\ withheld' \in Seq(Line) /\ Len(withheld') = Len(withheld) + 1
          /\ \A k \in 1..Len(withheld) : withheld'[k] = withheld[k]
          /\ withheld'[Len(withheld) + 1] = id
      BY <1>8, <2>2, AppendNth
    <3>2. \A i \in 1..Len(reports) : reports[i].after \in Nat
      <4>1. \A i \in 1..Len(reports) : reports[i] \in Reports
        BY <1>8, ElementOfSeq
      <4> QED
        BY <4>1 DEF Reports
    <3>3. \A k \in 1..Len(withheld') : k \in 1..Len(withheld) \/ k = Len(withheld) + 1
      BY <1>3, <3>1
    <3> QED
      BY <1>3, <1>6, <1>8, <2>2, <3>1, <3>2, <3>3
  <2>3. CASE reports' = Append(reports, report) /\ UNCHANGED withheld
    <3>1. /\ reports' \in Seq(Reports) /\ Len(reports') = Len(reports) + 1
          /\ \A i \in 1..Len(reports) : reports'[i] = reports[i]
          /\ reports'[Len(reports) + 1] = report /\ Len(reports) \in Nat
      BY <1>3, <1>8, <2>3, AppendNth
    <3>2. \A i \in 1..Len(reports') : i \in 1..Len(reports) \/ i = Len(reports) + 1
      BY <3>1
    <3>3. report.after = Len(withheld)
      BY DEF report
    <3> QED
      BY <1>3, <1>6, <1>8, <2>3, <3>1, <3>2, <3>3
  <2> QED
    BY <1>5, <2>1, <2>2, <2>3
<1> QED
  BY <1>4, <1>6, <1>7, <1>9 DEF Judgements

\* After Judge the state of each alarm tells its last report, and nothing
\* serious is unheard.
LEMMA JudgeHears ==
  ASSUME Judgements, Remembered, NEW id \in Line, NEW at \in Nat, NEW score,
         Judge(id, at, score)
  PROVE  Remembered' /\ SeriousIsHeard'
<1> DEFINE level == LevelAt(Alarm(id).level, score)
           alarm == [Alarm(id) EXCEPT !.level = level]
           silent == level = 0 \/ Learning(at)
           report == [id |-> id, at |-> at, level |-> level, suppressed |-> alarm.suppressed,
                      after |-> Len(withheld)]
           Tells(r, x, a) == r.id = x /\ r.at = a.at /\ r.level = a.reported
<1>1. Alarm(id) \in Alarms
  <2>1. Calm \in Alarms
    BY DEF Calm, Alarms, Levels
  <2> QED
    BY <2>1 DEF Alarm, Judgements
<1>2. level \in Levels
  BY <1>1, LevelIsLevel DEF Alarms
<1>3. alarm \in Alarms /\ alarm.at = Alarm(id).at /\ alarm.reported = Alarm(id).reported
  <2> HIDE DEF level
  <2> QED
    BY <1>1, <1>2 DEF Alarms
<1>4. judged' = [id |-> id, at |-> at, level |-> level, silent |-> silent]
  BY DEF Judge
<1>5. /\ DOMAIN alarms' = DOMAIN alarms \cup {id}
      /\ \A x \in DOMAIN alarms : x # id => alarms'[x] = alarms[x]
  BY JudgeTypes
<1>6. alarm.at # Never => \E i \in 1..Len(reports) : Tells(reports[i], id, alarm)
  <2>1. CASE id \in DOMAIN alarms
    BY <1>3, <2>1 DEF Alarm, Remembered
  <2>2. CASE id \notin DOMAIN alarms
    BY <1>3, <2>2 DEF Alarm, Calm
  <2> QED
    BY <2>1, <2>2
<1>7. \A x \in DOMAIN alarms : alarms[x].at # Never =>
        \E i \in 1..Len(reports) : Tells(reports[i], x, alarms[x])
  BY DEF Remembered
<1>8. /\ reports \in Seq(Reports) /\ Len(reports) \in Nat
      /\ DOMAIN reports = 1..Len(reports)
      /\ \A i \in 1..Len(reports) : reports[i] \in Reports
  BY LenProperties, ElementOfSeq DEF Judgements
<1>9. \/ /\ silent /\ alarms'[id] = alarm /\ UNCHANGED reports
      \/ /\ ~silent /\ InCooldown(alarm, at, level) /\ UNCHANGED reports
         /\ alarms'[id].at = alarm.at /\ alarms'[id].reported = alarm.reported
      \/ /\ ~silent /\ reports' = Append(reports, report)
         /\ alarms'[id].at = at /\ alarms'[id].reported = level
  <2> DEFINE more == [alarm EXCEPT !.suppressed = @ + 1]
             after == AfterReport(alarm, at, level)
  <2>1. \/ silent /\ alarms' = With(alarms, id, alarm) /\ UNCHANGED reports
        \/ /\ ~silent /\ InCooldown(alarm, at, level)
           /\ alarms' = With(alarms, id, more) /\ UNCHANGED reports
        \/ /\ ~silent /\ alarms' = With(alarms, id, after)
           /\ reports' = Append(reports, report)
    BY DEF Judge
  <2>2. \A a : With(alarms, id, a)[id] = a
    BY DEF With
  <2>3. more.at = alarm.at /\ more.reported = alarm.reported
    <3> HIDE DEF alarm
    <3> QED
      BY <1>3 DEF Alarms
  <2>4. after.at = at /\ after.reported = level
    <3> HIDE DEF alarm, level
    <3> QED
      BY <1>3 DEF Alarms, AfterReport
  <2> HIDE DEF alarm, level, silent, report, more, after
  <2> QED
    BY <2>1, <2>2, <2>3, <2>4
<1>10. Tells(report, id, [at |-> at, reported |-> level]) /\ report \in Reports
  <2>1. report \in Reports
    <3> HIDE DEF level, alarm
    <3> QED
      BY <1>2, <1>3, LenProperties DEF Reports, Judgements, Alarms
  <2> QED
    BY <2>1
<1> HIDE DEF level, alarm, silent, report
<1>11. /\ \A i \in 1..Len(reports) : i \in 1..Len(reports') /\ reports'[i] = reports[i]
       /\ DOMAIN reports' = 1..Len(reports')
       /\ reports' = Append(reports, report) =>
            /\ Len(reports) + 1 \in 1..Len(reports')
            /\ reports'[Len(reports) + 1] = report
  <2>1. CASE UNCHANGED reports
    <3>1. reports' # Append(reports, report)
      <4>1. Len(Append(reports, report)) = Len(reports) + 1
        BY <1>8, <1>10, AppendNth
      <4>2. reports' = reports
        BY <2>1
      <4>3. Len(reports) # Len(reports) + 1
        <5>1. \A n \in Nat : n # n + 1
          OBVIOUS
        <5> QED
          BY <1>8, <5>1
      <4> QED
        BY <4>1, <4>2, <4>3
    <3> QED
      BY <1>8, <2>1, <3>1
  <2>2. CASE reports' = Append(reports, report)
    <3>1. /\ Len(reports') = Len(reports) + 1 /\ DOMAIN reports' = 1..Len(reports) + 1
          /\ \A i \in 1..Len(reports) : reports'[i] = reports[i]
          /\ reports'[Len(reports) + 1] = report
      BY <1>8, <1>10, <2>2, AppendNth
    <3> QED
      BY <1>8, <3>1
  <2> QED
    BY <1>9, <2>1, <2>2
<1>12. Remembered'
  <2> SUFFICES ASSUME NEW x \in DOMAIN alarms', alarms'[x].at # Never
               PROVE  \E i \in 1..Len(reports') : Tells(reports'[i], x, alarms'[x])
    BY DEF Remembered
  <2>1. CASE x # id
    <3>1. x \in DOMAIN alarms /\ alarms'[x] = alarms[x]
      BY <1>5, <2>1
    <3>2. PICK i \in 1..Len(reports) : Tells(reports[i], x, alarms[x])
      BY <1>7, <3>1
    <3>3. i \in 1..Len(reports') /\ reports'[i] = reports[i]
      BY <1>11
    <3> QED
      BY <3>1, <3>2, <3>3
  <2>2. CASE x = id
    BY <1>6, <1>9, <1>10, <1>11, <2>2
  <2> QED
    BY <2>1, <2>2
<1>13. SeriousIsHeard'
  <2>1. CASE silent
    BY <1>4, <2>1 DEF SeriousIsHeard
  <2>2. CASE ~silent /\ InCooldown(alarm, at, level) /\ UNCHANGED reports
    <3>1. PICK i \in 1..Len(reports) : Tells(reports[i], id, alarm)
      BY <1>6, <2>2 DEF InCooldown
    <3>2. /\ reports[i].level >= level
          /\ at < reports[i].at + Cooldown \/ at = reports[i].at
      <4>1. level <= alarm.reported /\ (at < alarm.at \/ at - alarm.at < Cooldown)
        BY <2>2 DEF InCooldown
      <4>2. alarm.at \in Nat /\ alarm.reported \in 0..3 /\ level \in 0..3 /\ Cooldown \in Nat
        BY <1>2, <1>3, <1>8, <3>1, AnalysisAssumption DEF Reports, Alarms, Levels
      <4> QED
        BY <3>1, <4>1, <4>2
    <3> QED
      BY <1>4, <1>8, <2>2, <3>1, <3>2 DEF SeriousIsHeard
  <2>3. CASE ~silent /\ reports' = Append(reports, report)
    <3>1. report.level >= level /\ report.at = at /\ report.id = id
      BY <1>2, <1>10 DEF Levels
    <3> QED
      BY <1>4, <1>11, <2>3, <3>1 DEF SeriousIsHeard
  <2> QED
    BY <1>9, <2>1, <2>2, <2>3
<1> QED
  BY <1>12, <1>13

\* Appending to the withheld reports leaves the earlier ones counted as they were.
LEMMA JudgeCounts ==
  ASSUME Judgements, SuppressedAreReported, NEW id \in Line, NEW at \in Nat, NEW score,
         Judge(id, at, score)
  PROVE  SuppressedAreReported'
<1> DEFINE level == LevelAt(Alarm(id).level, score)
           alarm == [Alarm(id) EXCEPT !.level = level]
           report == [id |-> id, at |-> at, level |-> level, suppressed |-> alarm.suppressed,
                      after |-> Len(withheld)]
           Waiting(x) == Since(withheld, reports, x, 1..Len(reports), Len(withheld))
<1>1. /\ Alarm(id) \in Alarms
      /\ Alarm(id).suppressed = IF id \in DOMAIN alarms THEN alarms[id].suppressed ELSE 0
  <2>1. Calm \in Alarms /\ Calm.suppressed = 0
    BY DEF Calm, Alarms, Levels
  <2> QED
    BY <2>1 DEF Alarm, Judgements
<1>2. level \in Levels
  BY <1>1, LevelIsLevel DEF Alarms
<1>3. alarm \in Alarms /\ alarm.suppressed = Alarm(id).suppressed
  <2> HIDE DEF level
  <2> QED
    BY <1>1, <1>2 DEF Alarms
<1>4. /\ DOMAIN alarms' = DOMAIN alarms \cup {id}
      /\ \A x \in DOMAIN alarms : x # id => alarms'[x] = alarms[x]
  BY JudgeTypes
<1>5. /\ reports \in Seq(Reports) /\ Len(reports) \in Nat /\ DOMAIN reports = 1..Len(reports)
      /\ withheld \in Seq(Line) /\ Len(withheld) \in Nat
      /\ \A i \in 1..Len(reports) : reports[i] \in Reports /\ reports[i].after \in Nat
      /\ \A i \in 1..Len(reports) : reports[i].after <= Len(withheld)
      /\ \A k \in 1..Len(withheld) : withheld[k] \in DOMAIN alarms
  <2>1. \A i \in 1..Len(reports) : reports[i] \in Reports
    BY ElementOfSeq DEF Judgements
  <2> QED
    BY <2>1, LenProperties DEF Judgements, Reports
<1>6. /\ \A i \in 1..Len(reports) : reports[i].suppressed
           = Cardinality(Since(withheld, reports, reports[i].id, 1..i - 1, reports[i].after))
      /\ \A x \in DOMAIN alarms : alarms[x].suppressed = Cardinality(Waiting(x))
  BY <1>5 DEF SuppressedAreReported, Between, Since
<1>7. alarm.suppressed = Cardinality(Waiting(id))
  <2>1. CASE id \in DOMAIN alarms
    BY <1>1, <1>3, <1>6, <2>1
  <2>2. CASE id \notin DOMAIN alarms
    <3>1. Waiting(id) = {}
      BY <1>5, <2>2 DEF Since
    <3> QED
      BY <1>1, <1>3, <2>2, <3>1, FS_EmptySet
  <2> QED
    BY <2>1, <2>2
<1>8. \/ /\ UNCHANGED <<reports, withheld>> /\ alarms'[id].suppressed = alarm.suppressed
      \/ /\ withheld' = Append(withheld, id) /\ UNCHANGED reports
         /\ alarms'[id].suppressed = alarm.suppressed + 1
      \/ /\ reports' = Append(reports, report) /\ UNCHANGED withheld
         /\ alarms'[id].suppressed = 0
  <2> DEFINE more == [alarm EXCEPT !.suppressed = @ + 1]
             after == AfterReport(alarm, at, level)
  <2>1. \/ alarms' = With(alarms, id, alarm) /\ UNCHANGED <<reports, withheld>>
        \/ /\ alarms' = With(alarms, id, more)
           /\ withheld' = Append(withheld, id) /\ UNCHANGED reports
        \/ /\ alarms' = With(alarms, id, after)
           /\ reports' = Append(reports, report) /\ UNCHANGED withheld
    BY DEF Judge
  <2>2. \A a : With(alarms, id, a)[id] = a
    BY DEF With
  <2>3. more.suppressed = alarm.suppressed + 1
    <3> HIDE DEF alarm
    <3> QED
      BY <1>3 DEF Alarms
  <2>4. after.suppressed = 0
    <3> HIDE DEF alarm, level
    <3> QED
      BY <1>3 DEF Alarms, AfterReport
  <2> HIDE DEF alarm, report, more, after
  <2> QED
    BY <2>1, <2>2, <2>3, <2>4
<1>9. report \in Reports /\ report.id = id /\ report.after = Len(withheld)
      /\ report.suppressed = alarm.suppressed
  <2> HIDE DEF level, alarm
  <2> QED
    BY <1>2, <1>3, <1>5 DEF Reports, Alarms
<1> HIDE DEF level, alarm, report
<1> DEFINE Before(i) == Since(withheld', reports', reports'[i].id, 1..i - 1, reports'[i].after)
           Waits(x) == Since(withheld', reports', x, 1..Len(reports'), Len(withheld'))
<1>10. SUFFICES ASSUME TRUE
                PROVE  /\ DOMAIN reports' = 1..Len(reports')
                       /\ \A i \in 1..Len(reports') :
                            reports'[i].suppressed = Cardinality(Before(i))
                       /\ \A x \in DOMAIN alarms' : alarms'[x].suppressed = Cardinality(Waits(x))
  BY DEF SuppressedAreReported, Between, Since
<1>11. CASE UNCHANGED <<reports, withheld>> /\ alarms'[id].suppressed = alarm.suppressed
  <2>1. reports' = reports /\ withheld' = withheld
    BY <1>11
  <2> HIDE DEF Waiting
  <2>2. \A x : Waits(x) = Waiting(x)
    BY <2>1 DEF Waiting
  <2> HIDE DEF Waits
  <2> QED
    BY <1>4, <1>5, <1>6, <1>7, <1>11, <2>1, <2>2
<1>12. CASE /\ withheld' = Append(withheld, id) /\ UNCHANGED reports
            /\ alarms'[id].suppressed = alarm.suppressed + 1
  <2>1. /\ Len(withheld') = Len(withheld) + 1
        /\ \A k \in 1..Len(withheld) : withheld'[k] = withheld[k]
        /\ withheld'[Len(withheld) + 1] = id
    BY <1>5, <1>12, AppendNth
  <2>2. reports' = reports
    BY <1>12
  <2>3. ASSUME NEW i \in 1..Len(reports)
        PROVE  reports'[i].suppressed = Cardinality(Before(i))
    <3>1. reports[i].after \in 0..Len(withheld)
      BY <1>5
    <3>2. Before(i) = Since(withheld, reports, reports[i].id, 1..i - 1, reports[i].after)
      BY <1>5, <2>1, <2>2, <3>1 DEF Since
    <3> HIDE DEF Before
    <3> QED
      BY <1>6, <2>2, <3>2
  <2>4. \A x : x # id => Waits(x) = Waiting(x)
    BY <1>5, <2>1, <2>2 DEF Since
  <2>5. Waits(id) = Waiting(id) \cup {Len(withheld) + 1}
    BY <1>5, <2>1, <2>2 DEF Since
  <2>6. Cardinality(Waits(id)) = Cardinality(Waiting(id)) + 1
    <3>1. IsFiniteSet(Waiting(id)) /\ Waiting(id) \subseteq 1..Len(withheld)
      BY <1>5, SinceIsFinite
    <3>2. Len(withheld) + 1 \notin Waiting(id)
      BY <1>5, <3>1
    <3> QED
      BY <2>5, <3>1, <3>2, FS_AddElement
  <2> HIDE DEF Waits, Waiting, Before
  <2> QED
    BY <1>4, <1>5, <1>6, <1>7, <1>12, <2>2, <2>3, <2>4, <2>6
<1>13. CASE /\ reports' = Append(reports, report) /\ UNCHANGED withheld
            /\ alarms'[id].suppressed = 0
  <2>1. /\ Len(reports') = Len(reports) + 1 /\ DOMAIN reports' = 1..Len(reports) + 1
        /\ \A i \in 1..Len(reports) : reports'[i] = reports[i]
        /\ reports'[Len(reports) + 1] = report
    BY <1>5, <1>9, <1>13, AppendNth
  <2>2. withheld' = withheld
    BY <1>13
  <2>3. ASSUME NEW x, NEW i \in 0..Len(reports), NEW n
        PROVE  Since(withheld', reports', x, 1..i, n) = Since(withheld, reports, x, 1..i, n)
    <3>1. \A j \in 1..i : reports'[j] = reports[j]
      BY <1>5, <2>1
    <3> QED
      BY <2>2, <3>1 DEF Since
  <2>4. ASSUME NEW x, x # id
        PROVE  Waits(x) = Waiting(x)
    <3>1. \A j \in 1..Len(reports') : j \in 1..Len(reports) \/ j = Len(reports) + 1
      BY <1>5, <2>1
    <3>2. \A j \in 1..Len(reports) : j \in 1..Len(reports')
      BY <1>5, <2>1
    <3> QED
      BY <1>9, <2>1, <2>2, <2>4, <3>1, <3>2 DEF Since
  <2>5. Waits(id) = {}
    BY <1>5, <1>9, <2>1, <2>2 DEF Since
  <2>6. \A x \in DOMAIN alarms' : alarms'[x].suppressed = Cardinality(Waits(x))
    <3> HIDE DEF Waits, Waiting
    <3> QED
      BY <1>4, <1>6, <1>13, <2>4, <2>5, FS_EmptySet
  <2>7. ASSUME NEW i \in 1..Len(reports) + 1
        PROVE  reports'[i].suppressed = Cardinality(Before(i))
    <3>1. i - 1 \in 0..Len(reports)
      BY <1>5
    <3>2. Before(i) = Since(withheld, reports, reports'[i].id, 1..i - 1, reports'[i].after)
      BY <2>3, <3>1
    <3> HIDE DEF Before
    <3>3. CASE i \in 1..Len(reports)
      BY <1>6, <2>1, <3>2, <3>3
    <3>4. CASE i = Len(reports) + 1
      <4>1. reports'[i] = report /\ i - 1 = Len(reports)
        BY <1>5, <2>1, <3>4
      <4>2. Before(i) = Waiting(id)
        BY <1>9, <3>2, <4>1
      <4> HIDE DEF Waiting
      <4> QED
        BY <1>7, <1>9, <4>1, <4>2
    <3> QED
      BY <1>5, <3>3, <3>4
  <2> HIDE DEF Waits, Before
  <2> QED
    BY <2>1, <2>6, <2>7
<1> QED
  BY <1>8, <1>11, <1>12, <1>13

\* Nothing reported is as good a start as any.
LEMMA NothingReported ==
  ASSUME alarms = <<>>, reports = <<>>, withheld = <<>>, judged = NotYet
  PROVE  JudgeInv
<1>1. DOMAIN alarms = {} /\ DOMAIN reports = {} /\ Len(reports) = 0 /\ Len(withheld) = 0
  OBVIOUS
<1>2. Judgements
  BY <1>1, EmptySeq DEF Judgements, NotYet, Levels
<1> QED
  BY <1>1, <1>2 DEF JudgeInv, Remembered, SeriousIsHeard, SuppressedAreReported, NotYet

LEMMA JudgeInvHolds == Spec => []JudgeInv
<1>1. Init => JudgeInv
  BY NothingReported DEF Init, EngineInit
<1>2. IInv /\ JudgeInv /\ [Next]_vars => JudgeInv'
  <2> SUFFICES ASSUME IInv, JudgeInv, [Next]_vars
               PROVE  JudgeInv'
    OBVIOUS
  <2>1. ASSUME NEW id \in Line, NEW u \in Units, NEW at \in Nat, NEW score,
               Process(id, u, at, score)
        PROVE  JudgeInv'
    <3>1. Judge(id, at, score)
      BY <2>1 DEF Process
    <3> QED
      BY <3>1, JudgeTypes, JudgeHears, JudgeCounts DEF JudgeInv
  <2>2. CASE EngineReset
    <3>1. alarms' = <<>> /\ reports' = <<>> /\ withheld' = <<>> /\ judged' = NotYet
      BY <2>2 DEF EngineReset
    <3>2. DOMAIN alarms' = {} /\ DOMAIN reports' = {} /\ Len(reports') = 0 /\ Len(withheld') = 0
      BY <3>1
    <3>3. Judgements'
      BY <3>1, <3>2, EmptySeq DEF Judgements, NotYet, Levels
    <3> QED
      BY <3>1, <3>2, <3>3
         DEF JudgeInv, Remembered, SeriousIsHeard, SuppressedAreReported, NotYet
  <2>3. CASE UNCHANGED learned
    <3>1. UNCHANGED <<alarms, reports, withheld, judged>>
      BY <2>3 DEF learned
    <3>2. Judgements' /\ Remembered'
      BY <3>1 DEF JudgeInv, Judgements, Remembered
    <3>3. SeriousIsHeard'
      BY <3>1 DEF JudgeInv, SeriousIsHeard
    <3>4. \A x, earlier, last : Between(x, earlier, last)' = Between(x, earlier, last)
      BY <3>1 DEF Between
    <3>5. SuppressedAreReported'
      BY <3>1, <3>4 DEF JudgeInv, SuppressedAreReported
    <3> QED
      BY <3>2, <3>3, <3>5 DEF JudgeInv
  <2> QED
    BY <2>1, <2>2, <2>3, StepKinds
<1> QED
  BY <1>1, <1>2, InitSound, NextKeeps, PTL DEF Spec

\* Outside the learning phase whatever rises above Normal has been reported, on
\* its level or a higher one and not longer ago than the cooldown
\* (is_in_cooldown, level_with_hysteresis), late lines included.
THEOREM NothingSeriousIsUnheard == Spec => []SeriousIsHeard
<1>1. JudgeInv => SeriousIsHeard
  BY DEF JudgeInv
<1> QED
  BY <1>1, JudgeInvHolds, PTL

\* Each report tells exactly how many were withheld since the one before it, of
\* its template (suppressed_since_last); the others are in its alarm's state.
THEOREM NothingWithheldIsLost == Spec => []SuppressedAreReported
<1>1. JudgeInv => SuppressedAreReported
  BY DEF JudgeInv
<1> QED
  BY <1>1, JudgeInvHolds, PTL

-----------------------------------------------------------------------------
(* The lines analysed, and the time reached with each                      *)

Events == [id : Line, unit : Units, at : Nat]
\* Reached, in any sequence of events.
ReachedIn(l, i) == Max({l[j].at : j \in 1..i})

\* The latest time among the first events is that of one of them.
LEMMA ReachedIsOne ==
  ASSUME NEW l \in Seq(Events), NEW n \in 1..Len(l)
  PROVE  /\ ReachedIn(l, n) \in Nat
         /\ \E j \in 1..n : l[j].at = ReachedIn(l, n)
         /\ \A j \in 1..n : l[j].at <= ReachedIn(l, n)
<1> DEFINE Has(i) == \E j \in 1..i : \A k \in 1..i : l[k].at <= l[j].at
           Bad == {i \in 1..Len(l) : ~Has(i)}
<1>1. Len(l) \in Nat
  BY LenProperties
<1>2. \A i \in 1..Len(l) : l[i].at \in Nat
  <2>1. \A i \in 1..Len(l) : l[i] \in Events
    BY ElementOfSeq
  <2> QED
    BY <2>1 DEF Events
<1>3. Bad = {}
  <2> SUFFICES ASSUME Bad # {}
               PROVE  FALSE
    OBVIOUS
  <2>0. Bad \in SUBSET Nat
    OBVIOUS
  <2>1. PICK i \in Bad : \A j \in Bad : i <= j
    <3> HIDE DEF Bad
    <3> QED
      BY <2>0, LeastExists
  <2>2. CASE i = 1
    <3>1. 1 \in 1..Len(l) /\ l[1].at <= l[1].at /\ \A k \in 1..1 : k = 1
      BY <1>2, <2>1, <2>2
    <3>2. 1 \in 1..1 /\ \A k \in 1..1 : l[k].at <= l[1].at
      BY <3>1
    <3>3. Has(1)
      BY <3>2
    <3> QED
      BY <2>1, <2>2, <3>3
  <2>3. CASE i # 1
    <3>1. i - 1 \in 1..Len(l) /\ i - 1 \notin Bad
      <4>1. i \in 1..Len(l) /\ i \in Nat
        BY <1>1
      <4>2. i - 1 \in 1..Len(l) /\ ~(i <= i - 1)
        BY <1>1, <2>3, <4>1
      <4> HIDE DEF Bad
      <4> QED
        BY <2>1, <4>2
    <3>2. PICK j \in 1..i - 1 : \A k \in 1..i - 1 : l[k].at <= l[j].at
      BY <3>1
    <3>3. \A k \in 1..i : k \in 1..i - 1 \/ k = i
      BY <3>1
    <3>4. j \in 1..i /\ i \in 1..i /\ \A k \in 1..i : k \in 1..Len(l)
      BY <1>1, <2>1, <3>1
    <3>5. CASE l[i].at <= l[j].at
      BY <2>1, <3>2, <3>3, <3>4, <3>5
    <3>6. CASE ~(l[i].at <= l[j].at)
      <4>1. ASSUME NEW k \in 1..i
            PROVE  l[k].at <= l[i].at
        <5>1. l[k].at \in Nat /\ l[j].at \in Nat /\ l[i].at \in Nat
          BY <1>2, <3>4
        <5>2. k = i \/ l[k].at <= l[j].at
          BY <3>2, <3>3
        <5> DEFINE a == l[k].at
                   b == l[j].at
                   c == l[i].at
        <5>3. a \in Nat /\ b \in Nat /\ c \in Nat /\ (a = c \/ a <= b) /\ ~(c <= b)
          BY <3>6, <5>1, <5>2
        <5> HIDE DEF a, b, c
        <5>4. a <= c
          BY <5>3
        <5> QED
          BY <5>4 DEF a, c
      <4> QED
        BY <2>1, <3>4, <4>1
    <3> QED
      BY <3>5, <3>6
  <2> QED
    BY <2>2, <2>3
<1>4. PICK j \in 1..n : \A k \in 1..n : l[k].at <= l[j].at
  BY <1>3
<1> DEFINE T == {l[k].at : k \in 1..n}
<1>5. \A k \in 1..n : l[k].at \in Nat
  BY <1>1, <1>2
<1>6. \E x \in T : \A y \in T : x >= y
  <2>1. l[j].at \in T
    OBVIOUS
  <2>2. \A y \in T : l[j].at >= y
    BY <1>4, <1>5
  <2> HIDE DEF T
  <2> QED
    BY <2>1, <2>2
<1>7. Max(T) \in T /\ \A y \in T : Max(T) >= y
  <2> HIDE DEF T
  <2> QED
    BY <1>6 DEF Max
<1>8. ReachedIn(l, n) = Max(T)
  BY DEF ReachedIn
<1>9. \A k \in 1..n : l[k].at \in T
  OBVIOUS
<1>10. \A y \in T : y \in Nat /\ \E k \in 1..n : l[k].at = y
  BY <1>5
<1> HIDE DEF T
<1> QED
  BY <1>5, <1>7, <1>8, <1>9, <1>10

\* A number that is reached and not passed is the one.
LEMMA ReachedIsThat ==
  ASSUME NEW l \in Seq(Events), NEW n \in 1..Len(l), NEW j \in 1..n,
         \A k \in 1..n : l[k].at <= l[j].at
  PROVE  ReachedIn(l, n) = l[j].at
<1>1. PICK k \in 1..n : l[k].at = ReachedIn(l, n)
  BY ReachedIsOne
<1>2. l[k].at <= l[j].at /\ l[j].at <= ReachedIn(l, n) /\ ReachedIn(l, n) \in Nat
  BY ReachedIsOne
<1>3. l[j].at \in Nat
  <2>1. j \in 1..Len(l)
    BY LenProperties
  <2>2. l[j] \in Events
    BY <2>1, ElementOfSeq
  <2> QED
    BY <2>2 DEF Events
<1> QED
  BY <1>1, <1>2, <1>3

\* It never goes back.
LEMMA ReachedGrows ==
  ASSUME NEW l \in Seq(Events), NEW m \in 1..Len(l), NEW n \in 1..Len(l), m <= n
  PROVE  ReachedIn(l, m) <= ReachedIn(l, n)
<1>1. PICK j \in 1..m : l[j].at = ReachedIn(l, m)
  BY ReachedIsOne
<1>2. j \in 1..n
  BY LenProperties
<1> QED
  BY <1>1, <1>2, ReachedIsOne

\* One more event.
LEMMA ReachedNext ==
  ASSUME NEW l \in Seq(Events), NEW e \in Events
  PROVE  LET m == Append(l, e)
             n == Len(l)
         IN  /\ \A i \in 1..n : ReachedIn(m, i) = ReachedIn(l, i)
             /\ ReachedIn(m, n + 1) =
                  IF n = 0 \/ e.at > ReachedIn(l, n) THEN e.at ELSE ReachedIn(l, n)
<1> DEFINE m == Append(l, e)
           n == Len(l)
<1>1. /\ n \in Nat /\ m \in Seq(Events) /\ Len(m) = n + 1
      /\ \A i \in 1..n : m[i] = l[i]
      /\ m[n + 1] = e
  BY AppendNth
<1>2. e.at \in Nat
  BY DEF Events
<1> HIDE DEF m
<1>3. ASSUME NEW i \in 1..n
      PROVE  ReachedIn(m, i) = ReachedIn(l, i)
  <2>1. \A j \in 1..i : m[j] = l[j]
    BY <1>1
  <2> QED
    BY <2>1 DEF ReachedIn
<1>4. \A k \in 1..n + 1 : k \in 1..n \/ k = n + 1
  BY <1>1
<1>5. CASE n = 0
  <2>1. 1 \in 1..Len(m) /\ \A k \in 1..1 : m[k].at <= m[1].at
    BY <1>1, <1>2, <1>5
  <2>2. ReachedIn(m, 1) = m[1].at
    BY <1>1, <2>1, ReachedIsThat
  <2> QED
    BY <1>1, <1>3, <1>5, <2>2 DEF m
<1>6. CASE n # 0
  <2>0. n \in 1..n
    BY <1>1, <1>6
  <2>1. /\ n \in 1..n /\ ReachedIn(l, n) \in Nat
        /\ \A k \in 1..n : l[k].at <= ReachedIn(l, n)
        /\ \E j \in 1..n : l[j].at = ReachedIn(l, n)
    BY <2>0, ReachedIsOne
  <2>2. PICK j \in 1..n : l[j].at = ReachedIn(l, n)
    BY <2>1
  <2>3. n + 1 \in 1..Len(m) /\ n + 1 \in 1..n + 1 /\ j \in 1..n + 1
    BY <1>1
  <2>4. \A k \in 1..n : l[k].at \in Nat
    <3>1. \A k \in 1..n : l[k] \in Events
      BY ElementOfSeq
    <3> QED
      BY <3>1 DEF Events
  <2>5. CASE e.at > ReachedIn(l, n)
    <3>1. \A k \in 1..n + 1 : m[k].at <= m[n + 1].at
      BY <1>1, <1>2, <1>4, <2>1, <2>4, <2>5
    <3>2. ReachedIn(m, n + 1) = m[n + 1].at
      BY <1>1, <2>3, <3>1, ReachedIsThat
    <3> QED
      BY <1>1, <1>3, <2>5, <3>2 DEF m
  <2>6. CASE ~(e.at > ReachedIn(l, n))
    <3>1. \A k \in 1..n + 1 : m[k].at <= m[j].at
      BY <1>1, <1>2, <1>4, <2>1, <2>2, <2>4, <2>6
    <3>2. ReachedIn(m, n + 1) = m[j].at
      BY <1>1, <2>3, <3>1, ReachedIsThat
    <3> QED
      BY <1>1, <1>3, <1>6, <2>2, <2>6, <3>2 DEF m
  <2> QED
    BY <2>5, <2>6
<1> QED
  BY <1>5, <1>6

\* Later times are in later buckets.
LEMMA BucketGrows ==
  ASSUME NEW a \in Nat, NEW b \in Nat
  PROVE  /\ Bucket(a) \in Nat /\ Bucket(b) \in Nat
         /\ a <= b => Bucket(a) <= Bucket(b)
BY AnalysisAssumption DEF Bucket

-----------------------------------------------------------------------------
(* The rates                                                               *)

Rate == [count : Nat, history : Seq(Nat), active : Nat]

\* The latest numbers are kept.
LEMMA LastOfNth ==
  ASSUME NEW s \in Seq(Nat)
  PROVE  LET n == Least(Len(s), HistoryLength)
         IN  /\ LastOf(s) \in Seq(Nat) /\ Len(LastOf(s)) = n
             /\ \A k \in 1..n : LastOf(s)[k] = s[Len(s) - n + k]
<1> DEFINE L == Len(s)
           H == HistoryLength
<1>1. L \in Nat /\ H \in Nat \ {0} /\ \A k \in 1..L : s[k] \in Nat
  BY LenProperties, ElementOfSeq, RatesAssumption
<1>a. /\ Least(L, H) = IF L < H THEN L ELSE H
      /\ LastOf(s) = SubSeq(s, IF L > H THEN L - H + 1 ELSE 1, L)
  BY DEF LastOf, Least
<1>b. SUFFICES /\ LastOf(s) \in Seq(Nat) /\ Len(LastOf(s)) = Least(L, H)
               /\ \A k \in 1..Least(L, H) : LastOf(s)[k] = s[L - Least(L, H) + k]
  OBVIOUS
<1>c. SubSeq(s, 1, L) = s /\ Len(s) = L
  BY SubSeqFull
<1> HIDE DEF L, H
<1>2. CASE L > H
  <2>1. /\ SubSeq(s, L - H + 1, L) \in Seq(Nat) /\ Len(SubSeq(s, L - H + 1, L)) = H
        /\ \A k \in 1..H : SubSeq(s, L - H + 1, L)[k] = s[L - H + k]
    <3> DEFINE m == L - H + 1
    <3>1. m \in Int /\ L \in Int /\ m <= L + 1 /\ \A k \in m..L : s[k] \in Nat
      BY <1>1, <1>2
    <3>2. L - m + 1 = H /\ \A k \in 1..H : m + k - 1 = L - H + k
      BY <1>1
    <3> HIDE DEF m
    <3>3. /\ SubSeq(s, m, L) \in Seq(Nat)
          /\ Len(SubSeq(s, m, L)) = IF m <= L THEN L - m + 1 ELSE 0
          /\ \A k \in 1..L - m + 1 : SubSeq(s, m, L)[k] = s[m + k - 1]
      BY <3>1, SubSeqProperties
    <3>4. m <= L
      BY <1>1, <1>2 DEF m
    <3> QED
      BY <3>2, <3>3, <3>4 DEF m
  <2>2. LastOf(s) = SubSeq(s, L - H + 1, L) /\ Least(L, H) = H
    BY <1>1, <1>2, <1>a
  <2> QED
    BY <2>1, <2>2
<1>3. CASE ~(L > H)
  <2>1. LastOf(s) = s /\ Least(L, H) = L
    BY <1>1, <1>3, <1>a, <1>c
  <2>2. \A k \in 1..L : L - L + k = k
    BY <1>1
  <2> QED
    BY <1>c, <2>1, <2>2
<1> QED
  BY <1>2, <1>3

\* What is left of a rate when its bucket is closed, by how long ago it was.
LEMMA ClosedNth ==
  ASSUME NEW rate \in Rate, NEW gap \in Nat \ {0}
  PROVE  LET z == Least(gap, HistoryLength) - 1
             L == Len(rate.history)
             new == Closed(rate, gap)
             n == Least(L + z + 1, HistoryLength)
         IN  /\ new \in Rate /\ new.count = 0 /\ new.active = rate.active
             /\ Len(new.history) = n
             /\ \A ago \in 1..n :
                  new.history[n + 1 - ago] =
                    IF ago <= z THEN 0
                    ELSE IF ago = z + 1 THEN rate.count
                    ELSE rate.history[L + 1 - (ago - z - 1)]
<1> DEFINE H == HistoryLength
           z == Least(gap, H) - 1
           h == rate.history
           c == rate.count
           L == Len(h)
           s == h \o <<c>> \o Zeros(z)
           n == Least(L + z + 1, H)
           new == Closed(rate, gap)
<1>1. /\ H \in Nat \ {0} /\ z \in Nat /\ h \in Seq(Nat) /\ c \in Nat /\ L \in Nat
      /\ n \in Nat /\ n <= L + z + 1
  BY RatesAssumption, LenProperties DEF Rate, Least
<1>2. /\ s \in Seq(Nat) /\ Len(s) = L + z + 1
      /\ \A k \in 1..L : s[k] = h[k]
      /\ s[L + 1] = c
      /\ \A k \in L + 2..L + z + 1 : s[k] = 0
  <2> HIDE DEF z, h, c
  <2>1. /\ Zeros(z) \in Seq(Nat) /\ Len(Zeros(z)) = z
        /\ \A k \in 1..z : Zeros(z)[k] = 0
    BY <1>1 DEF Zeros
  <2>2. <<c>> \in Seq(Nat) /\ Len(<<c>>) = 1 /\ <<c>>[1] = c
    BY <1>1
  <2> DEFINE t == h \o <<c>>
  <2>3. /\ t \in Seq(Nat) /\ Len(t) = L + 1
        /\ \A k \in 1..L + 1 : t[k] = IF k <= L THEN h[k] ELSE <<c>>[k - L]
    BY <1>1, <2>2, ConcatProperties
  <2>4. (\A k \in 1..L : t[k] = h[k]) /\ t[L + 1] = c
    BY <1>1, <2>2, <2>3
  <2>a. L + 1 \in Nat /\ L + 1 + z \in Nat
    BY <1>1
  <2> HIDE DEF t, L
  <2>5. /\ t \o Zeros(z) \in Seq(Nat) /\ Len(t \o Zeros(z)) = L + 1 + z
        /\ \A k \in 1..L + 1 + z : (t \o Zeros(z))[k] =
             IF k <= L + 1 THEN t[k] ELSE Zeros(z)[k - (L + 1)]
    <3> DEFINE y == Zeros(z)
    <3>1. t \in Seq(Nat) /\ y \in Seq(Nat) /\ Len(t) = L + 1 /\ Len(y) = z
      BY <2>1, <2>3
    <3>2. /\ t \o y \in Seq(Nat) /\ Len(t \o y) = Len(t) + Len(y)
          /\ \A k \in 1..Len(t) + Len(y) : (t \o y)[k] =
               IF k <= Len(t) THEN t[k] ELSE y[k - Len(t)]
      <4> HIDE DEF y
      <4> QED
        BY <3>1, ConcatProperties
    <3> QED
      BY <3>1, <3>2
  <2>6. s = t \o Zeros(z)
    BY DEF t
  <2> HIDE DEF s
  <2>7. \A k \in 1..L : s[k] = h[k]
    BY <1>1, <2>4, <2>5, <2>6
  <2>8. s[L + 1] = c
    <3>1. L + 1 \in 1..L + 1 + z /\ L + 1 <= L + 1
      BY <1>1, <2>a
    <3> QED
      BY <2>4, <2>5, <2>6, <3>1
  <2>9. ASSUME NEW k \in L + 2..L + z + 1
        PROVE  s[k] = 0
    <3>1. k \in 1..L + 1 + z /\ ~(k <= L + 1) /\ k - (L + 1) \in 1..z
      BY <1>1
    <3> QED
      BY <2>1, <2>5, <2>6, <3>1
  <2>10. L + 1 + z = L + z + 1
    BY <1>1
  <2>11. s \in Seq(Nat) /\ Len(s) = L + z + 1
    BY <2>5, <2>6, <2>10
  <2> QED
    BY <2>7, <2>8, <2>9, <2>11
<1>3. new = [count |-> 0, history |-> LastOf(s), active |-> rate.active]
  <2>1. new = [rate EXCEPT !.count = 0, !.history = LastOf(s)]
    BY DEF Closed, Rate
  <2> HIDE DEF new, s
  <2> QED
    BY <2>1 DEF Rate
<1> HIDE DEF s, h, c, z, new, H
<1>4. /\ LastOf(s) \in Seq(Nat) /\ Len(LastOf(s)) = n
      /\ \A k \in 1..n : LastOf(s)[k] = s[L + z + 1 - n + k]
  <2>1. Least(Len(s), HistoryLength) = n
    BY <1>2 DEF H
  <2>2. LET m == Least(Len(s), HistoryLength)
        IN  /\ LastOf(s) \in Seq(Nat) /\ Len(LastOf(s)) = m
            /\ \A k \in 1..m : LastOf(s)[k] = s[Len(s) - m + k]
    BY <1>2, LastOfNth
  <2>3. /\ LastOf(s) \in Seq(Nat) /\ Len(LastOf(s)) = n
        /\ \A k \in 1..n : LastOf(s)[k] = s[Len(s) - n + k]
    <3> HIDE DEF n
    <3> QED
      BY <2>1, <2>2
  <2>4. Len(s) = L + z + 1
    BY <1>2
  <2>5. ASSUME NEW k \in 1..n
        PROVE  Len(s) - n + k = L + z + 1 - n + k
    BY <1>1, <2>4
  <2> HIDE DEF n, L
  <2> QED
    BY <2>3, <2>5
<1>5. /\ new \in Rate /\ new.count = 0 /\ new.active = rate.active
      /\ new.history = LastOf(s) /\ Len(new.history) = n
  BY <1>3, <1>4 DEF Rate
<1>6. ASSUME NEW ago \in 1..n
      PROVE  new.history[n + 1 - ago] =
               IF ago <= z THEN 0
               ELSE IF ago = z + 1 THEN c
               ELSE h[L + 1 - (ago - z - 1)]
  <2>1. n + 1 - ago \in 1..n /\ L + z + 1 - n + (n + 1 - ago) = L + z + 2 - ago
    BY <1>1
  <2>2. new.history[n + 1 - ago] = s[L + z + 2 - ago]
    BY <1>4, <1>5, <2>1
  <2>3. CASE ago <= z
    <3>1. L + z + 2 - ago \in L + 2..L + z + 1
      BY <1>1, <2>3
    <3> QED
      BY <1>2, <2>2, <2>3, <3>1
  <2>4. CASE ~(ago <= z) /\ ago = z + 1
    <3>1. L + z + 2 - ago = L + 1
      BY <1>1, <2>4
    <3> QED
      BY <1>2, <2>2, <2>4, <3>1
  <2>5. CASE ~(ago <= z) /\ ago # z + 1
    <3>1. L + z + 2 - ago \in 1..L /\ L + z + 2 - ago = L + 1 - (ago - z - 1)
      BY <1>1, <2>5
    <3> QED
      BY <1>2, <2>2, <2>5, <3>1
  <2> QED
    BY <2>3, <2>4, <2>5
<1> QED
  BY <1>5, <1>6 DEF z, h, c, new, H

\* The properties of a sequence of events the rates are about: in which bucket
\* an event counts, how often a template occurs in a bucket, that no event is in
\* the whole of the history, and that no template need be forgotten.
In(l, i) == Bucket(ReachedIn(l, i))
SeenIn(l, x, b) == Cardinality({i \in 1..Len(l) : l[i].id = x /\ In(l, i) = b})
PauseIn(l, now) == \A i \in 1..Len(l) : In(l, i) \notin now - HistoryLength .. now - 1
Enough(l) ==
  Cardinality({l[i].id : i \in 1..Len(l)}) <= MaxTracked /\ HistoryLength <= IdleBuckets

\* The tracker knows of each template since when it was silent.
Known(r, l, now) ==
  \A i \in 1..Len(l) : IF l[i].id \in DOMAIN r THEN In(l, i) <= r[l[i].id].active
                       ELSE In(l, i) < now - IdleBuckets
Exact(rate, x, l, now, begun) ==
  /\ rate.count = SeenIn(l, x, now)
  /\ Len(rate.history) = Least(now - begun, HistoryLength)
  /\ \A ago \in 1..Len(rate.history) :
       \/ rate.history[Len(rate.history) + 1 - ago] = SeenIn(l, x, now - ago)
       \/ ago = HistoryLength /\ PauseIn(l, now)

RatesInv ==
  /\ log \in Seq(Events)
  /\ rates \in [DOMAIN rates -> Rate] /\ current \in Nat
  /\ IF log = <<>> THEN start = NotStarted /\ DOMAIN rates = {}
     ELSE start \in 0..current /\ current = In(log, Len(log))
  /\ DOMAIN rates \subseteq {log[i].id : i \in 1..Len(log)}
  /\ \A x \in DOMAIN rates : rates[x].active <= current
  /\ Enough(log) =>
       /\ Known(rates, log, current)
       /\ \A x \in DOMAIN rates : Exact(rates[x], x, log, current, start)

LEMMA InIsNat ==
  ASSUME NEW l \in Seq(Events), NEW i \in 1..Len(l)
  PROVE  In(l, i) \in Nat /\ \A n \in i..Len(l) : In(l, i) <= In(l, n)
<1>1. ReachedIn(l, i) \in Nat
  BY ReachedIsOne
<1>2. ASSUME NEW n \in i..Len(l)
      PROVE  In(l, i) <= In(l, n)
  <2>1. n \in 1..Len(l) /\ i <= n
    BY LenProperties
  <2>2. ReachedIn(l, n) \in Nat /\ ReachedIn(l, i) <= ReachedIn(l, n)
    BY <2>1, ReachedIsOne, ReachedGrows
  <2> QED
    BY <1>1, <2>2, BucketGrows DEF In
<1> QED
  BY <1>1, <1>2, BucketGrows DEF In

LEMMA SeenIsNat ==
  ASSUME NEW l \in Seq(Events), NEW x, NEW b
  PROVE  /\ SeenIn(l, x, b) \in Nat
         /\ IsFiniteSet({i \in 1..Len(l) : l[i].id = x /\ In(l, i) = b})
         /\ (\A i \in 1..Len(l) : l[i].id = x => In(l, i) # b) => SeenIn(l, x, b) = 0
<1> DEFINE S == {i \in 1..Len(l) : l[i].id = x /\ In(l, i) = b}
<1>1. IsFiniteSet(1..Len(l))
  BY LenProperties, FS_Interval
<1>2. IsFiniteSet(S)
  BY <1>1, FS_Subset
<1>3. (\A i \in 1..Len(l) : l[i].id = x => In(l, i) # b) => S = {}
  OBVIOUS
<1> HIDE DEF S
<1>4. Cardinality(S) \in Nat /\ (S = {} => Cardinality(S) = 0)
  BY <1>2, FS_CardinalityType, FS_EmptySet
<1> QED
  BY <1>2, <1>3, <1>4 DEF SeenIn, S

\* One more event.
LEMMA SeenNext ==
  ASSUME NEW l \in Seq(Events), NEW e \in Events
  PROVE  LET m == Append(l, e)
             n == Len(l)
         IN  /\ \A i \in 1..n : m[i] = l[i] /\ In(m, i) = In(l, i)
             /\ m \in Seq(Events) /\ Len(m) = n + 1 /\ m[n + 1] = e
             /\ In(m, n + 1) = IF n = 0 \/ Bucket(e.at) > In(l, n) THEN Bucket(e.at)
                               ELSE In(l, n)
             /\ \A x, b : SeenIn(m, x, b) =
                  IF e.id = x /\ In(m, n + 1) = b THEN SeenIn(l, x, b) + 1 ELSE SeenIn(l, x, b)
<1> DEFINE m == Append(l, e)
           n == Len(l)
<1>1. /\ n \in Nat /\ m \in Seq(Events) /\ Len(m) = n + 1
      /\ \A i \in 1..n : m[i] = l[i]
      /\ m[n + 1] = e
  BY AppendNth
<1>2. /\ \A i \in 1..n : ReachedIn(m, i) = ReachedIn(l, i)
      /\ ReachedIn(m, n + 1) = IF n = 0 \/ e.at > ReachedIn(l, n) THEN e.at ELSE ReachedIn(l, n)
  BY ReachedNext
<1> HIDE DEF m
<1>3. \A i \in 1..n : In(m, i) = In(l, i)
  BY <1>2 DEF In
<1>4. In(m, n + 1) = IF n = 0 \/ Bucket(e.at) > In(l, n) THEN Bucket(e.at) ELSE In(l, n)
  <2>1. CASE n = 0
    BY <1>2, <2>1 DEF In
  <2>2. CASE n # 0
    <3>1. ReachedIn(l, n) \in Nat /\ e.at \in Nat
      <4>1. n \in 1..Len(l)
        BY <1>1, <2>2
      <4>2. ReachedIn(l, n) \in Nat
        BY <4>1, ReachedIsOne
      <4> QED
        BY <4>2 DEF Events
    <3>2. /\ Bucket(ReachedIn(l, n)) \in Nat /\ Bucket(e.at) \in Nat
          /\ e.at <= ReachedIn(l, n) => Bucket(e.at) <= Bucket(ReachedIn(l, n))
          /\ ReachedIn(l, n) <= e.at => Bucket(ReachedIn(l, n)) <= Bucket(e.at)
      BY <3>1, BucketGrows
    <3> QED
      BY <1>2, <2>2, <3>1, <3>2 DEF In
  <2> QED
    BY <2>1, <2>2
<1>5. ASSUME NEW x, NEW b
      PROVE  SeenIn(m, x, b) =
               IF e.id = x /\ In(m, n + 1) = b THEN SeenIn(l, x, b) + 1 ELSE SeenIn(l, x, b)
  <2> DEFINE S == {i \in 1..n : l[i].id = x /\ In(l, i) = b}
             T == {i \in 1..n + 1 : m[i].id = x /\ In(m, i) = b}
  <2>1. IsFiniteSet(S) /\ n + 1 \notin S
    <3>1. IsFiniteSet(S)
      BY SeenIsNat
    <3>2. n + 1 \notin S
      BY <1>1
    <3> QED
      BY <3>1, <3>2
  <2>2. \A i \in 1..n + 1 : i \in 1..n \/ i = n + 1
    BY <1>1
  <2>3. T = IF e.id = x /\ In(m, n + 1) = b THEN S \cup {n + 1} ELSE S
    BY <1>1, <1>3, <2>2
  <2> HIDE DEF S, T
  <2>4. Cardinality(S \cup {n + 1}) = Cardinality(S) + 1
    BY <2>1, FS_AddElement
  <2> QED
    BY <1>1, <2>3, <2>4 DEF SeenIn, S, T
<1> QED
  BY <1>1, <1>3, <1>4, <1>5 DEF m

\* A template that was not tracked has been silent for the whole history.
LEMMA NewRateIsExact ==
  ASSUME NEW l \in Seq(Events), NEW now \in Nat, NEW begun \in 0..now, NEW r, NEW x,
         x \notin DOMAIN r, Known(r, l, now), HistoryLength <= IdleBuckets
  PROVE  NewRate(now, begun) \in Rate /\ Exact(NewRate(now, begun), x, l, now, begun)
<1> DEFINE n == Least(now - begun, HistoryLength)
           rate == NewRate(now, begun)
<1>1. /\ n \in Nat /\ n <= HistoryLength /\ HistoryLength \in Nat /\ IdleBuckets \in Nat
      /\ n <= now
  BY RatesAssumption DEF Least
<1>2. Zeros(n) \in Seq(Nat) /\ Len(Zeros(n)) = n /\ \A k \in 1..n : Zeros(n)[k] = 0
  <2> HIDE DEF n
  <2> QED
    BY <1>1 DEF Zeros
<1>3. /\ rate = [count |-> 0, history |-> Zeros(n), active |-> now]
      /\ rate.count = 0 /\ rate.history = Zeros(n)
  BY DEF NewRate
<1> HIDE DEF n, rate
<1>4. rate \in Rate
  BY <1>2, <1>3 DEF Rate
<1>5. ASSUME NEW ago \in 0..n
      PROVE  SeenIn(l, x, now - ago) = 0
  <2>1. \A i \in 1..Len(l) : l[i].id = x => In(l, i) # now - ago
    <3> SUFFICES ASSUME NEW i \in 1..Len(l), l[i].id = x
                 PROVE  In(l, i) # now - ago
      OBVIOUS
    <3>1. In(l, i) < now - IdleBuckets /\ In(l, i) \in Nat
      BY InIsNat DEF Known
    <3> QED
      BY <1>1, <3>1
  <2> DEFINE b == now - ago
  <2> HIDE DEF b
  <2>2. SeenIn(l, x, b) = 0
    BY <2>1, SeenIsNat DEF b
  <2> QED
    BY <2>2 DEF b
<1>6. SeenIn(l, x, now) = 0
  <2>1. now - 0 = now /\ 0 \in 0..n
    BY <1>1
  <2> QED
    BY <1>5, <2>1
<1>7. \A ago \in 1..n : rate.history[n + 1 - ago] = SeenIn(l, x, now - ago)
  <2> SUFFICES ASSUME NEW ago \in 1..n
               PROVE  rate.history[n + 1 - ago] = SeenIn(l, x, now - ago)
    OBVIOUS
  <2>1. ago \in 0..n /\ n + 1 - ago \in 1..n
    BY <1>1
  <2> QED
    BY <1>2, <1>3, <1>5, <2>1
<1>8. Exact(rate, x, l, now, begun)
  BY <1>2, <1>3, <1>6, <1>7 DEF Exact, n
<1> QED
  BY <1>4, <1>8 DEF rate

\* After a rate is closed its history says the same, further in the past.
LEMMA ClosedIsExact ==
  ASSUME NEW l \in Seq(Events), NEW now \in Nat, NEW begun \in 0..now, NEW bucket \in Nat,
         bucket > now, NEW rate \in Rate, NEW x, Exact(rate, x, l, now, begun),
         \A i \in 1..Len(l) : In(l, i) <= now
  PROVE  Exact(Closed(rate, bucket - now), x, l, bucket, begun)
<1> DEFINE gap == bucket - now
           H == HistoryLength
           z == Least(gap, H) - 1
           L == Len(rate.history)
           new == Closed(rate, gap)
           n == Least(L + z + 1, H)
<1>0. \A i \in 1..Len(l) : In(l, i) \in Nat
  BY InIsNat
<1>1. /\ gap \in Nat \ {0} /\ H \in Nat \ {0} /\ L \in Nat /\ L = Least(now - begun, H)
      /\ z \in Nat /\ z < gap /\ (z + 1 = gap \/ (z + 1 = H /\ H < gap))
      /\ n = Least(bucket - begun, H) /\ n \in Nat /\ n <= L + z + 1 /\ n <= H
  BY RatesAssumption, LenProperties DEF Rate, Exact, Least
<1>2. /\ new.count = 0 /\ Len(new.history) = n
      /\ \A ago \in 1..n :
           new.history[n + 1 - ago] =
             IF ago <= z THEN 0
             ELSE IF ago = z + 1 THEN rate.count
             ELSE rate.history[L + 1 - (ago - z - 1)]
  <2> HIDE DEF gap
  <2> QED
    BY <1>1, ClosedNth
<1>3. /\ rate.count = SeenIn(l, x, now)
      /\ \A ago \in 1..L : \/ rate.history[L + 1 - ago] = SeenIn(l, x, now - ago)
                           \/ ago = H /\ PauseIn(l, now)
  BY DEF Exact
<1> HIDE DEF gap, z, L, new, n, H
<1>4. ASSUME NEW ago \in 0..z
      PROVE  SeenIn(l, x, bucket - ago) = 0
  <2> DEFINE b == bucket - ago
  <2>1. b > now /\ b \in Int
    BY <1>1 DEF gap
  <2> HIDE DEF b
  <2>2. \A i \in 1..Len(l) : In(l, i) # b
    BY <1>0, <2>1
  <2>3. SeenIn(l, x, b) = 0
    BY <2>2, SeenIsNat
  <2> QED
    BY <2>3 DEF b
<1>5. ASSUME NEW ago \in 1..n
      PROVE  \/ new.history[n + 1 - ago] = SeenIn(l, x, bucket - ago)
             \/ ago = H /\ PauseIn(l, bucket)
  <2>1. CASE ago <= z
    <3>1. ago \in 0..z
      BY <1>1, <2>1
    <3> QED
      BY <1>2, <1>4, <2>1, <3>1
  <2>2. CASE ~(ago <= z) /\ ago = z + 1
    <3>1. new.history[n + 1 - ago] = SeenIn(l, x, now)
      BY <1>2, <1>3, <2>2
    <3>2. CASE z + 1 = gap
      <4>1. bucket - ago = now
        BY <2>2, <3>2 DEF gap
      <4> QED
        BY <3>1, <4>1
    <3>3. CASE z + 1 = H /\ H < gap
      <4>1. PauseIn(l, bucket)
        <5> SUFFICES ASSUME NEW i \in 1..Len(l)
                     PROVE  In(l, i) \notin bucket - H .. bucket - 1
          BY DEF PauseIn, H
        <5>1. In(l, i) \in Nat /\ In(l, i) <= now /\ now < bucket - H
          BY <1>0, <1>1, <3>3 DEF gap
        <5>2. \A b \in bucket - H .. bucket - 1 : now < b
          BY <1>1, <5>1
        <5> HIDE DEF H
        <5> QED
          BY <5>1, <5>2
      <4> QED
        BY <2>2, <3>3, <4>1
    <3> QED
      BY <1>1, <3>2, <3>3
  <2>3. CASE ~(ago <= z) /\ ago # z + 1
    <3> DEFINE old == ago - z - 1
    <3>1. /\ old \in 1..L /\ z + 1 = gap /\ old # H
          /\ now - old = bucket - ago
      BY <1>1, <2>3 DEF gap
    <3>2. new.history[n + 1 - ago] = rate.history[L + 1 - old]
      BY <1>2, <2>3
    <3> HIDE DEF old
    <3>3. rate.history[L + 1 - old] = SeenIn(l, x, now - old)
      BY <1>3, <3>1
    <3> QED
      BY <3>1, <3>2, <3>3
  <2> QED
    BY <2>1, <2>2, <2>3
<1>6. SeenIn(l, x, bucket) = 0
  <2>1. bucket - 0 = bucket /\ 0 \in 0..z
    BY <1>1
  <2> QED
    BY <1>4, <2>1
<1> QED
  BY <1>1, <1>2, <1>5, <1>6 DEF Exact, new, gap, H

\* What is there when an event of that bucket comes, before it is counted.
LEMMA RolledIsExact ==
  ASSUME RatesInv, NEW bucket \in Nat
  PROVE  LET started == start # NotStarted
             now     == IF started /\ current > bucket THEN current ELSE bucket
             begun   == IF started THEN start ELSE bucket
             rolled  == RolledOver(bucket)
         IN  /\ now \in Nat /\ begun \in 0..now
             /\ now = IF log = <<>> \/ bucket > In(log, Len(log)) THEN bucket
                      ELSE In(log, Len(log))
             /\ rolled \in [DOMAIN rolled -> Rate] /\ DOMAIN rolled \subseteq DOMAIN rates
             /\ \A x \in DOMAIN rolled : rolled[x].active <= now
             /\ Enough(log) =>
                  /\ Known(rolled, log, now)
                  /\ \A x \in DOMAIN rolled : Exact(rolled[x], x, log, now, begun)
<1> DEFINE now   == IF start # NotStarted /\ current > bucket THEN current ELSE bucket
           begun == IF start # NotStarted THEN start ELSE bucket
           rolled == RolledOver(bucket)
<1>1. /\ log \in Seq(Events) /\ rates \in [DOMAIN rates -> Rate] /\ current \in Nat
      /\ \A x \in DOMAIN rates : rates[x] \in Rate /\ rates[x].active \in Nat
      /\ \A x \in DOMAIN rates : rates[x].active <= current
      /\ log = <<>> => start = NotStarted /\ DOMAIN rates = {}
      /\ log # <<>> => start \in 0..current /\ start # NotStarted /\ current = In(log, Len(log))
      /\ IdleBuckets \in Nat
  BY RatesAssumption DEF RatesInv, Rate, NotStarted
<1>2. ASSUME Enough(log)
      PROVE  /\ Known(rates, log, current)
             /\ \A x \in DOMAIN rates : Exact(rates[x], x, log, current, start)
  BY <1>2 DEF RatesInv
<1>3. now \in Nat /\ begun \in 0..now
  BY <1>1
<1>4. now = IF log = <<>> \/ bucket > In(log, Len(log)) THEN bucket ELSE In(log, Len(log))
  BY <1>1
<1>5. CASE log = <<>>
  <2>1. rolled = rates /\ Len(log) = 0 /\ DOMAIN rates = {}
    BY <1>1, <1>5 DEF RolledOver
  <2> QED
    BY <1>1, <1>3, <1>4, <2>1 DEF Known
<1>6. CASE log # <<>> /\ ~(bucket > current)
  <2>1. rolled = rates /\ now = current /\ begun = start
    BY <1>1, <1>6 DEF RolledOver
  <2> QED
    BY <1>1, <1>2, <1>3, <1>4, <2>1
<1>7. CASE log # <<>> /\ bucket > current
  <2>1. now = bucket /\ begun = start /\ start \in 0..current
    BY <1>1, <1>7
  <2> DEFINE kept == {y \in DOMAIN rates : rates[y].active >= bucket - IdleBuckets}
  <2>2. /\ DOMAIN rolled = kept
        /\ \A x \in kept : rolled[x] = Closed(rates[x], bucket - current)
        /\ rolled = [x \in kept |-> rolled[x]]
    BY <1>1, <1>7 DEF RolledOver
  <2>3. bucket - current \in Nat \ {0}
    BY <1>1, <1>7
  <2>4. ASSUME NEW x \in kept
        PROVE  rolled[x] \in Rate /\ rolled[x].active = rates[x].active
    <3> DEFINE gap == bucket - current
    <3>1. rates[x] \in Rate /\ gap \in Nat \ {0} /\ rolled[x] = Closed(rates[x], gap)
      BY <1>1, <2>2, <2>3
    <3> HIDE DEF gap, rolled, kept
    <3> QED
      BY <3>1, ClosedNth
  <2>5. ASSUME NEW i \in 1..Len(log)
        PROVE  In(log, i) \in Nat /\ In(log, i) <= current
    <3>1. Len(log) \in i..Len(log)
      BY LenProperties, <1>1
    <3> QED
      BY <1>1, <1>7, <3>1, InIsNat
  <2> HIDE DEF rolled, kept
  <2>6. /\ rolled \in [DOMAIN rolled -> Rate] /\ DOMAIN rolled \subseteq DOMAIN rates
        /\ \A x \in DOMAIN rolled : rolled[x].active <= bucket
    <3>1. kept \subseteq DOMAIN rates
      BY DEF kept
    <3>2. \A x \in kept : rolled[x].active <= bucket
      BY <1>1, <1>7, <2>4, <3>1
    <3> QED
      BY <2>2, <2>4, <3>1, <3>2
  <2>7. ASSUME Enough(log)
        PROVE  Known(rolled, log, bucket)
    <3> SUFFICES ASSUME NEW i \in 1..Len(log)
                 PROVE  IF log[i].id \in DOMAIN rolled THEN In(log, i) <= rolled[log[i].id].active
                        ELSE In(log, i) < bucket - IdleBuckets
      BY DEF Known
    <3> DEFINE x == log[i].id
    <3>1. IF x \in DOMAIN rates THEN In(log, i) <= rates[x].active
          ELSE In(log, i) < current - IdleBuckets
      BY <1>2, <2>7 DEF Known
    <3> HIDE DEF x
    <3>2. CASE x \in kept
      BY <2>2, <2>4, <3>1, <3>2 DEF kept, x
    <3>3. CASE x \in DOMAIN rates /\ x \notin kept
      <4>1. rates[x].active \in Nat /\ ~(rates[x].active >= bucket - IdleBuckets)
        BY <1>1, <3>3 DEF kept
      <4> QED
        BY <1>1, <2>2, <2>5, <3>1, <3>3, <4>1 DEF x
    <3>4. CASE x \notin DOMAIN rates
      <4>1. x \notin kept
        BY <3>4 DEF kept
      <4> QED
        BY <1>1, <1>7, <2>2, <2>5, <3>1, <3>4, <4>1 DEF x
    <3> QED
      BY <3>2, <3>3, <3>4
  <2>8. ASSUME Enough(log), NEW x \in DOMAIN rolled
        PROVE  Exact(rolled[x], x, log, bucket, start)
    <3>1. x \in DOMAIN rates /\ rates[x] \in Rate /\ Exact(rates[x], x, log, current, start)
      BY <1>1, <1>2, <2>6, <2>8
    <3>2. rolled[x] = Closed(rates[x], bucket - current)
      BY <2>2
    <3> QED
      BY <1>1, <1>7, <2>1, <2>5, <3>1, <3>2, ClosedIsExact
  <2> QED
    BY <1>3, <1>4, <2>1, <2>6, <2>7, <2>8 DEF rolled
<1> QED
  BY <1>5, <1>6, <1>7

LEMMA IdsAreFinite ==
  ASSUME NEW l \in Seq(Events)
  PROVE  IsFiniteSet({l[i].id : i \in 1..Len(l)})
<1> DEFINE n == Len(l)
           ids == {l[i].id : i \in 1..n}
           f == [i \in 1..n |-> l[i].id]
<1>1. f \in Surjection(1..n, ids)
  BY DEF Surjection
<1>2. n \in Nat
  BY LenProperties
<1> HIDE DEF n, f, ids
<1>3. IsFiniteSet(1..n)
  BY <1>2, FS_Interval
<1>4. IsFiniteSet(ids)
  BY <1>1, <1>3, FS_Surjection
<1> QED
  BY <1>4 DEF n, ids

\* Without need nothing is forgotten to make room.
LEMMA RoomIsMade ==
  ASSUME NEW rolled, rolled \in [DOMAIN rolled -> Rate], NEW id, NEW l \in Seq(Events),
         \E i \in 1..Len(l) : l[i].id = id,
         DOMAIN rolled \subseteq {l[i].id : i \in 1..Len(l)},
         NEW kept \in MadeRoom(rolled, id)
  PROVE  /\ kept \in [DOMAIN kept -> Rate] /\ DOMAIN kept \subseteq DOMAIN rolled
         /\ \A x \in DOMAIN kept : kept[x] = rolled[x]
         /\ Enough(l) => kept = rolled
<1> DEFINE ids == {l[i].id : i \in 1..Len(l)}
<1>1. CASE id \in DOMAIN rolled \/ Cardinality(DOMAIN rolled) < MaxTracked
  <2>1. kept = rolled
    BY <1>1 DEF MadeRoom
  <2> QED
    BY <2>1
<1>2. CASE ~(id \in DOMAIN rolled \/ Cardinality(DOMAIN rolled) < MaxTracked)
  <2>1. PICK x : kept = Restrict(rolled, DOMAIN rolled \ {x})
    BY <1>2 DEF MadeRoom
  <2>2. ~Enough(l)
    <3>1. IsFiniteSet(ids) /\ IsFiniteSet(DOMAIN rolled)
      <4>1. IsFiniteSet(ids)
        BY IdsAreFinite
      <4> QED
        BY <4>1, FS_Subset
    <3>2. DOMAIN rolled \cup {id} \subseteq ids
      OBVIOUS
    <3> HIDE DEF ids
    <3>3. /\ Cardinality(DOMAIN rolled \cup {id}) = Cardinality(DOMAIN rolled) + 1
          /\ Cardinality(DOMAIN rolled \cup {id}) <= Cardinality(ids)
      BY <1>2, <3>1, <3>2, FS_AddElement, FS_Subset
    <3>4. Cardinality(DOMAIN rolled) \in Nat /\ Cardinality(ids) \in Nat /\ MaxTracked \in Nat
      BY <3>1, FS_CardinalityType, RatesAssumption
    <3>5. Enough(l) => Cardinality(ids) <= MaxTracked
      BY DEF Enough, ids
    <3> QED
      BY <1>2, <3>3, <3>4, <3>5
  <2> QED
    BY <2>1, <2>2 DEF Restrict
<1> QED
  BY <1>1, <1>2

LEMMA EnoughBefore ==
  ASSUME NEW l \in Seq(Events), NEW e \in Events, Enough(Append(l, e))
  PROVE  Enough(l)
<1> DEFINE m == Append(l, e)
           ids == {l[i].id : i \in 1..Len(l)}
           more == {m[i].id : i \in 1..Len(m)}
<1>1. ids \subseteq more
  <2>1. /\ Len(l) \in Nat /\ Len(m) = Len(l) + 1 /\ \A i \in 1..Len(l) : m[i] = l[i]
    BY AppendNth
  <2>2. \A i \in 1..Len(l) : i \in 1..Len(m)
    BY <2>1
  <2> HIDE DEF m
  <2> QED
    BY <2>1, <2>2
<1>2. IsFiniteSet(more)
  <2>1. m \in Seq(Events)
    BY AppendNth
  <2> HIDE DEF m
  <2> QED
    BY <2>1, IdsAreFinite
<1>3. Cardinality(more) <= MaxTracked /\ HistoryLength <= IdleBuckets
  BY DEF Enough
<1> HIDE DEF ids, more
<1>4. Cardinality(ids) <= Cardinality(more) /\ Cardinality(ids) \in Nat /\ Cardinality(more) \in Nat
  BY <1>1, <1>2, FS_Subset, FS_CardinalityType
<1>5. Cardinality(ids) <= MaxTracked
  BY <1>3, <1>4, RatesAssumption
<1> QED
  BY <1>3, <1>5 DEF Enough, ids

LEMMA CountedRate ==
  ASSUME NEW rate \in Rate, NEW now \in Nat
  PROVE  [rate EXCEPT !.count = @ + 1, !.active = now]
           = [count |-> rate.count + 1, history |-> rate.history, active |-> now]
<1> DEFINE q == [rate EXCEPT !.count = @ + 1]
<1>1. q = [count |-> rate.count + 1, history |-> rate.history, active |-> rate.active]
  BY DEF Rate
<1>2. [rate EXCEPT !.count = @ + 1, !.active = now] = [q EXCEPT !.active = now]
  BY DEF Rate
<1> HIDE DEF q
<1>3. [q EXCEPT !.active = now]
        = [count |-> rate.count + 1, history |-> rate.history, active |-> now]
  BY <1>1
<1> QED
  BY <1>2, <1>3

\* record keeps the rates exact.
LEMMA RecordKeepsRates ==
  ASSUME RatesInv, NEW id \in Line, NEW u \in Units, NEW at \in Nat,
         RecordRate(Bucket(at), id), log' = Append(log, [id |-> id, unit |-> u, at |-> at])
  PROVE  RatesInv'
<1> DEFINE e == [id |-> id, unit |-> u, at |-> at]
           bucket == Bucket(at)
           n == Len(log)
           now   == IF start # NotStarted /\ current > bucket THEN current ELSE bucket
           begun == IF start # NotStarted THEN start ELSE bucket
           rolled == RolledOver(bucket)
<1>1. e \in Events /\ e.id = id /\ e.at = at /\ bucket \in Nat /\ log \in Seq(Events)
  BY BucketGrows DEF Events, RatesInv
<1>2. PICK kept \in MadeRoom(rolled, id) :
        LET rate == IF id \in DOMAIN kept THEN kept[id] ELSE NewRate(now, begun)
        IN  rates' = With(kept, id, [rate EXCEPT !.count = @ + 1, !.active = now])
  BY DEF RecordRate
<1>3. start' = begun /\ current' = now
  BY DEF RecordRate
<1>4. /\ now \in Nat /\ begun \in 0..now
      /\ now = IF log = <<>> \/ bucket > In(log, Len(log)) THEN bucket ELSE In(log, Len(log))
      /\ rolled \in [DOMAIN rolled -> Rate] /\ DOMAIN rolled \subseteq DOMAIN rates
      /\ \A x \in DOMAIN rolled : rolled[x].active <= now
      /\ Enough(log) =>
           /\ Known(rolled, log, now)
           /\ \A x \in DOMAIN rolled : Exact(rolled[x], x, log, now, begun)
  BY <1>1, RolledIsExact
<1> DEFINE rate == IF id \in DOMAIN kept THEN kept[id] ELSE NewRate(now, begun)
           new == [rate EXCEPT !.count = @ + 1, !.active = now]
<1>5. rates' = With(kept, id, new)
  BY <1>2
<1> HIDE DEF e, bucket, now, begun, rolled
<1>6. /\ \A i \in 1..n : log'[i] = log[i] /\ In(log', i) = In(log, i)
      /\ log' \in Seq(Events) /\ Len(log') = n + 1 /\ log'[n + 1] = e /\ n \in Nat
      /\ In(log', n + 1) = now
      /\ \A x, b : SeenIn(log', x, b) =
           IF id = x /\ now = b THEN SeenIn(log, x, b) + 1 ELSE SeenIn(log, x, b)
  <2>1. log' = Append(log, e)
    BY DEF e
  <2>2. /\ \A i \in 1..n : log'[i] = log[i] /\ In(log', i) = In(log, i)
        /\ log' \in Seq(Events) /\ Len(log') = n + 1 /\ log'[n + 1] = e
        /\ In(log', n + 1) = IF n = 0 \/ Bucket(e.at) > In(log, n) THEN Bucket(e.at)
                             ELSE In(log, n)
        /\ \A x, b : SeenIn(log', x, b) =
             IF e.id = x /\ In(log', n + 1) = b THEN SeenIn(log, x, b) + 1
             ELSE SeenIn(log, x, b)
    <3> DEFINE m == Append(log, e)
    <3>1. log \in Seq(Events) /\ e \in Events
      BY <1>1
    <3>2. /\ \A i \in 1..n : m[i] = log[i] /\ In(m, i) = In(log, i)
          /\ m \in Seq(Events) /\ Len(m) = n + 1 /\ m[n + 1] = e
          /\ In(m, n + 1) = IF n = 0 \/ Bucket(e.at) > In(log, n) THEN Bucket(e.at)
                            ELSE In(log, n)
          /\ \A x, b : SeenIn(m, x, b) =
               IF e.id = x /\ In(m, n + 1) = b THEN SeenIn(log, x, b) + 1
               ELSE SeenIn(log, x, b)
      BY <3>1, SeenNext
    <3> HIDE DEF m
    <3>3. m = log'
      BY <2>1 DEF m
    <3> QED
      BY <3>2, <3>3
  <2>3. n \in Nat /\ (n = 0 <=> log = <<>>)
    BY <1>1, LenProperties, EmptySeq
  <2>4. In(log', n + 1) = now
    BY <1>1, <1>4, <2>2, <2>3 DEF bucket
  <2> QED
    BY <1>1, <2>2, <2>3, <2>4
<1>7. \A i \in 1..n + 1 : i \in 1..n \/ i = n + 1
  BY <1>6
<1>8. /\ DOMAIN rolled \subseteq {log'[i].id : i \in 1..Len(log')}
      /\ \E i \in 1..Len(log') : log'[i].id = id
  <2>1. DOMAIN rolled \subseteq {log[i].id : i \in 1..n}
    BY <1>4 DEF RatesInv
  <2>2. \A i \in 1..n : i \in 1..Len(log') /\ log'[i].id = log[i].id
    BY <1>6
  <2>3. n + 1 \in 1..Len(log') /\ log'[n + 1].id = id
    BY <1>1, <1>6
  <2> QED
    BY <2>1, <2>2, <2>3
<1>9. /\ kept \in [DOMAIN kept -> Rate] /\ DOMAIN kept \subseteq DOMAIN rolled
      /\ \A x \in DOMAIN kept : kept[x] = rolled[x]
      /\ Enough(log') => kept = rolled
  <2> DEFINE m == log'
  <2>1. /\ m \in Seq(Events) /\ \E i \in 1..Len(m) : m[i].id = id
        /\ DOMAIN rolled \subseteq {m[i].id : i \in 1..Len(m)}
    BY <1>6, <1>8
  <2> HIDE DEF m
  <2>2. /\ kept \in [DOMAIN kept -> Rate] /\ DOMAIN kept \subseteq DOMAIN rolled
        /\ \A x \in DOMAIN kept : kept[x] = rolled[x]
        /\ Enough(m) => kept = rolled
    BY <1>4, <2>1, RoomIsMade
  <2> QED
    BY <2>2 DEF m
<1>10. rate \in Rate
  <2>1. NewRate(now, begun) \in Rate
    <3>1. Least(now - begun, HistoryLength) \in Nat
      BY <1>4, RatesAssumption DEF Least
    <3>2. Zeros(Least(now - begun, HistoryLength)) \in Seq(Nat)
      BY <3>1 DEF Zeros
    <3> QED
      BY <1>4, <3>2 DEF NewRate, Rate
  <2> QED
    BY <1>9, <2>1
<1> HIDE DEF rate
<1>11. /\ new \in Rate /\ new.count = rate.count + 1 /\ new.history = rate.history
       /\ new.active = now
  <2> DEFINE more == [count |-> rate.count + 1, history |-> rate.history, active |-> now]
  <2>1. new = more
    BY <1>4, <1>10, CountedRate DEF new
  <2>2. more \in Rate
    BY <1>4, <1>10 DEF Rate
  <2> QED
    BY <2>1, <2>2
<1> HIDE DEF new
<1>12. /\ DOMAIN rates' = DOMAIN kept \cup {id}
       /\ rates'[id] = new
       /\ \A x \in DOMAIN kept : x # id => rates'[x] = kept[x]
       /\ rates' = [x \in DOMAIN rates' |-> rates'[x]]
  BY <1>5 DEF With
<1>13. rates' \in [DOMAIN rates' -> Rate]
  <2>1. \A x \in DOMAIN rates' : rates'[x] \in Rate
    BY <1>9, <1>11, <1>12
  <2> QED
    BY <1>12, <2>1
<1>14. DOMAIN rates' \subseteq {log'[i].id : i \in 1..Len(log')}
  BY <1>8, <1>9, <1>12
<1>15. \A x \in DOMAIN rates' : rates'[x].active <= now
  BY <1>4, <1>9, <1>11, <1>12
<1>16. IF log' = <<>> THEN start' = NotStarted /\ DOMAIN rates' = {}
       ELSE start' \in 0..current' /\ current' = In(log', Len(log'))
  BY <1>3, <1>4, <1>6, EmptySeq
<1>17. ASSUME Enough(log')
       PROVE  /\ Known(rates', log', current')
              /\ \A x \in DOMAIN rates' : Exact(rates'[x], x, log', current', start')
  <2>1. Enough(log) /\ kept = rolled /\ HistoryLength <= IdleBuckets
    <3>1. Enough(Append(log, e))
      BY <1>17 DEF e
    <3> QED
      BY <1>1, <1>9, <1>17, <3>1, EnoughBefore DEF Enough
  <2>2. /\ Known(kept, log, now)
        /\ \A x \in DOMAIN kept : Exact(kept[x], x, log, now, begun)
    BY <1>4, <2>1
  <2>3. Known(rates', log', now)
    <3> SUFFICES ASSUME NEW i \in 1..n + 1
                 PROVE  IF log'[i].id \in DOMAIN rates'
                        THEN In(log', i) <= rates'[log'[i].id].active
                        ELSE In(log', i) < now - IdleBuckets
      BY <1>6 DEF Known
    <3>1. CASE i = n + 1
      BY <1>1, <1>4, <1>6, <1>11, <1>12, <3>1
    <3>2. CASE i \in 1..n
      <4>1. IF log[i].id \in DOMAIN kept THEN In(log, i) <= kept[log[i].id].active
            ELSE In(log, i) < now - IdleBuckets
        BY <2>2, <3>2 DEF Known
      <4>2. log'[i] = log[i] /\ In(log', i) = In(log, i)
        BY <1>6, <3>2
      <4>3. CASE log[i].id = id
        <5>1. In(log, i) \in Nat /\ In(log, i) <= In(log', n + 1)
          <6>1. i \in 1..Len(log') /\ n + 1 \in i..Len(log')
            BY <1>6, <3>2
          <6> QED
            BY <1>6, <4>2, <6>1, InIsNat
        <5> QED
          BY <1>6, <1>11, <1>12, <4>2, <4>3, <5>1
      <4>4. CASE log[i].id # id
        BY <1>12, <4>1, <4>2, <4>4
      <4> QED
        BY <4>3, <4>4
    <3> QED
      BY <1>7, <3>1, <3>2
  <2>4. PauseIn(log, now) => PauseIn(log', now)
    <3> SUFFICES ASSUME PauseIn(log, now), NEW i \in 1..n + 1
                 PROVE  In(log', i) \notin now - HistoryLength .. now - 1
      BY <1>6 DEF PauseIn
    <3>1. CASE i = n + 1
      BY <1>4, <1>6, <3>1
    <3>2. CASE i \in 1..n
      BY <1>6, <3>2 DEF PauseIn
    <3> QED
      BY <1>7, <3>1, <3>2
  <2>5. \A x, ago : ago \in 1..HistoryLength => SeenIn(log', x, now - ago) = SeenIn(log, x, now - ago)
    <3> SUFFICES ASSUME NEW x, NEW ago \in 1..HistoryLength
                 PROVE  SeenIn(log', x, now - ago) = SeenIn(log, x, now - ago)
      OBVIOUS
    <3>1. now # now - ago
      BY <1>4, RatesAssumption
    <3> QED
      BY <1>6, <3>1
  <2>6. ASSUME NEW r \in Rate, NEW s \in Rate, NEW x, Exact(r, x, log, now, begun),
               s.history = r.history,
               s.count = IF x = id THEN r.count + 1 ELSE r.count
        PROVE  Exact(s, x, log', now, begun)
    <3> DEFINE L == Len(r.history)
    <3>1. L \in Nat /\ L <= HistoryLength /\ HistoryLength \in Nat
      BY <1>4, <2>6, RatesAssumption DEF Exact, Least
    <3>2. s.count = SeenIn(log', x, now)
      BY <1>6, <2>6 DEF Exact
    <3>3. \A ago \in 1..L : \/ s.history[L + 1 - ago] = SeenIn(log', x, now - ago)
                            \/ ago = HistoryLength /\ PauseIn(log', now)
      <4> SUFFICES ASSUME NEW ago \in 1..L
                   PROVE  \/ s.history[L + 1 - ago] = SeenIn(log', x, now - ago)
                          \/ ago = HistoryLength /\ PauseIn(log', now)
        OBVIOUS
      <4>1. ago \in 1..HistoryLength
        BY <3>1
      <4>2. \/ r.history[L + 1 - ago] = SeenIn(log, x, now - ago)
            \/ ago = HistoryLength /\ PauseIn(log, now)
        BY <2>6 DEF Exact
      <4> QED
        BY <2>4, <2>5, <2>6, <4>1, <4>2
    <3> QED
      BY <2>6, <3>2, <3>3 DEF Exact
  <2>7. Exact(rate, id, log, now, begun)
    <3>1. CASE id \in DOMAIN kept
      BY <2>2, <3>1 DEF rate
    <3>2. CASE id \notin DOMAIN kept
      BY <1>1, <1>4, <2>1, <2>2, <3>2, NewRateIsExact DEF rate
    <3> QED
      BY <3>1, <3>2
  <2>8. ASSUME NEW x \in DOMAIN rates'
        PROVE  Exact(rates'[x], x, log', now, begun)
    <3>1. CASE x = id
      BY <1>10, <1>11, <1>12, <2>6, <2>7, <3>1
    <3>2. CASE x # id
      <4>1. x \in DOMAIN kept /\ rates'[x] = kept[x] /\ kept[x] \in Rate
        BY <1>9, <1>12, <3>2
      <4> QED
        BY <2>2, <2>6, <3>2, <4>1
    <3> QED
      BY <3>1, <3>2
  <2> QED
    BY <1>3, <2>3, <2>8
<1> QED
  BY <1>3, <1>4, <1>6, <1>13, <1>14, <1>15, <1>16, <1>17 DEF RatesInv

LEMMA RatesInvHolds == Spec => []RatesInv
<1>1. ASSUME log = <<>>, rates = <<>>, current = 0, start = NotStarted
      PROVE  RatesInv
  <2>1. log \in Seq(Events) /\ Len(log) = 0 /\ DOMAIN rates = {}
    BY <1>1, EmptySeq
  <2> QED
    BY <1>1, <2>1 DEF RatesInv, Known
<1>2. Init => RatesInv
  BY <1>1 DEF Init, EngineInit, RatesInit
<1>3. IInv /\ RatesInv /\ [Next]_vars => RatesInv'
  <2> SUFFICES ASSUME IInv, RatesInv, [Next]_vars
               PROVE  RatesInv'
    OBVIOUS
  <2>1. ASSUME NEW id \in Line, NEW u \in Units, NEW at \in Nat, NEW score,
               Process(id, u, at, score)
        PROVE  RatesInv'
    BY <2>1, RecordKeepsRates DEF Process
  <2>2. CASE EngineReset
    <3>1. log' = <<>> /\ rates' = <<>> /\ current' = 0 /\ start' = NotStarted
      BY <2>2 DEF EngineReset, RatesReset
    <3>2. log' \in Seq(Events) /\ Len(log') = 0 /\ DOMAIN rates' = {}
      BY <3>1, EmptySeq
    <3> QED
      BY <3>1, <3>2 DEF RatesInv, Known
  <2>3. CASE UNCHANGED learned
    BY <2>3 DEF learned, rateTracker, RatesInv
  <2> QED
    BY <2>1, <2>2, <2>3, StepKinds
<1> QED
  BY <1>2, <1>3, InitSound, NextKeeps, PTL DEF Spec

\* The history of a template is what the journal brought, bucket by bucket, as
\* far back as it goes: the number of its lines,
\* late lines in the bucket that was filled when they came (record,
\* roll_over_to), as long as no template had to be forgotten.
THEOREM HistoryIsTheJournals == Spec => []RatesAreExact
<1>1. RatesInv => RatesAreExact
  <2> SUFFICES ASSUME RatesInv, HistoryLength <= IdleBuckets,
                      Cardinality({log[i].id : i \in DOMAIN log}) <= MaxTracked
               PROVE  \A x \in DOMAIN rates :
                        /\ rates[x].count = Seen(x, current)
                        /\ Len(rates[x].history) = Least(current - start, HistoryLength)
                        /\ \A k \in DOMAIN rates[x].history :
                             LET ago == Len(rates[x].history) + 1 - k
                             IN  \/ rates[x].history[k] = Seen(x, current - ago)
                                 \/ ago = HistoryLength /\ Pause
    BY DEF RatesAreExact
  <2>1. log \in Seq(Events) /\ DOMAIN log = 1..Len(log)
    BY LenProperties DEF RatesInv
  <2>2. \A x \in DOMAIN rates : rates[x] \in Rate /\ Exact(rates[x], x, log, current, start)
    BY <2>1 DEF RatesInv, Enough
  <2>3. /\ \A x, b : Seen(x, b) = SeenIn(log, x, b)
        /\ Pause = PauseIn(log, current)
    BY <2>1 DEF Seen, SeenIn, Pause, PauseIn, In, Reached, ReachedIn
  <2> SUFFICES ASSUME NEW x \in DOMAIN rates
               PROVE  /\ rates[x].count = Seen(x, current)
                      /\ Len(rates[x].history) = Least(current - start, HistoryLength)
                      /\ \A k \in DOMAIN rates[x].history :
                           LET ago == Len(rates[x].history) + 1 - k
                           IN  \/ rates[x].history[k] = Seen(x, current - ago)
                               \/ ago = HistoryLength /\ Pause
    OBVIOUS
  <2> DEFINE h == rates[x].history
  <2>4. Len(h) \in Nat /\ DOMAIN h = 1..Len(h)
    BY <2>2, LenProperties DEF Rate
  <2>5. /\ rates[x].count = SeenIn(log, x, current)
        /\ Len(h) = Least(current - start, HistoryLength)
        /\ \A ago \in 1..Len(h) :
             \/ h[Len(h) + 1 - ago] = SeenIn(log, x, current - ago)
             \/ ago = HistoryLength /\ PauseIn(log, current)
    BY <2>2 DEF Exact
  <2> HIDE DEF h
  <2>6. ASSUME NEW k \in DOMAIN h
        PROVE  LET ago == Len(h) + 1 - k
               IN  \/ h[k] = Seen(x, current - ago)
                   \/ ago = HistoryLength /\ Pause
    <3> DEFINE ago == Len(h) + 1 - k
    <3>1. ago \in 1..Len(h) /\ Len(h) + 1 - ago = k
      BY <2>4
    <3> HIDE DEF ago
    <3>2. h[k] = SeenIn(log, x, current - ago) \/ (ago = HistoryLength /\ PauseIn(log, current))
      BY <2>5, <3>1
    <3>3. h[k] = Seen(x, current - ago) \/ (ago = HistoryLength /\ Pause)
      BY <2>3, <3>2
    <3> QED
      BY <3>3 DEF ago
  <2> QED
    BY <2>3, <2>5, <2>6 DEF h
<1> QED
  BY <1>1, RatesInvHolds, PTL

-----------------------------------------------------------------------------
(* The window                                                              *)

Entry == [at : Nat, id : Line]

\* Timely, Behind, and whether a line is inside, in any sequence of events.
TimelyIn(l) == {i \in 1..Len(l) : l[i].at >= ReachedIn(l, i) - WindowLength}
BehindIn(l, i) == Cardinality({j \in TimelyIn(l) : j > i})
InsideIn(l, i) == l[i].at >= ReachedIn(l, Len(l)) - WindowLength

\* What the entries show of the events: each timely line that is not farther
\* behind than there are entries is at its place; who is farther behind is too
\* old or has been pushed out; and below the head somebody is inside.
Shown(s, l) ==
  /\ \A n \in 1..Len(s) : \E i \in TimelyIn(l) : BehindIn(l, i) = Len(s) - n
  /\ \A i \in TimelyIn(l) : BehindIn(l, i) < Len(s) =>
       /\ s[Len(s) - BehindIn(l, i)] = [at |-> l[i].at, id |-> l[i].id]
       /\ \E j \in TimelyIn(l) : j <= i /\ InsideIn(l, j)
  /\ \A i \in TimelyIn(l) :
       BehindIn(l, i) >= Len(s) /\ InsideIn(l, i) => BehindIn(l, i) >= MaxEntries

WindowInv ==
  /\ log \in Seq(Events) /\ entries \in Seq(Entry)
  /\ newest = IF log = <<>> THEN 0 ELSE ReachedIn(log, Len(log))
  /\ Shown(entries, log) /\ Len(entries) <= MaxEntries
  /\ counts = Ids(entries)

\* Later lines have fewer behind them.
LEMMA BehindIsNat ==
  ASSUME NEW l \in Seq(Events), NEW i \in 1..Len(l)
  PROVE  /\ BehindIn(l, i) \in Nat
         /\ IsFiniteSet({j \in TimelyIn(l) : j > i})
         /\ \A k \in TimelyIn(l) : k > i => BehindIn(l, k) < BehindIn(l, i)
<1> DEFINE n == Len(l)
           T(k) == {j \in TimelyIn(l) : j > k}
<1>1. n \in Nat
  BY LenProperties
<1>2. TimelyIn(l) \subseteq 1..n
  BY DEF TimelyIn
<1>3. \A k : T(k) \subseteq 1..n
  BY <1>2
<1> HIDE DEF n
<1>4. IsFiniteSet(1..n)
  BY <1>1, FS_Interval
<1>5. \A k : IsFiniteSet(T(k))
  BY <1>3, <1>4, FS_Subset
<1>6. \A k : Cardinality(T(k)) \in Nat
  <2> HIDE DEF T
  <2> QED
    BY <1>5, FS_CardinalityType
<1>7. ASSUME NEW k \in TimelyIn(l), k > i
      PROVE  Cardinality(T(k)) < Cardinality(T(i))
  <2>1. T(k) \subseteq T(i) /\ T(k) # T(i)
    <3>1. k \in T(i) /\ k \notin T(k) /\ i \in Nat /\ k \in Nat
      BY <1>1, <1>2, <1>7 DEF n
    <3>2. \A j \in T(k) : j \in T(i)
      <4> SUFFICES ASSUME NEW j \in T(k)
                   PROVE  j > i
        OBVIOUS
      <4>1. j \in Nat /\ j > k
        BY <1>2
      <4> QED
        BY <1>7, <3>1, <4>1
    <3> QED
      BY <3>1, <3>2
  <2> HIDE DEF T
  <2>2. Cardinality(T(k)) <= Cardinality(T(i)) /\ Cardinality(T(k)) # Cardinality(T(i))
    BY <1>5, <2>1, FS_Subset
  <2> QED
    BY <1>6, <2>2
<1> QED
  BY <1>5, <1>6, <1>7 DEF BehindIn

\* One more event is timely, and behind all others, or changes nothing.
LEMMA TimelyNext ==
  ASSUME NEW l \in Seq(Events), NEW e \in Events
  PROVE  LET m == Append(l, e)
             n == Len(l)
             now == ReachedIn(m, n + 1)
             timely == e.at >= now - WindowLength
         IN  /\ now = IF n = 0 \/ e.at > ReachedIn(l, n) THEN e.at ELSE ReachedIn(l, n)
             /\ TimelyIn(m) = IF timely THEN TimelyIn(l) \cup {n + 1} ELSE TimelyIn(l)
             /\ \A i \in 1..n : BehindIn(m, i) = IF timely THEN BehindIn(l, i) + 1
                                                ELSE BehindIn(l, i)
             /\ BehindIn(m, n + 1) = 0
             /\ \A i \in 1..n : (InsideIn(m, i) <=> l[i].at >= now - WindowLength)
             /\ (InsideIn(m, n + 1) <=> timely)
<1> DEFINE m == Append(l, e)
           n == Len(l)
           now == ReachedIn(m, n + 1)
           timely == e.at >= now - WindowLength
<1>1. /\ n \in Nat /\ m \in Seq(Events) /\ Len(m) = n + 1
      /\ \A i \in 1..n : m[i] = l[i]
      /\ m[n + 1] = e
  BY AppendNth
<1>2. /\ \A i \in 1..n : ReachedIn(m, i) = ReachedIn(l, i)
      /\ now = IF n = 0 \/ e.at > ReachedIn(l, n) THEN e.at ELSE ReachedIn(l, n)
  BY ReachedNext
<1> HIDE DEF m
<1>3. \A i \in 1..n + 1 : i \in 1..n \/ i = n + 1
  BY <1>1
<1>4. \A i \in 1..n : i \in 1..n + 1 /\ i < n + 1
  BY <1>1
<1>5. n + 1 \in 1..n + 1 /\ n + 1 \notin 1..n
  BY <1>1
<1>6. TimelyIn(m) = IF timely THEN TimelyIn(l) \cup {n + 1} ELSE TimelyIn(l)
  <2>1. \A i \in 1..n : i \in TimelyIn(m) <=> i \in TimelyIn(l)
    BY <1>1, <1>2, <1>4 DEF TimelyIn
  <2>2. n + 1 \in TimelyIn(m) <=> timely
    BY <1>1, <1>5 DEF TimelyIn
  <2>3. TimelyIn(m) \subseteq 1..n + 1 /\ TimelyIn(l) \subseteq 1..n
    BY <1>1 DEF TimelyIn
  <2> HIDE DEF timely
  <2>4. CASE timely
    <3>1. \A i \in TimelyIn(m) : i \in TimelyIn(l) \cup {n + 1}
      BY <1>3, <2>1, <2>3
    <3>2. \A i \in TimelyIn(l) \cup {n + 1} : i \in TimelyIn(m)
      BY <2>1, <2>2, <2>3, <2>4
    <3> QED
      BY <2>4, <3>1, <3>2
  <2>5. CASE ~timely
    <3>1. \A i \in TimelyIn(m) : i \in TimelyIn(l)
      BY <1>3, <2>1, <2>2, <2>3, <2>5
    <3>2. \A i \in TimelyIn(l) : i \in TimelyIn(m)
      BY <2>1, <2>3
    <3> QED
      BY <2>5, <3>1, <3>2
  <2> QED
    BY <2>4, <2>5
<1>7. ASSUME NEW i \in 1..n
      PROVE  BehindIn(m, i) = IF timely THEN BehindIn(l, i) + 1 ELSE BehindIn(l, i)
  <2> DEFINE S == {j \in TimelyIn(l) : j > i}
             U == {j \in TimelyIn(m) : j > i}
  <2>1. IsFiniteSet(S) /\ n + 1 \notin S
    <3>1. IsFiniteSet(S)
      BY BehindIsNat
    <3>2. TimelyIn(l) \subseteq 1..n
      BY DEF TimelyIn
    <3> QED
      BY <1>5, <3>1, <3>2
  <2>2. n + 1 > i
    BY <1>1
  <2>3. U = IF timely THEN S \cup {n + 1} ELSE S
    <3> HIDE DEF now
    <3> QED
      BY <1>6, <2>2
  <2> HIDE DEF S, U
  <2>4. Cardinality(S \cup {n + 1}) = Cardinality(S) + 1
    BY <2>1, FS_AddElement
  <2> HIDE DEF now
  <2> QED
    BY <2>3, <2>4 DEF BehindIn, S, U
<1>8. BehindIn(m, n + 1) = 0
  <2> DEFINE U == {j \in TimelyIn(m) : j > n + 1}
  <2>1. U = {}
    <3>1. TimelyIn(m) \subseteq 1..n + 1
      BY <1>1 DEF TimelyIn
    <3> QED
      BY <1>1, <3>1
  <2> HIDE DEF U
  <2>2. Cardinality(U) = 0
    BY <2>1, FS_EmptySet
  <2> QED
    BY <2>2 DEF BehindIn, U
<1>9. /\ \A i \in 1..n : (InsideIn(m, i) <=> l[i].at >= now - WindowLength)
      /\ (InsideIn(m, n + 1) <=> timely)
  BY <1>1 DEF InsideIn
<1> QED
  BY <1>2, <1>6, <1>7, <1>8, <1>9 DEF m

\* A line that came too late changes nothing.
LEMMA ShownSame ==
  ASSUME NEW l \in Seq(Events), NEW e \in Events, NEW s, Shown(s, l), Len(l) # 0,
         ~(e.at > ReachedIn(l, Len(l))), ~(e.at >= ReachedIn(l, Len(l)) - WindowLength)
  PROVE  Shown(s, Append(l, e))
<1> DEFINE m == Append(l, e)
           n == Len(l)
           now == ReachedIn(m, n + 1)
<1>1. /\ now = ReachedIn(l, n)
      /\ TimelyIn(m) = TimelyIn(l)
      /\ \A i \in 1..n : BehindIn(m, i) = BehindIn(l, i)
      /\ \A i \in 1..n : (InsideIn(m, i) <=> l[i].at >= now - WindowLength)
      /\ \A i \in 1..n : m[i] = l[i]
  BY TimelyNext, AppendNth
<1>2. TimelyIn(l) \subseteq 1..n
  BY DEF TimelyIn
<1>3. \A i \in 1..n : InsideIn(m, i) = InsideIn(l, i)
  BY <1>1 DEF InsideIn
<1> HIDE DEF m, n, now
<1> QED
  BY <1>1, <1>2, <1>3 DEF Shown, m

\* How the entries change: the old ones leave, then as many as there are too many.
Moved(s, t, e, now, old, gone) ==
  /\ old \in 0..Len(s) /\ gone \in old..Len(s)
  /\ gone > old => gone = Len(s) + 1 - MaxEntries
  /\ Len(t) = Len(s) + 1 - gone /\ Len(t) <= MaxEntries
  /\ \A k \in 1..Len(t) : t[k] = IF gone + k <= Len(s) THEN s[gone + k]
                                 ELSE [at |-> e.at, id |-> e.id]
  /\ \A k \in 1..old : s[k].at < now - WindowLength
  /\ old < Len(s) => s[old + 1].at >= now - WindowLength

\* A timely line enters at the end.
LEMMA ShownNext ==
  ASSUME NEW l \in Seq(Events), NEW e \in Events, NEW s \in Seq(Entry), Shown(s, l),
         NEW now \in Nat, now = IF Len(l) = 0 \/ e.at > ReachedIn(l, Len(l)) THEN e.at
                                ELSE ReachedIn(l, Len(l)),
         e.at >= now - WindowLength,
         NEW t \in Seq(Entry), NEW old, NEW gone, Moved(s, t, e, now, old, gone)
  PROVE  Shown(t, Append(l, e))
<1> DEFINE m == Append(l, e)
           n == Len(l)
           size == Len(s)
           new == Len(t)
<1>1. /\ n \in Nat /\ size \in Nat /\ new \in Nat /\ new = size + 1 - gone /\ new >= 1
      /\ old \in Nat /\ gone \in Nat /\ old <= gone /\ gone <= size
      /\ gone > old => gone = size + 1 - MaxEntries
      /\ old < size => s[old + 1].at >= now - WindowLength
      /\ MaxEntries \in Nat \ {0} /\ WindowLength \in Nat
      /\ \A k \in 1..old : s[k].at < now - WindowLength
  BY LenProperties, WindowAssumption DEF Moved
<1>t. \A k \in 1..new : t[k] = IF gone + k <= size THEN s[gone + k]
                                ELSE [at |-> e.at, id |-> e.id]
  BY DEF Moved
<1>2. /\ now = ReachedIn(m, n + 1)
      /\ TimelyIn(m) = TimelyIn(l) \cup {n + 1}
      /\ \A i \in 1..n : BehindIn(m, i) = BehindIn(l, i) + 1
      /\ BehindIn(m, n + 1) = 0
      /\ \A i \in 1..n : (InsideIn(m, i) <=> l[i].at >= now - WindowLength)
      /\ InsideIn(m, n + 1)
  <2> DEFINE reached == ReachedIn(m, n + 1)
             timely == e.at >= reached - WindowLength
  <2>1. now = reached
    BY TimelyNext
  <2>2. /\ TimelyIn(m) = IF timely THEN TimelyIn(l) \cup {n + 1} ELSE TimelyIn(l)
        /\ \A i \in 1..n : BehindIn(m, i) = IF timely THEN BehindIn(l, i) + 1
                                           ELSE BehindIn(l, i)
        /\ BehindIn(m, n + 1) = 0
        /\ \A i \in 1..n : (InsideIn(m, i) <=> l[i].at >= reached - WindowLength)
        /\ (InsideIn(m, n + 1) <=> timely)
    BY TimelyNext
  <2> HIDE DEF reached, m, n
  <2>3. timely
    BY <2>1
  <2> HIDE DEF timely
  <2> QED
    BY <2>1, <2>2, <2>3 DEF reached
<1>3. m \in Seq(Events) /\ Len(m) = n + 1 /\ m[n + 1] = e /\ \A i \in 1..n : m[i] = l[i]
  BY AppendNth
<1> HIDE DEF m
<1>4. TimelyIn(l) \subseteq 1..n /\ \A i \in TimelyIn(l) : BehindIn(l, i) \in Nat
  <2>1. TimelyIn(l) \subseteq 1..n
    BY DEF TimelyIn
  <2> QED
    BY <2>1, BehindIsNat
<1>5. /\ \A k \in 1..size : \E i \in TimelyIn(l) : BehindIn(l, i) = size - k
      /\ \A i \in TimelyIn(l) : BehindIn(l, i) < size =>
           s[size - BehindIn(l, i)] = [at |-> l[i].at, id |-> l[i].id]
      /\ \A i \in TimelyIn(l) :
           BehindIn(l, i) >= size /\ InsideIn(l, i) => BehindIn(l, i) >= MaxEntries
  BY DEF Shown
<1> HIDE DEF size, new
<1>6. ASSUME NEW i \in TimelyIn(l), InsideIn(m, i)
      PROVE  InsideIn(l, i)
  <2>1. /\ i \in 1..n /\ n \in 1..n /\ l[i].at >= now - WindowLength
        /\ l[i].at \in Nat
    <3>1. i \in 1..n /\ l[i] \in Events
      BY <1>4, ElementOfSeq
    <3>2. l[i].at >= now - WindowLength
      BY <1>2, <1>6, <3>1
    <3>3. n \in 1..n
      BY <1>1, <3>1
    <3> QED
      BY <3>1, <3>2, <3>3 DEF Events
  <2>2. ReachedIn(l, n) \in Nat /\ ReachedIn(l, n) <= now
    <3>1. ReachedIn(l, n) \in Nat
      BY <2>1, ReachedIsOne
    <3>2. e.at \in Nat
      BY DEF Events
    <3>3. now = IF n = 0 \/ e.at > ReachedIn(l, n) THEN e.at ELSE ReachedIn(l, n)
      OBVIOUS
    <3> HIDE DEF n
    <3> QED
      BY <1>1, <2>1, <3>1, <3>2, <3>3
  <2>3. l[i].at >= ReachedIn(l, n) - WindowLength
    <3> DEFINE a == l[i].at
               r == ReachedIn(l, n)
    <3>1. a \in Nat /\ r \in Nat /\ r <= now /\ a >= now - WindowLength
      BY <2>1, <2>2
    <3> HIDE DEF a, r
    <3>2. a >= r - WindowLength
      BY <1>1, <3>1
    <3> QED
      BY <3>2 DEF a, r
  <2> QED
    BY <2>3 DEF InsideIn
\* The line behind which the window begins.
<1>7. \E j \in TimelyIn(m) : InsideIn(m, j) /\ BehindIn(m, j) = size - old
  <2>1. CASE old = size
    BY <1>1, <1>2, <2>1
  <2>2. CASE old < size
    <3>1. old + 1 \in 1..size
      BY <1>1, <2>2
    <3>2. PICK j \in TimelyIn(l) : BehindIn(l, j) = size - (old + 1)
      BY <1>5, <3>1
    <3>3. BehindIn(l, j) < size /\ size - BehindIn(l, j) = old + 1
      BY <1>1, <3>2
    <3>4. s[old + 1] = [at |-> l[j].at, id |-> l[j].id]
      BY <1>5, <3>3
    <3>5. l[j].at >= now - WindowLength /\ j \in 1..n /\ BehindIn(m, j) = size - old
      BY <1>1, <1>2, <1>4, <2>2, <3>2, <3>4
    <3> QED
      BY <1>2, <3>5
  <2> QED
    BY <1>1, <2>1, <2>2
<1>8. ASSUME NEW k \in 1..new
      PROVE  \E i \in TimelyIn(m) : BehindIn(m, i) = new - k
  <2>1. CASE k = new
    BY <1>1, <1>2, <2>1
  <2>2. CASE k # new
    <3>1. gone + k \in 1..size
      BY <1>1, <2>2
    <3>2. PICK i \in TimelyIn(l) : BehindIn(l, i) = size - (gone + k)
      BY <1>5, <3>1
    <3>3. BehindIn(m, i) = new - k
      BY <1>1, <1>2, <1>4, <3>2
    <3> QED
      BY <1>2, <3>3
  <2> QED
    BY <2>1, <2>2
<1>9. ASSUME NEW i \in TimelyIn(m), BehindIn(m, i) < new
      PROVE  /\ t[new - BehindIn(m, i)] = [at |-> m[i].at, id |-> m[i].id]
             /\ \E j \in TimelyIn(m) : j <= i /\ InsideIn(m, j)
  <2>1. t[new - BehindIn(m, i)] = [at |-> m[i].at, id |-> m[i].id]
    <3>1. CASE i = n + 1
      <4>1. new - BehindIn(m, i) = new /\ new \in 1..new /\ ~(gone + new <= size)
        BY <1>1, <1>2, <3>1
      <4> QED
        BY <1>3, <1>t, <3>1, <4>1
    <3>2. CASE i \in TimelyIn(l)
      <4> DEFINE b == BehindIn(l, i)
                 c == BehindIn(m, i)
                 k == new - c
      <4>1. b \in Nat /\ c = b + 1 /\ c < new /\ i \in 1..n
        BY <1>2, <1>4, <1>9, <3>2
      <4> HIDE DEF b, c
      <4>2. k \in 1..new /\ gone + k = size - b /\ gone + k <= size /\ b < size
        BY <1>1, <4>1
      <4> HIDE DEF k
      <4>3. t[k] = s[size - b]
        BY <1>t, <4>2
      <4>4. s[size - b] = [at |-> l[i].at, id |-> l[i].id]
        BY <1>5, <3>2, <4>2 DEF b
      <4> QED
        BY <1>3, <4>1, <4>3, <4>4 DEF k, c
    <3> QED
      BY <1>2, <3>1, <3>2
  <2>2. PICK j \in TimelyIn(m) : InsideIn(m, j) /\ BehindIn(m, j) = size - old
    BY <1>7
  <2>3. /\ i \in 1..n + 1 /\ j \in 1..n + 1
        /\ BehindIn(m, i) \in Nat
    <3>1. i \in 1..Len(m) /\ j \in 1..Len(m)
      BY DEF TimelyIn
    <3> QED
      BY <1>3, <3>1, BehindIsNat
  <2>4. ~(j > i)
    <3>1. ~(BehindIn(m, j) < BehindIn(m, i))
      BY <1>1, <1>9, <2>2, <2>3
    <3> QED
      BY <1>3, <2>3, <3>1, BehindIsNat
  <2>5. j <= i
    BY <1>1, <2>3, <2>4
  <2> QED
    BY <2>1, <2>2, <2>5
<1>10. ASSUME NEW i \in TimelyIn(m), BehindIn(m, i) >= new, InsideIn(m, i)
       PROVE  BehindIn(m, i) >= MaxEntries
  <2>1. i \in TimelyIn(l)
    BY <1>1, <1>2, <1>10
  <2> DEFINE b == BehindIn(l, i)
  <2>2. /\ b \in Nat /\ BehindIn(m, i) = b + 1 /\ b + 1 >= new
        /\ l[i].at >= now - WindowLength
    BY <1>2, <1>4, <1>10, <2>1
  <2>5. /\ b < size => s[size - b].at = l[i].at
        /\ b >= size => b >= MaxEntries
    <3>1. InsideIn(l, i)
      BY <1>6, <1>10, <2>1
    <3>2. b < size => s[size - b] = [at |-> l[i].at, id |-> l[i].id]
      BY <1>5, <2>1
    <3>3. b >= size => b >= MaxEntries
      BY <1>5, <2>1, <3>1
    <3> HIDE DEF b
    <3> QED
      BY <3>2, <3>3
  <2> HIDE DEF b
  <2>3. CASE b >= size
    BY <1>1, <2>2, <2>3, <2>5
  <2>4. CASE b < size
    <3>1. s[size - b].at = l[i].at
      BY <2>4, <2>5
    <3> DEFINE k == size - b
    <3>2. k \in Nat /\ k >= 1 /\ k <= gone /\ b = size - k
      BY <1>1, <2>2, <2>4
    <3> HIDE DEF k
    <3>3. s[k].at = l[i].at
      BY <3>1 DEF k
    <3>4. ~(k <= old)
      <4>1. s[k].at >= now - WindowLength
        BY <2>2, <3>3
      <4>2. CASE k <= old
        <5>1. k \in 1..old
          BY <1>1, <3>2, <4>2
        <5>2. l[i].at < now - WindowLength
          BY <1>1, <3>3, <5>1
        <5>3. l[i].at \in Nat
          <6>1. l[i] \in Events
            BY <1>4, <2>1, ElementOfSeq
          <6> QED
            BY <6>1 DEF Events
        <5>4. s[k].at = l[i].at /\ now - WindowLength \in Int
          BY <1>1, <3>3
        <5> HIDE DEF size
        <5> QED
          BY <4>1, <5>2, <5>3, <5>4
      <4> QED
        BY <4>2
    <3>5. gone = size + 1 - MaxEntries
      BY <1>1, <3>2, <3>4
    <3> QED
      BY <1>1, <2>2, <3>2, <3>5
  <2> QED
    BY <1>1, <2>2, <2>3, <2>4
<1> QED
  BY <1>8, <1>9, <1>10 DEF Shown, m, new

\* How often x occurs.
Occ(s, x) == Cardinality({i \in 1..Len(s) : s[i].id = x})

LEMMA OccIsNat ==
  ASSUME NEW s \in Seq(Entry), NEW x
  PROVE  /\ Occ(s, x) \in Nat
         /\ IsFiniteSet({i \in 1..Len(s) : s[i].id = x})
         /\ Occ(s, x) > 0 <=> \E i \in 1..Len(s) : s[i].id = x
<1> DEFINE n == Len(s)
           S == {i \in 1..n : s[i].id = x}
<1>1. n \in Nat
  BY LenProperties
<1>2. S \subseteq 1..n /\ (S = {} <=> ~\E i \in 1..n : s[i].id = x)
  OBVIOUS
<1> HIDE DEF n
<1>3. IsFiniteSet(1..n)
  BY <1>1, FS_Interval
<1> HIDE DEF S
<1>4. IsFiniteSet(S)
  BY <1>2, <1>3, FS_Subset
<1>5. Cardinality(S) \in Nat /\ (Cardinality(S) = 0 <=> S = {})
  BY <1>4, FS_CardinalityType, FS_EmptySet
<1>6. Cardinality(S) > 0 <=> S # {}
  BY <1>5
<1> QED
  BY <1>2, <1>4, <1>5, <1>6 DEF Occ, S, n

\* The bag of a sequence.
LEMMA IdsIsOcc ==
  ASSUME NEW s \in Seq(Entry)
  PROVE  /\ Ids(s) = [x \in DOMAIN Ids(s) |-> Ids(s)[x]]
         /\ \A x : x \in DOMAIN Ids(s) <=> Occ(s, x) > 0
         /\ \A x \in DOMAIN Ids(s) : Ids(s)[x] = Occ(s, x)
<1>1. DOMAIN s = 1..Len(s)
  BY LenProperties
<1>2. /\ DOMAIN Ids(s) = {s[i].id : i \in 1..Len(s)}
      /\ \A x \in DOMAIN Ids(s) : Ids(s)[x] = Occ(s, x)
      /\ Ids(s) = [x \in DOMAIN Ids(s) |-> Ids(s)[x]]
  BY <1>1 DEF Ids, Occ
<1>3. \A x : x \in DOMAIN Ids(s) <=> \E i \in 1..Len(s) : s[i].id = x
  BY <1>2
<1> QED
  BY <1>2, <1>3, OccIsNat

\* The bags add up as the numbers do.
LEMMA BagsAddUp ==
  ASSUME NEW s \in Seq(Entry), NEW t \in Seq(Entry), NEW u \in Seq(Entry), NEW v \in Seq(Entry),
         \A x : Occ(s, x) + Occ(t, x) = Occ(u, x) + Occ(v, x)
  PROVE  (Ids(s) (+) Ids(t)) (-) Ids(u) = Ids(v)
<1> DEFINE S == Ids(s)
           T == Ids(t)
           U == Ids(u)
           V == Ids(v)
           P == S (+) T
           D == [x \in DOMAIN P |-> IF x \in DOMAIN U THEN P[x] - U[x] ELSE P[x]]
<1>1. /\ \A x : Occ(s, x) \in Nat /\ Occ(t, x) \in Nat /\ Occ(u, x) \in Nat /\ Occ(v, x) \in Nat
      /\ \A x : x \in DOMAIN S <=> Occ(s, x) > 0
      /\ \A x : x \in DOMAIN T <=> Occ(t, x) > 0
      /\ \A x : x \in DOMAIN U <=> Occ(u, x) > 0
      /\ \A x : x \in DOMAIN V <=> Occ(v, x) > 0
      /\ \A x \in DOMAIN S : S[x] = Occ(s, x)
      /\ \A x \in DOMAIN T : T[x] = Occ(t, x)
      /\ \A x \in DOMAIN U : U[x] = Occ(u, x)
      /\ \A x \in DOMAIN V : V[x] = Occ(v, x)
      /\ V = [x \in DOMAIN V |-> V[x]]
  BY OccIsNat, IdsIsOcc
<1>2. P = [x \in DOMAIN S \cup DOMAIN T |-> (IF x \in DOMAIN S THEN S[x] ELSE 0)
                                              + (IF x \in DOMAIN T THEN T[x] ELSE 0)]
  BY DEF (+)
<1>3. P (-) U = [x \in {y \in DOMAIN P : D[y] > 0} |-> D[x]]
  BY DEF (-)
<1> HIDE DEF S, T, U, V, P
<1>4. /\ DOMAIN P = DOMAIN S \cup DOMAIN T
      /\ \A x \in DOMAIN P : P[x] = Occ(s, x) + Occ(t, x)
  <2>1. DOMAIN P = DOMAIN S \cup DOMAIN T
    BY <1>2
  <2>2. ASSUME NEW x \in DOMAIN P
        PROVE  P[x] = Occ(s, x) + Occ(t, x)
    <3>1. P[x] = (IF x \in DOMAIN S THEN S[x] ELSE 0) + (IF x \in DOMAIN T THEN T[x] ELSE 0)
      BY <1>2, <2>1, <2>2
    <3>2. (IF x \in DOMAIN S THEN S[x] ELSE 0) = Occ(s, x)
      BY <1>1
    <3>3. (IF x \in DOMAIN T THEN T[x] ELSE 0) = Occ(t, x)
      BY <1>1
    <3> QED
      BY <3>1, <3>2, <3>3
  <2> QED
    BY <2>1, <2>2
<1>5. ASSUME NEW x \in DOMAIN P
      PROVE  D[x] = Occ(v, x)
  <2>1. (IF x \in DOMAIN U THEN U[x] ELSE 0) = Occ(u, x)
    BY <1>1
  <2>2. D[x] = P[x] - (IF x \in DOMAIN U THEN U[x] ELSE 0)
    <3>1. P[x] \in Int
      BY <1>1, <1>4
    <3> QED
      BY <3>1
  <2>3. P[x] = Occ(u, x) + Occ(v, x)
    BY <1>4
  <2> QED
    BY <1>1, <2>1, <2>2, <2>3
<1>6. DOMAIN D = DOMAIN P
  OBVIOUS
<1> HIDE DEF D
<1>7. {y \in DOMAIN P : D[y] > 0} = DOMAIN V
  <2>1. \A y \in DOMAIN V : y \in DOMAIN P
    <3> SUFFICES ASSUME NEW y \in DOMAIN V
                 PROVE  y \in DOMAIN S \/ y \in DOMAIN T
      BY <1>4
    <3>1. Occ(s, y) + Occ(t, y) = Occ(u, y) + Occ(v, y) /\ Occ(v, y) > 0
      BY <1>1
    <3>2. Occ(s, y) > 0 \/ Occ(t, y) > 0
      BY <1>1, <3>1
    <3> QED
      BY <1>1, <3>2
  <2> QED
    BY <1>1, <1>5, <2>1
<1>8. P (-) U = [x \in DOMAIN V |-> D[x]]
  BY <1>3, <1>7
<1>9. \A x \in DOMAIN V : D[x] = V[x]
  BY <1>1, <1>5, <1>7
<1>10. P (-) U = V
  BY <1>1, <1>8, <1>9
<1> QED
  BY <1>10 DEF P, S, T, U, V

\* An occurrence is in the one part or in the other.
Parts(s, u, v) ==
  /\ Len(s) = Len(u) + Len(v)
  /\ \A k \in 1..Len(u) : u[k] = s[k]
  /\ \A k \in 1..Len(v) : v[k] = s[Len(u) + k]

LEMMA OccSplit ==
  ASSUME NEW s \in Seq(Entry), NEW u \in Seq(Entry), NEW v \in Seq(Entry), NEW x,
         Parts(s, u, v)
  PROVE  Occ(s, x) = Occ(u, x) + Occ(v, x)
<1> DEFINE g == Len(u)
           n == Len(v)
           S == {i \in 1..Len(s) : s[i].id = x}
           U == {i \in 1..g : u[i].id = x}
           V == {i \in 1..n : v[i].id = x}
           W == {i \in g + 1..g + n : s[i].id = x}
           f == [i \in V |-> g + i]
<1>1. g \in Nat /\ n \in Nat /\ Len(s) = g + n
  BY LenProperties DEF Parts
<1>2. IsFiniteSet(S) /\ IsFiniteSet(U) /\ IsFiniteSet(V)
  BY OccIsNat
<1>3. U = {i \in 1..g : s[i].id = x}
  BY DEF Parts
<1>4. \A k \in 1..n : v[k] = s[g + k]
  BY DEF Parts
<1> HIDE DEF g, n
<1>5. S = U \cup W /\ U \cap W = {}
  <2>1. \A i \in 1..g + n : i \in 1..g \/ i \in g + 1..g + n
    BY <1>1
  <2>2. \A i \in 1..g : i \in 1..g + n /\ i \notin g + 1..g + n
    BY <1>1
  <2>3. \A i \in g + 1..g + n : i \in 1..g + n
    BY <1>1
  <2> HIDE DEF U
  <2> QED
    BY <1>1, <1>3, <2>1, <2>2, <2>3
<1>6. f \in Bijection(V, W)
  <2>1. \A i \in V : f[i] \in W
    <3> SUFFICES ASSUME NEW i \in V
                 PROVE  f[i] \in W
      OBVIOUS
    <3>1. g + i \in g + 1..g + n /\ f[i] = g + i
      BY <1>1
    <3> QED
      BY <1>4, <3>1
  <2>2. \A i, j \in V : f[i] = f[j] => i = j
    BY <1>1
  <2>3. \A i \in W : \E j \in V : f[j] = i
    <3> SUFFICES ASSUME NEW i \in W
                 PROVE  \E j \in V : f[j] = i
      OBVIOUS
    <3>1. i - g \in 1..n /\ g + (i - g) = i
      BY <1>1
    <3>2. i - g \in V
      BY <1>4, <3>1
    <3>3. f[i - g] = i
      BY <3>1, <3>2
    <3> QED
      BY <3>2, <3>3
  <2>4. f \in [V -> W]
    BY <2>1
  <2> HIDE DEF f, V, W
  <2> QED
    BY <2>2, <2>3, <2>4 DEF Bijection, Injection, IsInjective, Surjection
<1> HIDE DEF f, S, U, V, W
<1>7. IsFiniteSet(W) /\ Cardinality(W) = Cardinality(V)
  BY <1>2, <1>6, FS_Bijection DEF ExistsBijection
<1>8. Cardinality(S) = Cardinality(U) + Cardinality(W)
  <2>1. Cardinality(U \cap W) = 0
    BY <1>5, FS_EmptySet
  <2>2. Cardinality(U \cup W) = Cardinality(U) + Cardinality(W) - Cardinality(U \cap W)
    BY <1>2, <1>7, FS_Union
  <2>3. Cardinality(U) \in Nat /\ Cardinality(W) \in Nat
    BY <1>2, <1>7, FS_CardinalityType
  <2> QED
    BY <1>5, <2>1, <2>2, <2>3
<1> QED
  BY <1>7, <1>8 DEF Occ, S, U, V, g, n

\* A sequence is its beginning and the rest.
LEMMA PartsOf ==
  ASSUME NEW s \in Seq(Entry), NEW a \in 0..Len(s)
  PROVE  /\ SubSeq(s, 1, a) \in Seq(Entry) /\ Len(SubSeq(s, 1, a)) = a
         /\ \A k \in 1..a : SubSeq(s, 1, a)[k] = s[k]
         /\ SubSeq(s, a + 1, Len(s)) \in Seq(Entry)
         /\ Len(SubSeq(s, a + 1, Len(s))) = Len(s) - a
         /\ \A k \in 1..Len(s) - a : SubSeq(s, a + 1, Len(s))[k] = s[a + k]
<1> DEFINE n == Len(s)
           b == a + 1
<1>1. n \in Nat /\ a \in Nat /\ a <= n /\ b \in Int
  BY LenProperties
<1>2. \A k \in 1..n : s[k] \in Entry
  BY ElementOfSeq
<1> HIDE DEF n, b
<1>3. (\A k \in 1..a : s[k] \in Entry) /\ (\A k \in b..n : s[k] \in Entry)
  BY <1>1, <1>2 DEF b
<1>4. /\ SubSeq(s, 1, a) \in Seq(Entry)
      /\ Len(SubSeq(s, 1, a)) = IF 1 <= a THEN a - 1 + 1 ELSE 0
      /\ \A k \in 1..a - 1 + 1 : SubSeq(s, 1, a)[k] = s[1 + k - 1]
  BY <1>1, <1>3, SubSeqProperties
<1>5. /\ SubSeq(s, b, n) \in Seq(Entry)
      /\ Len(SubSeq(s, b, n)) = IF b <= n THEN n - b + 1 ELSE 0
      /\ \A k \in 1..n - b + 1 : SubSeq(s, b, n)[k] = s[b + k - 1]
  BY <1>1, <1>3, SubSeqProperties
<1>6. /\ (IF 1 <= a THEN a - 1 + 1 ELSE 0) = a /\ a - 1 + 1 = a
      /\ \A k \in 1..a : 1 + k - 1 = k
  BY <1>1
<1>7. /\ (IF b <= n THEN n - b + 1 ELSE 0) = n - a /\ n - b + 1 = n - a
      /\ \A k \in 1..n - a : b + k - 1 = a + k
  BY <1>1 DEF b
<1>8. \A k \in 1..a : SubSeq(s, 1, a)[k] = s[k]
  BY <1>4, <1>6
<1>9. \A k \in 1..n - a : SubSeq(s, b, n)[k] = s[a + k]
  BY <1>5, <1>7
<1> QED
  BY <1>4, <1>5, <1>6, <1>7, <1>8, <1>9 DEF n, b

\* evict_expired stops at the first entry that is not too old.
LEMMA ExpiredIsThat ==
  ASSUME NEW s \in Seq(Entry), Len(s) # 0, NEW cutoff \in Int, s[Len(s)].at >= cutoff
  PROVE  LET old == Expired(s, cutoff)
         IN  /\ old \in 0..Len(s) - 1 /\ s[old + 1].at >= cutoff
             /\ \A i \in 1..old : s[i].at < cutoff
<1> DEFINE T == {n \in 0..Len(s) - 1 : s[n + 1].at >= cutoff}
<1>1. Len(s) \in Nat /\ \A i \in 1..Len(s) : s[i].at \in Nat
  <2>1. Len(s) \in Nat /\ \A i \in 1..Len(s) : s[i] \in Entry
    BY LenProperties, ElementOfSeq
  <2> QED
    BY <2>1 DEF Entry
<1>2. Len(s) - 1 \in T
  BY <1>1
<1>3. T \in SUBSET Nat
  BY <1>1
<1>4. PICK n \in T : \A k \in T : n <= k
  <2> HIDE DEF T
  <2> QED
    BY <1>2, <1>3, LeastExists
<1>5. ASSUME NEW i \in 1..n
      PROVE  s[i].at < cutoff
  <2>1. i - 1 \in 0..Len(s) - 1 /\ i - 1 + 1 = i /\ ~(n <= i - 1) /\ i \in 1..Len(s)
    BY <1>1, <1>4
  <2>2. i - 1 \notin T
    BY <1>4, <2>1
  <2> QED
    BY <1>1, <2>1, <2>2
<1> QED
  BY <1>4, <1>5 DEF Expired

\* push, of a line that does not come too late.
LEMMA PushMoves ==
  ASSUME NEW s \in Seq(Entry), NEW x \in Entry, NEW now \in Nat, x.at >= now - WindowLength
  PROVE  LET all  == Append(s, x)
             old  == Expired(all, now - WindowLength)
             gone == old + Surplus(SubSeq(all, old + 1, Len(all)))
             t    == SubSeq(all, gone + 1, Len(all))
         IN  /\ t \in Seq(Entry) /\ Moved(s, t, x, now, old, gone)
             /\ (Ids(s) (+) Ids(<<x>>)) (-) Ids(SubSeq(all, 1, gone)) = Ids(t)
<1> DEFINE all  == Append(s, x)
           size == Len(s)
           cutoff == now - WindowLength
           old  == Expired(all, cutoff)
           gone == old + Surplus(SubSeq(all, old + 1, Len(all)))
           t    == SubSeq(all, gone + 1, Len(all))
           head == SubSeq(all, 1, gone)
<1>1. /\ size \in Nat /\ all \in Seq(Entry) /\ Len(all) = size + 1 /\ all[size + 1] = x
      /\ \A k \in 1..size : all[k] = s[k]
      /\ MaxEntries \in Nat \ {0} /\ cutoff \in Int
  BY LenProperties, AppendProperties, WindowAssumption
<1> HIDE DEF all, size
<1>2. /\ old \in 0..size /\ all[old + 1].at >= cutoff
      /\ \A i \in 1..old : all[i].at < cutoff
  <2> HIDE DEF cutoff
  <2>1. Len(all) # 0 /\ all[Len(all)].at >= cutoff /\ Len(all) - 1 = size
    BY <1>1 DEF cutoff
  <2> HIDE DEF size
  <2> QED
    BY <1>1, <2>1, ExpiredIsThat
<1> HIDE DEF old, cutoff
<1>3. Surplus(SubSeq(all, old + 1, Len(all))) =
        IF size + 1 - old > MaxEntries THEN size + 1 - old - MaxEntries ELSE 0
  <2>1. Len(SubSeq(all, old + 1, Len(all))) = size + 1 - old
    <3>1. old \in 0..Len(all)
      BY <1>1, <1>2
    <3> HIDE DEF size
    <3> QED
      BY <1>1, <3>1, PartsOf
  <2> DEFINE rest == SubSeq(all, old + 1, Len(all))
  <2> HIDE DEF rest
  <2>2. Surplus(rest) = IF Len(rest) > MaxEntries THEN Len(rest) - MaxEntries ELSE 0
    BY DEF Surplus
  <2>3. Len(rest) = size + 1 - old
    BY <2>1 DEF rest
  <2>4. Surplus(rest) = IF size + 1 - old > MaxEntries THEN size + 1 - old - MaxEntries ELSE 0
    BY <1>1, <1>2, <2>2, <2>3
  <2> QED
    BY <2>4 DEF rest
<1>4. /\ gone \in old..size
      /\ gone > old => gone = size + 1 - MaxEntries
      /\ gone \in 0..Len(all) /\ size + 1 - gone <= MaxEntries
  <2> DEFINE n == Surplus(SubSeq(all, old + 1, Len(all)))
  <2>1. n = IF size + 1 - old > MaxEntries THEN size + 1 - old - MaxEntries ELSE 0
    BY <1>3
  <2> HIDE DEF n, size
  <2>2. gone = old + n
    BY DEF n
  <2> HIDE DEF gone
  <2>3. size \in Nat /\ MaxEntries \in Nat \ {0} /\ old \in 0..size
    BY <1>1, <1>2
  <2>4. CASE size + 1 - old > MaxEntries
    <3>1. gone = size + 1 - MaxEntries /\ gone \in Nat
      BY <2>1, <2>2, <2>3, <2>4
    <3> QED
      BY <1>1, <2>3, <2>4, <3>1
  <2>5. CASE ~(size + 1 - old > MaxEntries)
    <3>1. gone = old
      BY <2>1, <2>2, <2>3, <2>5
    <3> QED
      BY <1>1, <2>3, <2>5, <3>1
  <2> QED
    BY <2>4, <2>5
<1> HIDE DEF gone
<1>5. /\ head \in Seq(Entry) /\ Len(head) = gone
      /\ \A k \in 1..gone : head[k] = all[k]
      /\ t \in Seq(Entry) /\ Len(t) = size + 1 - gone
      /\ \A k \in 1..size + 1 - gone : t[k] = all[gone + k]
  <2> HIDE DEF size
  <2>1. all \in Seq(Entry) /\ Len(all) = size + 1 /\ gone \in 0..Len(all)
    BY <1>1, <1>4
  <2>2. /\ head \in Seq(Entry) /\ Len(head) = gone
        /\ \A k \in 1..gone : head[k] = all[k]
        /\ t \in Seq(Entry) /\ Len(t) = Len(all) - gone
        /\ \A k \in 1..Len(all) - gone : t[k] = all[gone + k]
    BY <2>1, PartsOf
  <2>3. Len(all) - gone = size + 1 - gone
    BY <1>1, <1>4, <2>1
  <2> HIDE DEF head, t
  <2> QED
    BY <2>2, <2>3
<1> HIDE DEF head, t
<1>6. Moved(s, t, x, now, old, gone)
  <2>1. ASSUME NEW k \in 1..Len(t)
        PROVE  t[k] = IF gone + k <= size THEN s[gone + k] ELSE [at |-> x.at, id |-> x.id]
    <3>0. k \in 1..size + 1 - gone
      BY <1>5
    <3>1. t[k] = all[gone + k] /\ gone + k \in 1..size + 1
      BY <1>1, <1>4, <1>5, <3>0
    <3>2. x = [at |-> x.at, id |-> x.id]
      BY DEF Entry
    <3>3. gone + k <= size => gone + k \in 1..size
      BY <1>1, <3>1
    <3>4. ~(gone + k <= size) => gone + k = size + 1
      BY <1>1, <3>1
    <3> HIDE DEF size
    <3> QED
      BY <1>1, <3>1, <3>2, <3>3, <3>4
  <2>2. \A k \in 1..old : s[k].at < cutoff
    <3>1. \A k \in 1..old : k \in 1..size
      BY <1>1, <1>2
    <3> QED
      BY <1>1, <1>2, <3>1
  <2>3. old < size => s[old + 1].at >= cutoff
    <3>1. old < size => old + 1 \in 1..size
      BY <1>1, <1>2
    <3> QED
      BY <1>1, <1>2, <3>1
  <2> QED
    BY <1>2, <1>4, <1>5, <2>1, <2>2, <2>3 DEF Moved, cutoff, size
<1>7. (Ids(s) (+) Ids(<<x>>)) (-) Ids(head) = Ids(t)
  <2> DEFINE one == <<x>>
  <2>1. one \in Seq(Entry) /\ Len(one) = 1 /\ one[1] = x
    OBVIOUS
  <2> HIDE DEF one
  <2>2. ASSUME NEW y
        PROVE  Occ(s, y) + Occ(one, y) = Occ(head, y) + Occ(t, y)
    <3>1. Occ(all, y) = Occ(s, y) + Occ(one, y)
      <4>1. Parts(all, s, one)
        BY <1>1, <2>1 DEF Parts, size
      <4> QED
        BY <1>1, <2>1, <4>1, OccSplit
    <3>2. Occ(all, y) = Occ(head, y) + Occ(t, y)
      <4>1. Parts(all, head, t)
        BY <1>1, <1>4, <1>5 DEF Parts
      <4> QED
        BY <1>1, <1>5, <4>1, OccSplit
    <3> QED
      BY <3>1, <3>2
  <2>3. (Ids(s) (+) Ids(one)) (-) Ids(head) = Ids(t)
    BY <1>5, <2>1, <2>2, BagsAddUp
  <2> QED
    BY <2>3 DEF one
<1> QED
  BY <1>5, <1>6, <1>7 DEF all, old, cutoff, gone, t, head

LEMMA PushKeepsWindow ==
  ASSUME WindowInv, NEW id \in Line, NEW u \in Units, NEW at \in Nat,
         Push(at, id), log' = Append(log, [id |-> id, unit |-> u, at |-> at])
  PROVE  WindowInv'
<1> DEFINE e == [id |-> id, unit |-> u, at |-> at]
           x == [at |-> at, id |-> id]
           m == Append(log, e)
           n == Len(log)
           now == IF at > newest THEN at ELSE newest
           cutoff == now - WindowLength
           all  == Append(entries, x)
           old  == Expired(all, cutoff)
           gone == old + Surplus(SubSeq(all, old + 1, Len(all)))
           t    == SubSeq(all, gone + 1, Len(all))
<1>1. /\ e \in Events /\ x \in Entry /\ e.at = at /\ e.id = id /\ x.at = at /\ x.id = id
      /\ log \in Seq(Events) /\ entries \in Seq(Entry) /\ Shown(entries, log)
      /\ counts = Ids(entries)
  BY DEF Events, Entry, WindowInv
<1>2. n \in Nat /\ (n = 0 <=> log = <<>>) /\ WindowLength \in Nat
  BY <1>1, LenProperties, EmptySeq, WindowAssumption
<1>3. /\ newest \in Nat /\ now \in Nat
      /\ n # 0 => newest = ReachedIn(log, n)
      /\ n = 0 => newest = 0
      /\ now = IF n = 0 \/ at > ReachedIn(log, n) THEN at ELSE ReachedIn(log, n)
  <2>1. n # 0 => newest = ReachedIn(log, n)
    BY <1>2 DEF WindowInv
  <2>2. n = 0 => newest = 0
    BY <1>2 DEF WindowInv
  <2>3. n # 0 => ReachedIn(log, n) \in Nat
    <3>1. n # 0 => n \in 1..Len(log)
      BY <1>2
    <3> QED
      BY <1>1, <3>1, ReachedIsOne
  <2> HIDE DEF n
  <2> QED
    BY <1>2, <2>1, <2>2, <2>3
<1>4. log' = m
  OBVIOUS
<1>5. m \in Seq(Events) /\ m # <<>> /\ Len(m) = n + 1 /\ ReachedIn(m, n + 1) = now
  <2>1. m \in Seq(Events) /\ Len(m) = n + 1
    BY <1>1, AppendNth
  <2>2. ReachedIn(m, n + 1) = now
    BY <1>1, <1>3, ReachedNext
  <2>3. m # <<>>
    <3> HIDE DEF m, n
    <3> QED
      BY <1>2, <2>1, EmptySeq
  <2> QED
    BY <2>1, <2>2, <2>3
<1>6. newest' = now
  BY DEF Push
<1>7. newest' = IF log' = <<>> THEN 0 ELSE ReachedIn(log', Len(log'))
  BY <1>4, <1>5, <1>6
<1>8. CASE at < cutoff
  <2>1. entries' = entries /\ counts' = counts
    BY <1>8 DEF Push
  <2>2. n # 0 /\ ~(at > ReachedIn(log, n)) /\ ~(at >= ReachedIn(log, n) - WindowLength)
    <3> HIDE DEF n
    <3> QED
      BY <1>2, <1>3, <1>8
  <2>3. Shown(entries, m)
    <3>1. log \in Seq(Events) /\ e \in Events /\ Shown(entries, log) /\ Len(log) # 0
      BY <1>1, <2>2
    <3>2. ~(e.at > ReachedIn(log, Len(log))) /\ ~(e.at >= ReachedIn(log, Len(log)) - WindowLength)
      BY <1>1, <2>2
    <3> HIDE DEF e
    <3> QED
      BY <3>1, <3>2, ShownSame
  <2>4. Shown(entries', log') /\ Len(entries') <= MaxEntries
    BY <1>4, <2>1, <2>3 DEF WindowInv
  <2> QED
    BY <1>1, <1>4, <1>5, <1>7, <2>1, <2>4 DEF WindowInv
<1>9. CASE ~(at < cutoff)
  <2>1. /\ entries' = t
        /\ counts' = (counts (+) Ids(<<x>>)) (-) Ids(SubSeq(all, 1, gone))
    BY <1>9 DEF Push
  <2>2. at >= cutoff /\ x.at >= now - WindowLength /\ e.at >= now - WindowLength
    BY <1>1, <1>2, <1>3, <1>9
  <2>3. /\ t \in Seq(Entry) /\ Moved(entries, t, x, now, old, gone)
        /\ (Ids(entries) (+) Ids(<<x>>)) (-) Ids(SubSeq(all, 1, gone)) = Ids(t)
    <3> HIDE DEF now, x
    <3> QED
      BY <1>1, <1>3, <2>2, PushMoves
  <2> HIDE DEF t, old, gone, all
  <2>4. Moved(entries, t, e, now, old, gone)
    BY <1>1, <2>3 DEF Moved
  <2>5. Shown(t, m)
    <3>1. now = IF Len(log) = 0 \/ e.at > ReachedIn(log, Len(log)) THEN e.at
                ELSE ReachedIn(log, Len(log))
      BY <1>1, <1>3
    <3> HIDE DEF now, e
    <3> QED
      BY <1>1, <1>3, <2>2, <2>3, <2>4, <3>1, ShownNext
  <2>6. Shown(entries', log')
    BY <1>4, <2>1, <2>5
  <2>7. counts' = Ids(entries') /\ entries' \in Seq(Entry) /\ Len(entries') <= MaxEntries
    BY <1>1, <2>1, <2>3 DEF Moved
  <2> QED
    BY <1>4, <1>5, <1>7, <2>6, <2>7 DEF WindowInv
<1> QED
  BY <1>8, <1>9

LEMMA NothingShown ==
  ASSUME log = <<>>, entries = <<>>, counts = EmptyBag, newest = 0
  PROVE  WindowInv
<1>1. /\ log \in Seq(Events) /\ Len(log) = 0 /\ entries \in Seq(Entry) /\ Len(entries) = 0
      /\ DOMAIN entries = {}
  BY EmptySeq
<1>2. TimelyIn(log) = {}
  BY <1>1 DEF TimelyIn
<1>3. Shown(entries, log)
  BY <1>1, <1>2 DEF Shown
<1>4. EmptyBag = [x \in {} |-> 1]
  BY DEF EmptyBag, SetToBag
<1>5. Ids(entries) = [x \in {} |-> 1]
  BY <1>1 DEF Ids
<1> QED
  BY <1>1, <1>3, <1>4, <1>5, WindowAssumption DEF WindowInv

LEMMA WindowInvHolds == Spec => []WindowInv
<1>1. Init => WindowInv
  BY NothingShown DEF Init, EngineInit, WindowInit
<1>2. IInv /\ WindowInv /\ [Next]_vars => WindowInv'
  <2> SUFFICES ASSUME IInv, WindowInv, [Next]_vars
               PROVE  WindowInv'
    OBVIOUS
  <2>1. ASSUME NEW id \in Line, NEW u \in Units, NEW at \in Nat, NEW score,
               Process(id, u, at, score)
        PROVE  WindowInv'
    BY <2>1, PushKeepsWindow DEF Process
  <2>2. CASE EngineReset
    <3>1. log' = <<>> /\ entries' = <<>> /\ counts' = EmptyBag /\ newest' = 0
      BY <2>2 DEF EngineReset, WindowReset
    <3>2. WindowInv'
      <4>1. /\ log' \in Seq(Events) /\ Len(log') = 0 /\ entries' \in Seq(Entry)
            /\ Len(entries') = 0 /\ DOMAIN entries' = {}
        BY <3>1, EmptySeq
      <4>2. TimelyIn(log') = {}
        BY <4>1 DEF TimelyIn
      <4>3. Shown(entries', log')
        BY <4>1, <4>2 DEF Shown
      <4>4. EmptyBag = [x \in {} |-> 1]
        BY DEF EmptyBag, SetToBag
      <4>5. Ids(entries') = [x \in {} |-> 1]
        BY <4>1 DEF Ids
      <4> QED
        BY <3>1, <4>1, <4>3, <4>4, <4>5, WindowAssumption DEF WindowInv
    <3> QED
      BY <3>2
  <2>3. CASE UNCHANGED learned
    BY <2>3 DEF learned, window, WindowInv
  <2> QED
    BY <2>1, <2>2, <2>3, StepKinds
<1> QED
  BY <1>1, <1>2, InitSound, NextKeeps, PTL DEF Spec

\* The window holds the latest timely lines: none is missing that is not too old
\* and not too far behind, none has been kept too long but behind one that is
\* not too old, and the counts are theirs (push, evict_expired,
\* evict_over_capacity), in whatever order the lines come.
THEOREM NothingLeavesTooEarly == Spec => []WindowIsExact
<1>1. WindowInv => WindowIsExact
  <2> SUFFICES ASSUME WindowInv
               PROVE  WindowIsExact
    OBVIOUS
  <2>1. /\ log \in Seq(Events) /\ DOMAIN log = 1..Len(log)
        /\ DOMAIN entries = 1..Len(entries) /\ Len(entries) \in Nat
        /\ Shown(entries, log) /\ counts = Ids(entries)
    BY LenProperties DEF WindowInv
  <2>2. Timely = TimelyIn(log) /\ \A i : Behind(i) = BehindIn(log, i)
    BY <2>1 DEF Timely, TimelyIn, Behind, BehindIn, Reached, ReachedIn
  <2>3. \A i : InsideIn(log, i) <=> log[i].at >= Reached(Len(log)) - WindowLength
    BY DEF InsideIn, Reached, ReachedIn
  <2>4. ASSUME NEW k \in 1..Len(entries)
        PROVE  \E i \in TimelyIn(log) : /\ BehindIn(log, i) = Len(entries) - k
                                        /\ entries[k].id = log[i].id
    <3>1. PICK i \in TimelyIn(log) : BehindIn(log, i) = Len(entries) - k
      BY <2>1 DEF Shown
    <3>2. BehindIn(log, i) < Len(entries) /\ Len(entries) - BehindIn(log, i) = k
      BY <2>1, <3>1
    <3>3. entries[k] = [at |-> log[i].at, id |-> log[i].id]
      BY <2>1, <3>2 DEF Shown
    <3> QED
      BY <3>1, <3>3
  <2>5. \A i \in TimelyIn(log) : BehindIn(log, i) >= Len(entries) /\ InsideIn(log, i) =>
          BehindIn(log, i) >= MaxEntries
    BY <2>1 DEF Shown
  <2>6. \A i \in TimelyIn(log) : BehindIn(log, i) < Len(entries) =>
          \E j \in TimelyIn(log) : j <= i /\ InsideIn(log, j)
    BY <2>1 DEF Shown
  <2> QED
    BY <2>1, <2>2, <2>3, <2>4, <2>5, <2>6 DEF WindowIsExact
<1> QED
  BY <1>1, WindowInvHolds, PTL
-----------------------------------------------------------------------------
(* Limits                                                                  *)

Limits ==
  /\ Len(registry) <= MaxTemplates
  /\ IsFiniteSet(DOMAIN rates) /\ Cardinality(DOMAIN rates) <= MaxTracked
  /\ \A x \in DOMAIN rates : start # NotStarted /\ start <= rates[x].active
  /\ entropies \in Seq({Ids(s) : s \in Seq(Entry)}) /\ Len(entropies) <= HistoryLength

\* A new cluster takes a free place or that of another.
LEMMA LineHasRoom ==
  ASSUME Sound(registry), Len(registry) <= MaxTemplates,
         NEW line \in Line, NEW at \in Nat, ProcessLine(line, at)
  PROVE  Len(registry') <= MaxTemplates
<1>0. Len(registry) \in Nat /\ MaxTemplates \in Nat \ {0}
  BY LenProperties, TemplatesAssumption DEF Sound
<1>1. CASE UNCHANGED registry
  BY <1>1
<1>2. ASSUME NEW i \in Best(line),
             registry' = [registry EXCEPT ![i].tokens = Merged(@, line), ![i].seen = at]
      PROVE  Len(registry') <= MaxTemplates
  <2> DEFINE n == Len(registry)
  <2>1. DOMAIN registry' = 1..n
    BY <1>2, LenProperties DEF Sound
  <2>2. registry' \in Seq(Clusters)
    <3>1. Sound([registry EXCEPT ![i].tokens = Merged(@, line), ![i].seen = at])
      BY MergeKeeps
    <3> QED
      BY <1>2, <3>1 DEF Sound
  <2>3. DOMAIN registry' = 1..Len(registry') /\ Len(registry') \in Nat
    BY <2>2, LenProperties
  <2> QED
    BY <1>0, <2>1, <2>3
<1>3. ASSUME line # <<>>, Best(line) = {},
             registry' = Append(WithRoom, [id |-> line, tokens |-> line, seen |-> at])
      PROVE  Len(registry') <= MaxTemplates
  <2> DEFINE c == [id |-> line, tokens |-> line, seen |-> at]
  <2>1. Sound(WithRoom) /\ Len(WithRoom) < MaxTemplates
    <3>1. CASE Len(registry) >= MaxTemplates
      <4>1. Len(registry) # 0
        BY <1>0, <3>1
      <4>2. Stalest \in 1..Len(registry)
        BY <4>1, StalestIsIndex
      <4>3. WithRoom = RemoveAt(registry, Stalest)
        BY <3>1 DEF WithRoom
      <4>4. Sound(WithRoom) /\ Len(WithRoom) = Len(registry) - 1
        BY <4>2, <4>3, RemoveKeeps
      <4> QED
        BY <1>0, <4>4
    <3>2. CASE ~(Len(registry) >= MaxTemplates)
      BY <1>0, <3>2 DEF WithRoom
    <3> QED
      BY <3>1, <3>2
  <2>2. c \in Clusters
    BY DEF Clusters, Line
  <2>3. Len(Append(WithRoom, c)) = Len(WithRoom) + 1 /\ Len(WithRoom) \in Nat
    <3>1. WithRoom \in Seq(Clusters)
      BY <2>1 DEF Sound
    <3> HIDE DEF c
    <3> QED
      BY <2>2, <3>1, AppendProperties, LenProperties
  <2> QED
    BY <1>0, <1>3, <2>1, <2>3
<1> QED
  BY <1>1, <1>2, <1>3 DEF ProcessLine

\* A restart leaves behind what there is no room for.
LEMMA RestoredHasRoom ==
  ASSUME NEW table, TableSound(table)
  PROVE  Len(Restored(table)) <= MaxTemplates
<1> DEFINE size == Cardinality(DOMAIN table)
           m == IF size > MaxTemplates THEN MaxTemplates ELSE size
<1>1. size \in Nat /\ MaxTemplates \in Nat
  BY FS_CardinalityType, TemplatesAssumption DEF TableSound
<1>2. DOMAIN Restored(table) = 1..m /\ m \in Nat /\ m <= MaxTemplates
  BY <1>1 DEF Restored
<1>3. Sound(Restored(table))
  BY RestoreKeeps
<1>4. DOMAIN Restored(table) = 1..Len(Restored(table)) /\ Len(Restored(table)) \in Nat
  BY <1>3, LenProperties DEF Sound
<1> HIDE DEF m
<1> QED BY <1>2, <1>4, TemplatesAssumption

\* The registry keeps its limit.
LEMMA RegistryHasRoom ==
  ASSUME IInv, Len(registry) <= MaxTemplates, [Next]_vars
  PROVE  Len(registry') <= MaxTemplates
<1>1. CASE Handle
  <2>1. PICK line \in traffic.lines, step \in traffic.steps :
          clock + step >= 0 /\ ProcessLine(line, clock + step)
    BY <1>1 DEF Handle, Filtered, Analysed
  <2>2. line \in Line /\ clock + step \in Nat
    BY <2>1, TrafficsAssumption DEF IInv, Line, Token
  <2> QED
    BY <2>1, <2>2, LineHasRoom DEF IInv
<1>2. CASE Save
  BY <1>2 DEF Save
<1>3. CASE Restart
  <2>1. CASE file = NoFile
    BY <1>3, <2>1, EmptySeq, TemplatesAssumption DEF Restart
  <2>2. CASE file # NoFile
    BY <1>3, <2>2, RestoredHasRoom DEF IInv, Restart
  <2> QED
    BY <2>1, <2>2
<1>4. CASE UNCHANGED vars
  BY <1>4 DEF vars
<1> QED
  BY <1>1, <1>2, <1>3, <1>4 DEF Next

\* As many rates as there is room for, none from before the start.
LEMMA RatesHaveRoom ==
  ASSUME RatesInv, Limits, NEW bucket \in Nat, NEW id, RecordRate(bucket, id)
  PROVE  /\ IsFiniteSet(DOMAIN rates') /\ Cardinality(DOMAIN rates') <= MaxTracked
         /\ \A x \in DOMAIN rates' : start' # NotStarted /\ start' <= rates'[x].active
<1> DEFINE now    == IF start # NotStarted /\ current > bucket THEN current ELSE bucket
           begun  == IF start # NotStarted THEN start ELSE bucket
           rolled == RolledOver(bucket)
<1>1. PICK kept \in MadeRoom(rolled, id) :
        LET rate == IF id \in DOMAIN kept THEN kept[id] ELSE NewRate(now, begun)
        IN  rates' = With(kept, id, [rate EXCEPT !.count = @ + 1, !.active = now])
  BY DEF RecordRate
<1>2. start' = begun /\ current' = now
  BY DEF RecordRate
<1>3. /\ now \in Nat /\ begun \in 0..now /\ rolled \in [DOMAIN rolled -> Rate]
      /\ DOMAIN rolled \subseteq DOMAIN rates
  BY RolledIsExact
<1>4. \A x \in DOMAIN rolled : rolled[x].active = rates[x].active
  <2>1. ASSUME NEW r \in Rate, NEW gap
        PROVE  Closed(r, gap).active = r.active
    <3> DEFINE q == [r EXCEPT !.count = 0]
    <3>1. q = [count |-> 0, history |-> r.history, active |-> r.active]
      BY DEF Rate
    <3>2. \A h : [q EXCEPT !.history = h].active = r.active
      BY <3>1
    <3> QED
      BY <3>2 DEF Closed, Rate
  <2>2. \A x \in DOMAIN rates : rates[x] \in Rate
    BY DEF RatesInv
  <2> SUFFICES ASSUME NEW x \in DOMAIN rolled
               PROVE  rolled[x].active = rates[x].active
    OBVIOUS
  <2>3. rolled[x] = rates[x] \/ rolled[x] = Closed(rates[x], bucket - current)
    BY DEF RolledOver
  <2> HIDE DEF rolled
  <2> QED
    BY <1>3, <2>1, <2>2, <2>3
<1> HIDE DEF now, begun, rolled
<1>5. /\ IsFiniteSet(DOMAIN rolled) /\ Cardinality(DOMAIN rolled) <= MaxTracked
      /\ Cardinality(DOMAIN rolled) \in Nat /\ MaxTracked \in Nat \ {0}
  <2>1. /\ IsFiniteSet(DOMAIN rates) /\ Cardinality(DOMAIN rates) <= MaxTracked
        /\ Cardinality(DOMAIN rates) \in Nat /\ MaxTracked \in Nat \ {0}
    BY FS_CardinalityType, RatesAssumption DEF Limits
  <2>2. /\ IsFiniteSet(DOMAIN rolled)
        /\ Cardinality(DOMAIN rolled) <= Cardinality(DOMAIN rates)
    BY <1>3, <2>1, FS_Subset
  <2>3. Cardinality(DOMAIN rolled) \in Nat
    BY <2>2, FS_CardinalityType
  <2> QED
    BY <2>1, <2>2, <2>3
<1>6. /\ DOMAIN kept \subseteq DOMAIN rolled
      /\ \A x \in DOMAIN kept : kept[x] = rolled[x]
      /\ Cardinality(DOMAIN kept \cup {id}) <= MaxTracked
  <2>1. CASE id \in DOMAIN rolled \/ Cardinality(DOMAIN rolled) < MaxTracked
    <3>1. kept = rolled
      BY <2>1 DEF MadeRoom
    <3>2. Cardinality(DOMAIN rolled \cup {id}) <= MaxTracked
      <4>1. Cardinality(DOMAIN rolled \cup {id}) =
              IF id \in DOMAIN rolled THEN Cardinality(DOMAIN rolled)
              ELSE Cardinality(DOMAIN rolled) + 1
        BY <1>5, FS_AddElement
      <4> QED
        BY <1>5, <2>1, <4>1
    <3> QED
      BY <3>1, <3>2
  <2>2. CASE ~(id \in DOMAIN rolled \/ Cardinality(DOMAIN rolled) < MaxTracked)
    <3>1. PICK x \in DOMAIN rolled : kept = Restrict(rolled, DOMAIN rolled \ {x})
      BY <2>2 DEF MadeRoom
    <3>2. /\ DOMAIN kept = DOMAIN rolled \ {x}
          /\ \A y \in DOMAIN kept : kept[y] = rolled[y]
      BY <3>1 DEF Restrict
    <3>3. /\ IsFiniteSet(DOMAIN rolled \ {x})
          /\ Cardinality(DOMAIN rolled \ {x}) = Cardinality(DOMAIN rolled) - 1
      BY <1>5, FS_RemoveElement
    <3>4. Cardinality(DOMAIN kept \cup {id}) = Cardinality(DOMAIN kept) + 1
      <4>1. id \notin DOMAIN kept /\ IsFiniteSet(DOMAIN kept)
        BY <2>2, <3>2, <3>3
      <4> QED
        BY <4>1, FS_AddElement
    <3> QED
      BY <1>5, <3>2, <3>3, <3>4
  <2> QED
    BY <2>1, <2>2
<1>7. IsFiniteSet(DOMAIN kept \cup {id})
  <2>1. IsFiniteSet(DOMAIN kept)
    BY <1>5, <1>6, FS_Subset
  <2> QED
    BY <2>1, FS_AddElement
<1> DEFINE rate == IF id \in DOMAIN kept THEN kept[id] ELSE NewRate(now, begun)
           new == [rate EXCEPT !.count = @ + 1, !.active = now]
<1>8. rate = [count |-> rate.count, history |-> rate.history, active |-> rate.active]
  BY <1>3, <1>6 DEF Rate, NewRate
<1> HIDE DEF rate
<1>9. new.active = now
  BY <1>8
<1>10. rates' = With(kept, id, new)
  BY <1>1 DEF rate
<1> HIDE DEF new
<1>11. /\ DOMAIN rates' = DOMAIN kept \cup {id} /\ rates'[id] = new
       /\ \A x \in DOMAIN kept : x # id => rates'[x] = kept[x]
  BY <1>10 DEF With
<1>12. begun # NotStarted /\ begun <= now
  BY <1>3 DEF NotStarted
<1>13. \A x \in DOMAIN rates' : begun <= rates'[x].active
  <2> SUFFICES ASSUME NEW x \in DOMAIN rates'
               PROVE  begun <= rates'[x].active
    OBVIOUS
  <2>1. CASE x = id
    BY <1>9, <1>11, <1>12, <2>1
  <2>2. CASE x # id
    <3>1. x \in DOMAIN rates /\ rates'[x].active = rates[x].active
      BY <1>3, <1>4, <1>6, <1>11, <2>2
    <3>2. start # NotStarted /\ start <= rates[x].active
      BY <3>1 DEF Limits
    <3> QED
      BY <3>1, <3>2 DEF begun
  <2> QED
    BY <2>1, <2>2
<1> QED
  BY <1>2, <1>6, <1>7, <1>11, <1>12, <1>13

\* push_bounded keeps the limit, whatever is pushed.
LEMMA EntropiesHaveRoom ==
  ASSUME NEW S, NEW s \in Seq(S), Len(s) <= HistoryLength, NEW e \in S
  PROVE  /\ LastOf(Append(s, e)) \in Seq(S)
         /\ Len(LastOf(Append(s, e))) <= HistoryLength
<1> DEFINE t == Append(s, e)
           L == Len(t)
           H == HistoryLength
<1>1. t \in Seq(S) /\ L = Len(s) + 1 /\ Len(s) \in Nat
  BY AppendNth
<1>2. L \in Nat /\ H \in Nat \ {0} /\ L <= H + 1
  BY <1>1, RatesAssumption
<1>3. LastOf(t) = SubSeq(t, IF L > H THEN L - H + 1 ELSE 1, L)
  BY DEF LastOf
<1>4. \A k \in 1..L : t[k] \in S
  BY <1>1, ElementOfSeq
<1> HIDE DEF t
<1>5. SubSeq(t, 1, L) = t
  BY <1>1, SubSeqFull
<1>6. CASE L > H
  <2> DEFINE m == L - H + 1
  <2> HIDE DEF L, H
  <2>1. m \in 1..L /\ L - m + 1 = H /\ \A k \in m..L : t[k] \in S
    BY <1>2, <1>4, <1>6
  <2> HIDE DEF m
  <2>2. SubSeq(t, m, L) \in Seq(S) /\ Len(SubSeq(t, m, L)) = L - m + 1
    BY <1>2, <2>1, SubSeqProperties
  <2>3. LastOf(t) = SubSeq(t, m, L)
    BY <1>3, <1>6 DEF m
  <2>4. Len(SubSeq(t, m, L)) <= H
    BY <1>2, <2>1, <2>2
  <2> QED
    BY <2>2, <2>3, <2>4 DEF t, H
<1>7. CASE ~(L > H)
  BY <1>1, <1>2, <1>3, <1>5, <1>7 DEF t
<1> QED
  BY <1>6, <1>7

LEMMA LimitsHold == Spec => []Limits
<1>1. Init => Limits
  <2> SUFFICES ASSUME Init
               PROVE  Limits
    OBVIOUS
  <2>1. registry = <<>> /\ DOMAIN rates = {} /\ entropies = <<>>
    BY EmptySeq DEF Init, EngineInit, RatesInit
  <2>2. IsFiniteSet(DOMAIN rates) /\ Cardinality(DOMAIN rates) = 0
    BY <2>1, FS_EmptySet
  <2> QED
    BY <2>1, <2>2, EmptySeq, TemplatesAssumption, RatesAssumption DEF Limits
<1>2. IInv /\ RatesInv /\ WindowInv /\ Limits /\ [Next]_vars => Limits'
  <2> SUFFICES ASSUME IInv, RatesInv, WindowInv, Limits, [Next]_vars
               PROVE  Limits'
    OBVIOUS
  <2>0. Len(registry') <= MaxTemplates
    BY RegistryHasRoom DEF Limits
  <2>1. ASSUME NEW id \in Line, NEW u \in Units, NEW at \in Nat, NEW score,
               Process(id, u, at, score)
        PROVE  Limits'
    <3> DEFINE Bags == {Ids(s) : s \in Seq(Entry)}
    <3>1. Bucket(at) \in Nat
      BY BucketGrows
    <3>2. /\ IsFiniteSet(DOMAIN rates') /\ Cardinality(DOMAIN rates') <= MaxTracked
          /\ \A x \in DOMAIN rates' : start' # NotStarted /\ start' <= rates'[x].active
      BY <2>1, <3>1, RatesHaveRoom DEF Process
    <3>3. counts \in Bags /\ entropies \in Seq(Bags) /\ Len(entropies) <= HistoryLength
      BY DEF WindowInv, Limits
    <3> HIDE DEF Bags
    <3>4. entropies' = LastOf(Append(entropies, counts)) \/ entropies' = entropies
      BY <2>1 DEF Process, RollEntropy
    <3>5. entropies' \in Seq(Bags) /\ Len(entropies') <= HistoryLength
      BY <3>3, <3>4, EntropiesHaveRoom
    <3> QED
      BY <2>0, <3>2, <3>5 DEF Limits, Bags
  <2>2. CASE EngineReset
    <3>1. DOMAIN rates' = {} /\ entropies' = <<>>
      BY <2>2, EmptySeq DEF EngineReset, RatesReset
    <3>2. IsFiniteSet(DOMAIN rates') /\ Cardinality(DOMAIN rates') = 0
      BY <3>1, FS_EmptySet
    <3> QED
      BY <2>0, <3>1, <3>2, EmptySeq, RatesAssumption DEF Limits
  <2>3. CASE UNCHANGED learned
    BY <2>0, <2>3 DEF learned, rateTracker, Limits
  <2> QED
    BY <2>1, <2>2, <2>3, StepKinds
<1> QED
  BY <1>1, <1>2, InitSound, NextKeeps, RatesInvHolds, WindowInvHolds, PTL DEF Spec

\* Rule 18 for what the engine keeps: templates, events, rates and entropies stay
\* within their limits whatever the journal brings, late lines, pauses and
\* restarts included (WithRoom, push, ensure_capacity, push_bounded), and a bucket
\* in which a template was active is one of those since the start.
THEOREM EngineStaysWithinLimits == Spec => []EngineLimits
<1>1. IInv /\ RatesInv /\ WindowInv /\ JudgeInv /\ Limits => EngineLimits
  <2> SUFFICES ASSUME IInv, RatesInv, WindowInv, JudgeInv, Limits
               PROVE  EngineLimits
    OBVIOUS
  <2>1. \A i \in DOMAIN registry : DOMAIN registry[i].tokens = DOMAIN registry[i].id
    <3> SUFFICES ASSUME NEW i \in DOMAIN registry
                 PROVE  DOMAIN registry[i].tokens = DOMAIN registry[i].id
      OBVIOUS
    <3>1. i \in 1..Len(registry) /\ registry \in Seq(Clusters) /\ Describes(registry[i])
      BY LenProperties DEF IInv, Sound
    <3>2. registry[i] \in Clusters
      BY <3>1, ElementOfSeq
    <3>3. /\ registry[i].tokens \in Seq(Token) /\ registry[i].id \in Seq(Token)
          /\ Len(registry[i].tokens) = Len(registry[i].id)
      BY <3>1, <3>2 DEF Clusters, Describes, Line
    <3> QED
      BY <3>3, LenProperties
  <2>2. IsABag(counts)
    <3>1. entries \in Seq(Entry) /\ counts = Ids(entries)
      BY DEF WindowInv
    <3>2. \A x \in DOMAIN counts : counts[x] = Occ(entries, x) /\ Occ(entries, x) > 0
      BY <3>1, IdsIsOcc
    <3>3. \A x \in DOMAIN counts : counts[x] \in {n \in Nat : n > 0}
      BY <3>1, <3>2, OccIsNat
    <3>4. counts = [x \in DOMAIN counts |-> counts[x]]
      BY <3>1, IdsIsOcc
    <3> QED
      BY <3>3, <3>4 DEF IsABag
  <2>3. \A x \in DOMAIN rates : rates[x].active \in start..current
    <3> SUFFICES ASSUME NEW x \in DOMAIN rates
                 PROVE  rates[x].active \in start..current
      OBVIOUS
    <3>1. rates[x].active \in Nat /\ rates[x].active <= current
      BY DEF RatesInv, Rate
    <3>2. start # NotStarted /\ start <= rates[x].active
      BY DEF Limits
    <3>3. start \in Int /\ current \in Nat
      BY <3>2 DEF RatesInv
    <3> QED
      BY <3>1, <3>2, <3>3
  <2>4. \A x \in DOMAIN alarms : alarms[x].level \in Levels /\ alarms[x].reported \in Levels
    BY DEF JudgeInv, Judgements, Alarms
  <2> QED
    BY <2>1, <2>2, <2>3, <2>4 DEF EngineLimits, Limits, WindowInv
<1> QED
  BY <1>1, InitSound, NextKeeps, RatesInvHolds, WindowInvHolds, JudgeInvHolds, LimitsHold,
     PTL DEF Spec

-----------------------------------------------------------------------------
(* The histograms                                                          *)

Few(u) == Cardinality(IdsOf(u)) <= MaxProfile
AllKeys == [unit : Units, id : Line, slot : 0..AnySlot]

\* The state of a unit is that of the bucket the o-th line opened, the last one: its templates
\* are those of the unit, its counts those of the lines since then.
IsOpen(u, o) ==
  /\ \A j \in LinesOf(u) : Bucket(log[j].at) <= Bucket(log[o].at)
  /\ \A m \in Opening(u) : m <= o
  /\ units[u].open = Bucket(log[o].at) /\ units[u].slot = SlotOf(log[o].at)
  /\ DOMAIN units[u].known \subseteq IdsOf(u)
  /\ Few(u) =>
       /\ DOMAIN units[u].known = IdsOf(u)
       /\ \A x \in Line : Occurred(units[u].counts, x) =
            Cardinality({j \in LinesOf(u) : j >= o /\ log[j].id = x})

Shaped(state) ==
  state = [open |-> state.open, slot |-> state.slot, counts |-> state.counts,
           known |-> state.known, touched |-> state.touched]

HistogramsInv ==
  /\ log \in Seq(Events)
  /\ complete =>
       /\ DOMAIN units = {log[i].unit : i \in DOMAIN log}
       /\ \A u \in DOMAIN units : Shaped(units[u]) /\ \E o \in Opening(u) : IsOpen(u, o)
       /\ \A k \in AllKeys : Few(k.unit) => HasObserved(k)

LEMMA GreatestIsThere ==
  ASSUME NEW N \in Nat, NEW S \in SUBSET (1..N), S # {}
  PROVE  Max(S) \in S /\ \A y \in S : y <= Max(S)
<1> DEFINE T == {N - y : y \in S}
<1>1. T \in SUBSET Nat /\ T # {}
  <2>1. \A y \in S : N - y \in Nat
    OBVIOUS
  <2> QED BY <2>1
<1>2. PICK t \in T : \A y \in T : t <= y
  <2> HIDE DEF T
  <2> QED BY <1>1, LeastExists
<1>3. PICK x \in S : t = N - x
  BY <1>2
<1>4. \A y \in S : N - x <= N - y /\ y \in Nat /\ x \in Nat
  BY <1>2, <1>3
<1>5. \A y \in S : x >= y
  BY <1>4
<1> QED BY <1>4, <1>5 DEF Max

LEMMA GreatestIsThat ==
  ASSUME NEW S \in SUBSET Nat, NEW x \in S, \A y \in S : y <= x
  PROVE  Max(S) = x
<1>1. \A y \in S : x >= y
  OBVIOUS
<1>2. Max(S) \in S /\ \A y \in S : Max(S) >= y
  BY <1>1 DEF Max
<1> DEFINE m == Max(S)
<1>3. m \in Nat /\ m <= x /\ m >= x /\ x \in Nat
  BY <1>2
<1> HIDE DEF m
<1>4. m = x
  BY <1>3
<1> QED BY <1>4 DEF m

LEMMA LinesAreTyped ==
  ASSUME log \in Seq(Events)
  PROVE  /\ Len(log) \in Nat /\ DOMAIN log = 1..Len(log)
         /\ \A i \in DOMAIN log : /\ log[i] \in Events /\ log[i].at \in Nat /\ log[i].id \in Line
                                  /\ log[i].unit \in Units /\ Bucket(log[i].at) \in Nat
<1>1. Len(log) \in Nat /\ DOMAIN log = 1..Len(log)
  BY LenProperties
<1>2. \A i \in DOMAIN log : log[i] \in Events
  BY <1>1, ElementOfSeq
<1>3. \A i \in DOMAIN log : log[i].at \in Nat /\ log[i].id \in Line /\ log[i].unit \in Units
  BY <1>2 DEF Events
<1>4. \A i \in DOMAIN log : Bucket(log[i].at) \in Nat
  BY <1>3, BucketGrows
<1> QED BY <1>1, <1>2, <1>3, <1>4

-----------------------------------------------------------------------------
(* One more line                                                           *)

LEMMA LogNext ==
  ASSUME log \in Seq(Events), NEW e \in Events, log' = Append(log, e)
  PROVE  /\ log' \in Seq(Events) /\ Len(log) \in Nat /\ DOMAIN log = 1..Len(log)
         /\ DOMAIN log' = DOMAIN log \cup {Len(log) + 1} /\ Len(log) + 1 \notin DOMAIN log
         /\ log'[Len(log) + 1] = e /\ \A i \in DOMAIN log : log'[i] = log[i] /\ i < Len(log) + 1
<1>1. Len(log) \in Nat /\ DOMAIN log = 1..Len(log)
  BY LenProperties
<1>2. /\ log' \in Seq(Events) /\ Len(log') = Len(log) + 1
      /\ \A i \in 1..Len(log) : log'[i] = log[i]
      /\ log'[Len(log) + 1] = e
  BY AppendNth
<1>3. DOMAIN log' = 1..(Len(log) + 1)
  BY <1>2, LenProperties
<1> QED BY <1>1, <1>2, <1>3

LEMMA LinesNext ==
  ASSUME log \in Seq(Events), NEW e \in Events, log' = Append(log, e), NEW u
  PROVE  /\ LinesOf(u)' = IF e.unit = u THEN LinesOf(u) \cup {Len(log) + 1} ELSE LinesOf(u)
         /\ LinesOf(u) \subseteq DOMAIN log
         /\ IdsOf(u)' = IF e.unit = u THEN IdsOf(u) \cup {e.id} ELSE IdsOf(u)
<1>1. LinesOf(u)' = IF e.unit = u THEN LinesOf(u) \cup {Len(log) + 1} ELSE LinesOf(u)
  BY LogNext DEF LinesOf
<1>2. LinesOf(u) \subseteq DOMAIN log
  BY DEF LinesOf
<1>3. IdsOf(u)' = IF e.unit = u THEN IdsOf(u) \cup {e.id} ELSE IdsOf(u)
  BY <1>1, <1>2, LogNext DEF IdsOf
<1> QED BY <1>1, <1>2, <1>3

LEMMA OpeningNext ==
  ASSUME log \in Seq(Events), NEW e \in Events, log' = Append(log, e), NEW u
  PROVE  Opening(u)' =
           IF e.unit = u /\ \A j \in LinesOf(u) : Bucket(log[j].at) < Bucket(e.at)
           THEN Opening(u) \cup {Len(log) + 1} ELSE Opening(u)
<1> DEFINE n == Len(log) + 1
<1>1. /\ LinesOf(u)' = IF e.unit = u THEN LinesOf(u) \cup {n} ELSE LinesOf(u)
      /\ LinesOf(u) \subseteq DOMAIN log
  BY LinesNext
<1>2. /\ n \in Nat /\ n \notin DOMAIN log /\ log'[n] = e /\ DOMAIN log \subseteq Nat
      /\ \A i \in DOMAIN log : log'[i] = log[i] /\ i < n /\ ~(n < i)
  BY LogNext
<1>3. \A i \in DOMAIN log : Bucket(log'[i].at) = Bucket(log[i].at)
  BY <1>2
<1> HIDE DEF n
<1>4. \A i \in LinesOf(u) : i \in Opening(u)' <=> i \in Opening(u)
  BY <1>1, <1>2, <1>3 DEF Opening, Bucket
<1>5. n \in LinesOf(u)' => (n \in Opening(u)' <=> \A j \in LinesOf(u) : Bucket(log[j].at) < Bucket(e.at))
  <2>1. CASE n \in LinesOf(u)'
    <3>1. /\ \A j \in LinesOf(u)' : j < n => j \in LinesOf(u)
          /\ \A j \in LinesOf(u) : j < n /\ j \in LinesOf(u)'
      BY <1>1, <1>2, <2>1
    <3>2. Bucket(log'[n].at) = Bucket(e.at) /\ \A j \in LinesOf(u) : Bucket(log'[j].at) = Bucket(log[j].at)
      BY <1>1, <1>2 DEF Bucket
    <3>3. n \in Opening(u)' <=> \A j \in LinesOf(u)' : j < n => Bucket(log'[j].at) < Bucket(log'[n].at)
      BY <2>1 DEF Opening, Bucket
    <3> QED BY <3>1, <3>2, <3>3
  <2> QED BY <2>1
<1>6. Opening(u)' \subseteq LinesOf(u)' /\ Opening(u) \subseteq LinesOf(u)
  BY DEF Opening
<1>7. n \in LinesOf(u)' <=> e.unit = u
  BY <1>1, <1>2
<1> DEFINE opens == e.unit = u /\ \A j \in LinesOf(u) : Bucket(log[j].at) < Bucket(e.at)
<1>8. n \in Opening(u)' <=> opens
  BY <1>5, <1>6, <1>7
<1> HIDE DEF opens
<1>9. \A i \in Opening(u)' : i \in Opening(u) \/ i = n
  BY <1>1, <1>4, <1>6
<1>10. Opening(u) \subseteq Opening(u)' /\ n \notin Opening(u)
  BY <1>1, <1>2, <1>4, <1>6
<1>11. CASE opens
  <2>1. Opening(u)' = Opening(u) \cup {n}
    BY <1>8, <1>9, <1>10, <1>11
  <2> QED BY <2>1, <1>11 DEF n, opens
<1>12. CASE ~opens
  <2>1. Opening(u)' = Opening(u)
    BY <1>8, <1>9, <1>10, <1>12
  <2> QED BY <2>1, <1>12 DEF n, opens
<1> QED BY <1>11, <1>12

LEMMA UntilNext ==
  ASSUME log \in Seq(Events), NEW e \in Events, log' = Append(log, e), NEW u, NEW i \in DOMAIN log,
         e.unit # u \/ \E m \in Opening(u) : m > i
  PROVE  Until(u, i)' = Until(u, i)
<1> DEFINE n == Len(log) + 1
<1>1. /\ LinesOf(u)' = IF e.unit = u THEN LinesOf(u) \cup {n} ELSE LinesOf(u)
      /\ LinesOf(u) \subseteq DOMAIN log
  BY LinesNext
<1>2. /\ n \in Nat /\ n \notin DOMAIN log /\ DOMAIN log \subseteq Nat
      /\ \A j \in DOMAIN log : j < n /\ ~(n < j)
  BY LogNext
<1>3. Opening(u)' \in {Opening(u), Opening(u) \cup {n}} /\ (e.unit # u => Opening(u)' = Opening(u))
  BY OpeningNext
<1>4. Opening(u) \subseteq DOMAIN log
  BY <1>1 DEF Opening
<1> HIDE DEF n
<1>5. \A j \in LinesOf(u) : j \in Until(u, i)' <=> j \in Until(u, i)
  BY <1>1, <1>2, <1>3 DEF Until
<1>6. n \notin Until(u, i)'
  BY <1>1, <1>2, <1>3, <1>4 DEF Until
<1>7. Until(u, i)' \subseteq LinesOf(u)' /\ Until(u, i) \subseteq LinesOf(u)
  BY DEF Until
<1> QED BY <1>1, <1>5, <1>6, <1>7

LEMMA OccurrencesNext ==
  ASSUME log \in Seq(Events), NEW e \in Events, log' = Append(log, e), NEW k, NEW i \in DOMAIN log,
         e.unit # k.unit \/ \E m \in Opening(k.unit) : m > i
  PROVE  Occurrences(k, i)' = Occurrences(k, i)
<1>1. Until(k.unit, i)' = Until(k.unit, i) /\ Until(k.unit, i) \subseteq DOMAIN log
  <2> DEFINE u == k.unit
  <2>1. Until(u, i)' = Until(u, i)
    <3> HIDE DEF u
    <3> QED BY UntilNext DEF u
  <2> QED BY <2>1 DEF Until, LinesOf
<1>2. \A j \in DOMAIN log : log'[j] = log[j]
  BY LogNext
<1>3. {j \in Until(k.unit, i) : j >= i /\ log'[j].id = k.id} = {j \in Until(k.unit, i) : j >= i /\ log[j].id = k.id}
  BY <1>1, <1>2
<1> QED BY <1>1, <1>3 DEF Occurrences

\* No bucket of the unit ends.
LEMMA NoneEnds ==
  ASSUME log \in Seq(Events), NEW e \in Events, log' = Append(log, e), NEW k,
         Opening(k.unit)' = Opening(k.unit)
  PROVE  /\ Ended(k)' = Ended(k) /\ Ended(k) \subseteq DOMAIN log
         /\ \A i \in Ended(k) : Occurrences(k, i)' = Occurrences(k, i)
<1>1. Opening(k.unit) \subseteq DOMAIN log
  BY DEF Opening, LinesOf
<1>2. \A i \in DOMAIN log : log'[i] = log[i]
  BY LogNext
<1>3. ASSUME NEW i \in Opening(k.unit), \E m \in Opening(k.unit) : m > i
      PROVE  /\ Until(k.unit, i)' = Until(k.unit, i) /\ Until(k.unit, i) \subseteq DOMAIN log
             /\ Occurrences(k, i)' = Occurrences(k, i)
  <2> DEFINE u == k.unit
  <2>1. Until(u, i)' = Until(u, i)
    <3>1. i \in DOMAIN log /\ \E m \in Opening(u) : m > i
      BY <1>1, <1>3
    <3> HIDE DEF u
    <3> QED BY <3>1, UntilNext
  <2>2. Occurrences(k, i)' = Occurrences(k, i)
    BY <1>1, <1>3, OccurrencesNext
  <2> QED BY <2>1, <2>2 DEF Until, LinesOf
<1>4. \A i \in Opening(k.unit) : i \in Ended(k)' <=> i \in Ended(k)
  BY <1>1, <1>2, <1>3 DEF Ended, SlotOf, AnySlot
<1>5. Ended(k)' \subseteq Opening(k.unit) /\ Ended(k) \subseteq Opening(k.unit)
  BY DEF Ended
<1>6. \A i \in Ended(k) : \E m \in Opening(k.unit) : m > i
  BY DEF Ended
<1> QED BY <1>1, <1>3, <1>4, <1>5, <1>6

\* The bucket that was open ends.
LEMMA OneEnds ==
  ASSUME log \in Seq(Events), NEW e \in Events, log' = Append(log, e), NEW k, e.unit = k.unit,
         \A j \in LinesOf(k.unit) : Bucket(log[j].at) < Bucket(e.at),
         NEW o \in Opening(k.unit), \A m \in Opening(k.unit) : m <= o
  PROVE  /\ Ended(k) \subseteq DOMAIN log /\ \A i \in Ended(k) : i < o
         /\ Ended(k)' = IF k.id \in IdsOf(k.unit) /\ k.slot \in {AnySlot, SlotOf(log[o].at)}
                        THEN Ended(k) \cup {o} ELSE Ended(k)
         /\ \A i \in Ended(k) : Occurrences(k, i)' = Occurrences(k, i)
         /\ Occurrences(k, o)' = Cardinality({j \in LinesOf(k.unit) : j >= o /\ log[j].id = k.id})
<1> DEFINE u == k.unit
           n == Len(log) + 1
<1>1. /\ LinesOf(u)' = LinesOf(u) \cup {n} /\ LinesOf(u) \subseteq DOMAIN log
      /\ Opening(u)' = Opening(u) \cup {n} /\ Opening(u) \subseteq LinesOf(u)
  BY LinesNext, OpeningNext DEF Opening
<1>2. /\ n \in Nat /\ n \notin DOMAIN log /\ DOMAIN log \subseteq Nat
      /\ \A j \in DOMAIN log : log'[j] = log[j] /\ j < n /\ ~(n < j)
  BY LogNext
<1> HIDE DEF n
<1>3. Until(u, o)' = LinesOf(u)
  <2>1. \A j \in LinesOf(u) : j \in Until(u, o)'
    BY <1>1, <1>2 DEF Until
  <2>2. n \notin Until(u, o)'
    BY <1>1, <1>2 DEF Until
  <2>3. Until(u, o)' \subseteq LinesOf(u)'
    BY DEF Until
  <2> QED BY <1>1, <2>1, <2>2, <2>3
<1>4. ASSUME NEW i \in Opening(u), i # o
      PROVE  /\ Until(u, i)' = Until(u, i) /\ Until(u, i) \subseteq DOMAIN log
             /\ Occurrences(k, i)' = Occurrences(k, i) /\ i < o /\ o > i
  <2>1. i < o /\ o > i /\ i \in DOMAIN log
    BY <1>1, <1>2, <1>4
  <2>2. Until(u, i)' = Until(u, i)
    <3> HIDE DEF u
    <3> QED BY <2>1, UntilNext DEF u
  <2>3. Occurrences(k, i)' = Occurrences(k, i)
    BY <2>1, OccurrencesNext
  <2> QED BY <1>1, <2>1, <2>2, <2>3 DEF Until
<1>5. o \notin Ended(k) /\ n \notin Ended(k)'
  <2>1. \A m \in Opening(u) : ~(m > o)
    BY <1>1, <1>2
  <2>2. \A m \in Opening(u)' : ~(m > n)
    BY <1>1, <1>2
  <2> QED BY <2>1, <2>2 DEF Ended
<1>6. \A i \in Opening(u) : i # o => (i \in Ended(k)' <=> i \in Ended(k))
  <2> SUFFICES ASSUME NEW i \in Opening(u), i # o
               PROVE  i \in Ended(k)' <=> i \in Ended(k)
    OBVIOUS
  <2>1. (\E m \in Opening(u)' : m > i) /\ (\E m \in Opening(u) : m > i)
    BY <1>1, <1>4
  <2>2. \A j \in Until(u, i) : log'[j] = log[j]
    BY <1>2, <1>4
  <2>3. (\E j \in Until(u, i)' : log'[j].id = k.id) <=> (\E j \in Until(u, i) : log[j].id = k.id)
    BY <1>4, <2>2
  <2>4. SlotOf(log[i].at)' = SlotOf(log[i].at) /\ i \in Opening(u)'
    BY <1>1, <1>2 DEF SlotOf
  <2> QED BY <2>1, <2>3, <2>4 DEF Ended, AnySlot
<1>7. o \in Ended(k)' <=> k.id \in IdsOf(u) /\ k.slot \in {AnySlot, SlotOf(log[o].at)}
  <2>1. (\E m \in Opening(u)' : m > o) /\ o \in Opening(u)'
    <3>1. n > o /\ n \in Opening(u)'
      BY <1>1, <1>2
    <3> QED BY <1>1, <3>1
  <2>2. (\E j \in Until(u, o)' : log'[j].id = k.id) <=> k.id \in IdsOf(u)
    BY <1>1, <1>2, <1>3 DEF IdsOf
  <2>3. SlotOf(log[o].at)' = SlotOf(log[o].at)
    BY <1>1, <1>2 DEF SlotOf
  <2> QED BY <2>1, <2>2, <2>3 DEF Ended, AnySlot
<1>8. Ended(k)' \subseteq Opening(u) \cup {n} /\ Ended(k) \subseteq Opening(u)
  BY <1>1 DEF Ended
<1>9. Occurrences(k, o)' = Cardinality({j \in LinesOf(u) : j >= o /\ log[j].id = k.id})
  <2>1. {j \in LinesOf(u) : j >= o /\ log'[j].id = k.id} = {j \in LinesOf(u) : j >= o /\ log[j].id = k.id}
    BY <1>1, <1>2
  <2> QED BY <1>3, <2>1 DEF Occurrences
<1> HIDE DEF u
<1>10. Ended(k)' = IF k.id \in IdsOf(u) /\ k.slot \in {AnySlot, SlotOf(log[o].at)}
                   THEN Ended(k) \cup {o} ELSE Ended(k)
  <2> DEFINE ends == k.id \in IdsOf(u) /\ k.slot \in {AnySlot, SlotOf(log[o].at)}
  <2>1. o \in Ended(k)' <=> ends
    BY <1>7 DEF u
  <2> HIDE DEF ends
  <2>2. \A i \in Ended(k)' : i \in Opening(u)
    BY <1>5, <1>8
  <2>3. \A i \in Ended(k)' : i \in Ended(k) \/ i = o
    BY <1>6, <2>2 DEF u
  <2>4. Ended(k) \subseteq Ended(k)'
    BY <1>5, <1>6, <1>8 DEF u
  <2>5. CASE ends
    <3>1. Ended(k)' = Ended(k) \cup {o}
      BY <2>1, <2>3, <2>4, <2>5
    <3> QED BY <2>5, <3>1 DEF ends
  <2>6. CASE ~ends
    <3>1. Ended(k)' = Ended(k)
      BY <2>1, <2>3, <2>4, <2>6
    <3> QED BY <2>6, <3>1 DEF ends
  <2> QED BY <2>5, <2>6
<1>11. Ended(k) \subseteq DOMAIN log /\ \A i \in Ended(k) : i < o /\ Occurrences(k, i)' = Occurrences(k, i)
  BY <1>1, <1>4, <1>5, <1>8
<1> QED BY <1>9, <1>10, <1>11 DEF u

-----------------------------------------------------------------------------
(* What a histogram has observed                                           *)

LEMMA EndedIsGreatest ==
  ASSUME log \in Seq(Events), NEW k, Ended(k) # {}
  PROVE  /\ Max(Ended(k)) \in Ended(k) /\ Ended(k) \subseteq DOMAIN log
         /\ \A i \in Ended(k) : i <= Max(Ended(k))
<1>1. Ended(k) \in SUBSET (1..Len(log)) /\ Len(log) \in Nat /\ DOMAIN log = 1..Len(log)
  BY LinesAreTyped DEF Ended, Opening, LinesOf
<1> QED BY <1>1, GreatestIsThere

\* The numbers of occurrences in buckets that ended.
LEMMA FewOccurrences ==
  ASSUME log \in Seq(Events), NEW k
  PROVE  LET T == {Occurrences(k, i) : i \in Ended(k)}
         IN  IsFiniteSet(T) /\ Cardinality(T) \in Nat
<1> DEFINE T == {Occurrences(k, i) : i \in Ended(k)}
           f == [i \in Ended(k) |-> Occurrences(k, i)]
<1>1. f \in Surjection(Ended(k), T)
  BY DEF Surjection
<1>2. IsFiniteSet(Ended(k))
  <2>1. Ended(k) \subseteq 1..Len(log) /\ Len(log) \in Nat
    BY LinesAreTyped DEF Ended, Opening, LinesOf
  <2>2. IsFiniteSet(1..Len(log))
    BY <2>1, FS_Interval
  <2> QED BY <2>1, <2>2, FS_Subset
<1> HIDE DEF T, f
<1>3. IsFiniteSet(T)
  BY <1>1, <1>2, FS_Surjection
<1>4. Cardinality(T) \in Nat
  BY <1>3, FS_CardinalityType
<1> QED BY <1>3, <1>4 DEF T

\* A histogram that is left as it is, and no bucket of its ends.
LEMMA ObservedStays ==
  ASSUME log \in Seq(Events), NEW e \in Events, log' = Append(log, e), NEW k, HasObserved(k),
         Ended(k)' = Ended(k), \A i \in Ended(k) : Occurrences(k, i)' = Occurrences(k, i),
         (k \in DOMAIN histograms') = (k \in DOMAIN histograms),
         k \in DOMAIN histograms => histograms'[k] = histograms[k]
  PROVE  HasObserved(k)'
<1>1. CASE k \notin DOMAIN histograms
  BY <1>1 DEF HasObserved
<1>2. CASE k \in DOMAIN histograms
  <2>1. Ended(k) # {}
    BY <1>2 DEF HasObserved
  <2>2. Max(Ended(k)) \in DOMAIN log
    BY <2>1, EndedIsGreatest
  <2> DEFINE top == Max(Ended(k))
  <2>3. Bucket(log'[top].at) = Bucket(log[top].at)
    BY <2>2, LogNext
  <2>4. Bucket(log[Max(Ended(k))].at)' = Bucket(log[Max(Ended(k))].at)
    <3>1. Max(Ended(k)') = top
      BY DEF Max
    <3>2. Max(Ended(k))' = top
      BY DEF Max
    <3> HIDE DEF top
    <3> QED BY <2>3, <3>2 DEF Bucket, top
  <2>5. {Occurrences(k, i) : i \in Ended(k)}' = {Occurrences(k, i) : i \in Ended(k)}
    OBVIOUS
  <2>6. histograms'[k] = histograms[k] /\ k \in DOMAIN histograms'
    BY <1>2
  <2> QED BY <1>2, <2>1, <2>4, <2>5, <2>6 DEF HasObserved
<1> QED BY <1>1, <1>2

\* What one observation makes of a histogram.
LEMMA ObservesOne ==
  ASSUME NEW h, NEW count, NEW bucket \in Nat, h.touched \in Nat, h.touched <= bucket,
         NEW T, IsFiniteSet(T), DOMAIN h.bins \subseteq T, count \in T, Cardinality(T) <= MaxBins
  PROVE  /\ Observed(h, count, bucket).touched = bucket
         /\ DOMAIN Observed(h, count, bucket).bins \subseteq T
<1>1. Observed(h, count, bucket).touched = bucket
  BY DEF Observed, Later
<1> DEFINE old == [c \in DOMAIN h.bins |-> Faded(h.bins[c], h.touched, bucket)]
           bin == IF count \in DOMAIN old \/ Cardinality(DOMAIN old) < MaxBins
                  THEN count ELSE Max(DOMAIN old)
           new == With(old, bin, One + IF bin \in DOMAIN old THEN old[bin] ELSE 0)
<1>2. bin = count
  <2>1. CASE count \in DOMAIN old
    BY <2>1
  <2>2. CASE count \notin DOMAIN old
    <3> DEFINE D == DOMAIN h.bins
    <3>0. DOMAIN old = D
      OBVIOUS
    <3> HIDE DEF D
    <3>1. IsFiniteSet(D) /\ D \cup {count} \subseteq T /\ count \notin D
      <4>1. D \subseteq T
        BY DEF D
      <4> QED BY <2>2, <3>0, <4>1, FS_Subset
    <3>2. Cardinality(D \cup {count}) = Cardinality(D) + 1 /\ Cardinality(D) \in Nat
      BY <3>1, FS_AddElement, FS_CardinalityType
    <3>3. Cardinality(D \cup {count}) <= Cardinality(T) /\ Cardinality(T) \in Nat
      BY <3>1, FS_Subset, FS_CardinalityType
    <3>4. Cardinality(D) < MaxBins
      BY <3>2, <3>3, BaselinesAssumption
    <3> QED BY <3>0, <3>4
  <2> QED BY <2>1, <2>2
<1>3. DOMAIN new \subseteq T
  <2>1. DOMAIN new = DOMAIN h.bins \cup {bin}
    BY DEF With
  <2> HIDE DEF bin, new
  <2> QED BY <1>2, <2>1
<1>4. Observed(h, count, bucket).bins = Restrict(new, {c \in DOMAIN new : new[c] >= Negligible})
  BY DEF Observed
<1> HIDE DEF new
<1>5. DOMAIN Observed(h, count, bucket).bins \subseteq DOMAIN new
  BY <1>4 DEF Restrict
<1> QED BY <1>1, <1>3, <1>5

\* A histogram of a bucket that ends observes it.
LEMMA ObservedMore ==
  ASSUME log \in Seq(Events), NEW e \in Events, log' = Append(log, e), NEW k, HasObserved(k),
         NEW o \in DOMAIN log, Ended(k)' = Ended(k) \cup {o}, \A i \in Ended(k) : i < o,
         \A i \in Ended(k) : Occurrences(k, i)' = Occurrences(k, i),
         \A i \in Ended(k) : Bucket(log[i].at) <= Bucket(log[o].at),
         k \in DOMAIN histograms',
         histograms'[k] = Observed(HistogramAt(k), Occurrences(k, o)', Bucket(log[o].at))
  PROVE  HasObserved(k)'
<1> DEFINE h == HistogramAt(k)
           bucket == Bucket(log[o].at)
           count == Occurrences(k, o)'
           T == {Occurrences(k, i) : i \in Ended(k)}
<1>1. bucket \in Nat /\ Ended(k) \subseteq DOMAIN log /\ DOMAIN log \subseteq Nat
  BY LinesAreTyped DEF Ended, Opening, LinesOf
<1>2. Max(Ended(k)') = o
  <2>1. Ended(k)' \in SUBSET Nat /\ o \in Ended(k)' /\ \A y \in Ended(k)' : y <= o
    BY <1>1
  <2> QED BY <2>1, GreatestIsThat
<1>3. T' = T \cup {count}
  OBVIOUS
<1>4. h.touched \in Nat /\ h.touched <= bucket
  <2>1. CASE k \in DOMAIN histograms
    <3>1. Max(Ended(k)) \in Ended(k) /\ Max(Ended(k)) \in DOMAIN log
      BY <2>1, EndedIsGreatest DEF HasObserved
    <3>2. h.touched = Bucket(log[Max(Ended(k))].at)
      BY <2>1 DEF HasObserved, HistogramAt
    <3> QED BY <3>1, <3>2, LinesAreTyped
  <2>2. CASE k \notin DOMAIN histograms
    <3>1. h.touched = 0
      BY <2>2 DEF HistogramAt, NoHistogram
    <3> QED BY <1>1, <3>1
  <2> QED BY <2>1, <2>2
<1>5. ASSUME Cardinality(T') <= MaxBins
      PROVE  DOMAIN histograms'[k].bins \subseteq T'
  <2>1. IsFiniteSet(T) /\ Cardinality(T) \in Nat /\ MaxBins \in Nat
    BY FewOccurrences, BaselinesAssumption
  <2>2. IsFiniteSet(T') /\ T \subseteq T'
    <3> HIDE DEF T, count
    <3> QED BY <1>3, <2>1, FS_AddElement
  <2>3. Cardinality(T) <= Cardinality(T') /\ Cardinality(T') \in Nat
    <3> DEFINE more == T \cup {count}
    <3>1. T' = more /\ IsFiniteSet(more) /\ T \subseteq more
      BY <1>3, <2>2
    <3> HIDE DEF T, count, more
    <3> QED BY <3>1, FS_Subset, FS_CardinalityType
  <2>4. Cardinality(T) <= MaxBins
    BY <1>5, <2>1, <2>3
  <2>5. DOMAIN h.bins \subseteq T
    <3>1. CASE k \in DOMAIN histograms
      BY <2>4, <3>1 DEF HasObserved, HistogramAt
    <3>2. CASE k \notin DOMAIN histograms
      <4>1. h.bins = <<>>
        BY <3>2 DEF HistogramAt, NoHistogram
      <4> QED BY <4>1
    <3> QED BY <3>1, <3>2
  <2> DEFINE more == T \cup {count}
  <2>6. T' = more /\ IsFiniteSet(more) /\ DOMAIN h.bins \subseteq more /\ count \in more /\ Cardinality(more) <= MaxBins
    BY <1>3, <1>5, <2>2, <2>5
  <2> HIDE DEF T, h, more, count, bucket
  <2>7. DOMAIN Observed(h, count, bucket).bins \subseteq more
    BY <1>1, <1>4, <2>6, ObservesOne
  <2> QED BY <2>6, <2>7 DEF h, count, bucket
<1>6. histograms'[k].touched = bucket
  BY <1>1, <1>4 DEF Observed, Later
<1>7. Bucket(log'[o].at) = bucket
  BY LogNext
<1> HIDE DEF h, bucket, count
<1>8. Bucket(log[Max(Ended(k))].at)' = bucket
  <2>1. Max(Ended(k))' = o
    BY <1>2 DEF Max
  <2> QED BY <1>7, <2>1 DEF Bucket
<1>9. Ended(k)' # {}
  OBVIOUS
<1>10. T' = {Occurrences(k, i) : i \in Ended(k)}'
  OBVIOUS
<1> HIDE DEF T
<1> QED BY <1>5, <1>6, <1>8, <1>9, <1>10 DEF HasObserved

-----------------------------------------------------------------------------
(* The state of a unit                                                     *)

LEMMA CountedOne ==
  ASSUME NEW bag, NEW id, NEW x, Occurred(bag, x) \in Nat
  PROVE  /\ x = id => Occurred(Without(bag (+) SetToBag({id}), {}), x) = Occurred(bag, x) + 1
         /\ x # id => Occurred(Without(bag (+) SetToBag({id}), {}), x) = Occurred(bag, x)
<1> DEFINE one == SetToBag({id})
           sum == bag (+) one
<1>1. one = [y \in {id} |-> 1]
  BY DEF SetToBag
<1>2. sum = [y \in DOMAIN bag \cup DOMAIN one |-> (IF y \in DOMAIN bag THEN bag[y] ELSE 0)
                                                   + (IF y \in DOMAIN one THEN one[y] ELSE 0)]
  BY DEF (+)
<1> HIDE DEF one, sum
<1>3. Occurred(Without(sum, {}), x) = IF x \in DOMAIN sum THEN sum[x] ELSE 0
  BY DEF Occurred, Without
<1>4. DOMAIN one = {id} /\ one[id] = 1
  BY <1>1
<1>5. CASE x \in DOMAIN bag
  <2>1. x \in DOMAIN sum /\ sum[x] = bag[x] + (IF x = id THEN 1 ELSE 0)
    BY <1>2, <1>4, <1>5
  <2> QED BY <1>3, <1>5, <2>1 DEF Occurred, sum, one
<1>6. CASE x \notin DOMAIN bag
  <2>1. Occurred(bag, x) = 0
    BY <1>6 DEF Occurred
  <2>2. CASE x = id
    <3>1. x \in DOMAIN sum /\ sum[x] = 0 + 1
      BY <1>2, <1>4, <1>6, <2>2
    <3> QED BY <1>3, <2>1, <2>2, <3>1 DEF sum, one
  <2>3. CASE x # id
    <3>1. x \notin DOMAIN sum
      BY <1>2, <1>4, <1>6, <2>3
    <3> QED BY <1>3, <2>1, <2>3, <3>1 DEF sum, one
  <2> QED BY <2>2, <2>3
<1> QED BY <1>5, <1>6

\* A line in bucket of unit u, with template id: whether it closes the open bucket, opens one,
\* and what is counted and known of the unit before any template is forgotten.
Closes(u, bucket) == u \in DOMAIN units /\ bucket > units[u].open
Opens(u, bucket) == u \notin DOMAIN units \/ Closes(u, bucket)
CountedWith(u, id, bucket) ==
  (IF Opens(u, bucket) THEN EmptyBag ELSE units[u].counts) (+) SetToBag({id})
KnownWith(u, id, bucket) ==
  With(IF u \notin DOMAIN units THEN <<>> ELSE units[u].known, id, bucket)
Remembers(u, id, bucket) ==
  \E gone \in Forgettable(KnownWith(u, id, bucket)) :
    /\ units'[u].known = Without(KnownWith(u, id, bucket), gone)
    /\ units'[u].counts = Without(CountedWith(u, id, bucket), gone)

\* A line of a unit leaves the others alone.
LEMMA OthersUnchanged ==
  ASSUME NEW at, NEW bucket, NEW u, NEW id, RecordBaseline(at, bucket, u, id),
         NEW v \in DOMAIN units, v # u
  PROVE  units'[v] = units[v]
<1>1. PICK state : units' = With(units, u, state)
  BY DEF RecordBaseline
<1> QED
  BY <1>1 DEF With

\* What record does to the state of a unit, and to the others nothing.
LEMMA RecordUnit ==
  ASSUME NEW at, NEW bucket, NEW u, NEW id, RecordBaseline(at, bucket, u, id),
         u \in DOMAIN units => Shaped(units[u])
  PROVE  /\ DOMAIN units' = DOMAIN units \cup {u}
         /\ \A v \in DOMAIN units : v # u => units'[v] = units[v]
         /\ Shaped(units'[u])
         /\ units'[u].open = IF Opens(u, bucket) THEN bucket ELSE units[u].open
         /\ units'[u].slot = IF Opens(u, bucket) THEN SlotOf(at) ELSE units[u].slot
         /\ Remembers(u, id, bucket)
         /\ histograms' = IF Closes(u, bucket) THEN WithBucketClosed(u) ELSE histograms
<1> DEFINE new == u \notin DOMAIN units
           closes == ~new /\ bucket > units[u].open
           state == IF new
                    THEN [open |-> bucket, slot |-> SlotOf(at), counts |-> EmptyBag,
                          known |-> <<>>, touched |-> bucket]
                    ELSE IF closes
                    THEN [units[u] EXCEPT !.open = bucket, !.slot = SlotOf(at), !.counts = EmptyBag,
                                          !.touched = Later(@, bucket)]
                    ELSE [units[u] EXCEPT !.touched = Later(@, bucket)]
           counted == state.counts (+) SetToBag({id})
           known == With(state.known, id, bucket)
           after(gone) == [state EXCEPT !.counts = Without(counted, gone), !.known = Without(known, gone)]
<1>1. /\ histograms' = IF closes THEN WithBucketClosed(u) ELSE histograms
      /\ \E gone \in Forgettable(known) : units' = With(units, u, after(gone))
  BY DEF RecordBaseline
<1>2. /\ Shaped(state)
      /\ state.open = IF new \/ closes THEN bucket ELSE units[u].open
      /\ state.slot = IF new \/ closes THEN SlotOf(at) ELSE units[u].slot
      /\ state.counts = IF new \/ closes THEN EmptyBag ELSE units[u].counts
      /\ state.known = IF new THEN <<>> ELSE units[u].known
  <2>1. CASE new
    BY <2>1 DEF Shaped
  <2>2. CASE ~new
    <3> DEFINE s == units[u]
    <3>1. s = [open |-> s.open, slot |-> s.slot, counts |-> s.counts, known |-> s.known,
               touched |-> s.touched]
      BY <2>2 DEF Shaped
    <3>2. CASE closes
      <4> DEFINE s1 == [s EXCEPT !.open = bucket]
                 s2 == [s1 EXCEPT !.slot = SlotOf(at)]
                 s3 == [s2 EXCEPT !.counts = EmptyBag]
                 s4 == [s3 EXCEPT !.touched = Later(@, bucket)]
      <4>0. state = s4
        BY <2>2, <3>2
      <4> HIDE DEF state, s
      <4>1. s1 = [open |-> bucket, slot |-> s.slot, counts |-> s.counts, known |-> s.known,
                  touched |-> s.touched]
        BY <3>1
      <4> HIDE DEF s1
      <4>2. s2 = [open |-> bucket, slot |-> SlotOf(at), counts |-> s.counts, known |-> s.known,
                  touched |-> s.touched]
        BY <4>1
      <4> HIDE DEF s2
      <4>3. s3 = [open |-> bucket, slot |-> SlotOf(at), counts |-> EmptyBag, known |-> s.known,
                  touched |-> s.touched]
        BY <4>2
      <4> HIDE DEF s3
      <4>4. s4 = [open |-> bucket, slot |-> SlotOf(at), counts |-> EmptyBag, known |-> s.known,
                  touched |-> Later(s.touched, bucket)]
        BY <4>3
      <4> HIDE DEF s4
      <4>5. /\ Shaped(state) /\ state.open = bucket /\ state.slot = SlotOf(at)
            /\ state.counts = EmptyBag /\ state.known = s.known
        BY <4>0, <4>4 DEF Shaped
      <4> QED BY <2>2, <3>2, <4>5 DEF s
    <3>3. CASE ~closes
      <4>0. state = [s EXCEPT !.touched = Later(@, bucket)]
        BY <2>2, <3>3
      <4> HIDE DEF state, s
      <4>1. state = [open |-> s.open, slot |-> s.slot, counts |-> s.counts, known |-> s.known,
                     touched |-> Later(s.touched, bucket)]
        BY <3>1, <4>0
      <4>2. /\ Shaped(state) /\ state.open = s.open /\ state.slot = s.slot
            /\ state.counts = s.counts /\ state.known = s.known
        BY <4>1 DEF Shaped
      <4> QED BY <2>2, <3>3, <4>2 DEF s
    <3> QED BY <3>2, <3>3
  <2> QED BY <2>1, <2>2
<1>3. PICK gone \in Forgettable(known) : units' = With(units, u, after(gone))
  BY <1>1
<1> DEFINE last == after(gone)
<1>4. /\ Shaped(last) /\ last.open = state.open /\ last.slot = state.slot
      /\ last.known = Without(known, gone) /\ last.counts = Without(counted, gone)
  <2> DEFINE c == Without(counted, gone)
             w == Without(known, gone)
             t == [state EXCEPT !.counts = c]
  <2>1. last = [t EXCEPT !.known = w]
    OBVIOUS
  <2>2. state = [open |-> state.open, slot |-> state.slot, counts |-> state.counts, known |-> state.known,
                 touched |-> state.touched]
    BY <1>2 DEF Shaped
  <2> HIDE DEF state, c, w, last
  <2>3. t = [open |-> state.open, slot |-> state.slot, counts |-> c, known |-> state.known,
             touched |-> state.touched]
    BY <2>2
  <2> HIDE DEF t
  <2>4. last = [open |-> state.open, slot |-> state.slot, counts |-> c, known |-> w,
                touched |-> state.touched]
    BY <2>1, <2>3
  <2>5. Shaped(last) /\ last.open = state.open /\ last.slot = state.slot /\ last.known = w /\ last.counts = c
    BY <2>4 DEF Shaped
  <2> QED BY <2>5 DEF c, w
<1>5. units' = With(units, u, last)
  BY <1>3
<1> HIDE DEF last, state
<1>6. /\ DOMAIN units' = DOMAIN units \cup {u} /\ units'[u] = last
      /\ \A v \in DOMAIN units : v # u => units'[v] = units[v]
  BY <1>5 DEF With
<1>7. /\ counted = (IF new \/ closes THEN EmptyBag ELSE units[u].counts) (+) SetToBag({id})
      /\ known = With(IF new THEN <<>> ELSE units[u].known, id, bucket)
  BY <1>2
<1>8. Closes(u, bucket) = closes /\ Opens(u, bucket) = (new \/ closes)
  BY DEF Closes, Opens
<1>9. counted = CountedWith(u, id, bucket) /\ known = KnownWith(u, id, bucket)
  BY <1>7, <1>8 DEF CountedWith, KnownWith
<1>10. \E g \in Forgettable(known) :
        units'[u].known = Without(known, g) /\ units'[u].counts = Without(counted, g)
  BY <1>4, <1>6
<1> HIDE DEF counted, known
<1>11. Remembers(u, id, bucket)
  BY <1>10, <1>9 DEF Remembers
<1> QED BY <1>1, <1>2, <1>4, <1>6, <1>8, <1>11

LEMMA IdsAreFew ==
  ASSUME log \in Seq(Events), NEW u
  PROVE  IsFiniteSet(IdsOf(u)) /\ Cardinality(IdsOf(u)) \in Nat
<1>1. IdsOf(u) \subseteq {log[i].id : i \in 1..Len(log)}
  BY LinesAreTyped DEF IdsOf, LinesOf
<1>2. IsFiniteSet({log[i].id : i \in 1..Len(log)})
  BY IdsAreFinite
<1>3. IsFiniteSet(IdsOf(u))
  BY <1>1, <1>2, FS_Subset
<1> QED BY <1>3, FS_CardinalityType

LEMMA FewBefore ==
  ASSUME log \in Seq(Events), NEW e \in Events, log' = Append(log, e), NEW u, Few(u)'
  PROVE  Few(u) /\ IsFiniteSet(IdsOf(u)') /\ Cardinality(IdsOf(u)') <= MaxProfile
<1> DEFINE before == IdsOf(u)
           after == IdsOf(u)'
<1>1. after = before \cup {e.id} \/ after = before
  BY LinesNext
<1>2. IsFiniteSet(before) /\ Cardinality(before) \in Nat
  BY IdsAreFew
<1>3. Cardinality(after) <= MaxProfile
  BY DEF Few
<1> HIDE DEF before, after
<1> DEFINE more == before \cup {e.id}
<1>4. IsFiniteSet(after) /\ before \subseteq after
  <2>1. IsFiniteSet(more)
    BY <1>2, FS_AddElement
  <2>2. CASE after = more
    BY <2>1, <2>2
  <2>3. CASE after = before
    BY <1>2, <2>3
  <2> QED BY <1>1, <2>2, <2>3
<1>5. Cardinality(before) <= Cardinality(after) /\ Cardinality(after) \in Nat
  BY <1>4, FS_Subset, FS_CardinalityType
<1>6. Cardinality(before) <= MaxProfile
  BY <1>2, <1>3, <1>5, BaselinesAssumption
<1> QED BY <1>3, <1>4, <1>6 DEF before, after, Few

\* Nothing is forgotten without need.
LEMMA KnownStays ==
  ASSUME NEW known, NEW gone \in Forgettable(known)
  PROVE  /\ DOMAIN Without(known, gone) \subseteq DOMAIN known
         /\ Cardinality(DOMAIN known) <= MaxProfile =>
              gone = {} /\ DOMAIN Without(known, gone) = DOMAIN known
BY DEF Forgettable, Without

\* A unit without the line.
LEMMA OthersStayOpen ==
  ASSUME log \in Seq(Events), NEW e \in Events, log' = Append(log, e), NEW v, v # e.unit,
         units'[v] = units[v], NEW o \in Opening(v), IsOpen(v, o)
  PROVE  o \in Opening(v)' /\ IsOpen(v, o)'
<1>1. LinesOf(v)' = LinesOf(v) /\ IdsOf(v)' = IdsOf(v) /\ Opening(v)' = Opening(v)
  BY LinesNext, OpeningNext
<1>2. LinesOf(v) \subseteq DOMAIN log /\ o \in LinesOf(v)
  BY DEF LinesOf, Opening
<1>3. \A j \in LinesOf(v) : log'[j] = log[j]
  BY <1>2, LogNext
<1>4. ASSUME NEW x
      PROVE  {j \in LinesOf(v) : j >= o /\ log'[j].id = x} = {j \in LinesOf(v) : j >= o /\ log[j].id = x}
  BY <1>3
<1> QED BY <1>1, <1>2, <1>3, <1>4 DEF IsOpen, Few, Bucket, SlotOf

\* The unit of the line.
LEMMA UnitFollows ==
  ASSUME log \in Seq(Events), NEW id \in Line, NEW u \in Units, NEW at \in Nat,
         log' = Append(log, [id |-> id, unit |-> u, at |-> at]),
         RecordBaseline(at, Bucket(at), u, id),
         u \in DOMAIN units <=> LinesOf(u) # {},
         u \in DOMAIN units => Shaped(units[u]) /\ \E o \in Opening(u) : IsOpen(u, o)
  PROVE  Shaped(units'[u]) /\ \E o \in Opening(u)' : IsOpen(u, o)'
<1> DEFINE e == [id |-> id, unit |-> u, at |-> at]
           new == u \notin DOMAIN units
           from == IF new THEN <<>> ELSE units[u].known
           opens == Opens(u, Bucket(at))
           counted == CountedWith(u, id, Bucket(at))
           known == KnownWith(u, id, Bucket(at))
<1>1. e \in Events /\ e.unit = u /\ e.id = id /\ e.at = at /\ log' = Append(log, e)
  BY DEF Events
<1> HIDE DEF e
<1>2. PICK n \in Nat : n = Len(log) + 1
  BY LinesAreTyped
<1>3. /\ LinesOf(u)' = LinesOf(u) \cup {n} /\ LinesOf(u) \subseteq DOMAIN log /\ DOMAIN log \subseteq Nat
      /\ IdsOf(u)' = IdsOf(u) \cup {id} /\ n \notin DOMAIN log
      /\ log'[n] = e /\ \A j \in DOMAIN log : log'[j] = log[j] /\ j < n /\ Bucket(log[j].at) \in Nat
  BY <1>1, <1>2, LinesNext, LogNext, LinesAreTyped
<1>4. log'[n].id = id /\ log'[n].at = at
  BY <1>1, <1>3
<1>5. Opening(u)' = IF \A j \in LinesOf(u) : Bucket(log[j].at) < Bucket(at)
                    THEN Opening(u) \cup {n} ELSE Opening(u)
  BY <1>1, <1>2, OpeningNext
<1>6. Bucket(at) \in Nat
  BY BucketGrows
<1>7. /\ Shaped(units'[u])
      /\ units'[u].open = IF opens THEN Bucket(at) ELSE units[u].open
      /\ units'[u].slot = IF opens THEN SlotOf(at) ELSE units[u].slot
      /\ Remembers(u, id, Bucket(at))
  BY RecordUnit
<1>8. opens <=> new \/ Bucket(at) > units[u].open
  BY DEF Opens, Closes
<1>9. counted = (IF opens THEN EmptyBag ELSE units[u].counts) (+) SetToBag({id})
  BY DEF CountedWith
<1>10. known = With(from, id, Bucket(at))
  BY DEF KnownWith
<1>11. PICK gone \in Forgettable(known) :
        units'[u].known = Without(known, gone) /\ units'[u].counts = Without(counted, gone)
  BY <1>7 DEF Remembers
<1> HIDE DEF opens, counted, known
<1>12. DOMAIN units'[u].known \subseteq IdsOf(u)'
  <2>1. DOMAIN known \subseteq IdsOf(u) \cup {id}
    <3>1. DOMAIN known = DOMAIN from \cup {id}
      BY <1>10 DEF With
    <3>2. DOMAIN from \subseteq IdsOf(u)
      BY DEF IsOpen
    <3> QED BY <3>1, <3>2
  <2>2. DOMAIN Without(known, gone) \subseteq DOMAIN known
    BY KnownStays
  <2> QED BY <1>3, <1>11, <2>1, <2>2
<1>13. ASSUME Few(u)'
      PROVE  Few(u) /\ gone = {} /\ DOMAIN units'[u].known = IdsOf(u)'
  <2>1. Few(u) /\ IsFiniteSet(IdsOf(u)') /\ Cardinality(IdsOf(u)') <= MaxProfile
    BY <1>1, <1>13, FewBefore
  <2>2. DOMAIN known = IdsOf(u) \cup {id}
    <3>1. DOMAIN known = DOMAIN from \cup {id}
      BY <1>10 DEF With
    <3>2. CASE ~new
      BY <2>1, <3>1, <3>2 DEF IsOpen
    <3>3. CASE new
      <4>1. IdsOf(u) = {} /\ DOMAIN from = {}
        BY <3>3 DEF IdsOf
      <4> QED BY <3>1, <4>1
    <3> QED BY <3>2, <3>3
  <2>3. Cardinality(DOMAIN known) <= MaxProfile
    BY <1>3, <2>1, <2>2
  <2>4. gone = {} /\ DOMAIN Without(known, gone) = DOMAIN known
    BY <2>3, KnownStays
  <2> QED BY <1>3, <1>11, <2>1, <2>2, <2>4
<1>14. CASE opens
  <2>1. \A j \in LinesOf(u) : Bucket(log[j].at) < Bucket(at)
    <3>1. CASE new
      BY <3>1
    <3>2. CASE ~new
      <4>1. PICK o \in Opening(u) : IsOpen(u, o)
        BY <3>2
      <4>2. /\ Bucket(log[o].at) < Bucket(at) /\ o \in DOMAIN log
            /\ \A j \in LinesOf(u) : Bucket(log[j].at) <= Bucket(log[o].at)
        BY <1>3, <1>6, <1>14, <1>8, <3>2, <4>1 DEF IsOpen, Opening
      <4> QED BY <1>3, <1>6, <4>2
    <3> QED BY <3>1, <3>2
  <2>2. n \in Opening(u)' /\ \A m \in Opening(u)' : m <= n
    <3>1. Opening(u)' = Opening(u) \cup {n} /\ \A m \in Opening(u) : m < n /\ m \in Nat
      BY <1>3, <1>5, <2>1 DEF Opening
    <3> QED BY <3>1
  <2>3. \A j \in LinesOf(u)' : Bucket(log'[j].at) <= Bucket(log'[n].at)
    <3>1. Bucket(log'[n].at) = Bucket(at) /\ \A j \in LinesOf(u) : Bucket(log'[j].at) = Bucket(log[j].at)
      BY <1>4, <1>3
    <3>2. \A j \in LinesOf(u) : Bucket(log[j].at) <= Bucket(at)
      BY <1>3, <1>6, <2>1
    <3>3. Bucket(log'[n].at) <= Bucket(log'[n].at)
      <4> DEFINE b == Bucket(log'[n].at)
      <4>1. b \in Nat
        BY <1>6, <3>1
      <4> HIDE DEF b
      <4>2. b <= b
        BY <4>1
      <4> QED BY <4>2 DEF b
    <3>4. \A j \in LinesOf(u) : Bucket(log'[j].at) <= Bucket(log'[n].at)
      BY <3>1, <3>2
    <3>5. LinesOf(u)' = LinesOf(u) \cup {n}
      BY <1>3
    <3> QED BY <3>3, <3>4, <3>5
  <2>4. ASSUME Few(u)', NEW x \in Line
        PROVE  Occurred(units'[u].counts, x) = Cardinality({j \in LinesOf(u)' : j >= n /\ log'[j].id = x})
    <3>1. counted = EmptyBag (+) SetToBag({id})
      BY <1>14, <1>9
    <3>2. Occurred(EmptyBag, x) = 0
      BY DEF Occurred, EmptyBag, SetToBag
    <3>3. Occurred(units'[u].counts, x) = IF x = id THEN 1 ELSE 0
      <4>1. units'[u].counts = Without(EmptyBag (+) SetToBag({id}), {})
        BY <1>11, <1>13, <2>4, <3>1
      <4>2. Occurred(EmptyBag, x) \in Nat
        BY <3>2
      <4>3. /\ x = id => Occurred(Without(EmptyBag (+) SetToBag({id}), {}), x) = Occurred(EmptyBag, x) + 1
            /\ x # id => Occurred(Without(EmptyBag (+) SetToBag({id}), {}), x) = Occurred(EmptyBag, x)
        BY <4>2, CountedOne
      <4> QED BY <3>2, <4>1, <4>3
    <3>4. {j \in LinesOf(u)' : j >= n /\ log'[j].id = x} = IF x = id THEN {n} ELSE {}
      <4>1. \A j \in LinesOf(u)' : j >= n => j = n
        BY <1>3
      <4>2. log'[n].id = id /\ n \in LinesOf(u)' /\ n >= n
        BY <1>4, <1>2, <1>3
      <4> QED BY <4>1, <4>2
    <3>5. Cardinality({n}) = 1 /\ Cardinality({}) = 0
      BY FS_Singleton, FS_EmptySet
    <3> QED BY <3>3, <3>4, <3>5
  <2>5. units'[u].open = Bucket(log'[n].at) /\ units'[u].slot = SlotOf(log'[n].at)
    BY <1>4, <1>7, <1>14
  <2>6. IsOpen(u, n)'
    BY <1>12, <1>13, <2>2, <2>3, <2>4, <2>5 DEF IsOpen, Bucket, SlotOf
  <2> QED BY <1>7, <2>2, <2>6
<1>15. CASE ~opens
  <2>1. PICK o \in Opening(u) : IsOpen(u, o)
    BY <1>15, <1>8
  <2>2. /\ o \in DOMAIN log /\ o \in LinesOf(u) /\ units[u].open = Bucket(log[o].at)
        /\ Bucket(at) <= Bucket(log[o].at) /\ Bucket(log[o].at) \in Nat
    BY <1>3, <1>6, <1>15, <1>8, <2>1 DEF IsOpen, Opening
  <2>3. Opening(u)' = Opening(u)
    <3>1. ~(Bucket(log[o].at) < Bucket(at))
      BY <1>6, <2>2
    <3> QED BY <1>5, <2>2, <3>1
  <2>4. \A j \in LinesOf(u)' : Bucket(log'[j].at) <= Bucket(log'[o].at)
    <3>1. /\ Bucket(log'[n].at) = Bucket(at) /\ Bucket(log'[o].at) = Bucket(log[o].at)
          /\ \A j \in LinesOf(u) : Bucket(log'[j].at) = Bucket(log[j].at)
      BY <1>4, <1>3, <2>2
    <3> QED BY <1>3, <2>1, <2>2, <3>1 DEF IsOpen
  <2>5. ASSUME Few(u)', NEW x \in Line
        PROVE  Occurred(units'[u].counts, x) = Cardinality({j \in LinesOf(u)' : j >= o /\ log'[j].id = x})
    <3> DEFINE S == {j \in LinesOf(u) : j >= o /\ log[j].id = x}
               c == units[u].counts
    <3>1. IsFiniteSet(S) /\ Cardinality(S) \in Nat /\ n \notin S
      <4>1. S \subseteq 1..Len(log) /\ Len(log) \in Nat /\ n \notin S
        BY <1>3, LinesAreTyped
      <4> HIDE DEF S
      <4>2. IsFiniteSet(1..Len(log))
        BY <4>1, FS_Interval
      <4>3. IsFiniteSet(S)
        BY <4>1, <4>2, FS_Subset
      <4> QED BY <4>1, <4>3, FS_CardinalityType
    <3>2. Occurred(c, x) = Cardinality(S)
      BY <1>13, <2>1, <2>5 DEF IsOpen
    <3>3. units'[u].counts = Without(c (+) SetToBag({id}), {})
      BY <1>11, <1>13, <1>15, <1>9, <2>5
    <3>4. {j \in LinesOf(u)' : j >= o /\ log'[j].id = x} = IF x = id THEN S \cup {n} ELSE S
      <4>1. n >= o /\ log'[n].id = id
        BY <1>4, <1>2, <1>3, <2>2
      <4>2. \A j \in LinesOf(u) : log'[j] = log[j] /\ j # n
        BY <1>3
      <4> QED BY <1>3, <4>1, <4>2
    <3> HIDE DEF S, c
    <3>5. /\ x = id => Occurred(units'[u].counts, x) = Cardinality(S) + 1
          /\ x # id => Occurred(units'[u].counts, x) = Cardinality(S)
      <4>1. Occurred(c, x) \in Nat
        BY <3>1, <3>2
      <4>2. /\ x = id => Occurred(Without(c (+) SetToBag({id}), {}), x) = Occurred(c, x) + 1
            /\ x # id => Occurred(Without(c (+) SetToBag({id}), {}), x) = Occurred(c, x)
        BY <4>1, CountedOne
      <4> QED BY <3>2, <3>3, <4>2
    <3>6. Cardinality(S \cup {n}) = Cardinality(S) + 1
      BY <3>1, FS_AddElement
    <3>7. CASE x = id
      BY <3>4, <3>5, <3>6, <3>7
    <3>8. CASE x # id
      BY <3>1, <3>4, <3>5, <3>8
    <3> QED BY <3>7, <3>8
  <2>6. units'[u].open = Bucket(log'[o].at) /\ units'[u].slot = SlotOf(log'[o].at)
    BY <1>3, <1>7, <1>15, <2>1, <2>2 DEF IsOpen
  <2>7. \A m \in Opening(u)' : m <= o
    BY <2>1, <2>3 DEF IsOpen
  <2>8. IsOpen(u, o)'
    BY <1>12, <1>13, <2>4, <2>5, <2>6, <2>7 DEF IsOpen, Bucket, SlotOf
  <2> QED BY <1>7, <2>3, <2>8
<1> QED BY <1>14, <1>15

-----------------------------------------------------------------------------
(* The steps                                                               *)

\* What record makes of a histogram.
LEMMA HistogramsNext ==
  ASSUME NEW u, NEW k, NEW bucket,
         histograms' = IF Closes(u, bucket) THEN WithBucketClosed(u) ELSE histograms
  PROVE  /\ ~Closes(u, bucket) \/ k \notin ClosedKeys(u) =>
              /\ (k \in DOMAIN histograms') = (k \in DOMAIN histograms)
              /\ k \in DOMAIN histograms => histograms'[k] = histograms[k]
         /\ Closes(u, bucket) /\ k \in ClosedKeys(u) =>
              /\ k \in DOMAIN histograms'
              /\ histograms'[k] = Observed(HistogramAt(k), Occurred(units[u].counts, k.id), units[u].open)
<1>1. CASE Closes(u, bucket)
  <2>1. histograms' = WithBucketClosed(u)
    BY <1>1
  <2> QED BY <1>1, <2>1 DEF WithBucketClosed
<1>2. CASE ~Closes(u, bucket)
  BY <1>2
<1> QED BY <1>1, <1>2

LEMMA KeyOf ==
  ASSUME NEW k \in AllKeys
  PROVE  /\ k = Key(k.unit, k.id, k.slot)
         /\ \A u : k \in ClosedKeys(u) <=>
              k.unit = u /\ k.id \in DOMAIN units[u].known /\ k.slot \in {units[u].slot, AnySlot}
<1>1. k = Key(k.unit, k.id, k.slot)
  BY DEF AllKeys, Key
<1>2. ASSUME NEW v, NEW x, NEW slot
      PROVE  Key(v, x, slot).unit = v /\ Key(v, x, slot).id = x /\ Key(v, x, slot).slot = slot
  BY DEF Key
<1>3. ASSUME NEW u
      PROVE  k \in ClosedKeys(u) <=>
              k.unit = u /\ k.id \in DOMAIN units[u].known /\ k.slot \in {units[u].slot, AnySlot}
  <2>1. k \in ClosedKeys(u) <=>
          \E x \in DOMAIN units[u].known, slot \in {units[u].slot, AnySlot} : k = Key(u, x, slot)
    BY DEF ClosedKeys
  <2>2. CASE k \in ClosedKeys(u)
    <3>1. PICK x \in DOMAIN units[u].known, slot \in {units[u].slot, AnySlot} : k = Key(u, x, slot)
      BY <2>1, <2>2
    <3>2. k.unit = u /\ k.id = x /\ k.slot = slot
      BY <1>2, <3>1
    <3> QED BY <2>2, <3>2
  <2>3. CASE k.unit = u /\ k.id \in DOMAIN units[u].known /\ k.slot \in {units[u].slot, AnySlot}
    BY <1>1, <2>1, <2>3
  <2> QED BY <2>2, <2>3
<1> QED BY <1>1, <1>3

LEMMA ProcessKeepsHistograms ==
  ASSUME HistogramsInv, NEW id \in Line, NEW u \in Units, NEW at \in Nat, NEW score,
         Process(id, u, at, score)
  PROVE  HistogramsInv'
<1> DEFINE e == [id |-> id, unit |-> u, at |-> at]
           bucket == Bucket(at)
<1>1. /\ log \in Seq(Events) /\ e \in Events /\ log' = Append(log, e)
      /\ e.unit = u /\ e.id = id /\ e.at = at /\ bucket \in Nat
      /\ RecordBaseline(at, bucket, u, id) /\ complete' = complete
  BY BucketGrows DEF Process, HistogramsInv, Events
<1>2. log' = Append(log, [id |-> id, unit |-> u, at |-> at]) /\ RecordBaseline(at, Bucket(at), u, id)
  BY <1>1
<1> HIDE DEF e, bucket
<1>3. log' \in Seq(Events)
  BY <1>1, LogNext
<1> SUFFICES ASSUME complete
             PROVE  /\ DOMAIN units' = {log'[i].unit : i \in DOMAIN log'}
                    /\ \A v \in DOMAIN units' : Shaped(units'[v]) /\ \E o \in Opening(v)' : IsOpen(v, o)'
                    /\ \A k \in AllKeys : Few(k.unit)' => HasObserved(k)'
  BY <1>1, <1>3 DEF HistogramsInv, Shaped, AllKeys, Units
<1>4. /\ DOMAIN units = {log[i].unit : i \in DOMAIN log}
      /\ \A v \in DOMAIN units : Shaped(units[v]) /\ \E o \in Opening(v) : IsOpen(v, o)
      /\ \A k \in AllKeys : Few(k.unit) => HasObserved(k)
  BY DEF HistogramsInv
<1>5. \A v : v \in DOMAIN units <=> LinesOf(v) # {}
  BY <1>4 DEF LinesOf
<1>6. /\ DOMAIN units' = DOMAIN units \cup {u}
      /\ \A v \in DOMAIN units : v # u => units'[v] = units[v]
      /\ histograms' = IF Closes(u, bucket) THEN WithBucketClosed(u) ELSE histograms
  <2>1. u \in DOMAIN units => Shaped(units[u])
    BY <1>4
  <2>2. RecordBaseline(at, bucket, u, id)
    BY <1>1
  <2>3. DOMAIN units' = DOMAIN units \cup {u}
    BY <2>1, <2>2, RecordUnit
  <2>4. ASSUME NEW v \in DOMAIN units, v # u
        PROVE  units'[v] = units[v]
    BY <2>2, <2>4, OthersUnchanged
  <2>5. histograms' = IF Closes(u, bucket) THEN WithBucketClosed(u) ELSE histograms
    BY <2>1, <2>2, RecordUnit
  <2> QED BY <2>3, <2>4, <2>5
<1>7. DOMAIN units' = {log'[i].unit : i \in DOMAIN log'}
  BY <1>1, <1>4, <1>6, LogNext
<1>8. ASSUME NEW v \in DOMAIN units'
      PROVE  Shaped(units'[v]) /\ \E o \in Opening(v)' : IsOpen(v, o)'
  <2>1. CASE v = u
    <3>1. Shaped(units'[u]) /\ \E o \in Opening(u)' : IsOpen(u, o)'
      BY <1>1, <1>2, <1>4, <1>5, UnitFollows
    <3> QED BY <2>1, <3>1
  <2>2. CASE v # u
    <3>1. v \in DOMAIN units /\ units'[v] = units[v]
      BY <1>6, <2>2
    <3>2. PICK o \in Opening(v) : IsOpen(v, o)
      BY <1>4, <3>1
    <3>3. o \in Opening(v)' /\ IsOpen(v, o)'
      BY <1>1, <2>2, <3>1, <3>2, OthersStayOpen
    <3> QED BY <1>4, <3>1, <3>3
  <2> QED BY <2>1, <2>2
<1>9. ASSUME NEW k \in AllKeys, Few(k.unit)'
      PROVE  HasObserved(k)'
  <2>1. Few(k.unit) /\ HasObserved(k)
    BY <1>1, <1>4, <1>9, FewBefore
  <2>2. k \in ClosedKeys(u) <=>
          k.unit = u /\ k.id \in DOMAIN units[u].known /\ k.slot \in {units[u].slot, AnySlot}
    BY KeyOf
  <2>3. /\ ~Closes(u, bucket) \/ k \notin ClosedKeys(u) =>
             /\ (k \in DOMAIN histograms') = (k \in DOMAIN histograms)
             /\ k \in DOMAIN histograms => histograms'[k] = histograms[k]
        /\ Closes(u, bucket) /\ k \in ClosedKeys(u) =>
             /\ k \in DOMAIN histograms'
             /\ histograms'[k] = Observed(HistogramAt(k), Occurred(units[u].counts, k.id), units[u].open)
    BY <1>6, HistogramsNext
  <2>4. CASE k.unit # u
    <3>1. Opening(k.unit)' = Opening(k.unit)
      BY <1>1, <2>4, OpeningNext
    <3> QED BY <1>1, <2>1, <2>2, <2>3, <2>4, <3>1, NoneEnds, ObservedStays
  <2>5. CASE k.unit = u /\ u \notin DOMAIN units
    <3>1. LinesOf(k.unit) = {} /\ Opening(k.unit) = {} /\ Ended(k) = {}
      BY <1>5, <2>5 DEF Opening, Ended
    <3>2. PICK n \in Nat : n = Len(log) + 1
      BY <1>1, LinesAreTyped
    <3>3. Opening(k.unit)' \subseteq {n}
      BY <1>1, <3>1, <3>2, OpeningNext
    <3>4. \A i, m \in Opening(k.unit)' : ~(m > i)
      BY <3>2, <3>3
    <3>5. Ended(k)' = {}
      BY <3>4 DEF Ended
    <3>6. ~Closes(u, bucket)
      BY <2>5 DEF Closes
    <3> QED BY <1>1, <2>1, <2>3, <3>1, <3>5, <3>6, ObservedStays
  <2>6. CASE k.unit = u /\ u \in DOMAIN units
    <3>1. PICK o \in Opening(k.unit) : IsOpen(k.unit, o)
      BY <1>4, <2>6
    <3>2. /\ o \in DOMAIN log /\ o \in LinesOf(k.unit) /\ Bucket(log[o].at) \in Nat
          /\ units[u].open = Bucket(log[o].at) /\ units[u].slot = SlotOf(log[o].at)
          /\ \A j \in LinesOf(k.unit) : Bucket(log[j].at) <= Bucket(log[o].at) /\ Bucket(log[j].at) \in Nat
          /\ \A m \in Opening(k.unit) : m <= o
          /\ DOMAIN units[u].known = IdsOf(k.unit)
          /\ Occurred(units[u].counts, k.id) =
               Cardinality({j \in LinesOf(k.unit) : j >= o /\ log[j].id = k.id})
      <4>1. k.id \in Line
        BY DEF AllKeys
      <4>2. LinesOf(k.unit) \subseteq DOMAIN log /\ o \in LinesOf(k.unit)
        BY DEF LinesOf, Opening
      <4>3. \A j \in DOMAIN log : Bucket(log[j].at) \in Nat
        BY <1>1, LinesAreTyped
      <4> QED BY <2>1, <2>6, <3>1, <4>1, <4>2, <4>3 DEF IsOpen
    <3>3. CASE ~Closes(u, bucket)
      <4>1. ~(Bucket(log[o].at) < bucket)
        BY <1>1, <2>6, <3>2, <3>3 DEF Closes
      <4>2. Opening(k.unit)' = Opening(k.unit)
        BY <1>1, <3>2, <4>1, OpeningNext DEF bucket
      <4> QED BY <1>1, <2>1, <2>3, <3>3, <4>2, NoneEnds, ObservedStays
    <3>4. CASE Closes(u, bucket)
      <4>1. \A j \in LinesOf(k.unit) : Bucket(log[j].at) < Bucket(e.at)
        <5>1. Bucket(log[o].at) < bucket /\ Bucket(e.at) = bucket
          BY <1>1, <3>2, <3>4 DEF Closes, bucket
        <5> QED BY <1>1, <3>2, <5>1
      <4>2. /\ Ended(k) \subseteq DOMAIN log /\ \A i \in Ended(k) : i < o
            /\ Ended(k)' = IF k.id \in IdsOf(k.unit) /\ k.slot \in {AnySlot, SlotOf(log[o].at)}
                           THEN Ended(k) \cup {o} ELSE Ended(k)
            /\ \A i \in Ended(k) : Occurrences(k, i)' = Occurrences(k, i)
            /\ Occurrences(k, o)' = Cardinality({j \in LinesOf(k.unit) : j >= o /\ log[j].id = k.id})
        <5>1. /\ log \in Seq(Events) /\ e \in Events /\ log' = Append(log, e) /\ e.unit = k.unit
              /\ o \in Opening(k.unit) /\ \A m \in Opening(k.unit) : m <= o
          BY <1>1, <2>6, <3>2
        <5> QED BY ONLY <4>1, <5>1, OneEnds
      <4>3. k \in ClosedKeys(u) <=> k.id \in IdsOf(k.unit) /\ k.slot \in {AnySlot, SlotOf(log[o].at)}
        BY <2>2, <2>6, <3>2
      <4>4. CASE k \in ClosedKeys(u)
        <5>1. Ended(k)' = Ended(k) \cup {o}
          BY <4>2, <4>3, <4>4
        <5>2. /\ k \in DOMAIN histograms'
              /\ histograms'[k] = Observed(HistogramAt(k), Occurrences(k, o)', Bucket(log[o].at))
          BY <2>3, <3>2, <3>4, <4>2, <4>4
        <5>3. \A i \in Ended(k) : Bucket(log[i].at) <= Bucket(log[o].at)
          <6>1. Ended(k) \subseteq LinesOf(k.unit)
            BY DEF Ended, Opening
          <6> QED BY <3>2, <6>1
        <5> QED BY <1>1, <2>1, <3>2, <4>2, <5>1, <5>2, <5>3, ObservedMore
      <4>5. CASE k \notin ClosedKeys(u)
        <5>1. Ended(k)' = Ended(k)
          BY <4>2, <4>3, <4>5
        <5> QED BY <1>1, <2>1, <2>3, <4>2, <4>5, <5>1, ObservedStays
      <4> QED BY <4>4, <4>5
    <3> QED BY <3>3, <3>4
  <2> QED BY <2>4, <2>5, <2>6
<1> QED BY <1>7, <1>8, <1>9

\* A step analyses a line, starts a process with what was saved, or leaves the store as it
\* is, unless it cuts it.
LEMMA StoreSteps ==
  ASSUME IInv, [Next]_vars
  PROVE  \/ \E id \in Line, u \in Units, at \in Nat : \E score : Process(id, u, at, score)
         \/ log' = <<>> /\ units' = <<>> /\ (complete' => histograms' = <<>>)
         \/ log' = log /\ (complete' => complete /\ histograms' = histograms /\ units' = units)
<1>1. CASE Handle
  <2>1. PICK line \in traffic.lines, step \in traffic.steps :
          LET at == clock + step
          IN  /\ at >= 0
              /\ \/ Filtered(line, at)
                 \/ \E u \in traffic.units, score \in traffic.scores : Analysed(line, u, at, score)
    BY <1>1 DEF Handle
  <2>2. line \in Line /\ clock + step \in Nat
    BY <2>1, TrafficsAssumption DEF IInv, Line, Token
  <2>3. CASE Filtered(line, clock + step)
    BY <2>3 DEF Filtered, ghosts, store
  <2>4. ASSUME NEW u \in traffic.units, NEW score \in traffic.scores,
               Analysed(line, u, clock + step, score)
        PROVE  \E id \in Line, v \in Units, at \in Nat : \E s : Process(id, v, at, s)
    <3>1. Process(Matched(line), u, clock + step, score)
      BY <2>4 DEF Analysed
    <3>2. Matched(line) \in Line
      BY <2>2, MatchedIsLine DEF IInv
    <3>3. u \in Units
      BY DEF IInv, Units
    <3> QED
      BY <2>2, <3>1, <3>2, <3>3
  <2> QED
    BY <2>1, <2>3, <2>4
<1>2. CASE Save
  BY <1>2 DEF Save
<1>3. CASE Restart
  BY <1>3 DEF Restart, EngineReset
<1>4. CASE UNCHANGED vars
  BY <1>4 DEF vars, ghosts, store
<1> QED
  BY <1>1, <1>2, <1>3, <1>4 DEF Next

LEMMA NothingObserved ==
  ASSUME log = <<>>, units = <<>>, complete => histograms = <<>>
  PROVE  HistogramsInv
<1>1. log \in Seq(Events) /\ DOMAIN log = {} /\ DOMAIN units = {}
  BY EmptySeq
<1>2. \A k : Ended(k) = {}
  BY <1>1 DEF Ended, Opening, LinesOf
<1>3. complete => \A k : HasObserved(k)
  BY <1>2 DEF HasObserved
<1> QED BY <1>1, <1>3 DEF HistogramsInv

LEMMA HistogramsInvHolds == Spec => []HistogramsInv
<1>1. Init => HistogramsInv
  BY NothingObserved DEF Init, EngineInit, BaselinesInit
<1>2. IInv /\ HistogramsInv /\ [Next]_vars => HistogramsInv'
  <2> SUFFICES ASSUME IInv, HistogramsInv, [Next]_vars
               PROVE  HistogramsInv'
    OBVIOUS
  <2>1. ASSUME NEW id \in Line, NEW u \in Units, NEW at \in Nat, NEW score,
               Process(id, u, at, score)
        PROVE  HistogramsInv'
    BY <2>1, ProcessKeepsHistograms
  <2>2. CASE log' = <<>> /\ units' = <<>> /\ (complete' => histograms' = <<>>)
    <3>1. log' \in Seq(Events) /\ DOMAIN log' = {} /\ DOMAIN units' = {}
      BY <2>2, EmptySeq
    <3>2. \A k : Ended(k)' = {}
      BY <3>1 DEF Ended, Opening, LinesOf
    <3>3. ASSUME complete', NEW k
          PROVE  HasObserved(k)'
      <4>1. k \notin DOMAIN histograms'
        BY <2>2, <3>3
      <4> QED BY <3>2, <4>1 DEF HasObserved
    <3> QED BY <3>1, <3>3 DEF HistogramsInv
  <2>3. CASE log' = log /\ (complete' => complete /\ histograms' = histograms /\ units' = units)
    <3>1. CASE ~complete'
      BY <2>3, <3>1 DEF HistogramsInv
    <3>2. CASE complete'
      <4>1. /\ log' = log /\ complete /\ histograms' = histograms /\ units' = units
            /\ \A u : LinesOf(u)' = LinesOf(u)
        BY <2>3, <3>2 DEF LinesOf
      <4>2. \A u : IdsOf(u)' = IdsOf(u) /\ Opening(u)' = Opening(u)
        BY <4>1 DEF IdsOf, Opening, Bucket
      <4>3. \A u : Few(u)' = Few(u)
        BY <4>2 DEF Few
      <4>4. \A u, o : IsOpen(u, o)' = IsOpen(u, o)
        BY <4>1, <4>2, <4>3 DEF IsOpen, Bucket, SlotOf
      <4>5. ASSUME NEW k, HasObserved(k)
            PROVE  HasObserved(k)'
        <5>1. \A u, i : Until(u, i)' = Until(u, i)
          BY <4>1, <4>2 DEF Until
        <5>2. \A i : Occurrences(k, i)' = Occurrences(k, i)
          BY <4>1, <5>1 DEF Occurrences
        <5>3. Ended(k)' = Ended(k)
          BY <4>1, <4>2, <5>1 DEF Ended, SlotOf, AnySlot
        <5>4. Max(Ended(k))' = Max(Ended(k))
          BY <5>3 DEF Max
        <5>5. Bucket(log[Max(Ended(k))].at)' = Bucket(log[Max(Ended(k))].at)
          BY <4>1, <5>4 DEF Bucket
        <5>6. {Occurrences(k, i) : i \in Ended(k)}' = {Occurrences(k, i) : i \in Ended(k)}
          BY <5>2, <5>3
        <5> QED BY <4>1, <4>5, <5>3, <5>5, <5>6 DEF HasObserved
      <4> QED BY <4>1, <4>2, <4>3, <4>4, <4>5 DEF HistogramsInv, Shaped, AllKeys, Units
    <3> QED BY <3>1, <3>2
  <2> QED
    BY <2>1, <2>2, <2>3, StoreSteps
<1> QED
  BY <1>1, <1>2, InitSound, NextKeeps, PTL DEF Spec

\* Which histograms there are and what they have bins for is just what the journal brought
\* (record, close_bucket, observe): as long as a store began empty and was not cut, and no
\* template of a unit had to be forgotten, a template has a histogram for a slot if and only
\* if a bucket of that slot has ended since the template was first seen in the unit, with
\* bins for nothing but numbers of occurrences in such buckets, silence included.
THEOREM HistogramsObserve == Spec => []HistogramsAreThere
<1>1. HistogramsInv => HistogramsAreThere
  <2> SUFFICES ASSUME HistogramsInv, complete, NEW u \in {log[i].unit : i \in DOMAIN log},
                      Cardinality(IdsOf(u)) <= MaxProfile, NEW k \in KeysOf(u)
               PROVE  HasObserved(k)
    BY DEF HistogramsAreThere
  <2>1. log \in Seq(Events)
    BY DEF HistogramsInv
  <2>2. u \in Units /\ IdsOf(u) \subseteq Line
    BY <2>1, LinesAreTyped DEF IdsOf, LinesOf
  <2>3. PICK x \in IdsOf(u), slot \in 0..AnySlot : k = [unit |-> u, id |-> x, slot |-> slot]
    BY DEF KeysOf, Key
  <2>4. k \in AllKeys /\ k.unit = u
    BY <2>2, <2>3 DEF AllKeys
  <2>5. Few(k.unit)
    BY <2>4 DEF Few
  <2> QED
    BY <2>4, <2>5 DEF HistogramsInv
<1> QED
  BY <1>1, HistogramsInvHolds, PTL
=============================================================================
