------------------------------ MODULE Baselines ------------------------------
(***************************************************************************)
(* The time profiles of each unit (core/src/baseline/store.rs,             *)
(* histogram.rs, profile.rs, slot.rs, decay.rs): histograms of how often a *)
(* template occurs in a bucket, per slot of the day and over all slots;    *)
(* the shares of the templates in a unit; and the buckets still open.      *)
(*                                                                         *)
(* Weights are floating point and halve within half_life_hours.  Here an   *)
(* observation weighs One, and the half-life is at its lower limit of one  *)
(* bucket, so that division is exact for as long as One lasts.             *)
(***************************************************************************)
EXTENDS Integers, Sequences, FiniteSetsExt, Functions, SequencesExt, Bags, Maps

CONSTANTS
  One,               \* the weight of one observation, a power of two
  Negligible,        \* NEGLIGIBLE_WEIGHT
  MaxBins,           \* baseline.max_bins
  MaxProfile,        \* baseline.profile_max_templates
  MaxBaselines,      \* baseline.max_baselines
  MinWeight,         \* baseline.min_weight
  ProfileMinWeight,  \* baseline.profile_min_weight
  SlotLength,        \* the time a slot lasts
  Slots              \* after which the slots are the same again: 48

ASSUME BaselinesAssumption ==
  /\ {One, MaxBins, MaxProfile, SlotLength, Slots} \subseteq Nat \ {0}
  /\ {Negligible, MaxBaselines, MinWeight, ProfileMinWeight} \subseteq Nat

VARIABLES
  histograms,  \* BaselineStore::histograms, by BaselineKey
  profiles,    \* BaselineStore::unit_profiles
  units        \* BaselineStore::unit_states

store == <<histograms, profiles, units>>

BaselinesInit == histograms = <<>> /\ profiles = <<>> /\ units = <<>>

AnySlot == Slots
SlotOf(at) == (at \div SlotLength) % Slots
Key(u, id, slot) == [unit |-> u, id |-> id, slot |-> slot]

\* apply_decay: what is late does not decay backwards.
Faded(weight, since, bucket) == IF bucket > since THEN weight \div 2^(bucket - since) ELSE weight
Later(m, n) == IF m > n THEN m ELSE n

-----------------------------------------------------------------------------
(* CountHistogram and UnitProfile                                          *)

NoHistogram == [bins |-> <<>>, touched |-> 0]
HistogramAt(k) == IF k \in DOMAIN histograms THEN histograms[k] ELSE NoHistogram
WeightOf(h) == SumFunction(h.bins)

\* observe: over max_bins the bin of the greatest count takes what is new.
Observed(h, count, bucket) ==
  LET old == [c \in DOMAIN h.bins |-> Faded(h.bins[c], h.touched, bucket)]
      bin == IF count \in DOMAIN old \/ Cardinality(DOMAIN old) < MaxBins
             THEN count ELSE Max(DOMAIN old)
      new == With(old, bin, One + IF bin \in DOMAIN old THEN old[bin] ELSE 0)
  IN  [bins |-> Restrict(new, {c \in DOMAIN new : new[c] >= Negligible}),
       touched |-> Later(h.touched, bucket)]

NoProfile == [shares |-> <<>>, touched |-> 0]
ProfileWeight(p) == FoldLeft(LAMBDA sum, share : sum + share.weight, 0, p.shares)

\* observe: in a full profile the first of the lightest gives way.
Lightest(shares) ==
  CHOOSE i \in DOMAIN shares : \A j \in DOMAIN shares :
    /\ shares[i].weight <= shares[j].weight
    /\ j < i => shares[i].weight < shares[j].weight
Met(p, id, bucket) ==
  LET old  == [i \in DOMAIN p.shares |->
                 [p.shares[i] EXCEPT !.weight = Faded(@, p.touched, bucket)]]
      i    == SelectInSeq(old, LAMBDA share : share.id = id)
      room == IF Len(old) < MaxProfile THEN old ELSE RemoveAt(old, Lightest(old))
      new  == IF i # 0 THEN [old EXCEPT ![i].weight = @ + One]
                       ELSE Append(room, [id |-> id, weight |-> One])
  IN  [shares |-> SelectSeq(new, LAMBDA share : share.weight >= Negligible),
       touched |-> Later(p.touched, bucket)]

-----------------------------------------------------------------------------
(* BaselineStore                                                           *)

\* close_bucket: each template known to the unit is observed, with 0 if it did
\* not occur, in the slot of the bucket and in Slot::ANY.
\* Mutant: only what occurred is observed.
ClosedKeysOccurring(u) ==
  {Key(u, x, slot) : x \in BagToSet(units[u].counts), slot \in {units[u].slot, AnySlot}}
ClosedKeys(u) ==
  {Key(u, x, slot) : x \in DOMAIN units[u].known, slot \in {units[u].slot, AnySlot}}
Occurred(bag, id) == IF id \in DOMAIN bag THEN bag[id] ELSE 0
WithBucketClosed(u) ==
  [k \in DOMAIN histograms \cup ClosedKeys(u) |->
     IF k \in ClosedKeys(u)
     THEN Observed(HistogramAt(k), Occurred(units[u].counts, k.id), units[u].open)
     ELSE histograms[k]]

\* evict_known_if_needed: any of those that were active longest ago.
Forgettable(known) ==
  IF Cardinality(DOMAIN known) <= MaxProfile THEN {{}}
  ELSE {{x} : x \in {y \in DOMAIN known : \A z \in DOMAIN known : known[y] <= known[z]}}

\* record: a late event counts in the open bucket.
RecordBaseline(at, bucket, u, id) ==
  LET new    == u \notin DOMAIN units
      closes == ~new /\ bucket > units[u].open
      state  ==
        IF new
        THEN [open |-> bucket, slot |-> SlotOf(at), counts |-> EmptyBag,
              known |-> <<>>, touched |-> bucket]
        ELSE IF closes
        THEN [units[u] EXCEPT !.open = bucket, !.slot = SlotOf(at), !.counts = EmptyBag,
                              !.touched = Later(@, bucket)]
        ELSE [units[u] EXCEPT !.touched = Later(@, bucket)]
      counts == state.counts (+) SetToBag({id})
      known  == With(state.known, id, bucket)
  IN  /\ profiles' =
           With(profiles, u,
                Met(IF u \in DOMAIN profiles THEN profiles[u] ELSE NoProfile, id, bucket))
      /\ histograms' = IF closes THEN WithBucketClosed(u) ELSE histograms
      /\ \E gone \in Forgettable(known) :
           units' = With(units, u, [state EXCEPT !.counts = Without(counts, gone),
                                                 !.known = Without(known, gone)])

\* enforce_limits: of the histograms the lightest go, by the weight they had
\* when they were last touched; of the units those untouched for longest.
Survivors(f, Worth(_)) ==
  {Restrict(f, S) : S \in {T \in kSubset(MaxBaselines, DOMAIN f) :
     \A x \in T, y \in DOMAIN f \ T : Worth(y) <= Worth(x)}}
EnforceLimits ==
  /\ histograms' \in IF Cardinality(DOMAIN histograms) <= MaxBaselines THEN {histograms}
                     ELSE Survivors(histograms, LAMBDA k : WeightOf(histograms[k]))
  /\ profiles' \in IF Cardinality(DOMAIN profiles) <= MaxBaselines THEN {profiles}
                   ELSE Survivors(profiles, LAMBDA u : profiles[u].touched)
  /\ units' \in IF Cardinality(DOMAIN units) <= MaxBaselines THEN {units}
                ELSE Survivors(units, LAMBDA u : units[u].touched)

\* has_trusted_baselines, also by the weights of the last touch.
Trusted(hs, ps) ==
  \/ \E k \in DOMAIN hs : WeightOf(hs[k]) >= MinWeight
  \/ \E u \in DOMAIN ps : ProfileWeight(ps[u]) >= ProfileMinWeight
=============================================================================
