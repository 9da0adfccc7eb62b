----------------------------- MODULE Templates -----------------------------
(***************************************************************************)
(* The registry of templates (core/src/template.rs): lines of the journal  *)
(* are gathered into clusters, and a cluster is named by the line it began *)
(* with.                                                                   *)
(*                                                                         *)
(* A line is the sequence of its tokens after masking (core/src/mask.rs).  *)
(* The hash that names a cluster is taken to be injective, so the name of  *)
(* a cluster is that sequence, and TemplateId::EMPTY is the empty one.     *)
(***************************************************************************)
EXTENDS Integers, Sequences, SequencesExt, FiniteSets

CONSTANTS
  Wild,          \* the token <*>
  MaxTemplates,  \* analysis.max_templates
  Threshold      \* analysis.template_similarity_threshold, in percent

ASSUME TemplatesAssumption ==
  MaxTemplates \in Nat \ {0} /\ Threshold \in 1..100

VARIABLE registry  \* TemplateEngine::clusters, in order: id, tokens, when seen last

-----------------------------------------------------------------------------

\* token_similarity: the share of the concrete tokens that agree, as a
\* numerator and a denominator.
Concrete(t) == {i \in DOMAIN t : t[i] # Wild}
Agreeing(t, line) == {i \in Concrete(t) : t[i] = line[i]}
Similarity(t, line) ==
  IF Concrete(t) = {} THEN <<0, 1>>
  ELSE <<Cardinality(Agreeing(t, line)), Cardinality(Concrete(t))>>

Exceeds(s, t) == s[1] * t[2] > t[1] * s[2]

\* find_best_cluster: the first among the most similar ones.
Candidates(line) ==
  {i \in DOMAIN registry :
     /\ Len(registry[i].tokens) = Len(line)
     /\ LET s == Similarity(registry[i].tokens, line)
        IN  s[1] * 100 >= Threshold * s[2]}
Best(line) ==
  {i \in Candidates(line) : \A j \in Candidates(line) \ {i} :
     LET mine == Similarity(registry[i].tokens, line)
         other == Similarity(registry[j].tokens, line)
     IN  IF j < i THEN Exceeds(mine, other) ELSE ~Exceeds(other, mine)}

\* Mutant: the template follows the latest line.
MergedFollowing(t, line) == line
\* merge_into_template.
Merged(t, line) == [i \in DOMAIN t |-> IF t[i] = line[i] THEN t[i] ELSE Wild]

\* evict_least_recently_seen, when there is no room for a new cluster.
Stalest ==
  CHOOSE i \in DOMAIN registry : \A j \in DOMAIN registry :
    /\ registry[i].seen <= registry[j].seen
    /\ j < i => registry[i].seen < registry[j].seen
WithRoom ==
  IF Len(registry) >= MaxTemplates THEN RemoveAt(registry, Stalest) ELSE registry

\* The id process returns for a line.
Matched(line) == IF Best(line) = {} THEN line ELSE registry[CHOOSE i \in Best(line) : TRUE].id

\* process: seen follows the line's time, also backwards.
ProcessLine(line, at) ==
  \/ line = <<>> /\ UNCHANGED registry
  \/ \E i \in Best(line) :
       registry' = [registry EXCEPT ![i].tokens = Merged(@, line), ![i].seen = at]
  \/ /\ line # <<>> /\ Best(line) = {}
     /\ registry' = Append(WithRoom, [id |-> line, tokens |-> line, seen |-> at])

\* snapshot, and the table of save: it is keyed by the id, so of clusters of one id the last one
\* is kept.
LastOfId(clusters, id) ==
  CHOOSE i \in DOMAIN clusters : clusters[i].id = id /\ \A j \in DOMAIN clusters : clusters[j].id = id => j <= i
Persisted(clusters) ==
  [id \in {clusters[i].id : i \in DOMAIN clusters} |->
     LET i == LastOfId(clusters, id)
     IN  [order |-> i, tokens |-> clusters[i].tokens, seen |-> clusters[i].seen]]

\* restore: by their order; what is over the limit is left behind.
Place(table, id) == Cardinality({other \in DOMAIN table : table[other].order <= table[id].order})
Restored(table) ==
  LET size  == Cardinality(DOMAIN table)
      At(n) == CHOOSE id \in DOMAIN table : Place(table, id) = n
  IN  [n \in 1..(IF size > MaxTemplates THEN MaxTemplates ELSE size) |->
         [id |-> At(n), tokens |-> table[At(n)].tokens, seen |-> table[At(n)].seen]]
=============================================================================
