-------------------------------- MODULE Maps --------------------------------
(***************************************************************************)
(* What the code keeps in a HashMap or a BTreeMap is a function from the   *)
(* keys that are there; what it keeps in a Vec is a sequence.              *)
(***************************************************************************)
EXTENDS Naturals, Sequences

\* insert, over what the key had.
With(f, key, value) == [k \in DOMAIN f \cup {key} |-> IF k = key THEN value ELSE f[k]]

\* retain, remove: all but these keys.
Without(f, gone) == [k \in DOMAIN f \ gone |-> f[k]]

\* retain, filter: the elements of seq that are in a set, in their order.
Kept(seq, set) ==
  LET kept[n \in 0..Len(seq)] ==
        IF n = 0 THEN <<>>
        ELSE IF seq[n] \in set THEN Append(kept[n - 1], seq[n]) ELSE kept[n - 1]
  IN  kept[Len(seq)]
=============================================================================
