----------------------------- MODULE MCActions -----------------------------
(* Instances of the action subsystem for TLC. *)
EXTENDS Actions, TLC

CONSTANTS u, v, p

\* The one process belongs to the one unit.
UnitOfP == [q \in {p} |-> u]

Alike == Permutations(Attempts)
=============================================================================
