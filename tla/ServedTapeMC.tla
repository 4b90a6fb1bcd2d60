----------------------------- MODULE ServedTapeMC -----------------------------
(* ServedTape for TLC: two requests to one twin, one to its sibling. *)
EXTENDS ServedTape, TLC

CONSTANTS t1, t2, r1, r2, r3

TwinOfMC == r1 :> t1 @@ r2 :> t1 @@ r3 :> t2

Interchangeable == Permutations(Callers) \cup Permutations({r1, r2})
=============================================================================
