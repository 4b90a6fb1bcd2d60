----------------------------- MODULE GithubPullsMC -----------------------------
(* Constants of the GithubPulls runs.  The branches that are not the default    *)
(* one are interchangeable.                                                     *)
EXTENDS GithubPulls, TLC

CONSTANT b1

OneFile == [p \in Paths |-> IF p = 1 THEN b1 ELSE NONE]

\* Main has one file, and the second branch, if any, moved it.
MovedSeeds ==
  {[main |-> OneFile, branch |-> NoChange],
   [main |-> OneFile, branch |-> [p \in Paths |-> IF p = 1 THEN NONE ELSE b1]]}

Symmetry == Permutations(Refs \ {Main})
=============================================================================
