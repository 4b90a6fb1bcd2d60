------------------------------ MODULE TrialGroupMC ------------------------------
(* TrialGroup with the criterion results that exercise the exemptions. *)
EXTENDS TrialGroup

Row(passed, skipped, pre, state) ==
  [passed |-> passed, skipped |-> skipped, pre |-> pre, state |-> state]

\* Passed, failed, a stamped row still scored, an abstention, a row true in
\* the seed, an advisory one, and one that is both.
MCRows == {Row(TRUE, FALSE, FALSE, "none"), Row(FALSE, FALSE, FALSE, "none"),
           Row(FALSE, FALSE, FALSE, "advisory"), Row(FALSE, TRUE, FALSE, "none"),
           Row(FALSE, TRUE, TRUE, "none"), Row(FALSE, TRUE, FALSE, "advisory"),
           Row(FALSE, TRUE, TRUE, "advisory")}
=============================================================================
