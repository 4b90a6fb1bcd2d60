---------------------------- MODULE LinearIssuesMC ----------------------------
(* Constants of the LinearIssues run.  Requests are interchangeable, as are     *)
(* agents.                                                                      *)
EXTENDS LinearIssues, TLC

OneIssue(agent) ==
  [i \in Ids |-> IF i = 1 THEN NewIssue("started", NoId, agent) ELSE NoIssue]

\* One issue, delegated without a session, and a webhook for everything.
SeededDelegate ==
  {[issues |-> OneIssue(a), counter |-> 1,
    hooks |-> {[id |-> SeededHook, wants |-> EventTypes]}] : a \in Agents}

IssuesOnly == {{"Issue"}}

Symmetry == Permutations(Requests) \cup Permutations(Agents)
=============================================================================
