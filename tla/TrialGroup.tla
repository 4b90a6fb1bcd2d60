------------------------------- MODULE TrialGroup -------------------------------
(***************************************************************************)
(* A hosted trial group: k trials of one task, each against a cloud        *)
(* session of its own (cli/src/runner/runTrialGroup.ts, runTaskHosted.ts,  *)
(* hosted/client.ts, hosted/uploadAndFinalize.ts).                         *)
(*                                                                         *)
(* The CLI's side is at, tries, report, next and phase; cloud and judged   *)
(* are the control plane's, which is external: it is modelled from what    *)
(* the client sends and accepts, and any answer of it may be lost.  An     *)
(* action is the code between two awaits that matter here.  What a trial   *)
(* uploads, prints and writes to disk is left out: each is best effort and *)
(* decides nothing, but the artifacts, whose failure is one of Collect's.  *)
(***************************************************************************)
EXTENDS Integers, FiniteSets

CONSTANTS
  Trials,    \* k, at least 2
  Attempts,  \* LAZY_MINT_MAX_ATTEMPTS, 5
  Criteria,  \* the task's criteria
  Rows,      \* criterion results the judge may return
  NULL

\* A criterion result of /finalize: pre is reason = PRE_SATISFIED_REASON.
WireRow == [passed : BOOLEAN, skipped : BOOLEAN, pre : BOOLEAN,
            state : {"none", "advisory", "abstained"}]

ASSUME TrialsAssumption == Trials \in Nat /\ Trials > 1 /\ Attempts \in Nat \ {0}
ASSUME RowsAssumption == IsFiniteSet(Criteria) /\ Rows \subseteq WireRow

VARIABLES
  phase,    \* of the group
  minted,   \* sessions.length: the upfront mints, and the number of workers
  next,     \* nextTrial
  at,       \* where each trial is
  tries,    \* lazy mints refused so far
  report,   \* what runTaskHosted returned or threw
  deleted,  \* trials whose session was sent a DELETE
  cloud,    \* state of each trial's session at the control plane
  judged,   \* what its evaluation returned
  exit      \* groupExitCode

cli == <<phase, minted, next, at, tries, report, deleted, exit>>
vars == <<phase, minted, next, at, tries, report, deleted, cloud, judged, exit>>

Ids == 1 .. Trials

\* results is NULL from a cloud that returns no criteria_results.
Judgements == [cleared : BOOLEAN, results : [Criteria -> Rows] \cup {NULL}]

ASSUME NullAssumption == NULL \notin Int \cup [Criteria -> Rows] \cup Judgements

-----------------------------------------------------------------------------
(* The verdict: counts over the rows, as the code takes them. *)

OutcomeOf(r) == IF r.skipped THEN "skipped" ELSE IF r.passed THEN "passed" ELSE "failed"

IsPreSatisfied(r) == r.skipped /\ r.pre

IsNarrated(r) == r.skipped /\ r.state # "none"

ExemptEitherWay(r) == IsNarrated(r)

\* Disjoint from the rows IsPreSatisfied counts.
ExemptNarrated(r) == IsNarrated(r) /\ ~IsPreSatisfied(r)

Scored(results) == {c \in Criteria : OutcomeOf(results[c]) \in {"passed", "failed"}}

\* The abstentions that block a pass.
Unresolved(results) ==
  Cardinality({c \in Criteria : OutcomeOf(results[c]) = "skipped"})
    - Cardinality({c \in Criteria : IsPreSatisfied(results[c])})
    - Cardinality({c \in Criteria : ExemptNarrated(results[c])})

CanPass(j) == \/ j.results = NULL
              \/ Scored(j.results) # {} /\ Unresolved(j.results) = 0

ScoreStatus(j) == IF ~CanPass(j) THEN "incomplete"
                  ELSE IF j.cleared THEN "pass" ELSE "fail"

Verdicts == {"pass", "fail", "incomplete"}

\* Why a trial errored: its lazy mint, something before runTaskHosted's try,
\* its agent, or a crash inside the try.
Errors == {"mint", "prepare", "agent", "crash"}

-----------------------------------------------------------------------------
Init == /\ phase = "minting" /\ minted = 0 /\ next = 1
        /\ at = [i \in Ids |-> "pending"]
        /\ tries = [i \in Ids |-> 0]
        /\ report = [i \in Ids |-> "none"]
        /\ deleted = {}
        /\ cloud = [i \in Ids |-> "none"]
        /\ judged = [i \in Ids |-> NULL]
        /\ exit = NULL

\* What a request that reaches the cloud, or not, leaves of a session.
Abandoned(c) == IF c = "open" THEN "abandoned" ELSE c
Discarded(c) == IF c = "open" THEN "discarded" ELSE c

(* Minting upfront: one session per trial until the quota says no. *)
MintUpfront ==
  /\ phase = "minting" /\ minted < Trials
  /\ minted' = minted + 1
  /\ cloud' = [cloud EXCEPT ![minted + 1] = "open"]
  /\ phase' = IF minted + 1 = Trials THEN "running" ELSE phase
  /\ UNCHANGED <<next, at, tries, report, deleted, judged, exit>>

EvenNone == TRUE

\* A quota refusal bounds the concurrency only after a first mint.
SomeMinted == minted > 0

MintBounded ==
  /\ phase = "minting" /\ minted < Trials /\ SomeMinted
  /\ phase' = "running"
  /\ UNCHANGED <<minted, next, at, tries, report, deleted, cloud, judged, exit>>

\* Any other failure discards what was minted; a mint whose answer was lost
\* stays open at the cloud, where the CLI does not know its id.
MintAborted ==
  /\ phase = "minting" /\ minted < Trials
  /\ phase' = "failed"
  /\ deleted' = 1 .. minted
  /\ \E orphan \in {"none", "open"}, delivered \in SUBSET (1 .. minted) :
       cloud' = [i \in Ids |-> CASE i \in delivered  -> Discarded(cloud[i])
                                 [] i = minted + 1   -> orphan
                                 [] OTHER            -> cloud[i]]
  /\ UNCHANGED <<minted, next, at, tries, report, judged, exit>>

-----------------------------------------------------------------------------
(* A worker's loop, and one trial of it. *)

Busy == {i \in Ids : at[i] \notin {"pending", "over"}}

AllButLast == next < Trials

MoreTrials == next <= Trials

Take == /\ phase = "running" /\ MoreTrials /\ Cardinality(Busy) < minted
        /\ at' = [at EXCEPT ![next] = IF next <= minted THEN "prepare" ELSE "mint"]
        /\ next' = next + 1
        /\ UNCHANGED <<phase, minted, tries, report, deleted, cloud, judged, exit>>

Moves(i, from, to) == at[i] = from /\ at' = [at EXCEPT ![i] = to]

Reports(i, r) == report' = [report EXCEPT ![i] = r]

LazyMint(i) ==
  /\ Moves(i, "mint", "prepare")
  /\ cloud' = [cloud EXCEPT ![i] = "open"]
  /\ UNCHANGED <<phase, minted, next, tries, report, deleted, judged, exit>>

MintRetried(i) ==
  /\ at[i] = "mint" /\ tries[i] + 1 < Attempts
  /\ tries' = [tries EXCEPT ![i] = @ + 1]
  /\ UNCHANGED <<phase, minted, next, at, report, deleted, cloud, judged, exit>>

\* The last refusal, or a failure that is no quota refusal.
MintFails(i) ==
  /\ Moves(i, "mint", "over") /\ Reports(i, "mint")
  /\ \E orphan \in {"none", "open"} : cloud' = [cloud EXCEPT ![i] = orphan]
  /\ UNCHANGED <<phase, minted, next, tries, deleted, judged, exit>>

\* Parse and read the task, resolve the agent: all before the try.
Prepare(i) ==
  /\ \/ Moves(i, "prepare", "start") /\ UNCHANGED report
     \/ Moves(i, "prepare", "over") /\ Reports(i, "prepare")
  /\ UNCHANGED <<phase, minted, next, tries, deleted, cloud, judged, exit>>

\* A throw inside the try: the catch abandons, then the finally deletes.
Crashes(i, from) == Moves(i, from, "abandon") /\ Reports(i, "crash")

FetchInitial(i) ==
  /\ \/ Moves(i, "start", "agent") /\ UNCHANGED report
     \/ Crashes(i, "start")
  /\ UNCHANGED <<phase, minted, next, tries, deleted, cloud, judged, exit>>

AgentEndsTrial(i) == Moves(i, "agent", "over") /\ Reports(i, "agent")

\* A preflight or a run that timed out or exited non-zero.
AgentFails(i) == Moves(i, "agent", "abandon") /\ Reports(i, "agent")

RunAgent(i) ==
  /\ \/ Moves(i, "agent", "collect") /\ UNCHANGED report
     \/ AgentFails(i)
  /\ UNCHANGED <<phase, minted, next, tries, deleted, cloud, judged, exit>>

Collect(i) ==
  /\ \/ Moves(i, "collect", "finalize") /\ UNCHANGED report
     \/ Crashes(i, "collect")
  /\ UNCHANGED <<phase, minted, next, tries, deleted, cloud, judged, exit>>

Evaluates(i, j) == /\ cloud' = [cloud EXCEPT ![i] = "judged"]
                   /\ judged' = [judged EXCEPT ![i] = j]

Verdict(i, from, j) == Moves(i, from, "delete") /\ Reports(i, ScoreStatus(j))

\* Finalize answers 200 with the score, 202 with a status to poll, or fails.
FinalizeScored(i) ==
  /\ cloud[i] = "open"
  /\ \E j \in Judgements : Verdict(i, "finalize", j) /\ Evaluates(i, j)
  /\ UNCHANGED <<phase, minted, next, tries, deleted, exit>>

FinalizeAccepted(i) ==
  /\ cloud[i] = "open" /\ Moves(i, "finalize", "poll")
  /\ cloud' = [cloud EXCEPT ![i] = "evaluating"]
  /\ UNCHANGED <<phase, minted, next, tries, report, deleted, judged, exit>>

\* Refused, never received, or received and its answer lost.
FinalizeFails(i) ==
  /\ Crashes(i, "finalize")
  /\ \/ UNCHANGED <<cloud, judged>>
     \/ /\ cloud[i] = "open"
        /\ \/ cloud' = [cloud EXCEPT ![i] = "evaluating"] /\ UNCHANGED judged
           \/ \E j \in Judgements : Evaluates(i, j)
  /\ UNCHANGED <<phase, minted, next, tries, deleted, exit>>

PollCompleted(i) ==
  /\ cloud[i] = "judged" /\ Verdict(i, "poll", judged[i])
  /\ UNCHANGED <<phase, minted, next, tries, deleted, cloud, judged, exit>>

\* The evaluation failed, the deadline passed, or a status request was
\* refused; transient failures are polled again.
PollFails(i) ==
  /\ Crashes(i, "poll")
  /\ UNCHANGED <<phase, minted, next, tries, deleted, cloud, judged, exit>>

Abandon(i) ==
  /\ Moves(i, "abandon", "delete")
  /\ cloud' \in {cloud, [cloud EXCEPT ![i] = Abandoned(@)]}
  /\ UNCHANGED <<phase, minted, next, tries, report, deleted, judged, exit>>

\* The finally: a DELETE that confirms the discard of an ungraded session.
Delete(i) ==
  /\ Moves(i, "delete", "over") /\ deleted' = deleted \cup {i}
  /\ cloud' \in {cloud, [cloud EXCEPT ![i] = Discarded(@)]}
  /\ UNCHANGED <<phase, minted, next, tries, report, judged, exit>>

-----------------------------------------------------------------------------
(* The control plane: evaluates what it accepted, expires what stays open. *)

Evaluate(i) ==
  /\ cloud[i] = "evaluating"
  /\ \/ \E j \in Judgements : Evaluates(i, j)
     \/ cloud' = [cloud EXCEPT ![i] = "failed"] /\ UNCHANGED judged
  /\ UNCHANGED cli

Expire(i) ==
  /\ cloud[i] = "open"
  /\ cloud' = [cloud EXCEPT ![i] = "expired"]
  /\ UNCHANGED <<cli, judged>>

-----------------------------------------------------------------------------
(* The end of the group. *)

Completed == {i \in Ids : report[i] \in Verdicts}

GroupExitCode == IF Completed = {} THEN 2
                 ELSE IF \A i \in Completed : report[i] = "pass" THEN 0 ELSE 1

Finish ==
  /\ phase = "running" /\ ~MoreTrials /\ Busy = {}
  /\ phase' = "done" /\ exit' = GroupExitCode
  /\ UNCHANGED <<minted, next, at, tries, report, deleted, cloud, judged>>

Mint == MintUpfront \/ MintBounded \/ MintAborted

\* Awaits that nothing in the code bounds: the POST /v1/agents of Prepare has no
\* timeout, fetchState and fetchEvents clear theirs before the body is read, and
\* a killed agent is waited for until its pipes close.
Unbounded(i) == Prepare(i) \/ FetchInitial(i) \/ RunAgent(i) \/ Collect(i)

\* The others: the timeout of postJson and deleteSession covers the body, the
\* poll has a deadline and the lazy mint a last attempt.
Bounded(i) ==
  \/ LazyMint(i) \/ MintRetried(i) \/ MintFails(i)
  \/ FinalizeScored(i) \/ FinalizeAccepted(i) \/ FinalizeFails(i)
  \/ PollCompleted(i) \/ PollFails(i) \/ Abandon(i) \/ Delete(i)

Step(i) == Unbounded(i) \/ Bounded(i)

Next == Mint \/ Take \/ Finish \/ \E i \in Ids : Step(i) \/ Evaluate(i) \/ Expire(i)

\* What the code's own timeouts bound comes to an end.  Nothing is assumed of the
\* cloud, nor of the awaits without a bound.
Fairness == /\ WF_vars(Mint) /\ WF_vars(Take) /\ WF_vars(Finish)
            /\ \A i \in Ids : WF_vars(Bounded(i))

Spec == Init /\ [][Next]_vars /\ Fairness

-----------------------------------------------------------------------------
(* A group that runs has a worker: a quota refusal of the very first mint  *)
(* fails the group instead (runTrialGroup.ts, 167-195 and 302).            *)
TypeOK ==
  /\ phase \in {"minting", "running", "failed", "done"}
  /\ minted \in 0 .. Trials /\ (phase \in {"running", "done"} => minted > 0)
  /\ next \in 1 .. Trials + 1
  /\ at \in [Ids -> {"pending", "mint", "prepare", "start", "agent", "collect",
                     "finalize", "poll", "abandon", "delete", "over"}]
  /\ tries \in [Ids -> 0 .. Attempts - 1]
  /\ report \in [Ids -> Verdicts \cup Errors \cup {"none"}]
  /\ deleted \subseteq Ids
  /\ cloud \in [Ids -> {"none", "open", "evaluating", "judged", "failed",
                        "abandoned", "discarded", "expired"}]
  /\ judged \in [Ids -> Judgements \cup {NULL}]
  /\ exit \in {NULL, 0, 1, 2}

\* Some criterion was scored, and whatever was not is a row the grader did
\* reach a verdict on: true in the seed, or the narrator's.
Complete(results) ==
  /\ \E c \in Criteria : ~results[c].skipped
  /\ \A c \in Criteria : results[c].skipped => results[c].pre \/ results[c].state # "none"

Clean(j) == j.cleared /\ (j.results = NULL \/ Complete(j.results))

(* What a row and the exit code say is what the cloud judged: a completed  *)
(* row has a judgement behind it and "pass" means a complete one over the  *)
(* threshold, whatever mixture of exempt and missing rows the judge sent;  *)
(* a trial whose agent failed was never evaluated; exit 0 needs a completed *)
(* trial and no incomplete or failed one (scoreFromFinalizeResponse,       *)
(* scoreStatus, groupExitCode, runTaskHosted.ts 348-404).                  *)
RowsFaithful ==
  /\ \A i \in Completed : /\ cloud[i] = "judged" /\ judged[i] # NULL
                          /\ report[i] = "pass" <=> Clean(judged[i])
  /\ \A i \in Ids : report[i] = "agent" => cloud[i] \notin {"evaluating", "judged"}
  /\ exit = 0 => Completed # {} /\ \A i \in Completed : Clean(judged[i])

\* Sessions the CLI could not, or did not, know to delete: the answer of
\* the mint was lost, or the trial failed before its try.
Unowned(i) == \/ report[i] \in {"mint", "prepare"}
              \/ phase = "failed" /\ i = minted + 1

(* When the group is over, a session still open at the cloud was sent a    *)
(* DELETE that did not arrive, or is one the trial does not own: no path   *)
(* through rollback, agent failure, crash or verdict forgets one           *)
(* (runTrialGroup.ts 180-194, runTaskHosted.ts 692-714).                   *)
SessionsReleased ==
  phase \in {"failed", "done"} =>
    \A i \in Ids : cloud[i] = "open" => i \in deleted \/ Unowned(i)

WaitsUnbounded(i) == at[i] \in {"prepare", "start", "agent", "collect"}

(* If no trial stays for ever in an await without a bound, the group ends, *)
(* with a row for every trial or none: quota refusals, lost answers and a  *)
(* cloud that never evaluates what it accepted do not keep it              *)
(* (runTrialGroup.ts 206-218 and 300-309, client.ts 782-852).              *)
GroupEnds ==
  (\A i \in Ids : []<>~WaitsUnbounded(i))
  => <>(\/ phase = "failed"
        \/ phase = "done" /\ \A i \in Ids : report[i] # "none")

=============================================================================
