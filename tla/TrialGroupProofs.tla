---------------------------- MODULE TrialGroupProofs ----------------------------
(***************************************************************************)
(* Proofs about TrialGroup, for any number of trials, of lazy mints, of    *)
(* criteria and of criterion results.                                      *)
(***************************************************************************)
EXTENDS TrialGroup, FiniteSetTheorems, TLAPS

(***************************************************************************)
(* The inductive invariant.  Workers take trials in order, so those from   *)
(* next on are pending; where a trial is tells what it has reported and    *)
(* how far its session can have come, which is what keeps a judgement from *)
(* being replaced and a failed agent from being finalized.                 *)
(***************************************************************************)
Before == {"pending", "mint", "prepare", "start", "agent", "collect", "finalize"}

InOrder ==
  /\ \A i \in Ids : at[i] = "pending" <=> i >= next
  /\ phase \in {"minting", "failed"} => next = 1
  /\ phase = "done" => next > Trials /\ Busy = {}
  /\ exit # NULL => phase = "done"

Unreported ==
  \A i \in Ids : at[i] \in Before \cup {"poll"} => report[i] = "none"

NotYetTaken ==
  \A i \in Ids :
    /\ at[i] \in Before => cloud[i] \notin {"evaluating", "judged"}
    /\ cloud[i] = "judged" => judged[i] \in Judgements

Owned ==
  /\ \A i \in Ids : at[i] \in {"pending", "mint"} /\ i > minted =>
                      \/ cloud[i] = "none"
                      \/ phase = "failed" /\ i = minted + 1
  /\ phase = "failed" => \A i \in Ids : i <= minted => i \in deleted
  /\ \A i \in Ids : at[i] = "over" /\ cloud[i] = "open" =>
                      i \in deleted \/ report[i] \in {"mint", "prepare"}

Faithful == /\ TypeOK /\ InOrder /\ Unreported /\ NotYetTaken /\ RowsFaithful

IInv == Faithful /\ Owned

-----------------------------------------------------------------------------
(* The verdict's arithmetic: subtracting the exempt rows leaves nothing    *)
(* exactly when every skipped row is exempt, because the two kinds of      *)
(* exempt rows are disjoint and both skipped.                              *)
LEMMA PassIsClean ==
  ASSUME NEW j \in Judgements
  PROVE  ScoreStatus(j) \in Verdicts /\ (ScoreStatus(j) = "pass" <=> Clean(j))
<1>1. CASE j.results = NULL
  BY <1>1 DEF ScoreStatus, CanPass, Clean, Verdicts, Judgements
<1>2. CASE j.results # NULL
  <2> DEFINE rs == j.results
             S == {c \in Criteria : OutcomeOf(rs[c]) = "skipped"}
             P == {c \in Criteria : IsPreSatisfied(rs[c])}
             N == {c \in Criteria : ExemptNarrated(rs[c])}
  <2>1. \A c \in Criteria : rs[c] \in WireRow
    BY <1>2, RowsAssumption DEF Judgements
  <2>2. S \subseteq Criteria /\ P \cup N \subseteq S /\ P \cap N = {}
    BY <2>1 DEF OutcomeOf, IsPreSatisfied, ExemptNarrated, IsNarrated, WireRow
  <2>3. IsFiniteSet(S) /\ IsFiniteSet(P) /\ IsFiniteSet(N) /\ IsFiniteSet(P \cup N)
    <3>1. IsFiniteSet(S) BY <2>2, RowsAssumption, FS_Subset
    <3> HIDE DEF S, P, N
    <3> QED BY <3>1, <2>2, FS_Subset
  <2>4. Cardinality(P \cup N) = Cardinality(P) + Cardinality(N)
    <3> HIDE DEF S, P, N
    <3>1. Cardinality(P \cup N)
            = Cardinality(P) + Cardinality(N) - Cardinality(P \cap N)
      BY <2>3, FS_Union
    <3>2. Cardinality(P \cap N) = 0 BY <2>2, FS_EmptySet
    <3>3. Cardinality(P) \in Nat /\ Cardinality(N) \in Nat BY <2>3, FS_CardinalityType
    <3> QED BY <3>1, <3>2, <3>3
  <2>5. Cardinality(S) = Cardinality(P \cup N) <=> S = P \cup N
    <3> HIDE DEF S, P, N
    <3> QED BY <2>2, <2>3, FS_Subset
  <2>6. Unresolved(rs) = 0 <=> S = P \cup N
    <3>1. Unresolved(rs) = Cardinality(S) - Cardinality(P) - Cardinality(N)
      BY DEF Unresolved
    <3> HIDE DEF S, P, N
    <3>2. /\ Cardinality(S) \in Nat /\ Cardinality(P) \in Nat /\ Cardinality(N) \in Nat
      BY <2>3, FS_CardinalityType
    <3> QED BY <3>1, <3>2, <2>4, <2>5
  <2>7. S = P \cup N
          <=> \A c \in Criteria : rs[c].skipped => rs[c].pre \/ rs[c].state # "none"
    BY <2>1 DEF OutcomeOf, IsPreSatisfied, ExemptNarrated, IsNarrated, WireRow
  <2>8. Scored(rs) # {} <=> \E c \in Criteria : ~rs[c].skipped
    BY <2>1 DEF Scored, OutcomeOf, WireRow
  <2>9. CanPass(j) <=> Complete(rs)
    <3> HIDE DEF S, P, N
    <3> QED BY <1>2, <2>6, <2>7, <2>8 DEF CanPass, Complete
  <2> QED BY <1>2, <2>9 DEF ScoreStatus, Clean, Verdicts, Judgements
<1> QED BY <1>1, <1>2

(***************************************************************************)
(* What a step of a trial may touch.                                       *)
(***************************************************************************)
LEMMA StepShape ==
  ASSUME TypeOK, NEW i \in Ids, Step(i)
  PROVE  /\ at[i] \notin {"pending", "over"} /\ at'[i] # "pending"
         /\ \A k \in Ids \ {i} : /\ at'[k] = at[k] /\ report'[k] = report[k]
                                 /\ cloud'[k] = cloud[k] /\ judged'[k] = judged[k]
         /\ deleted \subseteq deleted'
         /\ UNCHANGED <<phase, minted, next, exit>>
BY DEF TypeOK, Step, Unbounded, Bounded,
    LazyMint, MintRetried, MintFails, Prepare, FetchInitial, RunAgent,
       AgentFails, Collect, FinalizeScored, FinalizeAccepted, FinalizeFails, PollCompleted,
       PollFails, Abandon, Delete, Moves, Reports, Crashes, Verdict, Evaluates

-----------------------------------------------------------------------------
LEMMA InitFaithful == Init => IInv
<1> SUFFICES ASSUME Init PROVE IInv
  OBVIOUS
<1> USE TrialsAssumption, NullAssumption DEF Init, Ids
<1>1. TypeOK BY DEF TypeOK
<1>2. InOrder BY DEF InOrder, Busy
<1>3. Unreported BY DEF Unreported
<1>4. NotYetTaken BY DEF NotYetTaken
<1>5. RowsFaithful BY DEF RowsFaithful, Completed, Verdicts
<1>6. Owned BY DEF Owned, Before
<1> QED BY <1>1, <1>2, <1>3, <1>4, <1>5, <1>6 DEF IInv, Faithful

LEMMA StepType ==
  ASSUME TypeOK, NotYetTaken, NEW i \in Ids, Step(i)
  PROVE  TypeOK'
<1> USE TrialsAssumption DEF TypeOK, Ids
<1>1. CASE LazyMint(i)
  BY <1>1 DEF LazyMint, Moves
<1>2. CASE MintRetried(i)
  BY <1>2 DEF MintRetried
<1>3. CASE MintFails(i)
  BY <1>3 DEF MintFails, Moves, Reports, Errors
<1>4. CASE Prepare(i)
  BY <1>4 DEF Prepare, Moves, Reports, Errors
<1>5. CASE FetchInitial(i)
  BY <1>5 DEF FetchInitial, Crashes, Moves, Reports, Errors
<1>6. CASE RunAgent(i)
  BY <1>6 DEF RunAgent, AgentFails, Moves, Reports, Errors
<1>7. CASE Collect(i)
  BY <1>7 DEF Collect, Crashes, Moves, Reports, Errors
<1>8. CASE FinalizeScored(i)
  <2>1. PICK j \in Judgements : Verdict(i, "finalize", j) /\ Evaluates(i, j)
    BY <1>8 DEF FinalizeScored
  <2>2. ScoreStatus(j) \in Verdicts
    BY <2>1, PassIsClean
  <2> QED BY <1>8, <2>1, <2>2 DEF FinalizeScored, Verdict, Evaluates, Moves, Reports
<1>9. CASE FinalizeAccepted(i)
  BY <1>9 DEF FinalizeAccepted, Moves
<1>10. CASE FinalizeFails(i)
  BY <1>10 DEF FinalizeFails, Crashes, Evaluates, Moves, Reports, Errors
<1>11. CASE PollCompleted(i)
  <2>1. ScoreStatus(judged[i]) \in Verdicts
    BY <1>11, PassIsClean DEF PollCompleted, NotYetTaken
  <2> QED BY <1>11, <2>1 DEF PollCompleted, Verdict, Moves, Reports
<1>12. CASE PollFails(i)
  BY <1>12 DEF PollFails, Crashes, Moves, Reports, Errors
<1>13. CASE Abandon(i)
  BY <1>13 DEF Abandon, Abandoned, Moves
<1>14. CASE Delete(i)
  BY <1>14 DEF Delete, Discarded, Moves
<1> QED
  BY <1>1, <1>2, <1>3, <1>4, <1>5, <1>6, <1>7, <1>8, <1>9, <1>10, <1>11, <1>12, <1>13,
     <1>14 DEF Step, Unbounded, Bounded

\* The steps of the group and of the cloud.
LEMMA GroupType ==
  ASSUME IInv, \/ Mint \/ Take \/ Finish
               \/ \E i \in Ids : Evaluate(i) \/ Expire(i)
  PROVE  TypeOK'
<1> USE TrialsAssumption DEF IInv, Faithful, TypeOK, Ids
<1>1. CASE MintUpfront
  BY <1>1 DEF MintUpfront
<1>2. CASE MintBounded
  BY <1>2 DEF MintBounded, SomeMinted
<1>3. CASE MintAborted
  <2>1. PICK orphan \in {"none", "open"}, delivered \in SUBSET (1 .. minted) :
          cloud' = [i \in Ids |-> CASE i \in delivered  -> Discarded(cloud[i])
                                    [] i = minted + 1   -> orphan
                                    [] OTHER            -> cloud[i]]
    BY <1>3 DEF MintAborted
  <2> QED BY <1>3, <2>1 DEF MintAborted, Discarded
<1>4. CASE Take
  BY <1>4 DEF Take, MoreTrials
<1>5. CASE Finish
  BY <1>5 DEF Finish, GroupExitCode, Completed, InOrder
<1>6. ASSUME NEW i \in Ids, Evaluate(i) PROVE TypeOK'
  BY <1>6 DEF Evaluate, Evaluates, cli
<1>7. ASSUME NEW i \in Ids, Expire(i) PROVE TypeOK'
  BY <1>7 DEF Expire, cli
<1> QED BY <1>1, <1>2, <1>3, <1>4, <1>5, <1>6, <1>7 DEF Mint

-----------------------------------------------------------------------------
(* The steps of a trial preserve the rest of the invariant.                *)

LEMMA StepInOrder ==
  ASSUME TypeOK, InOrder, NEW i \in Ids, Step(i)
  PROVE  InOrder'
<1>1. /\ at[i] \notin {"pending", "over"} /\ at'[i] # "pending"
      /\ \A k \in Ids \ {i} : at'[k] = at[k]
      /\ UNCHANGED <<phase, minted, next, exit>>
  BY StepShape
<1>2. i < next
  BY <1>1 DEF InOrder, TypeOK, Ids
<1>3. phase \notin {"minting", "failed", "done"}
  BY <1>1, <1>2 DEF InOrder, Busy, TypeOK, Ids
<1> QED
  BY <1>1, <1>2, <1>3 DEF InOrder, TypeOK

LEMMA StepReported ==
  ASSUME TypeOK, Unreported, NotYetTaken, NEW i \in Ids, Step(i)
  PROVE  Unreported' /\ NotYetTaken'
<1>1. \A k \in Ids \ {i} : /\ at'[k] = at[k] /\ report'[k] = report[k]
                           /\ cloud'[k] = cloud[k] /\ judged'[k] = judged[k]
  BY StepShape
<1>2. /\ at'[i] \in Before \cup {"poll"} => report'[i] = "none"
      /\ at'[i] \in Before => cloud'[i] \notin {"evaluating", "judged"}
      /\ cloud'[i] = "judged" => judged'[i] \in Judgements
  BY DEF TypeOK, Unreported, NotYetTaken, Before, Step, Unbounded, Bounded,
      LazyMint, MintRetried, MintFails,
         Prepare, FetchInitial, RunAgent, AgentFails, Collect, FinalizeScored,
         FinalizeAccepted, FinalizeFails, PollCompleted, PollFails, Abandon, Abandoned,
         Delete, Discarded, Moves, Reports, Crashes, Verdict, Evaluates
<1> QED
  BY <1>1, <1>2 DEF Unreported, NotYetTaken

\* A trial that has a verdict has the judgement it was taken from.
Told(i) == /\ report[i] \in Verdicts => /\ cloud[i] = "judged" /\ judged[i] # NULL
                                        /\ report[i] = "pass" <=> Clean(judged[i])
           /\ report[i] = "agent" => cloud[i] \notin {"evaluating", "judged"}

LEMMA StepTold ==
  ASSUME TypeOK, Unreported, NotYetTaken, RowsFaithful, NEW i \in Ids, Step(i)
  PROVE  Told(i)'
<1> USE DEF TypeOK, Told
<1>1. Told(i) /\ NULL \notin Judgements
  BY NullAssumption DEF RowsFaithful, Completed
<1>2. CASE LazyMint(i) \/ MintRetried(i) \/ MintFails(i) \/ Prepare(i)
  BY <1>1, <1>2 DEF LazyMint, MintRetried, MintFails, Prepare, Moves, Reports, Unreported,
                    Before, Verdicts
<1>3. CASE FetchInitial(i) \/ RunAgent(i) \/ Collect(i)
  BY <1>1, <1>3 DEF FetchInitial, RunAgent, AgentFails, Collect, Crashes, Moves, Reports,
                    NotYetTaken, Before, Verdicts
<1>4. CASE FinalizeScored(i)
  <2>1. PICK j \in Judgements : Verdict(i, "finalize", j) /\ Evaluates(i, j)
    BY <1>4 DEF FinalizeScored
  <2>2. report'[i] = ScoreStatus(j) /\ cloud'[i] = "judged" /\ judged'[i] = j
    BY <2>1 DEF Verdict, Evaluates, Reports
  <2>3. ScoreStatus(j) \in Verdicts /\ (ScoreStatus(j) = "pass" <=> Clean(j))
    BY <2>1, PassIsClean
  <2> QED BY <1>1, <2>1, <2>2, <2>3 DEF Verdicts
<1>5. CASE FinalizeAccepted(i) \/ FinalizeFails(i) \/ PollFails(i)
  BY <1>1, <1>5 DEF FinalizeAccepted, FinalizeFails, PollFails, Crashes, Evaluates, Moves,
                    Reports, Unreported, Before, Verdicts
<1>6. CASE PollCompleted(i)
  <2>1. judged[i] \in Judgements /\ cloud[i] = "judged"
    BY <1>6 DEF PollCompleted, NotYetTaken
  <2>2. /\ report'[i] = ScoreStatus(judged[i])
        /\ cloud'[i] = cloud[i] /\ judged'[i] = judged[i]
    BY <1>6 DEF PollCompleted, Verdict, Reports
  <2>3. /\ ScoreStatus(judged[i]) \in Verdicts
        /\ ScoreStatus(judged[i]) = "pass" <=> Clean(judged[i])
    BY <2>1, PassIsClean
  <2> QED BY <1>1, <2>1, <2>2, <2>3 DEF Verdicts
<1>7. CASE Abandon(i) \/ Delete(i)
  BY <1>1, <1>7 DEF Abandon, Delete, Abandoned, Discarded, Moves
<1> QED BY <1>2, <1>3, <1>4, <1>5, <1>6, <1>7 DEF Step, Unbounded, Bounded

LEMMA StepFaithful ==
  ASSUME Faithful, NEW i \in Ids, Step(i)
  PROVE  RowsFaithful'
<1>1. Told(i)'
  BY StepTold DEF Faithful
<1>2. /\ \A k \in Ids \ {i} : /\ at'[k] = at[k] /\ report'[k] = report[k]
                              /\ cloud'[k] = cloud[k] /\ judged'[k] = judged[k]
      /\ UNCHANGED exit
  BY StepShape DEF Faithful
<1>3. \A k \in Ids : Told(k)'
  BY <1>1, <1>2 DEF Told, Faithful, RowsFaithful, Completed
<1>4. exit # 0
  <2>1. at[i] \notin {"pending", "over"}
    BY StepShape DEF Faithful
  <2> QED BY <2>1, NullAssumption DEF Faithful, InOrder, Busy
<1> QED BY <1>2, <1>3, <1>4 DEF RowsFaithful, Told, Completed

LEMMA StepOwned ==
  ASSUME IInv, NEW i \in Ids, Step(i)
  PROVE  Owned'
<1> USE DEF IInv, Faithful, TypeOK
<1>1. /\ \A k \in Ids \ {i} : /\ at'[k] = at[k] /\ report'[k] = report[k]
                              /\ cloud'[k] = cloud[k]
      /\ deleted \subseteq deleted'
      /\ UNCHANGED <<phase, minted>>
  BY StepShape
<1>2. /\ at'[i] # "pending"
      /\ at'[i] = "mint" => at[i] = "mint" /\ cloud'[i] = cloud[i]
      /\ at'[i] = "over" => i \in deleted' \/ report'[i] \in {"mint", "prepare"}
  BY DEF Step, Unbounded, Bounded, LazyMint, MintRetried, MintFails,
         Prepare, FetchInitial, RunAgent, AgentFails, Collect, FinalizeScored,
         FinalizeAccepted, FinalizeFails, PollCompleted, PollFails, Abandon,
         Delete, Moves, Reports, Crashes, Verdict
<1> QED BY <1>1, <1>2 DEF Owned

-----------------------------------------------------------------------------
(* The steps of the group and of the cloud.                                *)

LEMMA GroupKeeps ==
  ASSUME IInv, Mint \/ Take \/ Finish
  PROVE  InOrder' /\ Unreported' /\ NotYetTaken' /\ RowsFaithful' /\ Owned'
<1> USE TrialsAssumption, NullAssumption DEF IInv, Faithful, TypeOK, Ids
<1>1. CASE MintUpfront
  <2>1. /\ next = 1 /\ \A i \in Ids : at[i] = "pending" /\ report[i] = "none"
    BY <1>1 DEF MintUpfront, InOrder, Unreported, Before
  <2>2. InOrder' BY <1>1, <2>1 DEF MintUpfront, InOrder
  <2>3. Unreported' /\ NotYetTaken'
    BY <1>1, <2>1 DEF MintUpfront, Unreported, NotYetTaken, Before
  <2>4. RowsFaithful'
    BY <1>1, <2>1 DEF MintUpfront, RowsFaithful, Completed, Verdicts, InOrder
  <2>5. Owned' BY <1>1, <2>1 DEF MintUpfront, Owned
  <2> QED BY <2>2, <2>3, <2>4, <2>5
<1>2. CASE MintBounded
  <2>1. InOrder' BY <1>2 DEF MintBounded, InOrder
  <2>2. Unreported' /\ NotYetTaken' BY <1>2 DEF MintBounded, Unreported, NotYetTaken
  <2>3. RowsFaithful' BY <1>2 DEF MintBounded, RowsFaithful, Completed
  <2>4. Owned' BY <1>2 DEF MintBounded, Owned
  <2> QED BY <2>1, <2>2, <2>3, <2>4
<1>3. CASE MintAborted
  <2>1. PICK orphan \in {"none", "open"}, delivered \in SUBSET (1 .. minted) :
          cloud' = [i \in Ids |-> CASE i \in delivered  -> Discarded(cloud[i])
                                    [] i = minted + 1   -> orphan
                                    [] OTHER            -> cloud[i]]
    BY <1>3 DEF MintAborted
  <2>2. next = 1 /\ \A i \in Ids : at[i] = "pending" /\ report[i] = "none"
    BY <1>3 DEF MintAborted, InOrder, Unreported, Before
  <2>3. \A i \in Ids : /\ cloud'[i] \notin {"evaluating", "judged"}
                       /\ i > minted + 1 => cloud'[i] = cloud[i]
    BY <2>1, <2>2 DEF NotYetTaken, Before, Discarded
  <2>4. InOrder' BY <1>3, <2>2 DEF MintAborted, InOrder
  <2>5. Unreported' /\ NotYetTaken'
    BY <1>3, <2>2, <2>3 DEF MintAborted, Unreported, NotYetTaken
  <2>6. RowsFaithful'
    BY <1>3, <2>2 DEF MintAborted, RowsFaithful, Completed, Verdicts
  <2>7. Owned' BY <1>3, <2>2, <2>3 DEF MintAborted, Owned
  <2> QED BY <2>4, <2>5, <2>6, <2>7
<1>4. CASE Take
  <2>1. next \in Ids /\ at[next] = "pending"
    BY <1>4 DEF Take, MoreTrials, InOrder
  <2>2. InOrder' BY <1>4, <2>1 DEF Take, InOrder, Busy
  <2>3. Unreported' /\ NotYetTaken'
    BY <1>4, <2>1 DEF Take, Unreported, NotYetTaken, Before
  <2>4. RowsFaithful' BY <1>4 DEF Take, RowsFaithful, Completed
  <2>5. Owned' BY <1>4, <2>1 DEF Take, Owned
  <2> QED BY <2>2, <2>3, <2>4, <2>5
<1>5. CASE Finish
  <2>1. InOrder' BY <1>5 DEF Finish, InOrder, MoreTrials, Busy
  <2>2. Unreported' /\ NotYetTaken' BY <1>5 DEF Finish, Unreported, NotYetTaken
  <2>3. RowsFaithful'
    BY <1>5 DEF Finish, RowsFaithful, Completed, GroupExitCode
  <2>4. Owned' BY <1>5 DEF Finish, Owned
  <2> QED BY <2>1, <2>2, <2>3, <2>4
<1> QED BY <1>1, <1>2, <1>3, <1>4, <1>5 DEF Mint

LEMMA CloudKeeps ==
  ASSUME IInv, NEW i \in Ids, Evaluate(i) \/ Expire(i)
  PROVE  InOrder' /\ Unreported' /\ NotYetTaken' /\ RowsFaithful' /\ Owned'
<1> USE DEF IInv, Faithful, TypeOK, cli
<1>1. /\ cloud[i] \in {"evaluating", "open"}
      /\ \A k \in Ids \ {i} : cloud'[k] = cloud[k] /\ judged'[k] = judged[k]
      /\ UNCHANGED cli
  BY DEF Evaluate, Expire, Evaluates
<1>2. /\ cloud[i] = "open" => cloud'[i] = "expired"
      /\ cloud[i] = "evaluating" => cloud'[i] \in {"judged", "failed"}
      /\ cloud'[i] = "judged" => judged'[i] \in Judgements
  BY DEF Evaluate, Expire, Evaluates
<1>3. i \notin Completed /\ (cloud[i] = "evaluating" => report[i] # "agent")
  BY <1>1 DEF RowsFaithful
<1>4. InOrder' BY <1>1 DEF InOrder, Busy
<1>5. Unreported' BY <1>1 DEF Unreported
<1>6. NotYetTaken' BY <1>1, <1>2 DEF NotYetTaken
<1>7. RowsFaithful'
  BY <1>1, <1>2, <1>3 DEF RowsFaithful, Completed
<1>8. Owned'
  BY <1>1, <1>2 DEF Owned, NotYetTaken, Before
<1> QED BY <1>4, <1>5, <1>6, <1>7, <1>8

THEOREM Inductive == Spec => []IInv
<1>1. IInv /\ [Next]_vars => IInv'
  <2> SUFFICES ASSUME IInv, [Next]_vars PROVE IInv'
    OBVIOUS
  <2>1. CASE Mint \/ Take \/ Finish
    BY <2>1, GroupType, GroupKeeps DEF IInv, Faithful
  <2>2. ASSUME NEW i \in Ids, Step(i) PROVE IInv'
    BY <2>2, StepType, StepInOrder, StepReported, StepFaithful, StepOwned DEF IInv, Faithful
  <2>3. ASSUME NEW i \in Ids, Evaluate(i) \/ Expire(i) PROVE IInv'
    BY <2>3, GroupType, CloudKeeps DEF IInv, Faithful
  <2>4. CASE UNCHANGED vars
    <3> USE <2>4 DEF IInv, Faithful, vars
    <3>1. TypeOK' BY DEF TypeOK
    <3>2. InOrder' BY DEF InOrder, Busy
    <3>3. Unreported' /\ NotYetTaken' BY DEF Unreported, NotYetTaken
    <3>4. RowsFaithful' BY DEF RowsFaithful, Completed
    <3>5. Owned' BY DEF Owned
    <3> QED BY <3>1, <3>2, <3>3, <3>4, <3>5
  <2> QED BY <2>1, <2>2, <2>3, <2>4 DEF Next
<1> QED BY InitFaithful, <1>1, PTL DEF Spec

(* Every variable keeps its type; in particular a group that runs has a    *)
(* worker, whatever the quota refuses (runTrialGroup.ts 165-196).          *)
THEOREM TypeCorrect == Spec => []TypeOK
BY Inductive, PTL DEF IInv, Faithful

(* For any number of trials, criteria and criterion results, a row and the *)
(* exit code say what the cloud judged (scoreFromFinalizeResponse,         *)
(* scoreStatus, groupExitCode).                                            *)
THEOREM RowsFaithfulAlways == Spec => []RowsFaithful
BY Inductive, PTL DEF IInv, Faithful

(* Whatever fails and whatever is lost, the group leaves no session open   *)
(* that it knew of and did not try to delete (runTrialGroup.ts 180-194,    *)
(* runTaskHosted.ts 692-714).                                              *)
THEOREM SessionsReleasedAlways == Spec => []SessionsReleased
<1>1. IInv => SessionsReleased
  <2> SUFFICES ASSUME IInv, phase \in {"failed", "done"}, NEW i \in Ids, cloud[i] = "open"
               PROVE  i \in deleted \/ Unowned(i)
    BY DEF SessionsReleased
  <2> USE DEF IInv, Faithful, TypeOK, Ids
  <2>1. CASE phase = "failed"
    <3>1. at[i] = "pending" BY <2>1 DEF InOrder
    <3> QED BY <2>1, <3>1 DEF Owned, Unowned
  <2>2. CASE phase = "done"
    <3>1. i < next BY <2>2, TrialsAssumption DEF InOrder
    <3>2. at[i] = "over" BY <2>2, <3>1 DEF InOrder, Busy
    <3> QED BY <3>2 DEF Owned, Unowned
  <2> QED BY <2>1, <2>2
<1> QED BY Inductive, <1>1, PTL

-----------------------------------------------------------------------------
(***************************************************************************)
(* The safety halves of GroupEnds.  What is left to fairness is that the   *)
(* group takes its next step; that there are only so many of them, and     *)
(* that the last leaves a row for every trial, are invariants.             *)
(***************************************************************************)
Stage(place) ==
  CASE place = "pending" -> 0 [] place = "mint"     -> 1 [] place = "prepare" -> 2
    [] place = "start"   -> 3 [] place = "agent"    -> 4 [] place = "collect" -> 5
    [] place = "finalize" -> 6 [] place = "poll"    -> 7 [] place = "abandon" -> 8
    [] place = "delete"  -> 9 [] OTHER -> 10

GroupStage == CASE phase = "minting" -> 0 [] phase = "running" -> 1 [] OTHER -> 2

\* Nothing the group counts by ever goes back, and something has gone forward.
Forward ==
  /\ \A i \in Ids : Stage(at[i]) <= Stage(at'[i]) /\ tries[i] <= tries'[i]
  /\ minted <= minted' /\ GroupStage <= GroupStage'
  /\ \/ \E i \in Ids : Stage(at[i]) < Stage(at'[i]) \/ tries[i] < tries'[i]
     \/ minted < minted' \/ GroupStage < GroupStage'

\* Every step the client takes is one of a bounded number of them.
RunsDown == [][cli' # cli => Forward]_vars

\* A group that is done has an outcome for every trial.
EveryTrialReported == phase = "done" => \A i \in Ids : report[i] # "none"

LEMMA StepForward ==
  ASSUME TypeOK, NEW i \in Ids, Step(i)
  PROVE  Forward
<1>1. UNCHANGED <<minted, phase>>
  BY StepShape
<1>2. \A k \in Ids \ {i} : at'[k] = at[k]
  BY StepShape
<1>3. CASE MintRetried(i)
  <2>1. at' = at /\ tries' = [tries EXCEPT ![i] = tries[i] + 1]
    BY <1>3 DEF MintRetried
  <2>2. \A k \in Ids : tries[k] \in Nat /\ Stage(at[k]) \in Nat
    BY DEF TypeOK, Stage
  <2>3. tries'[i] = tries[i] + 1 /\ \A k \in Ids \ {i} : tries'[k] = tries[k]
    BY <2>1 DEF TypeOK
  <2>4. \A k \in Ids : tries[k] <= tries'[k]
    BY <2>2, <2>3
  <2>5. tries[i] < tries'[i] /\ minted <= minted' /\ GroupStage <= GroupStage'
    BY <1>1, <2>2, <2>3 DEF TypeOK, GroupStage
  <2>6. \A k \in Ids : Stage(at[k]) <= Stage(at'[k])
    BY <2>1, <2>2
  <2> QED BY <2>4, <2>5, <2>6 DEF Forward
<1>4. CASE ~MintRetried(i)
  <2>1. tries' = tries /\ Stage(at[i]) < Stage(at'[i])
    BY <1>4 DEF Step, Unbounded, Bounded,
        LazyMint, MintFails, Prepare, FetchInitial, RunAgent, AgentFails,
                Collect, FinalizeScored, FinalizeAccepted, FinalizeFails, PollCompleted,
                PollFails, Abandon, Delete, Moves, Crashes, Verdict, TypeOK, Stage
  <2>2. \A k \in Ids : tries[k] \in Nat /\ Stage(at[k]) \in Nat
    BY DEF TypeOK, Stage
  <2>3. \A k \in Ids \ {i} : Stage(at'[k]) = Stage(at[k])
    BY <1>2 DEF Stage
  <2>4. Stage(at'[i]) \in Nat
    BY DEF Stage
  <2>5. \A k \in Ids : Stage(at[k]) <= Stage(at'[k])
    <3>1. ASSUME NEW k \in Ids, k # i PROVE Stage(at[k]) <= Stage(at'[k])
      BY <3>1, <2>2, <2>3
    <3>2. Stage(at[i]) <= Stage(at'[i])
      BY <2>1, <2>2, <2>4
    <3> QED BY <3>1, <3>2
  <2>6. minted <= minted' /\ GroupStage <= GroupStage' /\ \A k \in Ids : tries[k] <= tries'[k]
    BY <1>1, <2>1, <2>2 DEF TypeOK, GroupStage
  <2> QED BY <2>1, <2>5, <2>6 DEF Forward
<1> QED BY <1>3, <1>4

\* The group takes a bounded number of steps of its own: each one moves a trial,
\* a retry, the mints or the group itself forward and nothing back, and TypeOK
\* bounds them all (runTrialGroup's mint loop and workers, mintLazily's retries).
THEOREM RunsDownAlways == Spec => RunsDown
<1>1. IInv /\ [Next]_vars => [cli' # cli => Forward]_vars
  <2> SUFFICES ASSUME IInv, Next, cli' # cli PROVE Forward
    OBVIOUS
  <2> USE DEF IInv, Faithful
  <2>1. \A k \in Ids : tries[k] \in Nat /\ Stage(at[k]) \in Nat
    BY DEF TypeOK, Stage
  <2>2. CASE Mint
    <3>1. UNCHANGED <<at, tries>>
      BY <2>2 DEF Mint, MintUpfront, MintBounded, MintAborted
    <3>2. minted <= minted' /\ GroupStage <= GroupStage'
          /\ (minted < minted' \/ GroupStage < GroupStage')
      BY <2>2 DEF Mint, MintUpfront, MintBounded, MintAborted, GroupStage, TypeOK
    <3> QED BY <2>1, <3>1, <3>2 DEF Forward, Stage
  <2>3. CASE Take
    <3>1. PICK n \in Ids : n = next /\ at[n] = "pending"
      BY <2>3, TrialsAssumption DEF Take, MoreTrials, InOrder, TypeOK, Ids
    <3>2. /\ at'[n] \in {"prepare", "mint"}
          /\ \A k \in Ids \ {n} : at'[k] = at[k]
          /\ UNCHANGED <<tries, minted, phase>>
      BY <2>3, <3>1 DEF Take, TypeOK
    <3>3. Stage(at[n]) < Stage(at'[n])
      BY <3>1, <3>2 DEF Stage
    <3>4. \A k \in Ids : Stage(at[k]) <= Stage(at'[k])
      <4>1. ASSUME NEW k \in Ids, k # n PROVE Stage(at[k]) <= Stage(at'[k])
        BY <2>1, <3>2, <4>1
      <4>2. Stage(at[n]) <= Stage(at'[n])
        BY <3>1, <3>2 DEF Stage
      <4> QED BY <4>1, <4>2
    <3>5. minted <= minted' /\ GroupStage <= GroupStage' /\ \A k \in Ids : tries[k] <= tries'[k]
      BY <2>1, <3>2 DEF GroupStage, TypeOK
    <3> QED BY <3>1, <3>3, <3>4, <3>5 DEF Forward
  <2>4. CASE Finish
    <3>1. UNCHANGED <<at, tries, minted>> /\ GroupStage = 1 /\ GroupStage' = 2
      BY <2>4 DEF Finish, GroupStage
    <3> QED BY <2>1, <3>1 DEF Forward, Stage, TypeOK
  <2>5. ASSUME NEW i \in Ids, Step(i) PROVE Forward
    BY <2>5, StepForward
  <2>6. ASSUME NEW i \in Ids, Evaluate(i) \/ Expire(i) PROVE FALSE
    BY <2>6 DEF Evaluate, Expire
  <2> QED BY <2>2, <2>3, <2>4, <2>5, <2>6 DEF Next
<1> QED BY Inductive, <1>1, PTL DEF Spec, RunsDown

\* A group that ended has a row for every trial: none is skipped by the workers
\* and none ends without a report (runTrialGroup.ts 197-300).
THEOREM EveryTrialReportedAlways == Spec => []EveryTrialReported
<1> DEFINE Ending == {"abandon", "delete", "over"}
           Reported == \A i \in Ids : at[i] \in Ending => report[i] # "none"
<1>1. Init => Reported
  BY DEF Init
<1>2. IInv /\ Reported /\ [Next]_vars => Reported'
  <2> SUFFICES ASSUME IInv, Reported, [Next]_vars PROVE Reported'
    OBVIOUS
  <2> USE DEF IInv, Faithful
  <2>1. ASSUME NEW i \in Ids, Step(i) PROVE Reported'
    <3>1. \A k \in Ids \ {i} : at'[k] = at[k] /\ report'[k] = report[k]
      BY <2>1, StepShape
    <3>2. at'[i] \in Ending => report'[i] # "none"
      <4>1. \A j \in Judgements : ScoreStatus(j) # "none"
        BY DEF ScoreStatus
      <4>2. CASE PollCompleted(i)
        BY <4>1, <4>2 DEF PollCompleted, Verdict, Moves, Reports, TypeOK, NotYetTaken
      <4>3. CASE ~PollCompleted(i)
        BY <2>1, <4>1, <4>3
           DEF Step, Unbounded, Bounded,
               LazyMint, MintRetried, MintFails, Prepare, FetchInitial, RunAgent,
               AgentFails, Collect, FinalizeScored, FinalizeAccepted, FinalizeFails,
               PollFails, Abandon, Delete, Moves, Reports, Crashes, Verdict, TypeOK
      <4> QED BY <4>2, <4>3
    <3> QED BY <3>1, <3>2
  <2>2. CASE Mint \/ Take \/ Finish
    BY <2>2 DEF Mint, MintUpfront, MintBounded, MintAborted, Take, Finish, TypeOK
  <2>3. ASSUME NEW i \in Ids, Evaluate(i) \/ Expire(i) PROVE Reported'
    BY <2>3 DEF Evaluate, Expire, cli
  <2>4. CASE UNCHANGED vars
    BY <2>4 DEF vars
  <2> QED BY <2>1, <2>2, <2>3, <2>4 DEF Next
<1>3. IInv /\ Reported => EveryTrialReported
  <2> SUFFICES ASSUME IInv, Reported, phase = "done", NEW i \in Ids PROVE report[i] # "none"
    BY DEF EveryTrialReported
  <2>1. i < next /\ at[i] # "pending" /\ Busy = {}
    BY TrialsAssumption DEF IInv, Faithful, InOrder, TypeOK, Ids
  <2> QED BY <2>1 DEF Busy
<1> QED BY Inductive, <1>1, <1>2, <1>3, PTL DEF Spec
=============================================================================
