------------------------------ MODULE LinearIssues ------------------------------
(***************************************************************************)
(* Issues, agent sessions and webhooks of twin-linear (domain/issues.ts,   *)
(* agents.ts, oauth-store.ts, webhooks/dispatch.ts).                       *)
(*                                                                         *)
(* A mutation changes the tables at once and then awaits one POST per      *)
(* matching webhook, in order, recording each; only then does a delegation *)
(* open the agent session.  Other requests, the removal of a webhook and a *)
(* reset run during those awaits.  A request is a record of what its       *)
(* handler holds while it is suspended; an id is the value the shared      *)
(* counter had, which a reset starts over.                                 *)
(*                                                                         *)
(* Left out: the texts and the people of an issue, its labels, relations,  *)
(* project and cycle, comments, documents and OAuth.  A state stands for   *)
(* all of its type.                                                        *)
(***************************************************************************)
EXTENDS Integers, FiniteSets

CONSTANTS
  Requests,    \* GraphQL mutations in flight at a time
  Agents,      \* app users an issue is delegated to
  NoAgent,     \* no delegate
  Types,       \* the state types that issues are moved to
  NewTypes,    \* and those they are created in
  Seeds,       \* [issues, delegated, hooks, counter] as applySeed leaves them
  MaxIds,      \* bound on ids since a reset
  MaxResets,   \* bound on resets
  MaxIssues,   \* bound on issues at a time
  Wanted       \* the resourceTypes webhooks are created with

StateTypes == {"unstarted", "started", "completed", "canceled"}
EventTypes == {"Issue", "AgentSessionEvent"}
Scopes == {"issues:create", "write"}    \* write includes the other

ASSUME AgentsAssumption == NoAgent \notin Agents
ASSUME TypesAssumption == Types \subseteq StateTypes /\ NewTypes \subseteq StateTypes
ASSUME BoundsAssumption == MaxIds \in Nat /\ MaxResets \in Nat /\ MaxIssues \in Nat
ASSUME WantedAssumption == Wanted \subseteq SUBSET EventTypes

Ids == 1 .. MaxIds
NoId == 0
SeededHook == 0          \* its id is in the seed
Hooks == {SeededHook} \cup Ids
Worlds == 0 .. MaxResets

VARIABLES
  issues,      \* rows of issues; NoIssue where there is none
  sessions,    \* rows of agent_sessions
  hooks,       \* rows of webhooks
  deliveries,  \* rows of webhook_deliveries
  counter,     \* id_counter
  requests,    \* suspended handlers
  world,       \* history: resets so far
  unserved     \* history: issues that the seed, or a request that failed, delegated

vars == <<issues, sessions, hooks, deliveries, counter, requests, world, unserved>>

Issue == [state : StateTypes \cup {"none"}, parent : Ids \cup {NoId},
          delegate : Agents \cup {NoAgent},
          startedAt : BOOLEAN, completedAt : BOOLEAN, canceledAt : BOOLEAN]
NoIssue == [state |-> "none", parent |-> NoId, delegate |-> NoAgent,
            startedAt |-> FALSE, completedAt |-> FALSE, canceledAt |-> FALSE]
Session == [id : Ids, issue : Ids, agent : Agents]
\* wants: resourceTypes of an enabled webhook of the team; a missing row wants nothing.
Hook == [id : Hooks, wants : SUBSET EventTypes]
Delivery == [id : Ids, hook : Hooks, world : Worlds]
Request == [at : {"idle", "emitting"}, world : Worlds, todo : SUBSET Hooks,
            delivery : Ids \cup {NoId}, issue : Ids \cup {NoId},
            agent : Agents \cup {NoAgent}, scope : Scopes]
Idle == [at |-> "idle", world |-> 0, todo |-> {}, delivery |-> NoId, issue |-> NoId,
         agent |-> NoAgent, scope |-> "write"]

LiveIn(table) == {i \in Ids : table[i].state # "none"}

\* No set of issues has the parent of each of its members.
WellFounded(table) ==
  /\ \A i \in LiveIn(table) : table[i].parent \in LiveIn(table) \cup {NoId}
  /\ \A S \in SUBSET LiveIn(table) : S # {} => \E i \in S : table[i].parent \notin S

Stamped(issue) ==
  /\ issue.completedAt <=> issue.state = "completed"
  /\ issue.canceledAt <=> issue.state = "canceled"
  /\ issue.state = "started" => issue.startedAt
  /\ issue.startedAt => issue.state \in {"started", "completed"}

\* applySeed reads an issue's parent among the rows before it, and writes the
\* timestamps that its state has.
ASSUME SeedsAssumption ==
  /\ Seeds \subseteq [issues : [Ids -> Issue], hooks : SUBSET Hook, counter : Nat]
  /\ \A seed \in Seeds :
       /\ WellFounded(seed.issues)
       /\ \A i \in LiveIn(seed.issues) : i <= seed.counter /\ Stamped(seed.issues[i])

Live == LiveIn(issues)
HookIds == {h.id : h \in hooks}

-----------------------------------------------------------------------------
(* The tree of issues. *)

NotItself(i, p) == p # i

\* The walk of assertNoParentCycle from p ends without meeting i: some set that
\* has p and the parent of each of its members does not have i.
NoParentCycle(i, p) ==
  \E above \in SUBSET Ids :
    /\ p \in above /\ i \notin above
    /\ \A x \in above : issues[x].parent \in above \cup {NoId}

\* state_id and the timestamps that follow it.
Moved(issue, type) ==
  [issue EXCEPT !.state = type,
                !.startedAt = IF type = "started" THEN TRUE
                              ELSE IF type = "completed" THEN issue.startedAt ELSE FALSE,
                !.completedAt = type = "completed",
                !.canceledAt = type = "canceled"]

-----------------------------------------------------------------------------
(* Requests. *)

Matching(type) == {h.id : h \in {k \in hooks : type \in k.wants}}

OnlyItsOwn(n, todo) == n

\* Ids taken by a mutation with n rows: nextId for the first delivery comes
\* before the await.
Taken(n, todo) == IF todo = {} THEN n ELSE n + 1

\* What a handler holds: answered, if there is nothing left to do.
Suspended(req) == IF req.todo = {} /\ req.agent = NoAgent THEN Idle ELSE req

\* The mutation is done, and its first POST is on the way.
Emit(r, n, todo, issue, agent, scope) ==
  /\ counter' = counter + Taken(n, todo)
  /\ counter' <= MaxIds
  /\ requests' = [requests EXCEPT ![r] = Suspended(
       [at |-> "emitting", world |-> world, todo |-> todo,
        delivery |-> IF todo = {} THEN NoId ELSE counter + n + 1,
        issue |-> IF agent = NoAgent THEN NoId ELSE issue,
        agent |-> agent, scope |-> scope])]

Starts(r) == requests[r].at = "idle"

NewIssue(type, p, a) ==
  [Moved(NoIssue, type) EXCEPT !.parent = p, !.delegate = a]

\* With strictScopes a token may hold issues:create and not write.
CreateIssue(r) ==
  \E type \in NewTypes, p \in Live \cup {NoId}, a \in Agents \cup {NoAgent} :
  \E scope \in Scopes :
    /\ a = NoAgent => scope = "write"   \* it is not looked at
    /\ Starts(r) /\ counter < MaxIds /\ Cardinality(Live) < MaxIssues
    /\ issues' = [issues EXCEPT ![counter + 1] = NewIssue(type, p, a)]
    /\ Emit(r, 1, Matching("Issue"), counter + 1, a, scope)
    /\ UNCHANGED <<sessions, hooks, deliveries, world, unserved>>

\* A parent, label or user that does not exist: the id is spent.
CreateIssueRefused ==
  /\ counter < MaxIds
  /\ counter' = counter + 1
  /\ UNCHANGED <<issues, sessions, hooks, deliveries, requests, world, unserved>>

\* A related issue that does not exist is found after the row went in.
CreateIssueHalfway ==
  \E type \in NewTypes, p \in Live \cup {NoId}, a \in Agents \cup {NoAgent} :
    /\ counter < MaxIds /\ Cardinality(Live) < MaxIssues
    /\ counter' = counter + 1
    /\ issues' = [issues EXCEPT ![counter + 1] = NewIssue(type, p, a)]
    /\ unserved' = IF a = NoAgent THEN unserved ELSE unserved \cup {counter + 1}
    /\ UNCHANGED <<sessions, hooks, deliveries, requests, world>>

WipesStamps(issue, move, p, a) ==
  [(IF move = "null"
    THEN [issue EXCEPT !.startedAt = FALSE, !.completedAt = FALSE, !.canceledAt = FALSE]
    ELSE Moved(issue, move)) EXCEPT !.parent = p, !.delegate = a]

\* The row updateIssue writes; "null" is a state left alone.
Patched(issue, move, p, a) ==
  [(IF move = "null" THEN issue ELSE Moved(issue, move)) EXCEPT !.parent = p, !.delegate = a]

FirstDelegate(old, new) == IF old = NoAgent THEN new ELSE NoAgent

\* A session is opened for a delegate the issue did not have.
Delegated(old, new) == IF new # old THEN new ELSE NoAgent

UpdateIssue(r) ==
  \E i \in Live, p \in Live \cup {NoId} :
    /\ Starts(r)
    /\ p \in {NoId, issues[i].parent} \/ NoParentCycle(i, p)
    /\ \E move \in Types \cup {"null"}, a \in Agents \cup {NoAgent} :
         /\ Patched(issues[i], move, p, a) # issues[i]
         /\ issues' = [issues EXCEPT ![i] = Patched(issues[i], move, p, a)]
         /\ unserved' = IF a = issues[i].delegate THEN unserved ELSE unserved \ {i}
         /\ Emit(r, 0, Matching("Issue"), i, Delegated(issues[i].delegate, a), "write")
         /\ UNCHANGED <<sessions, hooks, deliveries, world>>

\* archiveIssue, unarchiveIssue, addIssueLabel, removeIssueLabel, and an update
\* of a text: nothing that is modelled changes.
TouchIssue(r) ==
  \E i \in Live :
    /\ Starts(r)
    /\ Emit(r, 0, Matching("Issue"), i, NoAgent, "write")
    /\ UNCHANGED <<issues, sessions, hooks, deliveries, world, unserved>>

\* The children lose their parent through its foreign key.
Without(i) ==
  [j \in Ids |-> IF j = i THEN NoIssue
                 ELSE IF issues[j].parent = i THEN [issues[j] EXCEPT !.parent = NoId]
                 ELSE issues[j]]

DeleteIssue(r) ==
  \E i \in Live :
    /\ Starts(r)
    /\ issues' = Without(i)
    /\ sessions' = {s \in sessions : s.issue # i}
    /\ Emit(r, 0, Matching("Issue"), i, NoAgent, "write")
    /\ unserved' = unserved \ {i}
    /\ UNCHANGED <<hooks, deliveries, world>>

OpenSession(r, i, a) ==
  /\ counter < MaxIds
  /\ sessions' = sessions \cup {[id |-> counter + 1, issue |-> i, agent |-> a]}
  /\ Emit(r, 1, Matching("AgentSessionEvent"), i, NoAgent, "write")
  /\ UNCHANGED <<issues, hooks, deliveries, world, unserved>>

CreateAgentSessionOnIssue(r) ==
  \E i \in Live, a \in Agents : Starts(r) /\ OpenSession(r, i, a)

-----------------------------------------------------------------------------
(* The dispatch. *)

Forsaken(req) ==
  {i \in Live : /\ req.agent # NoAgent /\ req.world = world
               /\ req.issue = i /\ issues[i].delegate = req.agent}

\* The request is answered with an error, after its mutation.
Fail(r) ==
  /\ requests' = [requests EXCEPT ![r] = Idle]
  /\ unserved' = unserved \cup Forsaken(requests[r])
  /\ UNCHANGED <<issues, sessions, hooks, deliveries, counter, world>>

\* Webhooks are notified in the order they were created.
Foremost(todo) == {h \in todo : \A k \in todo : h <= k}

Recordable(h, id) == h \in HookIds /\ id \notin {d.id : d \in deliveries}

SkippedOne == counter + 2

\* nextId for the delivery after this one.
Claimed == counter + 1

\* The POST was answered, refused or timed out: its row goes in, whatever it was.
RecordDelivery(r) ==
  \E h \in Foremost(requests[r].todo) :
    LET todo == requests[r].todo \ {h}
    IN  /\ Recordable(h, requests[r].delivery)
        /\ deliveries' = deliveries \cup {[id |-> requests[r].delivery, hook |-> h,
                                           world |-> requests[r].world]}
        /\ todo # {} => counter < MaxIds
        /\ counter' = IF todo = {} THEN counter ELSE Claimed
        /\ requests' = [requests EXCEPT ![r] = Suspended(
             [@ EXCEPT !.todo = todo, !.delivery = IF todo = {} THEN NoId ELSE Claimed])]
        /\ UNCHANGED <<issues, sessions, hooks, world, unserved>>

\* The webhook is gone, or the row's id is taken: the insertion throws.
RecordFails(r) ==
  \E h \in Foremost(requests[r].todo) : ~Recordable(h, requests[r].delivery) /\ Fail(r)

\* createAgentSessionOnIssue, once the dispatch of the delegation is over.
Delegate(r) ==
  /\ requests[r].at = "emitting" /\ requests[r].todo = {}
  /\ IF requests[r].scope = "write" /\ requests[r].issue \in Live
     THEN OpenSession(r, requests[r].issue, requests[r].agent)
     ELSE Fail(r)

-----------------------------------------------------------------------------
(* Calls that await nothing. *)

CreateWebhook ==
  \E wants \in Wanted :
    /\ counter < MaxIds
    /\ counter' = counter + 1
    /\ hooks' = hooks \cup {[id |-> counter + 1, wants |-> wants]}
    /\ UNCHANGED <<issues, sessions, deliveries, requests, world, unserved>>

DeleteWebhook ==
  \E h \in HookIds :
    /\ hooks' = {k \in hooks : k.id # h}
    /\ deliveries' = {d \in deliveries : d.hook # h}
    /\ UNCHANGED <<issues, sessions, counter, requests, world, unserved>>

\* A seed delegates without opening sessions.
DelegatedBy(seed) ==
  {i \in Ids : seed.issues[i].state # "none" /\ seed.issues[i].delegate # NoAgent}

Init ==
  \E seed \in Seeds :
    /\ issues = seed.issues /\ hooks = seed.hooks /\ counter = seed.counter
    /\ sessions = {} /\ deliveries = {}
    /\ requests = [r \in Requests |-> Idle]
    /\ world = 0
    /\ unserved = DelegatedBy(seed)

\* Handlers that are suspended go on afterwards.
Reset ==
  \E seed \in Seeds :
    /\ world < MaxResets /\ world' = world + 1
    /\ issues' = seed.issues /\ hooks' = seed.hooks /\ counter' = seed.counter
    /\ sessions' = {} /\ deliveries' = {}
    /\ unserved' = DelegatedBy(seed)
    /\ UNCHANGED requests

Handler(r) ==
  \/ CreateIssue(r) \/ UpdateIssue(r) \/ TouchIssue(r) \/ DeleteIssue(r)
  \/ CreateAgentSessionOnIssue(r)
  \/ RecordDelivery(r) \/ RecordFails(r) \/ Delegate(r)

Next ==
  \/ \E r \in Requests : Handler(r)
  \/ CreateIssueRefused \/ CreateIssueHalfway
  \/ CreateWebhook \/ DeleteWebhook \/ Reset

Spec == Init /\ [][Next]_vars

-----------------------------------------------------------------------------
(* Properties. *)

\* Types of the rows and of what handlers hold.
TypeOK ==
  /\ issues \in [Ids -> Issue]
  /\ sessions \subseteq Session
  /\ hooks \subseteq Hook
  /\ deliveries \subseteq Delivery
  /\ counter \in Nat
  /\ requests \in [Requests -> Request]
  /\ world \in Worlds
  /\ unserved \subseteq Ids

\* Following parents from any issue ends, whatever updates, deletions and
\* creations came between (assertNoParentCycle, ON DELETE SET NULL).
ParentsWellFounded == WellFounded(issues)

\* completed_at and canceled_at say what the state is, also after a reopening or
\* an update with a null stateId, and started_at is never set on an issue that
\* was not started or is not completed (updateIssue's three timestamps).
StampsFollowState == \A i \in Live : Stamped(issues[i])

\* A delegated issue has an agent session of its delegate, or the request that
\* delegated it is still on its way to open one, or that request failed, however
\* many requests moved the delegate meanwhile (createIssue's and updateIssue's
\* calls of createAgentSessionOnIssue after the await).
DelegationServed ==
  \A i \in Live \ unserved :
    issues[i].delegate # NoAgent =>
      \/ \E s \in sessions : s.issue = i /\ s.agent = issues[i].delegate
      \/ \E r \in Requests : /\ requests[r].at = "emitting" /\ requests[r].world = world
                             /\ requests[r].issue = i
                             /\ requests[r].agent = issues[i].delegate

\* The id a handler took for a delivery before it awaited the POST is not taken
\* by any other handler's row or delivery since the last reset, so only a removed
\* webhook or a reset makes the insertion fail (dispatch.ts: nextId, then await,
\* then recordWebhookDelivery).
DeliveryIdsReserved ==
  \A r \in Requests :
    requests[r].todo # {} /\ requests[r].world = world =>
      /\ \A d \in deliveries : d.id = requests[r].delivery => d.world # world
      /\ \A q \in Requests \ {r} :
           requests[q].todo # {} /\ requests[q].world = world =>
             requests[q].delivery # requests[r].delivery
=============================================================================
