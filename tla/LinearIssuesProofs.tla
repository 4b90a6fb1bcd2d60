-------------------------- MODULE LinearIssuesProofs --------------------------
(***************************************************************************)
(* The invariants of LinearIssues for every number of requests, agents,    *)
(* issues and resets.  IInv adds to them that every id in use is one the   *)
(* counter has passed, per world, and what a handler at rest holds.        *)
(***************************************************************************)
EXTENDS LinearIssues, TLAPS

\* Rows and reservations carry ids the counter has passed since the last reset.
IdsPassed ==
  /\ \A i \in Live : i <= counter
  /\ \A d \in deliveries : d.world <= world /\ (d.world = world => d.id <= counter)
  /\ \A r \in Requests : /\ requests[r].world <= world
                         /\ requests[r].world = world => requests[r].delivery <= counter

\* A handler at rest holds nothing, and one that is not has a delivery reserved
\* or a session to open.
Held(req) ==
  /\ req.at = "idle" => req.todo = {} /\ req.agent = NoAgent
  /\ req.at = "emitting" => req.todo # {} \/ req.agent # NoAgent
  /\ req.todo # {} => req.delivery \in Ids

AtRest == \A r \in Requests : Held(requests[r])

IInv == /\ TypeOK /\ IdsPassed /\ AtRest /\ ParentsWellFounded /\ StampsFollowState
        /\ DelegationServed /\ DeliveryIdsReserved

-----------------------------------------------------------------------------
(* Tables of issues. *)

LEMMA MovedTyped ==
  ASSUME NEW issue \in Issue, NEW type \in StateTypes
  PROVE  Moved(issue, type) \in Issue /\ Moved(issue, type).state = type
         /\ Moved(issue, type).parent = issue.parent /\ Moved(issue, type).delegate = issue.delegate
BY DEF Moved, Issue, StateTypes

LEMMA MovedStamped ==
  ASSUME NEW issue \in Issue, NEW type \in StateTypes, issue.state # "none" => Stamped(issue),
         issue.state = "none" => ~issue.startedAt
  PROVE  Stamped(Moved(issue, type))
BY DEF Moved, Issue, StateTypes, Stamped

LEMMA NewIssueFacts ==
  ASSUME NEW type \in StateTypes, NEW p \in Ids \cup {NoId}, NEW a \in Agents \cup {NoAgent}
  PROVE  /\ NewIssue(type, p, a) \in Issue
         /\ NewIssue(type, p, a).state # "none"
         /\ NewIssue(type, p, a).parent = p
         /\ NewIssue(type, p, a).delegate = a
         /\ Stamped(NewIssue(type, p, a))
BY DEF NewIssue, Moved, NoIssue, Issue, StateTypes, Stamped

LEMMA PatchedFacts ==
  ASSUME NEW issue \in Issue, issue.state # "none", Stamped(issue),
         NEW move \in StateTypes \cup {"null"},
         NEW p \in Ids \cup {NoId}, NEW a \in Agents \cup {NoAgent}
  PROVE  /\ Patched(issue, move, p, a) \in Issue
         /\ Patched(issue, move, p, a).state # "none"
         /\ Patched(issue, move, p, a).parent = p
         /\ Patched(issue, move, p, a).delegate = a
         /\ Stamped(Patched(issue, move, p, a))
<1>1. CASE move = "null"
  BY <1>1 DEF Patched, Issue, Stamped
<1>2. CASE move # "null"
  <2>1. move \in StateTypes
    BY <1>2
  <2>2. Moved(issue, move) \in Issue /\ Moved(issue, move).state = move /\ Stamped(Moved(issue, move))
    BY <2>1, MovedTyped, MovedStamped
  <2>3. Patched(issue, move, p, a) = [Moved(issue, move) EXCEPT !.parent = p, !.delegate = a]
    BY <1>2 DEF Patched
  <2> HIDE DEF Moved
  <2> QED  BY <2>1, <2>2, <2>3 DEF Issue, Stamped, StateTypes
<1> QED  BY <1>1, <1>2

\* A new row whose parent is an issue keeps the table well founded.
LEMMA AddKeepsWellFounded ==
  ASSUME NEW table \in [Ids -> Issue], WellFounded(table),
         NEW new \in Ids \ LiveIn(table), NEW row \in Issue, row.state # "none",
         row.parent \in LiveIn(table) \cup {NoId}
  PROVE  WellFounded([table EXCEPT ![new] = row])
<1> DEFINE after == [table EXCEPT ![new] = row]
<1>1. LiveIn(after) = LiveIn(table) \cup {new}
  BY DEF LiveIn
<1>2. after[new] = row /\ \A i \in LiveIn(table) : after[i] = table[i]
  BY DEF LiveIn
<1>3. NoId \notin LiveIn(after)
  BY DEF LiveIn, NoId, Ids
<1> HIDE DEF after
<1>4. \A i \in LiveIn(after) : after[i].parent \in LiveIn(after) \cup {NoId}
  BY <1>1, <1>2 DEF WellFounded
<1>5. ASSUME NEW S \in SUBSET LiveIn(after), S # {}
      PROVE  \E i \in S : after[i].parent \notin S
  <2>1. CASE S \ {new} = {}
    BY <2>1, <1>1, <1>2, <1>3, <1>5
  <2>2. CASE S \ {new} # {}
    <3>1. PICK i \in S \ {new} : table[i].parent \notin S \ {new}
      BY <2>2, <1>1 DEF WellFounded
    <3>2. table[i].parent # new
      BY <3>1, <1>1, <1>3 DEF WellFounded
    <3> QED  BY <3>1, <3>2, <1>1, <1>2
  <2> QED  BY <2>1, <2>2
<1> QED  BY <1>4, <1>5 DEF WellFounded, after

\* A row that stays an issue, given a parent that the walk allows.
LEMMA UpdateKeepsWellFounded ==
  ASSUME NEW table \in [Ids -> Issue], WellFounded(table),
         NEW i \in LiveIn(table), NEW row \in Issue, row.state # "none",
         row.parent \in LiveIn(table) \cup {NoId},
         \/ row.parent \in {NoId, table[i].parent}
         \/ \E above \in SUBSET Ids :
              /\ row.parent \in above /\ i \notin above
              /\ \A x \in above : table[x].parent \in above \cup {NoId}
  PROVE  WellFounded([table EXCEPT ![i] = row])
<1> DEFINE after == [table EXCEPT ![i] = row]
<1>1. LiveIn(after) = LiveIn(table)
  BY DEF LiveIn
<1>2. after[i] = row /\ \A j \in LiveIn(table) \ {i} : after[j] = table[j]
  BY DEF LiveIn
<1>3. NoId \notin LiveIn(table)
  BY DEF LiveIn, NoId, Ids
<1> HIDE DEF after
<1>4. \A j \in LiveIn(after) : after[j].parent \in LiveIn(after) \cup {NoId}
  BY <1>1, <1>2 DEF WellFounded
<1>5. ASSUME NEW S \in SUBSET LiveIn(after), S # {}
      PROVE  \E j \in S : after[j].parent \notin S
  <2>1. PICK j \in S : table[j].parent \notin S
    BY <1>1, <1>5 DEF WellFounded
  <2>2. CASE i \notin S \/ j # i
    <3>1. CASE j # i
      BY <3>1, <2>1, <1>1, <1>2
    <3>2. CASE i \notin S
      BY <3>2, <2>1, <1>1, <1>2
    <3> QED  BY <2>2, <3>1, <3>2
  <2>3. CASE row.parent \in {NoId, table[i].parent} /\ i \in S /\ j = i
    BY <2>1, <2>3, <1>1, <1>2, <1>3
  <2>4. CASE /\ i \in S
             /\ \E above \in SUBSET Ids :
                  /\ row.parent \in above /\ i \notin above
                  /\ \A x \in above : table[x].parent \in above \cup {NoId}
    <3>1. PICK above \in SUBSET Ids :
            /\ row.parent \in above /\ i \notin above
            /\ \A x \in above : table[x].parent \in above \cup {NoId}
      BY <2>4
    <3>2. CASE S \cap above = {}
      BY <3>1, <3>2, <2>4, <1>2
    <3>3. CASE S \cap above # {}
      <4>1. PICK k \in S \cap above : table[k].parent \notin S \cap above
        BY <3>3, <1>1 DEF WellFounded
      <4>2. k # i /\ table[k].parent \in above \cup {NoId}
        BY <3>1, <4>1
      <4>3. table[k].parent \notin S
        BY <4>1, <4>2, <1>1, <1>3
      <4> QED  BY <4>1, <4>2, <4>3, <1>1, <1>2
    <3> QED  BY <3>2, <3>3
  <2> QED  BY <2>2, <2>3, <2>4
<1> QED  BY <1>4, <1>5 DEF WellFounded, after

LEMMA WithoutFacts ==
  ASSUME issues \in [Ids -> Issue], NEW i \in Ids
  PROVE  /\ Without(i) \in [Ids -> Issue]
         /\ LiveIn(Without(i)) = Live \ {i}
         /\ \A j \in Live \ {i} :
              /\ Without(i)[j].delegate = issues[j].delegate
              /\ Without(i)[j].parent = IF issues[j].parent = i THEN NoId ELSE issues[j].parent
              /\ Stamped(issues[j]) => Stamped(Without(i)[j])
<1>1. NoIssue \in Issue /\ NoIssue.state = "none"
  BY DEF NoIssue, Issue, StateTypes, NoId
<1>2. \A j \in Ids : Without(i)[j] \in Issue
  BY <1>1 DEF Without, Issue
<1>3. \A j \in Ids \ {i} : Without(i)[j].state = issues[j].state
  BY DEF Without, Issue
<1>4. Without(i)[i].state = "none"
  BY <1>1 DEF Without
<1>5. Without(i) \in [Ids -> Issue]
  BY <1>2 DEF Without
<1>6. LiveIn(Without(i)) = Live \ {i}
  BY <1>3, <1>4 DEF LiveIn, Live
<1>7. ASSUME NEW j \in Live \ {i}
      PROVE  /\ Without(i)[j].delegate = issues[j].delegate
             /\ Without(i)[j].parent = IF issues[j].parent = i THEN NoId ELSE issues[j].parent
             /\ Stamped(issues[j]) => Stamped(Without(i)[j])
  BY DEF Without, Issue, Stamped, Live, LiveIn
<1> QED  BY <1>5, <1>6, <1>7

\* Deleting an issue clears the parent of its children and keeps the table well founded.
LEMMA DeleteKeepsWellFounded ==
  ASSUME issues \in [Ids -> Issue], WellFounded(issues), NEW i \in Live
  PROVE  WellFounded(Without(i))
<1> DEFINE after == Without(i)
<1>1. /\ LiveIn(after) = Live \ {i}
      /\ \A j \in Live \ {i} :
           after[j].parent = IF issues[j].parent = i THEN NoId ELSE issues[j].parent
  BY WithoutFacts DEF Live, LiveIn
<1>2. NoId \notin Live
  BY DEF Live, LiveIn, NoId, Ids
<1> HIDE DEF after
<1>3. \A j \in LiveIn(after) : after[j].parent \in LiveIn(after) \cup {NoId}
  BY <1>1 DEF WellFounded, Live
<1>4. ASSUME NEW S \in SUBSET LiveIn(after), S # {}
      PROVE  \E j \in S : after[j].parent \notin S
  <2>1. PICK j \in S : issues[j].parent \notin S
    BY <1>1, <1>4 DEF WellFounded, Live
  <2> QED  BY <2>1, <1>1, <1>2
<1> QED  BY <1>3, <1>4 DEF WellFounded, after

-----------------------------------------------------------------------------
(* What handlers hold. *)

LEMMA MatchingTyped ==
  ASSUME TypeOK, NEW type
  PROVE  Matching(type) \in SUBSET Hooks
BY DEF Matching, TypeOK, Hook

LEMMA IdleFacts ==
  /\ Idle \in Request
  /\ Idle.at = "idle" /\ Idle.todo = {} /\ Idle.agent = NoAgent
  /\ Idle.world = 0 /\ Idle.delivery = NoId
  /\ Held(Idle)
BY BoundsAssumption DEF Idle, Request, Worlds, NoId, Held, Scopes

LEMMA SuspendedFacts ==
  ASSUME NEW req \in Request, req.at = "emitting", req.todo # {} => req.delivery \in Ids
  PROVE  /\ Suspended(req) \in Request
         /\ Suspended(req).todo = req.todo
         /\ Suspended(req).agent = req.agent
         /\ Suspended(req).world = IF req.todo = {} /\ req.agent = NoAgent THEN 0 ELSE req.world
         /\ Suspended(req).delivery \in {NoId, req.delivery}
         /\ Held(Suspended(req))
         /\ req.todo # {} => Suspended(req).delivery = req.delivery
         /\ req.agent # NoAgent => Suspended(req) = req
BY IdleFacts DEF Suspended, Held

\* The part of the invariant about deliveries and the handlers that make them.
Handlers ==
  /\ requests \in [Requests -> Request] /\ deliveries \subseteq Delivery
  /\ counter \in Nat /\ world \in Worlds
  /\ \A d \in deliveries : d.world <= world /\ (d.world = world => d.id <= counter)
  /\ \A r \in Requests : /\ requests[r].world <= world
                         /\ requests[r].world = world => requests[r].delivery <= counter
  /\ AtRest
  /\ DeliveryIdsReserved

Tables ==
  /\ issues \in [Ids -> Issue] /\ sessions \subseteq Session
  /\ hooks \subseteq Hook /\ unserved \subseteq Ids
  /\ \A i \in Live : i <= counter
  /\ ParentsWellFounded /\ StampsFollowState

LEMMA Parts == IInv <=> Handlers /\ Tables /\ DelegationServed
BY DEF IInv, Handlers, Tables, TypeOK, IdsPassed

\* A delivery that a handler of this world reserves gets an id above all others.
LEMMA EmitKeepsHandlers ==
  ASSUME Handlers, NEW r \in Requests, NEW n \in {0, 1}, NEW todo \in SUBSET Hooks,
         NEW i \in Ids, NEW a \in Agents \cup {NoAgent}, NEW w \in Scopes,
         Emit(r, n, todo, i, a, w), world' = world, deliveries' \subseteq deliveries
  PROVE  /\ Handlers'
         /\ counter' >= counter + n /\ counter + n <= MaxIds
         /\ \A q \in Requests \ {r} : requests'[q] = requests[q]
         /\ a # NoAgent => /\ requests'[r].at = "emitting" /\ requests'[r].world = world
                           /\ requests'[r].issue = i /\ requests'[r].agent = a
<1> DEFINE req == [at |-> "emitting", world |-> world, todo |-> todo,
                   delivery |-> IF todo = {} THEN NoId ELSE counter + n + 1,
                   issue |-> IF a = NoAgent THEN NoId ELSE i, agent |-> a, scope |-> w]
<1>1. /\ counter' = counter + Taken(n, todo) /\ counter' <= MaxIds
      /\ requests' = [requests EXCEPT ![r] = Suspended(req)]
  BY DEF Emit
<1>2. /\ counter' \in Nat /\ counter' >= counter + n /\ counter + n <= MaxIds
      /\ todo # {} => counter' = counter + n + 1
  BY <1>1, BoundsAssumption DEF Taken, Handlers
<1>3. req \in Request
  BY <1>1, <1>2, BoundsAssumption DEF Request, Handlers, NoId, Ids
<1>4. req.at = "emitting" /\ req.world = world /\ req.todo = todo /\ req.agent = a
      /\ req.delivery = (IF todo = {} THEN NoId ELSE counter + n + 1)
      /\ (a # NoAgent => req.issue = i)
  OBVIOUS
<1> HIDE DEF req
<1> DEFINE new == Suspended(req)
<1>5. /\ new \in Request /\ new.todo = todo /\ new.agent = a
      /\ new.world = IF todo = {} /\ a = NoAgent THEN 0 ELSE world
      /\ new.delivery \in {NoId, req.delivery}
      /\ Held(new)
      /\ todo # {} => new.delivery = req.delivery
      /\ a # NoAgent => new = req
  <2>1. todo # {} => req.delivery \in Ids
    BY <1>1, <1>2, <1>4, BoundsAssumption DEF Ids, Handlers
  <2> QED  BY <2>1, <1>3, <1>4, SuspendedFacts
<1> HIDE DEF new
<1>6. /\ requests' = [requests EXCEPT ![r] = new] /\ requests' \in [Requests -> Request]
      /\ requests'[r] = new /\ \A q \in Requests \ {r} : requests'[q] = requests[q]
  BY <1>1, <1>5 DEF new, Handlers
<1>7. new.world <= world /\ (new.world = world => new.delivery <= counter')
  BY <1>2, <1>4, <1>5, BoundsAssumption DEF Handlers, Worlds, NoId
<1>8. \A q \in Requests : /\ requests'[q].world <= world
                          /\ requests'[q].world = world => requests'[q].delivery <= counter'
  <2> SUFFICES ASSUME NEW q \in Requests \ {r}
               PROVE  requests[q].world = world => requests[q].delivery <= counter'
    BY <1>6, <1>7 DEF Handlers
  <2>1. requests[q].delivery \in Nat
    BY DEF Handlers, Request, Ids, NoId
  <2> QED  BY <2>1, <1>2 DEF Handlers
<1>9. \A d \in deliveries' : d.world <= world /\ (d.world = world => d.id <= counter')
  <2> SUFFICES ASSUME NEW d \in deliveries  PROVE  d.world = world => d.id <= counter'
    BY DEF Handlers
  <2>1. d.id \in Nat
    BY DEF Handlers, Delivery, Ids
  <2> QED  BY <2>1, <1>2 DEF Handlers
<1>10. AtRest'
  BY <1>5, <1>6 DEF Handlers, AtRest
<1>11. DeliveryIdsReserved'
  <2>1. ASSUME NEW q \in Requests, requests'[q].todo # {}, requests'[q].world = world,
               NEW d \in deliveries', d.world = world
        PROVE  d.id # requests'[q].delivery
    <3>1. CASE q = r
      BY <3>1, <2>1, <1>2, <1>4, <1>5, <1>6 DEF Handlers, Delivery, Ids
    <3>2. CASE q # r
      BY <3>2, <2>1, <1>6 DEF Handlers, DeliveryIdsReserved
    <3> QED  BY <3>1, <3>2
  <2>2. ASSUME NEW q \in Requests \ {r}, requests[q].todo # {}, requests[q].world = world,
               todo # {}
        PROVE  requests[q].delivery # new.delivery
    BY <2>2, <1>2, <1>4, <1>5 DEF Handlers, Request, Ids, NoId
  <2>3. ASSUME NEW p \in Requests, NEW q \in Requests \ {p},
               requests'[p].todo # {}, requests'[p].world = world,
               requests'[q].todo # {}, requests'[q].world = world
        PROVE  requests'[q].delivery # requests'[p].delivery
    <3>1. CASE p = r
      BY <3>1, <2>2, <2>3, <1>5, <1>6
    <3>2. CASE q = r
      BY <3>2, <2>2, <2>3, <1>5, <1>6
    <3>3. CASE p # r /\ q # r
      BY <3>3, <2>3, <1>6 DEF Handlers, DeliveryIdsReserved
    <3> QED  BY <3>1, <3>2, <3>3
  <2> QED  BY <2>1, <2>3 DEF DeliveryIdsReserved
<1>12. deliveries' \subseteq Delivery
  BY DEF Handlers
<1>13. Handlers'
  BY <1>2, <1>6, <1>8, <1>9, <1>10, <1>11, <1>12 DEF Handlers
<1>14. a # NoAgent => /\ requests'[r].at = "emitting" /\ requests'[r].world = world
                      /\ requests'[r].issue = i /\ requests'[r].agent = a
  BY <1>4, <1>5, <1>6
<1> QED  BY <1>2, <1>6, <1>13, <1>14

\* The same for a mutation that takes no id of its own.
LEMMA EmitAtOnceKeepsHandlers ==
  ASSUME Handlers, NEW r \in Requests, NEW todo \in SUBSET Hooks,
         NEW i \in Ids, NEW a \in Agents \cup {NoAgent}, NEW w \in Scopes,
         Emit(r, 0, todo, i, a, w), world' = world, deliveries' \subseteq deliveries
  PROVE  /\ Handlers'
         /\ counter' >= counter
         /\ \A q \in Requests \ {r} : requests'[q] = requests[q]
         /\ a # NoAgent => /\ requests'[r].at = "emitting" /\ requests'[r].world = world
                           /\ requests'[r].issue = i /\ requests'[r].agent = a
<1>1. 0 \in {0, 1}
  OBVIOUS
<1>2. Handlers'
  BY <1>1, EmitKeepsHandlers
<1>3. counter' >= counter + 0
  BY <1>1, EmitKeepsHandlers
<1>4. counter' >= counter
  BY <1>3 DEF Handlers
<1>5. /\ \A q \in Requests \ {r} : requests'[q] = requests[q]
      /\ a # NoAgent => /\ requests'[r].at = "emitting" /\ requests'[r].world = world
                        /\ requests'[r].issue = i /\ requests'[r].agent = a
  BY <1>1, EmitKeepsHandlers
<1> QED  BY <1>2, <1>4, <1>5

LEMMA FailKeepsHandlers ==
  ASSUME Handlers, NEW r \in Requests, Fail(r)
  PROVE  Handlers'
<1>1. /\ requests' = [requests EXCEPT ![r] = Idle]
      /\ UNCHANGED <<deliveries, counter, world>>
  BY DEF Fail
<1>2. /\ requests' \in [Requests -> Request] /\ requests'[r] = Idle
      /\ \A q \in Requests \ {r} : requests'[q] = requests[q]
  BY <1>1, IdleFacts DEF Handlers
<1>3. Idle.world <= world /\ Idle.delivery <= counter
  BY IdleFacts, BoundsAssumption DEF Handlers, Worlds, NoId
<1>4. AtRest'
  BY <1>2, IdleFacts DEF Handlers, AtRest
<1>5. DeliveryIdsReserved'
  BY <1>1, <1>2, IdleFacts DEF Handlers, DeliveryIdsReserved
<1> QED  BY <1>1, <1>2, <1>3, <1>4, <1>5 DEF Handlers

\* A row takes the id its handler reserved, and the handler the next one.
LEMMA RecordKeepsHandlers ==
  ASSUME Handlers, NEW r \in Requests, RecordDelivery(r)
  PROVE  /\ Handlers'
         /\ counter' >= counter
         /\ \A q \in Requests \ {r} : requests'[q] = requests[q]
         /\ requests[r].agent # NoAgent =>
              /\ requests'[r].at = requests[r].at /\ requests'[r].world = requests[r].world
              /\ requests'[r].issue = requests[r].issue /\ requests'[r].agent = requests[r].agent
<1>1. PICK h \in Foremost(requests[r].todo) :
        LET todo == requests[r].todo \ {h}
        IN  /\ deliveries' = deliveries \cup {[id |-> requests[r].delivery, hook |-> h,
                                               world |-> requests[r].world]}
            /\ todo # {} => counter < MaxIds
            /\ counter' = IF todo = {} THEN counter ELSE Claimed
            /\ requests' = [requests EXCEPT ![r] = Suspended(
                 [@ EXCEPT !.todo = todo, !.delivery = IF todo = {} THEN NoId ELSE Claimed])]
            /\ Recordable(h, requests[r].delivery)
            /\ world' = world
  BY DEF RecordDelivery
<1> DEFINE old == requests[r]
           todo == old.todo \ {h}
           req == [old EXCEPT !.todo = todo, !.delivery = IF todo = {} THEN NoId ELSE Claimed]
           row == [id |-> old.delivery, hook |-> h, world |-> old.world]
<1>2. /\ old \in Request /\ old.at = "emitting" /\ h \in old.todo
      /\ old.world <= world /\ (old.world = world => old.delivery <= counter)
      /\ counter \in Nat /\ world \in Nat
  <2>1. h \in old.todo
    BY <1>1 DEF Foremost
  <2>2. old \in Request /\ Held(old)
    BY DEF Handlers, AtRest
  <2>3. old.at = "emitting"
    BY <2>1, <2>2 DEF Held, Request
  <2> QED  BY <2>1, <2>2, <2>3, BoundsAssumption DEF Handlers, Worlds
<1>3. /\ counter' \in Nat /\ counter' >= counter
      /\ todo # {} => counter' = counter + 1 /\ counter' \in Ids
  BY <1>1, <1>2, BoundsAssumption DEF Claimed, Ids
<1>4. /\ req \in Request /\ req.at = "emitting" /\ req.todo = todo
      /\ req.agent = old.agent /\ req.issue = old.issue /\ req.world = old.world
      /\ req.delivery = IF todo = {} THEN NoId ELSE counter + 1
  BY <1>2, <1>3 DEF Request, Claimed, NoId
<1>5. /\ requests' = [requests EXCEPT ![r] = Suspended(req)]
      /\ deliveries' = deliveries \cup {row} /\ world' = world
  BY <1>1
<1>6. row.id = old.delivery /\ row.world = old.world /\ row \in Delivery
  BY <1>2 DEF Delivery, Request, Handlers, AtRest, Held
<1>7. todo # {} => req.delivery \in Ids
  BY <1>3, <1>4
<1> HIDE DEF req, row, old, todo
<1> DEFINE new == Suspended(req)
<1>8. /\ new \in Request /\ new.todo = todo /\ new.agent = old.agent /\ Held(new)
      /\ new.world = IF todo = {} /\ old.agent = NoAgent THEN 0 ELSE old.world
      /\ new.delivery \in {NoId, req.delivery}
      /\ todo # {} => new.delivery = counter + 1
      /\ old.agent # NoAgent => new = req
  BY <1>4, <1>7, SuspendedFacts
<1> HIDE DEF new
<1>9. /\ requests' \in [Requests -> Request] /\ requests'[r] = new
      /\ \A q \in Requests \ {r} : requests'[q] = requests[q]
  BY <1>5, <1>8 DEF new, Handlers
<1>10. \A q \in Requests : /\ requests'[q].world <= world
                           /\ requests'[q].world = world => requests'[q].delivery <= counter'
  <2>1. new.world <= world /\ (new.world = world => new.delivery <= counter')
    BY <1>2, <1>3, <1>4, <1>8 DEF NoId
  <2> SUFFICES ASSUME NEW q \in Requests \ {r}
               PROVE  requests[q].world = world => requests[q].delivery <= counter'
    BY <1>9, <2>1 DEF Handlers
  <2>2. requests[q].delivery \in Nat
    BY DEF Handlers, Request, Ids, NoId
  <2> QED  BY <2>2, <1>2, <1>3 DEF Handlers
<1>11. \A d \in deliveries' : d.world <= world /\ (d.world = world => d.id <= counter')
  <2>1. row.world <= world /\ (row.world = world => row.id <= counter')
    BY <1>2, <1>3, <1>6 DEF Delivery, Ids
  <2> SUFFICES ASSUME NEW d \in deliveries  PROVE  d.world = world => d.id <= counter'
    BY <1>5, <2>1 DEF Handlers
  <2>2. d.id \in Nat
    BY DEF Handlers, Delivery, Ids
  <2> QED  BY <2>2, <1>2, <1>3 DEF Handlers
<1>12. AtRest'
  BY <1>8, <1>9 DEF Handlers, AtRest
<1>13. DeliveryIdsReserved'
  <2>1. ASSUME NEW q \in Requests, requests'[q].todo # {}, requests'[q].world = world,
               NEW d \in deliveries', d.world = world
        PROVE  d.id # requests'[q].delivery
    <3>1. CASE q = r
      <4>1. requests'[q].delivery = counter + 1
        BY <3>1, <2>1, <1>8, <1>9
      <4>2. d.id <= counter /\ d.id \in Nat
        BY <2>1, <1>2, <1>5, <1>6 DEF Handlers, Delivery, Ids
      <4> QED  BY <4>1, <4>2, <1>2
    <3>2. CASE q # r /\ d \in deliveries
      BY <3>2, <2>1, <1>9 DEF Handlers, DeliveryIdsReserved
    <3>3. CASE q # r /\ d = row
      BY <3>3, <2>1, <1>2, <1>6, <1>9 DEF Handlers, DeliveryIdsReserved, old
    <3> QED  BY <3>1, <3>2, <3>3, <2>1, <1>5
  <2>2. ASSUME NEW q \in Requests \ {r}, requests[q].todo # {}, requests[q].world = world,
               todo # {}
        PROVE  requests[q].delivery # new.delivery
    BY <2>2, <1>2, <1>8 DEF Handlers, Request, Ids, NoId
  <2>3. ASSUME NEW p \in Requests, NEW q \in Requests \ {p},
               requests'[p].todo # {}, requests'[p].world = world,
               requests'[q].todo # {}, requests'[q].world = world
        PROVE  requests'[q].delivery # requests'[p].delivery
    <3>1. CASE p = r
      BY <3>1, <2>2, <2>3, <1>8, <1>9
    <3>2. CASE q = r
      BY <3>2, <2>2, <2>3, <1>8, <1>9
    <3>3. CASE p # r /\ q # r
      BY <3>3, <2>3, <1>9 DEF Handlers, DeliveryIdsReserved
    <3> QED  BY <3>1, <3>2, <3>3
  <2> QED  BY <2>1, <2>3, <1>5 DEF DeliveryIdsReserved
<1>14. Handlers'
  BY <1>2, <1>3, <1>5, <1>6, <1>9, <1>10, <1>11, <1>12, <1>13 DEF Handlers
<1>15. old.agent # NoAgent => /\ requests'[r].at = old.at /\ requests'[r].world = old.world
                              /\ requests'[r].issue = old.issue /\ requests'[r].agent = old.agent
  BY <1>2, <1>4, <1>8, <1>9
<1> QED  BY <1>3, <1>9, <1>14, <1>15 DEF old

-----------------------------------------------------------------------------
(* Delegations. *)

Waiting(req, i, a) ==
  req.at = "emitting" /\ req.world = world /\ req.issue = i /\ req.agent = a

\* Delegated issues stay served by a step of handler r that keeps, or answers
\* for, what r was to do.
LEMMA StaysServed ==
  ASSUME DelegationServed, NEW r \in Requests, world' = world,
         NEW free \in SUBSET Ids,
         \A i \in Live' \ free : i \in Live /\ issues'[i].delegate = issues[i].delegate,
         \A i \in Live' \ (free \cup unserved') : i \notin unserved,
         \A s \in sessions : s.issue \in Live' \ free => s \in sessions',
         \A q \in Requests \ {r} : requests'[q] = requests[q],
         \A i \in Live' \ (free \cup unserved'), a \in Agents :
           Waiting(requests[r], i, a) /\ issues[i].delegate = a =>
             \/ Waiting(requests'[r], i, a)
             \/ \E s \in sessions' : s.issue = i /\ s.agent = a,
         issues' \in [Ids -> Issue],
         \A i \in (Live' \cap free) \ unserved' :
           issues'[i].delegate # NoAgent => Waiting(requests'[r], i, issues'[i].delegate)
  PROVE  DelegationServed'
<1> SUFFICES ASSUME NEW i \in Live' \ unserved', issues'[i].delegate # NoAgent
             PROVE  \/ \E s \in sessions' : s.issue = i /\ s.agent = issues'[i].delegate
                    \/ \E q \in Requests : Waiting(requests'[q], i, issues'[i].delegate)
  BY DEF DelegationServed, Waiting
<1>1. CASE i \in free
  BY <1>1
<1>2. CASE i \notin free
  <2>1. i \in Live \ unserved /\ issues'[i].delegate = issues[i].delegate
    BY <1>2
  <2>2. issues[i].delegate \in Agents
    BY <2>1 DEF Live, LiveIn, Issue
  <2>3. CASE \E s \in sessions : s.issue = i /\ s.agent = issues[i].delegate
    BY <2>1, <2>3, <1>2
  <2>4. CASE \E q \in Requests : Waiting(requests[q], i, issues[i].delegate)
    <3>1. PICK q \in Requests : Waiting(requests[q], i, issues[i].delegate)
      BY <2>4
    <3>2. CASE q = r
      BY <3>1, <3>2, <2>1, <2>2, <1>2
    <3>3. CASE q # r
      BY <3>1, <3>3, <2>1
    <3> QED  BY <3>2, <3>3
  <2> QED  BY <2>1, <2>3, <2>4 DEF DelegationServed, Waiting
<1> QED  BY <1>1, <1>2

-----------------------------------------------------------------------------
(* One lemma for each mutation. *)

LEMMA CreateIssueKeepsIInv ==
  ASSUME IInv, NEW r \in Requests, CreateIssue(r)
  PROVE  IInv'
<1>1. PICK type \in NewTypes, p \in Live \cup {NoId}, a \in Agents \cup {NoAgent},
           w \in Scopes :
        /\ Starts(r) /\ counter < MaxIds
        /\ issues' = [issues EXCEPT ![counter + 1] = NewIssue(type, p, a)]
        /\ Emit(r, 1, Matching("Issue"), counter + 1, a, w)
        /\ UNCHANGED <<sessions, hooks, deliveries, world, unserved>>
  BY DEF CreateIssue
<1> DEFINE new == counter + 1
           row == NewIssue(type, p, a)
<1>2. /\ Handlers /\ Tables /\ DelegationServed
      /\ issues \in [Ids -> Issue] /\ counter \in Nat
  BY Parts DEF Tables, Handlers
<1>3. new \in Ids \ Live /\ p \in Ids \cup {NoId} /\ type \in StateTypes
  BY <1>1, <1>2, BoundsAssumption, TypesAssumption DEF Ids, Tables, Live, LiveIn
<1>4. /\ row \in Issue /\ row.state # "none" /\ row.parent = p /\ row.delegate = a /\ Stamped(row)
  BY <1>3, NewIssueFacts
<1> HIDE DEF row
<1>5. /\ issues' = [issues EXCEPT ![new] = row] /\ issues' \in [Ids -> Issue]
      /\ issues'[new] = row /\ \A i \in Ids \ {new} : issues'[i] = issues[i]
  BY <1>1, <1>2, <1>3, <1>4 DEF row
<1>6. Live' = Live \cup {new}
  BY <1>3, <1>4, <1>5 DEF Live, LiveIn
<1>7. /\ Handlers' /\ counter' >= new
      /\ \A q \in Requests \ {r} : requests'[q] = requests[q]
      /\ a # NoAgent => Waiting(requests'[r], new, a)
  <2>1. PICK todo \in SUBSET Hooks, k \in Ids : todo = Matching("Issue") /\ k = counter + 1
    BY <1>3, MatchingTyped DEF IInv
  <2>2. Emit(r, 1, todo, k, a, w)
    BY <2>1, <1>1 DEF Emit
  <2>3. deliveries' \subseteq deliveries /\ world' = world
    BY <1>1
  <2>4. /\ Handlers' /\ counter' >= counter + 1
        /\ \A q \in Requests \ {r} : requests'[q] = requests[q]
        /\ a # NoAgent => /\ requests'[r].at = "emitting" /\ requests'[r].world = world
                          /\ requests'[r].issue = k /\ requests'[r].agent = a
    BY <2>2, <2>3, <1>2, EmitKeepsHandlers
  <2> QED  BY <2>1, <2>4 DEF Waiting
<1>8. Tables'
  <2>1. ParentsWellFounded'
    <3>1. WellFounded(issues)
      BY <1>2 DEF Tables, ParentsWellFounded
    <3>2. new \in Ids \ LiveIn(issues) /\ row.parent \in LiveIn(issues) \cup {NoId}
      BY <1>3, <1>4 DEF Live
    <3> HIDE DEF new
    <3>3. WellFounded([issues EXCEPT ![new] = row])
      BY <3>1, <3>2, <1>2, <1>4, AddKeepsWellFounded
    <3> QED  BY <3>3, <1>5 DEF ParentsWellFounded
  <2>2. StampsFollowState'
    BY <1>2, <1>3, <1>4, <1>5, <1>6 DEF Tables, StampsFollowState, Live, LiveIn
  <2>3. \A i \in Live' : i <= counter'
    BY <1>2, <1>6, <1>7 DEF Tables, Live, LiveIn, Ids, Handlers
  <2> QED  BY <2>1, <2>2, <2>3, <1>1, <1>2, <1>5 DEF Tables
<1>9. DelegationServed'
  <2>1. \A i \in Ids, b \in Agents : ~Waiting(requests[r], i, b)
    BY <1>1 DEF Starts, Waiting
  <2>2. \A i \in Live' \ {new} : i \in Live /\ issues'[i].delegate = issues[i].delegate
    BY <1>5, <1>6 DEF Live, LiveIn
  <2>3. issues'[new].delegate = a
    BY <1>4, <1>5
  <2>4. {new} \in SUBSET Ids /\ Live' \subseteq Ids
    BY <1>3 DEF Live, LiveIn
  <2> HIDE DEF new
  <2>5. /\ world' = world /\ sessions' = sessions /\ unserved' = unserved
        /\ a # NoAgent => Waiting(requests'[r], new, a)
        /\ \A q \in Requests \ {r} : requests'[q] = requests[q]
    BY <1>1, <1>7
  <2>6. \A i \in (Live' \cap {new}) \ unserved' :
          issues'[i].delegate # NoAgent => Waiting(requests'[r], i, issues'[i].delegate)
    BY <2>3, <2>5
  <2>7. \A i \in Live' \ ({new} \cup unserved'), b \in Agents :
          Waiting(requests[r], i, b) /\ issues[i].delegate = b =>
            \/ Waiting(requests'[r], i, b)
            \/ \E s \in sessions' : s.issue = i /\ s.agent = b
    BY <2>1, <2>4
  <2>8. /\ \A i \in Live' \ ({new} \cup unserved') : i \notin unserved
        /\ \A s \in sessions : s.issue \in Live' \ {new} => s \in sessions'
    BY <2>5
  <2> QED  BY <2>2, <2>4, <2>5, <2>6, <2>7, <2>8, <1>2, <1>5, StaysServed
<1> QED  BY <1>7, <1>8, <1>9, Parts, PTL

LEMMA UpdateIssueKeepsIInv ==
  ASSUME IInv, NEW r \in Requests, UpdateIssue(r)
  PROVE  IInv'
<1>1. PICK i \in Live, p \in Live \cup {NoId}, move \in Types \cup {"null"},
           a \in Agents \cup {NoAgent} :
        /\ Starts(r) /\ (p \in {NoId, issues[i].parent} \/ NoParentCycle(i, p))
        /\ issues' = [issues EXCEPT ![i] = Patched(issues[i], move, p, a)]
        /\ unserved' = IF a = issues[i].delegate THEN unserved ELSE unserved \ {i}
        /\ Emit(r, 0, Matching("Issue"), i, Delegated(issues[i].delegate, a), "write")
        /\ UNCHANGED <<sessions, hooks, deliveries, world>>
  BY DEF UpdateIssue
<1> DEFINE row == Patched(issues[i], move, p, a)
<1>2. /\ Handlers /\ Tables /\ DelegationServed
      /\ issues \in [Ids -> Issue] /\ counter \in Nat
  BY Parts DEF Tables, Handlers
<1>3. /\ i \in Ids /\ p \in Ids \cup {NoId} /\ move \in StateTypes \cup {"null"}
      /\ issues[i] \in Issue /\ issues[i].state # "none" /\ Stamped(issues[i])
  BY <1>2, TypesAssumption DEF Ids, Tables, Live, LiveIn, StampsFollowState
<1>4. /\ row \in Issue /\ row.state # "none" /\ row.parent = p /\ row.delegate = a /\ Stamped(row)
  BY <1>3, PatchedFacts
<1> HIDE DEF row
<1>5. /\ issues' = [issues EXCEPT ![i] = row] /\ issues' \in [Ids -> Issue]
      /\ issues'[i] = row /\ \A j \in Ids \ {i} : issues'[j] = issues[j]
  BY <1>1, <1>2, <1>3, <1>4 DEF row
<1>6. Live' = Live
  BY <1>3, <1>4, <1>5 DEF Live, LiveIn
<1>7. /\ Handlers' /\ counter' >= counter
      /\ \A q \in Requests \ {r} : requests'[q] = requests[q]
      /\ a # issues[i].delegate /\ a # NoAgent => Waiting(requests'[r], i, a)
  <2>1. PICK todo \in SUBSET Hooks, b \in Agents \cup {NoAgent}, k \in Ids,
             w \in Scopes :
          /\ todo = Matching("Issue") /\ b = Delegated(issues[i].delegate, a)
          /\ k = i /\ w = "write"
    BY <1>3, MatchingTyped DEF IInv, Delegated, Scopes
  <2>2. Emit(r, 0, todo, k, b, w)
    BY <2>1, <1>1 DEF Emit
  <2>3. deliveries' \subseteq deliveries /\ world' = world
    BY <1>1
  <2>4. /\ Handlers' /\ counter' >= counter
        /\ \A q \in Requests \ {r} : requests'[q] = requests[q]
        /\ b # NoAgent => /\ requests'[r].at = "emitting" /\ requests'[r].world = world
                          /\ requests'[r].issue = k /\ requests'[r].agent = b
    <3>1. Handlers /\ r \in Requests /\ todo \in SUBSET Hooks /\ k \in Ids /\ w \in Scopes
          /\ b \in Agents \cup {NoAgent}
      BY <1>2
    <3>2. Handlers' /\ counter' >= counter
      BY <3>1, <2>2, <2>3, EmitAtOnceKeepsHandlers
    <3>3. \A q \in Requests \ {r} : requests'[q] = requests[q]
      BY <3>1, <2>2, <2>3, EmitAtOnceKeepsHandlers
    <3>4. ASSUME b # NoAgent
          PROVE  /\ requests'[r].at = "emitting" /\ requests'[r].world = world
                 /\ requests'[r].issue = k /\ requests'[r].agent = b
      BY <3>1, <3>4, <2>2, <2>3, EmitAtOnceKeepsHandlers
    <3> QED  BY <3>2, <3>3, <3>4
  <2> QED  BY <2>1, <2>4, <1>2 DEF Waiting, Delegated
<1>8. Tables'
  <2>1. ParentsWellFounded'
    <3>1. WellFounded(issues)
      BY <1>2 DEF Tables, ParentsWellFounded
    <3>2. /\ i \in LiveIn(issues) /\ row.parent \in LiveIn(issues) \cup {NoId}
          /\ \/ row.parent \in {NoId, issues[i].parent}
             \/ \E above \in SUBSET Ids :
                  /\ row.parent \in above /\ i \notin above
                  /\ \A x \in above : issues[x].parent \in above \cup {NoId}
      BY <1>1, <1>4 DEF Live, NoParentCycle
    <3>3. WellFounded([issues EXCEPT ![i] = row])
      BY <3>1, <3>2, <1>2, <1>4, UpdateKeepsWellFounded
    <3> QED  BY <3>3, <1>5 DEF ParentsWellFounded
  <2>2. StampsFollowState'
    BY <1>2, <1>3, <1>4, <1>5, <1>6 DEF Tables, StampsFollowState, Live, LiveIn
  <2>3. \A j \in Live' : j <= counter'
    BY <1>2, <1>6, <1>7 DEF Tables, Live, LiveIn, Ids, Handlers
  <2>4. unserved' \subseteq Ids
    BY <1>1, <1>2 DEF Tables
  <2> QED  BY <2>1, <2>2, <2>3, <2>4, <1>1, <1>2, <1>5 DEF Tables
<1>9. DelegationServed'
  <2> DEFINE free == IF a = issues[i].delegate THEN {} ELSE {i}
  <2>1. \A j \in Ids, b \in Agents : ~Waiting(requests[r], j, b)
    BY <1>1 DEF Starts, Waiting
  <2>2. \A j \in Live' \ free : j \in Live /\ issues'[j].delegate = issues[j].delegate
    BY <1>4, <1>5, <1>6 DEF Live, LiveIn
  <2>3. free \in SUBSET Ids /\ Live' \subseteq Ids
    BY <1>3 DEF Live, LiveIn
  <2>4. \A j \in (Live' \cap free) \ unserved' :
          issues'[j].delegate # NoAgent => Waiting(requests'[r], j, issues'[j].delegate)
    BY <1>4, <1>5, <1>7
  <2>5. \A j \in Live' \ (free \cup unserved') : j \notin unserved
    BY <1>1
  <2> HIDE DEF free
  <2>6. /\ world' = world /\ sessions' = sessions
        /\ \A q \in Requests \ {r} : requests'[q] = requests[q]
        /\ \A s \in sessions : s.issue \in Live' \ free => s \in sessions'
    BY <1>1, <1>7
  <2>7. \A j \in Live' \ (free \cup unserved'), b \in Agents :
          Waiting(requests[r], j, b) /\ issues[j].delegate = b =>
            \/ Waiting(requests'[r], j, b)
            \/ \E s \in sessions' : s.issue = j /\ s.agent = b
    BY <2>1, <2>3
  <2> QED  BY <2>2, <2>3, <2>4, <2>5, <2>6, <2>7, <1>2, <1>5, StaysServed
<1> QED  BY <1>7, <1>8, <1>9, Parts, PTL

\* A mutation that delegates nothing.
LEMMA EmitQuietly ==
  ASSUME IInv, NEW r \in Requests, NEW i \in Ids, NEW type,
         Emit(r, 0, Matching(type), i, NoAgent, "write"),
         world' = world, deliveries' \subseteq deliveries
  PROVE  /\ Handlers' /\ counter' >= counter
         /\ \A q \in Requests \ {r} : requests'[q] = requests[q]
<1>1. PICK todo \in SUBSET Hooks, w \in Scopes, a \in Agents \cup {NoAgent} :
        todo = Matching(type) /\ w = "write" /\ a = NoAgent
  BY MatchingTyped DEF IInv, Scopes
<1>2. Emit(r, 0, todo, i, a, w)
  BY <1>1 DEF Emit
<1>3. Handlers
  BY Parts
<1>4. Handlers' /\ counter' >= counter
  BY <1>2, <1>3, EmitAtOnceKeepsHandlers
<1>5. \A q \in Requests \ {r} : requests'[q] = requests[q]
  BY <1>2, <1>3, EmitAtOnceKeepsHandlers
<1> QED  BY <1>4, <1>5

LEMMA TouchIssueKeepsIInv ==
  ASSUME IInv, NEW r \in Requests, TouchIssue(r)
  PROVE  IInv'
<1>1. PICK i \in Live :
        /\ Starts(r) /\ Emit(r, 0, Matching("Issue"), i, NoAgent, "write")
        /\ UNCHANGED <<issues, sessions, hooks, deliveries, world, unserved>>
  BY DEF TouchIssue
<1>2. Handlers /\ Tables /\ DelegationServed
  BY Parts
<1>3. i \in Ids /\ Live' = Live
  BY <1>1 DEF Live, LiveIn
<1>4. deliveries' \subseteq deliveries /\ world' = world
  BY <1>1
<1>5. /\ Handlers' /\ counter' >= counter
      /\ \A q \in Requests \ {r} : requests'[q] = requests[q]
  BY <1>1, <1>3, <1>4, EmitQuietly
<1>6. Tables'
  <2>1. \A j \in Live' : j <= counter'
    BY <1>2, <1>3, <1>5 DEF Tables, Live, LiveIn, Ids, Handlers
  <2> QED  BY <2>1, <1>1, <1>2, <1>3
           DEF Tables, ParentsWellFounded, StampsFollowState
<1>7. DelegationServed'
  <2>1. \A q \in Requests : requests'[q] = requests[q] \/ (q = r /\ requests[q].at = "idle")
    BY <1>1, <1>5 DEF Starts
  <2> QED  BY <2>1, <1>1, <1>2, <1>3 DEF DelegationServed
<1> QED  BY <1>5, <1>6, <1>7, Parts, PTL

LEMMA DeleteIssueKeepsIInv ==
  ASSUME IInv, NEW r \in Requests, DeleteIssue(r)
  PROVE  IInv'
<1>1. PICK i \in Live :
        /\ Starts(r) /\ Emit(r, 0, Matching("Issue"), i, NoAgent, "write")
        /\ issues' = Without(i) /\ sessions' = {s \in sessions : s.issue # i}
        /\ unserved' = unserved \ {i}
        /\ UNCHANGED <<hooks, deliveries, world>>
  BY DEF DeleteIssue
<1>2. Handlers /\ Tables /\ DelegationServed /\ issues \in [Ids -> Issue]
  BY Parts DEF Tables
<1>3. /\ i \in Ids /\ issues' \in [Ids -> Issue] /\ Live' = Live \ {i}
      /\ \A j \in Live \ {i} : /\ issues'[j].delegate = issues[j].delegate
                               /\ Stamped(issues[j]) => Stamped(issues'[j])
  BY <1>1, <1>2, WithoutFacts DEF Live, LiveIn
<1>4. deliveries' \subseteq deliveries /\ world' = world
  BY <1>1
<1>5. /\ Handlers' /\ counter' >= counter
      /\ \A q \in Requests \ {r} : requests'[q] = requests[q]
  BY <1>1, <1>3, <1>4, EmitQuietly
<1>6. Tables'
  <2>1. ParentsWellFounded'
    BY <1>1, <1>2, DeleteKeepsWellFounded DEF Tables, ParentsWellFounded
  <2>2. StampsFollowState'
    BY <1>2, <1>3 DEF Tables, StampsFollowState
  <2>3. \A j \in Live' : j <= counter'
    BY <1>2, <1>3, <1>5 DEF Tables, Live, LiveIn, Ids, Handlers
  <2> QED  BY <2>1, <2>2, <2>3, <1>1, <1>2, <1>3 DEF Tables
<1>7. DelegationServed'
  <2>1. \A q \in Requests : requests'[q] = requests[q] \/ (q = r /\ requests[q].at = "idle")
    BY <1>1, <1>5 DEF Starts
  <2> SUFFICES ASSUME NEW j \in Live' \ unserved', issues'[j].delegate # NoAgent
               PROVE  \/ \E s \in sessions' : s.issue = j /\ s.agent = issues'[j].delegate
                      \/ \E q \in Requests : /\ requests'[q].at = "emitting"
                                             /\ requests'[q].world = world'
                                             /\ requests'[q].issue = j
                                             /\ requests'[q].agent = issues'[j].delegate
    BY DEF DelegationServed
  <2>2. j \in Live \ unserved /\ j # i /\ issues'[j].delegate = issues[j].delegate
    BY <1>1, <1>3
  <2>3. CASE \E s \in sessions : s.issue = j /\ s.agent = issues[j].delegate
    BY <2>2, <2>3, <1>1
  <2>4. CASE \E q \in Requests : /\ requests[q].at = "emitting" /\ requests[q].world = world
                                 /\ requests[q].issue = j
                                 /\ requests[q].agent = issues[j].delegate
    BY <2>1, <2>2, <2>4, <1>1
  <2> QED  BY <2>2, <2>3, <2>4, <1>2 DEF DelegationServed
<1> QED  BY <1>5, <1>6, <1>7, Parts, PTL

\* A session is opened by its own mutation, or by the handler that was to open it.
LEMMA OpenSessionKeepsIInv ==
  ASSUME IInv, NEW r \in Requests, NEW i \in Live, NEW a \in Agents, OpenSession(r, i, a),
         \/ Starts(r)
         \/ requests[r].issue = i /\ requests[r].agent = a
  PROVE  IInv'
<1>1. /\ counter < MaxIds
      /\ sessions' = sessions \cup {[id |-> counter + 1, issue |-> i, agent |-> a]}
      /\ Emit(r, 1, Matching("AgentSessionEvent"), i, NoAgent, "write")
      /\ UNCHANGED <<issues, hooks, deliveries, world, unserved>>
  BY DEF OpenSession
<1>2. Handlers /\ Tables /\ DelegationServed
  BY Parts
<1>3. /\ i \in Ids /\ Live' = Live /\ Live \subseteq Ids
      /\ [id |-> counter + 1, issue |-> i, agent |-> a] \in Session
  BY <1>1, <1>2, BoundsAssumption DEF Live, LiveIn, Session, Ids, Handlers
<1>4. /\ Handlers' /\ counter' >= counter
      /\ \A q \in Requests \ {r} : requests'[q] = requests[q]
  <2>1. PICK todo \in SUBSET Hooks, w \in Scopes, b \in Agents \cup {NoAgent} :
          todo = Matching("AgentSessionEvent") /\ w = "write" /\ b = NoAgent
    BY MatchingTyped DEF IInv, Scopes
  <2>2. Emit(r, 1, todo, i, b, w)
    BY <2>1, <1>1 DEF Emit
  <2>3. deliveries' \subseteq deliveries /\ world' = world /\ 1 \in {0, 1}
    BY <1>1
  <2>4. Handlers' /\ counter' >= counter + 1
    BY <2>2, <2>3, <1>2, <1>3, EmitKeepsHandlers
  <2>5. \A q \in Requests \ {r} : requests'[q] = requests[q]
    BY <2>2, <2>3, <1>2, <1>3, EmitKeepsHandlers
  <2>6. counter' >= counter
    BY <2>4, <1>2 DEF Handlers
  <2> QED  BY <2>4, <2>5, <2>6
<1>5. Tables'
  <2>1. \A j \in Live' : j <= counter'
    BY <1>2, <1>3, <1>4 DEF Tables, Live, LiveIn, Ids, Handlers
  <2>2. sessions' \subseteq Session
    BY <1>1, <1>2, <1>3 DEF Tables
  <2> QED  BY <2>1, <2>2, <1>1, <1>2, <1>3
           DEF Tables, ParentsWellFounded, StampsFollowState
<1>6. DelegationServed'
  <2> DEFINE new == [id |-> counter + 1, issue |-> i, agent |-> a]
  <2>1. new.issue = i /\ new.agent = a /\ sessions' = sessions \cup {new}
    BY <1>1
  <2> HIDE DEF new
  <2> SUFFICES ASSUME NEW j \in Live \ unserved, issues[j].delegate # NoAgent
               PROVE  \/ \E s \in sessions' : s.issue = j /\ s.agent = issues[j].delegate
                      \/ \E q \in Requests : /\ requests'[q].at = "emitting"
                                             /\ requests'[q].world = world
                                             /\ requests'[q].issue = j
                                             /\ requests'[q].agent = issues[j].delegate
    BY <1>1, <1>3 DEF DelegationServed
  <2>2. CASE \E s \in sessions : s.issue = j /\ s.agent = issues[j].delegate
    BY <2>1, <2>2
  <2>3. CASE \E q \in Requests : /\ requests[q].at = "emitting" /\ requests[q].world = world
                                 /\ requests[q].issue = j
                                 /\ requests[q].agent = issues[j].delegate
    <3>1. PICK q \in Requests : /\ requests[q].at = "emitting" /\ requests[q].world = world
                                /\ requests[q].issue = j
                                /\ requests[q].agent = issues[j].delegate
      BY <2>3
    <3>2. CASE q = r
      BY <3>1, <3>2, <2>1 DEF Starts
    <3>3. CASE q # r
      BY <3>1, <3>3, <1>4
    <3> QED  BY <3>2, <3>3
  <2> QED  BY <2>2, <2>3, <1>2 DEF DelegationServed
<1> QED  BY <1>4, <1>5, <1>6, Parts, PTL

-----------------------------------------------------------------------------
(* The dispatch, and the calls that await nothing. *)

LEMMA RecordDeliveryKeepsIInv ==
  ASSUME IInv, NEW r \in Requests, RecordDelivery(r)
  PROVE  IInv'
<1>1. UNCHANGED <<issues, sessions, hooks, world, unserved>>
  BY DEF RecordDelivery
<1>2. Handlers /\ Tables /\ DelegationServed
  BY Parts
<1>3. /\ Handlers' /\ counter' >= counter
      /\ \A q \in Requests \ {r} : requests'[q] = requests[q]
      /\ requests[r].agent # NoAgent =>
           /\ requests'[r].at = requests[r].at /\ requests'[r].world = requests[r].world
           /\ requests'[r].issue = requests[r].issue /\ requests'[r].agent = requests[r].agent
  BY <1>2, RecordKeepsHandlers
<1>4. Live' = Live
  BY <1>1 DEF Live
<1>5. Tables'
  <2>1. \A j \in Live' : j <= counter'
    BY <1>2, <1>3, <1>4 DEF Tables, Live, LiveIn, Ids, Handlers
  <2> QED  BY <2>1, <1>1, <1>2, <1>4
           DEF Tables, ParentsWellFounded, StampsFollowState
<1>6. DelegationServed'
  <2>1. ASSUME NEW q \in Requests, NEW j, NEW b, Waiting(requests[q], j, b), b # NoAgent
        PROVE  Waiting(requests'[q], j, b)
    BY <2>1, <1>3 DEF Waiting
  <2> QED  BY <2>1, <1>1, <1>2, <1>4 DEF DelegationServed, Waiting
<1> QED  BY <1>3, <1>5, <1>6, Parts, PTL

LEMMA FailKeepsIInv ==
  ASSUME IInv, NEW r \in Requests, Fail(r)
  PROVE  IInv'
<1>1. /\ requests' = [requests EXCEPT ![r] = Idle]
      /\ unserved' = unserved \cup Forsaken(requests[r])
      /\ UNCHANGED <<issues, sessions, hooks, deliveries, counter, world>>
  BY DEF Fail
<1>2. Handlers /\ Tables /\ DelegationServed
  BY Parts
<1>3. Live' = Live /\ Forsaken(requests[r]) \subseteq Ids
  BY <1>1 DEF Live, LiveIn, Forsaken
<1>4. Tables'
  BY <1>1, <1>2, <1>3 DEF Tables, ParentsWellFounded, StampsFollowState
<1>5. DelegationServed'
  <2>1. \A q \in Requests \ {r} : requests'[q] = requests[q]
    BY <1>1, <1>2 DEF Handlers
  <2>2. ASSUME NEW j \in Live \ unserved', Waiting(requests[r], j, issues[j].delegate),
               issues[j].delegate # NoAgent
        PROVE  FALSE
    BY <2>2, <1>1 DEF Waiting, Forsaken
  <2> QED  BY <2>1, <2>2, <1>1, <1>2, <1>3 DEF DelegationServed, Waiting
<1>6. Handlers'
  BY <1>2, FailKeepsHandlers
<1> QED  BY <1>4, <1>5, <1>6, Parts, PTL

LEMMA DelegateKeepsIInv ==
  ASSUME IInv, NEW r \in Requests, Delegate(r)
  PROVE  IInv'
<1>1. CASE Fail(r)
  BY <1>1, FailKeepsIInv
<1>2. CASE /\ requests[r].issue \in Live
           /\ OpenSession(r, requests[r].issue, requests[r].agent)
  <2>1. requests[r] \in Request /\ requests[r].agent # NoAgent
    BY DEF Delegate, IInv, AtRest, Held, TypeOK
  <2>2. PICK i \in Live, a \in Agents : i = requests[r].issue /\ a = requests[r].agent
    BY <2>1, <1>2 DEF Request
  <2>3. OpenSession(r, i, a)
    BY <2>2, <1>2
  <2> QED  BY <2>2, <2>3, OpenSessionKeepsIInv
<1> QED  BY <1>1, <1>2 DEF Delegate

\* What no handler does leaves the handlers as they are, if ids only grow.
LEMMA AsideKeepsHandlers ==
  ASSUME Handlers, UNCHANGED <<requests, world>>, deliveries' \subseteq deliveries,
         counter' \in Nat, counter' >= counter
  PROVE  Handlers'
<1>1. \A d \in deliveries' : d.world <= world /\ (d.world = world => d.id <= counter')
  <2> SUFFICES ASSUME NEW d \in deliveries  PROVE  d.world = world => d.id <= counter'
    BY DEF Handlers
  <2>1. d.id \in Nat
    BY DEF Handlers, Delivery, Ids
  <2> QED  BY <2>1 DEF Handlers
<1>2. \A q \in Requests : requests[q].world = world => requests[q].delivery <= counter'
  <2> SUFFICES ASSUME NEW q \in Requests
               PROVE  requests[q].world = world => requests[q].delivery <= counter'
    OBVIOUS
  <2>1. requests[q].delivery \in Nat
    BY DEF Handlers, Request, Ids, NoId
  <2> QED  BY <2>1 DEF Handlers
<1>3. AtRest' /\ DeliveryIdsReserved'
  BY DEF Handlers, AtRest, DeliveryIdsReserved
<1>4. deliveries' \subseteq Delivery
  BY DEF Handlers
<1> QED  BY <1>1, <1>2, <1>3, <1>4 DEF Handlers

LEMMA CreateIssueRefusedKeepsIInv ==
  ASSUME IInv, CreateIssueRefused
  PROVE  IInv'
<1>1. /\ counter' = counter + 1
      /\ UNCHANGED <<issues, sessions, hooks, deliveries, requests, world, unserved>>
  BY DEF CreateIssueRefused
<1>2. Handlers /\ Tables /\ DelegationServed /\ counter \in Nat
  BY Parts DEF Handlers
<1>3. counter' \in Nat /\ counter' >= counter
  BY <1>1, <1>2
<1>4. Handlers'
  BY <1>1, <1>2, <1>3, AsideKeepsHandlers
<1>5. Tables'
  <2>1. Live' = Live /\ \A j \in Live' : j <= counter'
    BY <1>1, <1>2 DEF Tables, Live, LiveIn, Ids
  <2> QED  BY <2>1, <1>1, <1>2 DEF Tables, ParentsWellFounded, StampsFollowState
<1>6. DelegationServed'
  BY <1>1, <1>2 DEF DelegationServed, Live
<1> QED  BY <1>4, <1>5, <1>6, Parts, PTL

LEMMA CreateIssueHalfwayKeepsIInv ==
  ASSUME IInv, CreateIssueHalfway
  PROVE  IInv'
<1>1. PICK type \in NewTypes, p \in Live \cup {NoId}, a \in Agents \cup {NoAgent} :
        /\ counter < MaxIds /\ counter' = counter + 1
        /\ issues' = [issues EXCEPT ![counter + 1] = NewIssue(type, p, a)]
        /\ unserved' = IF a = NoAgent THEN unserved ELSE unserved \cup {counter + 1}
        /\ UNCHANGED <<sessions, hooks, deliveries, requests, world>>
  BY DEF CreateIssueHalfway
<1> DEFINE new == counter + 1
           row == NewIssue(type, p, a)
<1>2. /\ Handlers /\ Tables /\ DelegationServed
      /\ issues \in [Ids -> Issue] /\ counter \in Nat
  BY Parts DEF Tables, Handlers
<1>3. new \in Ids \ Live /\ p \in Ids \cup {NoId} /\ type \in StateTypes
  BY <1>1, <1>2, BoundsAssumption, TypesAssumption DEF Ids, Tables, Live, LiveIn
<1>4. /\ row \in Issue /\ row.state # "none" /\ row.parent = p /\ row.delegate = a /\ Stamped(row)
  BY <1>3, NewIssueFacts
<1> HIDE DEF row
<1>5. /\ issues' = [issues EXCEPT ![new] = row] /\ issues' \in [Ids -> Issue]
      /\ issues'[new] = row /\ \A i \in Ids \ {new} : issues'[i] = issues[i]
  BY <1>1, <1>2, <1>3, <1>4 DEF row
<1>6. Live' = Live \cup {new} /\ Live \subseteq Ids
  BY <1>3, <1>4, <1>5 DEF Live, LiveIn
<1>7. Handlers'
  BY <1>1, <1>2, AsideKeepsHandlers
<1>8. Tables'
  <2>1. ParentsWellFounded'
    <3>1. WellFounded(issues)
      BY <1>2 DEF Tables, ParentsWellFounded
    <3>2. new \in Ids \ LiveIn(issues) /\ row.parent \in LiveIn(issues) \cup {NoId}
      BY <1>3, <1>4 DEF Live
    <3> HIDE DEF new
    <3>3. WellFounded([issues EXCEPT ![new] = row])
      BY <3>1, <3>2, <1>2, <1>4, AddKeepsWellFounded
    <3> QED  BY <3>3, <1>5 DEF ParentsWellFounded
  <2>2. StampsFollowState'
    BY <1>2, <1>3, <1>4, <1>5, <1>6 DEF Tables, StampsFollowState, Live, LiveIn
  <2>3. \A i \in Live' : i <= counter'
    BY <1>1, <1>2, <1>6 DEF Tables, Live, LiveIn, Ids, Handlers
  <2>4. unserved' \subseteq Ids
    BY <1>1, <1>2, <1>3 DEF Tables
  <2> QED  BY <2>1, <2>2, <2>3, <2>4, <1>1, <1>2, <1>5 DEF Tables
<1>9. DelegationServed'
  <2>1. new \in unserved' \/ issues'[new].delegate = NoAgent
    BY <1>1, <1>4, <1>5
  <2>2. \A i \in Live' \ (unserved' \cup {new}) :
          i \in Live \ unserved /\ issues'[i] = issues[i]
    BY <1>1, <1>5, <1>6
  <2> HIDE DEF new
  <2> QED  BY <2>1, <2>2, <1>1, <1>2 DEF DelegationServed
<1> QED  BY <1>7, <1>8, <1>9, Parts, PTL

LEMMA WebhooksKeepIInv ==
  ASSUME IInv, CreateWebhook \/ DeleteWebhook
  PROVE  IInv'
<1>1. Handlers /\ Tables /\ DelegationServed /\ counter \in Nat
  BY Parts DEF Handlers
<1>2. /\ UNCHANGED <<issues, sessions, requests, world, unserved>>
      /\ deliveries' \subseteq deliveries /\ hooks' \subseteq Hook
      /\ counter' \in Nat /\ counter' >= counter
  <2>1. CASE CreateWebhook
    <3>1. PICK wants \in Wanted :
            /\ counter < MaxIds /\ counter' = counter + 1
            /\ hooks' = hooks \cup {[id |-> counter + 1, wants |-> wants]}
            /\ UNCHANGED <<issues, sessions, deliveries, requests, world, unserved>>
      BY <2>1 DEF CreateWebhook
    <3>2. [id |-> counter + 1, wants |-> wants] \in Hook
      BY <3>1, <1>1, BoundsAssumption, WantedAssumption DEF Hook, Hooks, Ids
    <3> QED  BY <3>1, <3>2, <1>1 DEF Tables
  <2>2. CASE DeleteWebhook
    BY <2>2, <1>1 DEF DeleteWebhook, Tables
  <2> QED  BY <2>1, <2>2
<1>3. Handlers'
  BY <1>1, <1>2, AsideKeepsHandlers
<1>4. Tables'
  <2>1. Live' = Live /\ \A j \in Live' : j <= counter'
    BY <1>1, <1>2 DEF Tables, Live, LiveIn, Ids
  <2> QED  BY <2>1, <1>1, <1>2 DEF Tables, ParentsWellFounded, StampsFollowState
<1>5. DelegationServed'
  BY <1>1, <1>2 DEF DelegationServed, Live
<1> QED  BY <1>3, <1>4, <1>5, Parts, PTL

LEMMA ResetKeepsIInv ==
  ASSUME IInv, Reset
  PROVE  IInv'
<1>1. PICK seed \in Seeds :
        /\ world < MaxResets /\ world' = world + 1
        /\ issues' = seed.issues /\ hooks' = seed.hooks /\ counter' = seed.counter
        /\ sessions' = {} /\ deliveries' = {}
        /\ unserved' = DelegatedBy(seed)
        /\ UNCHANGED requests
  BY DEF Reset
<1>2. Handlers
  BY Parts
<1>3. /\ issues' \in [Ids -> Issue] /\ hooks' \subseteq Hook /\ counter' \in Nat
      /\ WellFounded(issues')
      /\ \A i \in LiveIn(issues') : i <= counter' /\ Stamped(issues'[i])
      /\ unserved' \subseteq Ids
      /\ \A i \in LiveIn(issues') \ unserved' : issues'[i].delegate = NoAgent
  BY <1>1, SeedsAssumption DEF DelegatedBy, LiveIn
<1>4. Tables'
  BY <1>1, <1>3 DEF Tables, ParentsWellFounded, StampsFollowState, Live
<1>5. DelegationServed'
  BY <1>3 DEF DelegationServed, Live
<1>6. Handlers'
  <2>1. world' \in Worlds /\ world' > world /\ world \in Nat
    BY <1>1, <1>2, BoundsAssumption DEF Handlers, Worlds
  <2>2. \A q \in Requests : requests'[q].world < world'
    BY <2>1, <1>1, <1>2 DEF Handlers, Request, Worlds
  <2>3. AtRest'
    BY <1>1, <1>2 DEF Handlers, AtRest
  <2>4. DeliveryIdsReserved'
    BY <2>1, <2>2, <1>1, <1>2 DEF DeliveryIdsReserved, Handlers, Request, Worlds
  <2>5. \A q \in Requests : requests'[q].world <= world' /\ requests'[q].world # world'
    BY <2>1, <2>2, <1>1, <1>2 DEF Handlers, Request, Worlds
  <2> QED  BY <2>1, <2>3, <2>4, <2>5, <1>1, <1>2, <1>3 DEF Handlers
<1> QED  BY <1>4, <1>5, <1>6, Parts, PTL

-----------------------------------------------------------------------------
(* The invariant. *)

LEMMA InitIInv == Init => IInv
<1> SUFFICES ASSUME Init  PROVE  IInv
  OBVIOUS
<1>1. PICK seed \in Seeds :
        /\ issues = seed.issues /\ hooks = seed.hooks /\ counter = seed.counter
        /\ sessions = {} /\ deliveries = {}
        /\ requests = [r \in Requests |-> Idle]
        /\ world = 0 /\ unserved = DelegatedBy(seed)
  BY DEF Init
<1>2. /\ issues \in [Ids -> Issue] /\ hooks \subseteq Hook /\ counter \in Nat
      /\ WellFounded(issues)
      /\ \A i \in LiveIn(issues) : i <= counter /\ Stamped(issues[i])
      /\ unserved \subseteq Ids
      /\ \A i \in LiveIn(issues) \ unserved : issues[i].delegate = NoAgent
  BY <1>1, SeedsAssumption DEF DelegatedBy, LiveIn
<1>3. Tables /\ DelegationServed
  BY <1>1, <1>2 DEF Tables, ParentsWellFounded, StampsFollowState, Live, DelegationServed
<1>4. Handlers
  <2>1. \A r \in Requests : requests[r] = Idle
    BY <1>1
  <2>2. requests \in [Requests -> Request] /\ 0 \in Worlds
    BY <1>1, IdleFacts, BoundsAssumption DEF Worlds
  <2>3. AtRest /\ DeliveryIdsReserved
    BY <2>1, IdleFacts DEF AtRest, DeliveryIdsReserved
  <2> QED  BY <2>1, <2>2, <2>3, <1>1, <1>2, IdleFacts DEF Handlers, NoId
<1> QED  BY <1>3, <1>4, Parts

LEMMA NextKeepsIInv == IInv /\ [Next]_vars => IInv'
<1> SUFFICES ASSUME IInv, [Next]_vars  PROVE  IInv'
  OBVIOUS
<1>1. ASSUME NEW r \in Requests, CreateIssue(r)  PROVE  IInv'
  BY <1>1, CreateIssueKeepsIInv
<1>2. ASSUME NEW r \in Requests, UpdateIssue(r)  PROVE  IInv'
  BY <1>2, UpdateIssueKeepsIInv
<1>3. ASSUME NEW r \in Requests, TouchIssue(r)  PROVE  IInv'
  BY <1>3, TouchIssueKeepsIInv
<1>4. ASSUME NEW r \in Requests, DeleteIssue(r)  PROVE  IInv'
  BY <1>4, DeleteIssueKeepsIInv
<1>5. ASSUME NEW r \in Requests, CreateAgentSessionOnIssue(r)  PROVE  IInv'
  <2>1. PICK i \in Live, a \in Agents : Starts(r) /\ OpenSession(r, i, a)
    BY <1>5 DEF CreateAgentSessionOnIssue
  <2> QED  BY <2>1, OpenSessionKeepsIInv
<1>6. ASSUME NEW r \in Requests, RecordDelivery(r)  PROVE  IInv'
  BY <1>6, RecordDeliveryKeepsIInv
<1>7. ASSUME NEW r \in Requests, RecordFails(r)  PROVE  IInv'
  BY <1>7, FailKeepsIInv DEF RecordFails
<1>8. ASSUME NEW r \in Requests, Delegate(r)  PROVE  IInv'
  BY <1>8, DelegateKeepsIInv
<1>9. CASE CreateIssueRefused
  BY <1>9, CreateIssueRefusedKeepsIInv
<1>10. CASE CreateIssueHalfway
  BY <1>10, CreateIssueHalfwayKeepsIInv
<1>11. CASE CreateWebhook \/ DeleteWebhook
  BY <1>11, WebhooksKeepIInv
<1>12. CASE Reset
  BY <1>12, ResetKeepsIInv
<1>13. CASE UNCHANGED vars
  BY <1>13 DEF vars, IInv, TypeOK, IdsPassed, AtRest, ParentsWellFounded, StampsFollowState,
               DelegationServed, DeliveryIdsReserved, Live
<1> QED  BY <1>1, <1>2, <1>3, <1>4, <1>5, <1>6, <1>7, <1>8, <1>9, <1>10, <1>11, <1>12, <1>13
         DEF Next, Handler

\* Rows and what handlers hold have their types after every call, dispatch and
\* reset.
THEOREM TypeCorrect == Spec => []TypeOK
<1>1. IInv => TypeOK
  BY DEF IInv
<1> QED  BY <1>1, InitIInv, NextKeepsIInv, PTL DEF Spec

\* No interleaving of updates, creations, deletions and resets makes a cycle of
\* parents or leaves an issue under one that is gone (assertNoParentCycle).
THEOREM ParentsWellFoundedAlways == Spec => []ParentsWellFounded
<1>1. IInv => ParentsWellFounded
  BY DEF IInv
<1> QED  BY <1>1, InitIInv, NextKeepsIInv, PTL DEF Spec

\* An issue's timestamps say its state after any sequence of updates (updateIssue).
THEOREM StampsFollowStateAlways == Spec => []StampsFollowState
<1>1. IInv => StampsFollowState
  BY DEF IInv
<1> QED  BY <1>1, InitIInv, NextKeepsIInv, PTL DEF Spec

\* A delegation has its session, or a request that is to open it, or one that
\* failed, for every number of requests in flight (createAgentSessionOnIssue
\* after the await of createIssue and updateIssue).
THEOREM DelegationServedAlways == Spec => []DelegationServed
<1>1. IInv => DelegationServed
  BY DEF IInv
<1> QED  BY <1>1, InitIInv, NextKeepsIInv, PTL DEF Spec

\* No two handlers ever reserve the same delivery id, and no row has one that is
\* reserved (dispatch.ts: nextId before the await, the row after it).
THEOREM DeliveryIdsReservedAlways == Spec => []DeliveryIdsReserved
<1>1. IInv => DeliveryIdsReserved
  BY DEF IInv
<1> QED  BY <1>1, InitIInv, NextKeepsIInv, PTL DEF Spec

=============================================================================
