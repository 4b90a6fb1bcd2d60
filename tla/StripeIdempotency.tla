-------------------------- MODULE StripeIdempotency --------------------------
(***************************************************************************)
(* The Idempotency-Key middleware of the Stripe twin (src/idempotency.ts)  *)
(* under the failure-injection middleware that wraps it, for concurrent    *)
(* requests to one (account, method, path).  Other tuples have other rows, *)
(* other pending entries and other attempt counters.                       *)
(*                                                                         *)
(* A request is cut at its await points: the body is read before the key   *)
(* is looked up, the handler is awaited, a request that joins one in       *)
(* flight awaits its promise, and the row is stored after the handler has  *)
(* committed.  Everything between two awaits is one step.  A promise is    *)
(* named by the request that created it.                                   *)
(***************************************************************************)
EXTENDS Integers, Sequences, FiniteSets

CONSTANTS
  N,              \* the number of requests, which are numbered as they arrive
  Keys, Hashes, NULL,
  BeforeAttempt,  \* the attempt a before_handler rule matches (0: no such rule)
  AfterAttempt,   \* the attempt an after_handler rule matches (0: no such rule)
  MaxResets,      \* bound on /admin/reset and /admin/seed
  MaxRestarts     \* bound on restarts of a twin whose database is a file

Requests == 1 .. N

ASSUME NullAssumption  == NULL \notin Requests \cup Keys
ASSUME RulesAssumption == /\ BeforeAttempt \in Nat /\ AfterAttempt \in Nat
                          /\ BeforeAttempt = AfterAttempt => BeforeAttempt = 0
ASSUME BoundAssumption == MaxResets \in Nat /\ MaxRestarts \in Nat

VARIABLES
  pc,        \* where each request is
  req,       \* its Idempotency-Key (or NULL), request hash and parked override
  leads,     \* it created the pending entry of its key
  waits,     \* the request whose promise it awaits
  promise,   \* the promise it created
  outcome,   \* what its handler did
  answer,    \* what its client received, and whose execution that answer is of
  tape,      \* the recorder events of each request
  rows,      \* idempotency_keys: the request whose response is stored
  pending,   \* the in-flight map: the request that holds the key
  armed,     \* the seed installed the failure-injection rules
  count,     \* attempts counted since
  epoch,     \* resets so far
  ranIn,     \* the epoch in which a request's handler ran
  lostRow,   \* requests that committed and whose row was never stored
  restarts   \* restarts so far

server  == <<rows, pending, armed, count>>
history == <<epoch, ranIn, lostRow, restarts>>
vars == <<pc, req, leads, waits, promise, outcome, answer, tape, server, history>>

\* The handler: "ok" commits, "declined" commits and answers 402 (a card
\* decline), "refused" answers 4xx having changed nothing.
Outcomes == {"ok", "declined", "refused"}
Mutates(o) == o \in {"ok", "declined"}

InFlight == {"lookup", "waiting", "handler", "storing"}
Answers == [kind : {"none", "own", "injected", "replay", "mismatch", "error", "lost"},
            of   : Requests \cup {NULL}]
TapeEvent == [mutation : BOOLEAN, dedupe : BOOLEAN]

TypeOK ==
  /\ pc \in [Requests -> InFlight \cup {"idle", "done"}]
  /\ req \in [Requests -> [key : Keys \cup {NULL}, hash : Hashes \cup {NULL},
                           override : BOOLEAN]]
  /\ leads \in [Requests -> BOOLEAN]
  /\ waits \in [Requests -> Requests \cup {NULL}]
  /\ promise \in [Requests -> {"none", "pending", "stored", "failed", "rejected"}]
  /\ outcome \in [Requests -> Outcomes \cup {"none"}]
  /\ answer \in [Requests -> Answers]
  /\ tape \in [Requests -> Seq(TapeEvent)]
  /\ rows \in [Keys -> Requests \cup {NULL}]
  /\ pending \in [Keys -> Requests \cup {NULL}]
  /\ armed \in BOOLEAN /\ count \in Nat
  /\ epoch \in 0 .. MaxResets /\ ranIn \in [Requests -> 0 .. MaxResets]
  /\ lostRow \subseteq Requests /\ restarts \in 0 .. MaxRestarts

Init ==
  /\ pc = [r \in Requests |-> "idle"]
  /\ req = [r \in Requests |-> [key |-> NULL, hash |-> NULL, override |-> FALSE]]
  /\ leads = [r \in Requests |-> FALSE]
  /\ waits = [r \in Requests |-> NULL]
  /\ promise = [r \in Requests |-> "none"]
  /\ outcome = [r \in Requests |-> "none"]
  /\ answer = [r \in Requests |-> [kind |-> "none", of |-> NULL]]
  /\ tape = [r \in Requests |-> <<>>]
  /\ rows = [k \in Keys |-> NULL]
  /\ pending = [k \in Keys |-> NULL]
  /\ armed \in BOOLEAN /\ count = 0
  /\ epoch = 0 /\ ranIn = [r \in Requests |-> 0]
  /\ lostRow = {} /\ restarts = 0

-----------------------------------------------------------------------------
(* Helpers. *)

Key(r) == req[r].key
At(r, label)   == pc[r] = label
Goto(r, label) == pc' = [pc EXCEPT ![r] = label]

Respond(r, kind, of) ==
  /\ Goto(r, "done")
  /\ answer' = [answer EXCEPT ![r] = [kind |-> kind, of |-> of]]

Record(r, e) == tape' = [tape EXCEPT ![r] = Append(@, e)]

\* respond(): the mutation flag is the handler's, whatever goes on the wire.
SuccessEvent(o) == [mutation |-> o = "ok", dedupe |-> FALSE]
HandlerEvent(o) == [mutation |-> Mutates(o), dedupe |-> FALSE]
DedupeEvent == [mutation |-> FALSE, dedupe |-> TRUE]

\* Who holds a key: the stored row, else the request in flight.
RowOnly(k) == rows[k]
Holder(k)  == IF rows[k] # NULL THEN rows[k] ELSE pending[k]

\* Only a 2xx of the handler itself is cached.
AnyStatus(r) == TRUE
Cacheable(r) == outcome[r] = "ok"

\* The finally block, and what it resolves the promise of a leader to.
Released(r)    == [pending EXCEPT ![Key(r)] = NULL]
RawOutcome(r)  == outcome[r]
OnlyStored(r)  == IF Cacheable(r) THEN "stored" ELSE promise[r]
Resolution(r)  == IF Cacheable(r) THEN "stored" ELSE "failed"

-----------------------------------------------------------------------------
(* A request's way through the two middlewares and the handler. *)

\* Failure injection runs first: it counts the attempt, answers a
\* before_handler match at once and parks an after_handler one.
Arrive(r, k, h) ==
  /\ At(r, "idle") /\ \A s \in 1 .. r - 1 : ~At(s, "idle")
  /\ LET attempt == count + 1
         before == armed /\ attempt = BeforeAttempt
     IN
       /\ count' = IF armed THEN attempt ELSE count
       /\ req' = [req EXCEPT ![r] = [key |-> k,
                    hash     |-> IF k = NULL THEN NULL ELSE h,
                    override |-> armed /\ attempt = AfterAttempt]]
       /\ IF before
            THEN Respond(r, "injected", NULL) /\ Record(r, HandlerEvent("refused"))
            ELSE /\ Goto(r, IF k = NULL THEN "handler" ELSE "lookup")
                 /\ UNCHANGED <<answer, tape>>
  /\ UNCHANGED <<leads, waits, promise, outcome, rows, pending, armed, history>>

\* The key belongs to a request with other parameters: 400, not recorded.
RefuseMismatch(r) ==
  /\ At(r, "lookup")
  /\ Holder(Key(r)) # NULL
  /\ req[Holder(Key(r))].hash # req[r].hash
  /\ Respond(r, "mismatch", NULL)
  /\ UNCHANGED <<req, leads, waits, promise, outcome, tape, server, history>>

ReplayRow(r) ==
  /\ At(r, "lookup")
  /\ rows[Key(r)] # NULL
  /\ req[rows[Key(r)]].hash = req[r].hash
  /\ Respond(r, "replay", rows[Key(r)])
  /\ Record(r, DedupeEvent)
  /\ UNCHANGED <<req, leads, waits, promise, outcome, server, history>>

JoinInFlight(r) ==
  /\ At(r, "lookup")
  /\ rows[Key(r)] = NULL
  /\ Holder(Key(r)) # NULL
  /\ req[Holder(Key(r))].hash = req[r].hash
  /\ Goto(r, "waiting")
  /\ waits' = [waits EXCEPT ![r] = Holder(Key(r))]
  /\ UNCHANGED <<req, leads, promise, outcome, answer, tape, server, history>>

Lead(r) ==
  /\ At(r, "lookup")
  /\ Holder(Key(r)) = NULL
  /\ pending' = [pending EXCEPT ![Key(r)] = r]
  /\ promise' = [promise EXCEPT ![r] = "pending"]
  /\ leads' = [leads EXCEPT ![r] = TRUE]
  /\ Goto(r, "handler")
  /\ UNCHANGED <<req, waits, outcome, answer, tape, rows, armed, count, history>>

\* The handler commits (or not), answers and is recorded; a parked override
\* replaces what the client sees.
Execute(r, o) ==
  /\ At(r, "handler")
  /\ outcome' = [outcome EXCEPT ![r] = o]
  /\ ranIn' = [ranIn EXCEPT ![r] = epoch]
  /\ Record(r, HandlerEvent(o))
  /\ answer' = [answer EXCEPT ![r] =
       [kind |-> IF req[r].override THEN "injected" ELSE "own", of |-> r]]
  /\ Goto(r, IF leads[r] THEN "storing" ELSE "done")
  /\ UNCHANGED <<req, leads, waits, promise, server, epoch, lostRow, restarts>>

\* On the way out a leader stores a cacheable response (unless a row is there
\* by now), resolves its promise and leaves the pending map.
Store(r) ==
  /\ At(r, "storing")
  /\ rows' = IF Cacheable(r) /\ rows[Key(r)] = NULL
               THEN [rows EXCEPT ![Key(r)] = r] ELSE rows
  /\ promise' = [promise EXCEPT ![r] = Resolution(r)]
  /\ pending' = Released(r)
  /\ Goto(r, "done")
  /\ UNCHANGED <<req, leads, waits, outcome, answer, tape, armed, count, history>>

\* The INSERT throws: the promise is rejected and the client gets a 500 for
\* what was committed.  Where nobody waits for the promise Node may also end the
\* process over it, which is a Restart.
StoreFails(r) ==
  /\ At(r, "storing") /\ Cacheable(r)
  /\ promise' = [promise EXCEPT ![r] = "rejected"]
  /\ pending' = Released(r)
  /\ Respond(r, "error", NULL)
  /\ lostRow' = lostRow \cup {r}
  /\ UNCHANGED <<req, leads, waits, outcome, tape, rows, armed, count,
                 epoch, ranIn, restarts>>

\* A request that awaited the holder's promise: it replays a success, shares a
\* rejection, and after a failure runs the handler itself without claiming the
\* key, so that nothing will store its response.
Wake(r) ==
  /\ At(r, "waiting")
  /\ CASE promise[waits[r]] = "stored" ->
            Respond(r, "replay", waits[r]) /\ Record(r, DedupeEvent)
       [] promise[waits[r]] = "rejected" ->
            Respond(r, "error", NULL) /\ UNCHANGED tape
       [] promise[waits[r]] = "failed" ->
            Goto(r, "handler") /\ UNCHANGED <<answer, tape>>
       [] OTHER -> FALSE
  /\ UNCHANGED <<req, leads, waits, promise, outcome, server, history>>

\* /admin/reset and /admin/seed delete the rows and install the rules of the
\* seed (none for the default one); the pending map is not theirs to clear.
Reset(rules) ==
  /\ epoch < MaxResets
  /\ epoch' = epoch + 1
  /\ rows' = [k \in Keys |-> NULL]
  /\ armed' = rules /\ count' = 0
  /\ UNCHANGED <<pc, req, leads, waits, promise, outcome, answer, tape, pending,
                 ranIn, lostRow, restarts>>

\* The process dies and comes back over the same file: the rows stay, the
\* pending map and the requests in flight are gone.
Restart(rules) ==
  /\ restarts < MaxRestarts
  /\ restarts' = restarts + 1
  /\ pc' = [r \in Requests |-> IF pc[r] \in InFlight THEN "done" ELSE pc[r]]
  /\ answer' = [r \in Requests |-> IF pc[r] \in InFlight
                                     THEN [kind |-> "lost", of |-> NULL] ELSE answer[r]]
  /\ lostRow' = lostRow \cup {r \in Requests : At(r, "storing") /\ Cacheable(r)}
  /\ pending' = [k \in Keys |-> NULL]
  /\ armed' = rules /\ count' = 0
  /\ UNCHANGED <<req, leads, waits, promise, outcome, tape, rows, epoch, ranIn>>

Progress(r) ==
  \/ RefuseMismatch(r) \/ ReplayRow(r) \/ JoinInFlight(r) \/ Lead(r)
  \/ \E o \in Outcomes : Execute(r, o)
  \/ Store(r) \/ Wake(r)

Next ==
  \/ \E r \in Requests :
       \/ \E k \in Keys \cup {NULL}, h \in Hashes : Arrive(r, k, h)
       \/ Progress(r)
       \/ StoreFails(r)
  \/ \E rules \in BOOLEAN : Reset(rules) \/ Restart(rules)

\* The event loop runs every continuation that is ready.
Fairness == \A r \in Requests : WF_vars(Progress(r))

Spec == Init /\ [][Next]_vars /\ Fairness

-----------------------------------------------------------------------------
(* Properties. *)

Committed(k) == {r \in Requests : /\ leads[r] /\ Key(r) = k /\ outcome[r] = "ok"
                                  /\ r \notin lostRow}

\* Of the requests that claim a key, at most one commits between two resets,
\* whatever else arrives while it runs, fails, stores its row or after a restart
\* (a commit whose row was lost is out of the middleware's hands).
LeaderOnce ==
  \A k \in Keys : \A r, s \in Committed(k) : ranIn[r] = ranIn[s] => r = s

\* Two requests under one key both commit between two resets only when one of
\* them had waited for a request that did not commit: then it ran the handler
\* itself, without a claim that anyone could see.
CommitsOnce ==
  \A r, s \in Requests :
    (/\ r # s /\ Key(r) = Key(s) /\ Key(r) # NULL
     /\ outcome[r] = "ok" /\ outcome[s] = "ok" /\ ranIn[r] = ranIn[s]
     /\ r \notin lostRow /\ s \notin lostRow)
    => \E w \in {r, s} : /\ waits[w] \in Requests /\ Key(waits[w]) = Key(w)
                         /\ outcome[waits[w]] \in {"declined", "refused"}

\* A replay is the response of a handler that committed for the same key and
\* the same parameters: never a failure, an injected answer or another request.
ReplayFaithful ==
  \A r \in Requests : answer[r].kind = "replay" =>
    LET e == answer[r].of IN
    /\ outcome[e] = "ok"
    /\ Key(e) = Key(r) /\ req[e].hash = req[r].hash

\* What a leader committed is there to be replayed once its client has its
\* answer, even when an injected failure replaced that answer on the wire: the
\* retry of a lost response does not commit twice.
CommittedIsStored ==
  \A k \in Keys : \A r \in Committed(k) :
    (At(r, "done") /\ ranIn[r] = epoch) =>
      /\ rows[k] # NULL
      /\ ranIn[rows[k]] = epoch => rows[k] = r

\* A key is in the pending map exactly while the request that claimed it runs.
PendingIsLive ==
  \A k \in Keys, r \in Requests :
    pending[k] = r <=> /\ leads[r] /\ Key(r) = k
                       /\ pc[r] \in {"handler", "storing"}

\* The tape counts a mutation for a request exactly when its handler committed
\* one, whatever went on the wire, and a replay leaves one dedupe event.
TapeTruthful ==
  \A r \in Requests :
    LET mutations == {i \in DOMAIN tape[r] : tape[r][i].mutation}
        dedupes == {i \in DOMAIN tape[r] : tape[r][i].dedupe}
    IN
    /\ Cardinality(mutations) = IF Mutates(outcome[r]) THEN 1 ELSE 0
    /\ Cardinality(dedupes) = IF answer[r].kind = "replay" THEN 1 ELSE 0

\* Every request that arrives is answered: no order of failures, joins, resets
\* and restarts leaves one waiting for a promise that nobody settles.
Answered == \A r \in Requests : pc[r] # "idle" ~> pc[r] = "done"

=============================================================================
