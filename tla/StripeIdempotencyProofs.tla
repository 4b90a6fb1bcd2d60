----------------------- MODULE StripeIdempotencyProofs -----------------------
(***************************************************************************)
(* Proofs about StripeIdempotency for any number of requests, keys, resets *)
(* and restarts: the middleware's map, rows and promises fit together, so  *)
(* that of the requests that claim a key one commits between two resets.   *)
(***************************************************************************)
EXTENDS StripeIdempotency, FiniteSetTheorems, TLAPS

\* A request that went through the middleware's lookup has a key.
Keyed ==
  \A r \in Requests :
    pc[r] \in {"lookup", "waiting", "storing"} \/ leads[r] => Key(r) \in Keys

\* What the place of a request says of it.
Placed ==
  \A r \in Requests :
    /\ pc[r] \in {"idle", "lookup", "waiting"} => ~leads[r]
    /\ pc[r] \in {"idle", "lookup", "waiting", "handler"} => outcome[r] = "none"
    /\ At(r, "storing") => leads[r] /\ outcome[r] # "none"
    /\ r \in lostRow => At(r, "done")
    /\ ranIn[r] <= epoch

\* A key is held by a row or by a request in flight, never by both, and the
\* row is of a leader that committed and is done.
HeldOnce ==
  \A k \in Keys :
    /\ rows[k] = NULL \/ pending[k] = NULL
    /\ rows[k] # NULL => rows[k] \in Committed(k) /\ At(rows[k], "done")

\* A leader that committed since the last reset still holds its key.
StillHeld ==
  \A k \in Keys : \A r \in Committed(k) :
    ranIn[r] = epoch => At(r, "storing") \/ rows[k] # NULL

\* What a replay rests on: the request that is awaited has the key and the
\* parameters of the one that awaits it, and a promise resolved with a response
\* is of a handler that committed.
Linked ==
  \A r \in Requests :
    /\ At(r, "waiting") =>
         /\ waits[r] \in Requests /\ ~At(waits[r], "idle")
         /\ Key(waits[r]) = Key(r) /\ req[waits[r]].hash = req[r].hash
    /\ promise[r] = "stored" => outcome[r] = "ok"
    /\ answer[r].kind = "replay" => At(r, "done") /\ answer[r].of \in Requests

Inv == TypeOK /\ Keyed /\ PendingIsLive /\ Placed /\ HeldOnce /\ StillHeld /\ LeaderOnce

-----------------------------------------------------------------------------
(* Type correctness. *)

LEMMA InitType == Init => TypeOK
BY NullAssumption, BoundAssumption DEF Init, TypeOK, Answers, TapeEvent

LEMMA RecordType ==
  ASSUME TypeOK, NEW r \in Requests, NEW e \in TapeEvent, Record(r, e)
  PROVE  tape' \in [Requests -> Seq(TapeEvent)]
<1>1. Append(tape[r], e) \in Seq(TapeEvent)
  BY DEF TypeOK
<1> QED BY <1>1 DEF Record, TypeOK

LEMMA RespondType ==
  ASSUME TypeOK, NEW r \in Requests, NEW of \in Requests \cup {NULL},
         NEW kind \in {"injected", "replay", "mismatch", "error"},
         Respond(r, kind, of)
  PROVE  /\ answer' \in [Requests -> Answers]
         /\ pc' \in [Requests -> InFlight \cup {"idle", "done"}]
BY DEF Respond, Goto, TypeOK, Answers

LEMMA NextType == TypeOK /\ Keyed /\ [Next]_vars => TypeOK'
<1> SUFFICES ASSUME TypeOK, Keyed, [Next]_vars PROVE TypeOK'
  OBVIOUS
<1>1. ASSUME NEW r \in Requests, NEW k \in Keys \cup {NULL}, NEW h \in Hashes,
             Arrive(r, k, h)
      PROVE TypeOK'
  <2>1. count' \in Nat
    BY <1>1 DEF Arrive, TypeOK
  <2>2. req' \in [Requests -> [key : Keys \cup {NULL}, hash : Hashes \cup {NULL},
                               override : BOOLEAN]]
    BY <1>1 DEF Arrive, TypeOK
  <2>3. HandlerEvent("refused") \in TapeEvent
    BY DEF HandlerEvent, Mutates, TapeEvent
  <2>4. /\ answer' \in [Requests -> Answers]
        /\ pc' \in [Requests -> InFlight \cup {"idle", "done"}]
        /\ tape' \in [Requests -> Seq(TapeEvent)]
    <3>1. CASE armed /\ count + 1 = BeforeAttempt
      <4>1. Respond(r, "injected", NULL) /\ Record(r, HandlerEvent("refused"))
        BY <1>1, <3>1 DEF Arrive
      <4> QED BY <4>1, <2>3, RecordType, RespondType
    <3>2. CASE ~(armed /\ count + 1 = BeforeAttempt)
      <4>1. /\ Goto(r, IF k = NULL THEN "handler" ELSE "lookup")
            /\ UNCHANGED <<answer, tape>>
        BY <1>1, <3>2 DEF Arrive
      <4> QED BY <4>1 DEF Goto, TypeOK, InFlight
    <3> QED BY <3>1, <3>2
  <2> QED BY <1>1, <2>1, <2>2, <2>4 DEF Arrive, TypeOK, history
<1>2. ASSUME NEW r \in Requests, RefuseMismatch(r) PROVE TypeOK'
  <2>1. Respond(r, "mismatch", NULL)
    BY <1>2 DEF RefuseMismatch
  <2>2. /\ answer' \in [Requests -> Answers]
        /\ pc' \in [Requests -> InFlight \cup {"idle", "done"}]
    BY <2>1, RespondType
  <2> QED BY <1>2, <2>2 DEF RefuseMismatch, TypeOK, server, history
<1>3. ASSUME NEW r \in Requests, ReplayRow(r) PROVE TypeOK'
  <2>1. DedupeEvent \in TapeEvent
    BY DEF DedupeEvent, TapeEvent
  <2>2. rows[Key(r)] \in Requests \cup {NULL}
    BY <1>3 DEF ReplayRow, At, Keyed, TypeOK
  <2> QED BY <1>3, <2>1, <2>2, RecordType, RespondType
          DEF ReplayRow, TypeOK, server, history
<1>4. ASSUME NEW r \in Requests, JoinInFlight(r) PROVE TypeOK'
  BY <1>4 DEF JoinInFlight, At, Keyed, Goto, Holder, TypeOK, InFlight, server, history
<1>5. ASSUME NEW r \in Requests, Lead(r) PROVE TypeOK'
  BY <1>5 DEF Lead, Goto, TypeOK, InFlight, history
<1>6. ASSUME NEW r \in Requests, NEW o \in Outcomes, Execute(r, o) PROVE TypeOK'
  <2>1. HandlerEvent(o) \in TapeEvent
    BY DEF HandlerEvent, Mutates, TapeEvent
  <2>2. tape' \in [Requests -> Seq(TapeEvent)]
    BY <1>6, <2>1, RecordType DEF Execute
  <2>3. answer' \in [Requests -> Answers] /\ pc' \in [Requests -> InFlight \cup {"idle", "done"}]
    BY <1>6 DEF Execute, Goto, TypeOK, Answers, InFlight
  <2> QED BY <1>6, <2>2, <2>3 DEF Execute, TypeOK, server
<1>7. ASSUME NEW r \in Requests, Store(r) PROVE TypeOK'
  BY <1>7 DEF Store, Goto, Resolution, Released, TypeOK, InFlight, history
<1>8. ASSUME NEW r \in Requests, StoreFails(r) PROVE TypeOK'
  <2>1. /\ answer' \in [Requests -> Answers]
        /\ pc' \in [Requests -> InFlight \cup {"idle", "done"}]
    BY <1>8, RespondType DEF StoreFails
  <2> QED BY <1>8, <2>1 DEF StoreFails, Released, TypeOK
<1>9. ASSUME NEW r \in Requests, Wake(r) PROVE TypeOK'
  <2>1. DedupeEvent \in TapeEvent
    BY DEF DedupeEvent, TapeEvent
  <2>2. waits[r] \in Requests \cup {NULL}
    BY DEF TypeOK
  <2>3. /\ answer' \in [Requests -> Answers]
        /\ pc' \in [Requests -> InFlight \cup {"idle", "done"}]
        /\ tape' \in [Requests -> Seq(TapeEvent)]
    <3>1. CASE promise[waits[r]] = "stored"
      <4>1. Respond(r, "replay", waits[r]) /\ Record(r, DedupeEvent)
        BY <1>9, <3>1 DEF Wake
      <4> QED BY <4>1, <2>1, <2>2, RecordType, RespondType
    <3>2. CASE promise[waits[r]] = "rejected"
      <4>1. Respond(r, "error", NULL) /\ UNCHANGED tape
        BY <1>9, <3>2 DEF Wake
      <4> QED BY <4>1, RespondType DEF TypeOK
    <3>3. CASE promise[waits[r]] = "failed"
      BY <1>9, <3>3 DEF Wake, Goto, TypeOK, InFlight
    <3> QED BY <1>9, <3>1, <3>2, <3>3 DEF Wake
  <2> QED BY <1>9, <2>3 DEF Wake, TypeOK, server, history
<1>10. ASSUME NEW rules \in BOOLEAN, Reset(rules) PROVE TypeOK'
  BY <1>10, BoundAssumption DEF Reset, TypeOK
<1>11. ASSUME NEW rules \in BOOLEAN, Restart(rules) PROVE TypeOK'
  <2>1. answer' \in [Requests -> Answers] /\ pc' \in [Requests -> InFlight \cup {"idle", "done"}]
    BY <1>11 DEF Restart, TypeOK, Answers
  <2> QED BY <1>11, <2>1, BoundAssumption DEF Restart, TypeOK
<1>12. CASE UNCHANGED vars
  BY <1>12 DEF vars, server, history, TypeOK
<1> QED
  BY <1>1, <1>2, <1>3, <1>4, <1>5, <1>6, <1>7, <1>8, <1>9, <1>10, <1>11, <1>12
  DEF Next, Progress


-----------------------------------------------------------------------------
(* The middleware's own invariant. *)

LEMMA InitInv == Init => Inv
<1> SUFFICES ASSUME Init PROVE Inv
  OBVIOUS
<1>1. TypeOK
  BY InitType
<1>2. Keyed /\ Placed
  BY BoundAssumption DEF Init, Keyed, Placed, At, Key
<1>3. PendingIsLive /\ HeldOnce
  BY NullAssumption DEF Init, PendingIsLive, HeldOnce
<1>4. \A k \in Keys : Committed(k) = {}
  BY DEF Init, Committed
<1> QED BY <1>1, <1>2, <1>3, <1>4 DEF Inv, StillHeld, LeaderOnce

\* A request at one place is moved to another and nothing else of it changes
\* that the places depend on.
LEMMA NextKeyed == Inv /\ [Next]_vars => Keyed'
<1> SUFFICES ASSUME Inv, [Next]_vars PROVE Keyed'
  OBVIOUS
<1> USE DEF Inv, TypeOK, Keyed, Placed, At, Goto, Respond, Key, InFlight
<1>1. ASSUME NEW r \in Requests, NEW k \in Keys \cup {NULL}, NEW h \in Hashes,
             Arrive(r, k, h)
      PROVE Keyed'
  <2>1. ~leads[r] /\ leads' = leads
    BY <1>1 DEF Arrive
  <2>2. pc'[r] = "lookup" => k \in Keys
    BY <1>1 DEF Arrive
  <2>3. pc'[r] \in {"done", "handler", "lookup"} /\ \A s \in Requests \ {r} : pc'[s] = pc[s]
    BY <1>1 DEF Arrive
  <2>4. req'[r].key = k /\ \A s \in Requests \ {r} : req'[s] = req[s]
    BY <1>1 DEF Arrive
  <2> QED BY <2>1, <2>2, <2>3, <2>4
<1>2. ASSUME NEW r \in Requests, RefuseMismatch(r) PROVE Keyed'
  BY <1>2 DEF RefuseMismatch
<1>3. ASSUME NEW r \in Requests, ReplayRow(r) PROVE Keyed'
  BY <1>3 DEF ReplayRow
<1>4. ASSUME NEW r \in Requests, JoinInFlight(r) PROVE Keyed'
  BY <1>4 DEF JoinInFlight
<1>5. ASSUME NEW r \in Requests, Lead(r) PROVE Keyed'
  BY <1>5 DEF Lead
<1>6. ASSUME NEW r \in Requests, NEW o \in Outcomes, Execute(r, o) PROVE Keyed'
  BY <1>6 DEF Execute
<1>7. ASSUME NEW r \in Requests, Store(r) PROVE Keyed'
  BY <1>7 DEF Store
<1>8. ASSUME NEW r \in Requests, StoreFails(r) PROVE Keyed'
  BY <1>8 DEF StoreFails
<1>9. ASSUME NEW r \in Requests, Wake(r) PROVE Keyed'
  BY <1>9 DEF Wake
<1>10. ASSUME NEW rules \in BOOLEAN, Reset(rules) PROVE Keyed'
  BY <1>10 DEF Reset
<1>11. ASSUME NEW rules \in BOOLEAN, Restart(rules) PROVE Keyed'
  BY <1>11 DEF Restart
<1>12. CASE UNCHANGED vars
  BY <1>12 DEF vars
<1> QED
  BY <1>1, <1>2, <1>3, <1>4, <1>5, <1>6, <1>7, <1>8, <1>9, <1>10, <1>11, <1>12
  DEF Next, Progress

LEMMA NextPlaced == Inv /\ [Next]_vars => Placed'
<1> SUFFICES ASSUME Inv, [Next]_vars PROVE Placed'
  OBVIOUS
<1> USE DEF Inv, TypeOK, Placed, At, Goto, Respond, InFlight
<1>1. ASSUME NEW r \in Requests, NEW k \in Keys \cup {NULL}, NEW h \in Hashes,
             Arrive(r, k, h)
      PROVE Placed'
  <2>1. ~leads[r] /\ UNCHANGED <<leads, outcome, history>>
    BY <1>1 DEF Arrive
  <2>2. outcome[r] = "none" /\ r \notin lostRow
    BY <1>1 DEF Arrive
  <2>3. pc'[r] \in {"done", "handler", "lookup"} /\ \A s \in Requests \ {r} : pc'[s] = pc[s]
    BY <1>1 DEF Arrive
  <2> QED BY <2>1, <2>2, <2>3 DEF history
<1>2. ASSUME NEW r \in Requests, RefuseMismatch(r) PROVE Placed'
  BY <1>2 DEF RefuseMismatch, history
<1>3. ASSUME NEW r \in Requests, ReplayRow(r) PROVE Placed'
  BY <1>3 DEF ReplayRow, history
<1>4. ASSUME NEW r \in Requests, JoinInFlight(r) PROVE Placed'
  BY <1>4 DEF JoinInFlight, history
<1>5. ASSUME NEW r \in Requests, Lead(r) PROVE Placed'
  BY <1>5 DEF Lead, history
<1>6. ASSUME NEW r \in Requests, NEW o \in Outcomes, Execute(r, o) PROVE Placed'
  BY <1>6, BoundAssumption DEF Execute, Outcomes
<1>7. ASSUME NEW r \in Requests, Store(r) PROVE Placed'
  BY <1>7 DEF Store, history
<1>8. ASSUME NEW r \in Requests, StoreFails(r) PROVE Placed'
  BY <1>8 DEF StoreFails
<1>9. ASSUME NEW r \in Requests, Wake(r) PROVE Placed'
  BY <1>9 DEF Wake, history
<1>10. ASSUME NEW rules \in BOOLEAN, Reset(rules) PROVE Placed'
  BY <1>10, BoundAssumption DEF Reset
<1>11. ASSUME NEW rules \in BOOLEAN, Restart(rules) PROVE Placed'
  BY <1>11 DEF Restart
<1>12. CASE UNCHANGED vars
  BY <1>12 DEF vars, history
<1> QED
  BY <1>1, <1>2, <1>3, <1>4, <1>5, <1>6, <1>7, <1>8, <1>9, <1>10, <1>11, <1>12
  DEF Next, Progress

Held == PendingIsLive /\ HeldOnce /\ StillHeld /\ LeaderOnce

\* A step of a request that claimed no key leaves the claimed keys alone.
LEMMA Bystander ==
  ASSUME Inv, NEW r \in Requests, ~leads[r],
         UNCHANGED <<leads, rows, pending, epoch, lostRow>>,
         \A s \in Requests \ {r} : /\ pc'[s] = pc[s] /\ req'[s] = req[s]
                                   /\ outcome'[s] = outcome[s] /\ ranIn'[s] = ranIn[s]
  PROVE  Held'
<1>1. \A k \in Keys : Committed(k)' = Committed(k) /\ r \notin Committed(k)
  BY DEF Committed, Key
<1>2. PendingIsLive'
  BY DEF Inv, PendingIsLive, Key
<1>3. HeldOnce'
  <2> SUFFICES ASSUME NEW k \in Keys, rows[k] # NULL
               PROVE  rows[k] \in Committed(k) /\ At(rows[k], "done")'
    BY <1>1 DEF HeldOnce, Inv
  <2>1. rows[k] \in Committed(k) /\ At(rows[k], "done")
    BY DEF Inv, HeldOnce
  <2>2. rows[k] \in Requests \ {r}
    BY <1>1, <2>1 DEF Committed
  <2> QED BY <2>1, <2>2 DEF At
<1>4. StillHeld'
  <2> SUFFICES ASSUME NEW k \in Keys, NEW s \in Committed(k), ranIn[s] = epoch
               PROVE  At(s, "storing")' \/ rows'[k] # NULL
    BY <1>1 DEF StillHeld, Committed
  <2> QED BY <1>1 DEF Inv, StillHeld, At, Committed
<1>5. LeaderOnce'
  <2> SUFFICES ASSUME NEW k \in Keys, NEW s \in Committed(k), NEW t \in Committed(k),
                      ranIn'[s] = ranIn'[t]
               PROVE  s = t
    BY <1>1 DEF LeaderOnce
  <2> QED BY <1>1 DEF Inv, LeaderOnce, Committed
<1> QED BY <1>2, <1>3, <1>4, <1>5 DEF Held

LEMMA NextHeld == Inv /\ [Next]_vars => Held'
<1> SUFFICES ASSUME Inv, [Next]_vars PROVE Held'
  OBVIOUS
<1>1. ASSUME NEW r \in Requests, NEW k \in Keys \cup {NULL}, NEW h \in Hashes,
             Arrive(r, k, h)
      PROVE Held'
  <2>1. ~leads[r]
    BY <1>1 DEF Arrive, At, Inv, Placed
  <2> QED BY <1>1, <2>1, Bystander DEF Arrive, Goto, Respond, Inv, TypeOK, history
<1>2. ASSUME NEW r \in Requests, RefuseMismatch(r) PROVE Held'
  <2>1. ~leads[r]
    BY <1>2 DEF RefuseMismatch, At, Inv, Placed
  <2> QED BY <1>2, <2>1, Bystander DEF RefuseMismatch, Respond, Goto, Inv, TypeOK, server, history
<1>3. ASSUME NEW r \in Requests, ReplayRow(r) PROVE Held'
  <2>1. ~leads[r]
    BY <1>3 DEF ReplayRow, At, Inv, Placed
  <2> QED BY <1>3, <2>1, Bystander DEF ReplayRow, Respond, Goto, Inv, TypeOK, server, history
<1>4. ASSUME NEW r \in Requests, JoinInFlight(r) PROVE Held'
  <2>1. ~leads[r]
    BY <1>4 DEF JoinInFlight, At, Inv, Placed
  <2> QED BY <1>4, <2>1, Bystander DEF JoinInFlight, Goto, Inv, TypeOK, server, history
<1>5. ASSUME NEW r \in Requests, Lead(r) PROVE Held'
  <2> DEFINE k == Key(r)
  <2>1. /\ k \in Keys /\ rows[k] = NULL /\ pending[k] = NULL
        /\ ~leads[r] /\ outcome[r] = "none"
    BY <1>5 DEF Lead, Holder, At, Inv, Keyed, Placed
  <2>2. /\ leads' = [leads EXCEPT ![r] = TRUE] /\ pending' = [pending EXCEPT ![k] = r]
        /\ pc' = [pc EXCEPT ![r] = "handler"]
        /\ UNCHANGED <<req, outcome, rows, history>>
    BY <1>5 DEF Lead, Goto
  <2>3. \A c \in Keys : Committed(c)' = Committed(c) /\ r \notin Committed(c)
    BY <2>1, <2>2 DEF Committed, Key, history, Inv, TypeOK
  <2>4. PendingIsLive'
    <3> SUFFICES ASSUME NEW c \in Keys, NEW s \in Requests
                 PROVE  pending'[c] = s <=> /\ leads'[s] /\ Key(s)' = c
                                            /\ pc'[s] \in {"handler", "storing"}
      BY DEF PendingIsLive
    <3>1. Key(s)' = Key(s)
      BY <2>2 DEF Key
    <3>2. CASE s = r
      BY <2>1, <2>2, <3>1, <3>2, NullAssumption DEF Inv, PendingIsLive, TypeOK
    <3>3. CASE s # r
      BY <2>1, <2>2, <3>1, <3>3, NullAssumption DEF Inv, PendingIsLive, TypeOK
    <3> QED BY <3>2, <3>3
  <2>5. HeldOnce'
    BY <2>1, <2>2, <2>3 DEF HeldOnce, At, Inv, TypeOK
  <2>6. StillHeld' /\ LeaderOnce'
    BY <2>1, <2>2, <2>3 DEF StillHeld, LeaderOnce, At, Inv, TypeOK, history, Committed
  <2> QED BY <2>4, <2>5, <2>6 DEF Held
<1>6. ASSUME NEW r \in Requests, NEW o \in Outcomes, Execute(r, o) PROVE Held'
  <2>1. CASE ~leads[r]
    BY <1>6, <2>1, Bystander DEF Execute, Goto, Inv, TypeOK, server
  <2>2. CASE leads[r]
    <3> DEFINE k == Key(r)
    <3>1. k \in Keys /\ pending[k] = r /\ rows[k] = NULL /\ outcome[r] = "none"
          /\ \A c \in Keys : r \notin Committed(c)
      BY <1>6, <2>2, NullAssumption
      DEF Execute, At, Inv, Keyed, PendingIsLive, HeldOnce, Placed, Committed
    <3>2. /\ pc' = [pc EXCEPT ![r] = "storing"] /\ outcome' = [outcome EXCEPT ![r] = o]
          /\ ranIn' = [ranIn EXCEPT ![r] = epoch]
          /\ UNCHANGED <<req, leads, rows, pending, epoch, lostRow>>
      BY <1>6, <2>2 DEF Execute, Goto, server
    <3>3. \A c \in Keys : Committed(c)' \ {r} = Committed(c)
      BY <3>1, <3>2 DEF Committed, Key, Inv, TypeOK
    <3>4. \A c \in Keys : r \in Committed(c)' => c = k
      BY <3>1, <3>2 DEF Committed, Key, Inv, TypeOK
    <3>5. PendingIsLive'
      BY <1>6, <3>2 DEF Execute, At, Inv, PendingIsLive, Key, TypeOK
    <3>6. HeldOnce'
      BY <3>1, <3>2, <3>3 DEF HeldOnce, At, Inv, TypeOK
    <3>7. StillHeld'
      BY <3>2, <3>3 DEF StillHeld, At, Inv, TypeOK, Committed
    <3>8. \A s \in Committed(k) : ranIn[s] # epoch
      BY <1>6, <3>1 DEF Execute, At, Inv, StillHeld, PendingIsLive, Committed
    <3>9. LeaderOnce'
      BY <3>2, <3>3, <3>4, <3>8 DEF LeaderOnce, Inv, TypeOK, Committed
    <3> QED BY <3>5, <3>6, <3>7, <3>9 DEF Held
  <2> QED BY <2>1, <2>2 DEF Inv, TypeOK
<1>7. ASSUME NEW r \in Requests, Store(r) PROVE Held'
  <2> DEFINE k == Key(r)
  <2>1. k \in Keys /\ pending[k] = r /\ rows[k] = NULL /\ leads[r] /\ r \notin lostRow
    BY <1>7, NullAssumption
    DEF Store, At, Inv, Keyed, PendingIsLive, HeldOnce, Placed
  <2>2. /\ pc' = [pc EXCEPT ![r] = "done"] /\ pending' = [pending EXCEPT ![k] = NULL]
        /\ rows' = IF outcome[r] = "ok" THEN [rows EXCEPT ![k] = r] ELSE rows
        /\ UNCHANGED <<req, leads, outcome, history>>
    BY <1>7, <2>1 DEF Store, Goto, Released, Cacheable
  <2>3. \A c \in Keys : Committed(c)' = Committed(c)
    BY <2>2 DEF Committed, Key, history
  <2>4. outcome[r] = "ok" => r \in Committed(k)
    BY <2>1 DEF Committed
  <2>5. PendingIsLive'
    <3> SUFFICES ASSUME NEW c \in Keys, NEW s \in Requests
                 PROVE  pending'[c] = s <=> /\ leads'[s] /\ Key(s)' = c
                                            /\ pc'[s] \in {"handler", "storing"}
      BY DEF PendingIsLive
    <3>1. Key(s)' = Key(s)
      BY <2>2 DEF Key
    <3>2. CASE s = r
      BY <2>1, <2>2, <3>1, <3>2, NullAssumption DEF Inv, PendingIsLive, TypeOK
    <3>3. CASE s # r
      BY <2>1, <2>2, <3>1, <3>3, NullAssumption DEF Inv, PendingIsLive, TypeOK
    <3> QED BY <3>2, <3>3
  <2>6. HeldOnce'
    BY <1>7, <2>1, <2>2, <2>3, <2>4 DEF Store, HeldOnce, At, Inv, TypeOK
  <2>7. StillHeld'
    <3> SUFFICES ASSUME NEW c \in Keys, NEW s \in Committed(c), ranIn[s] = epoch
                 PROVE  At(s, "storing")' \/ rows'[c] # NULL
      BY <2>2, <2>3 DEF StillHeld, history
    <3>1. At(s, "storing") \/ rows[c] # NULL
      BY DEF Inv, StillHeld
    <3>2. CASE s = r
      BY <2>1, <2>2, <3>2, NullAssumption DEF Committed, Key, Inv, TypeOK
    <3>3. CASE s # r
      BY <2>1, <2>2, <3>1, <3>3, NullAssumption DEF At, Inv, TypeOK
    <3> QED BY <3>2, <3>3
  <2>8. LeaderOnce'
    BY <2>2, <2>3 DEF LeaderOnce, Inv, history
  <2> QED BY <2>5, <2>6, <2>7, <2>8 DEF Held
<1>8. ASSUME NEW r \in Requests, StoreFails(r) PROVE Held'
  <2> DEFINE k == Key(r)
  <2>1. k \in Keys /\ pending[k] = r /\ rows[k] = NULL /\ leads[r]
    BY <1>8, NullAssumption
    DEF StoreFails, At, Inv, Keyed, PendingIsLive, HeldOnce, Placed
  <2>2. /\ pc' = [pc EXCEPT ![r] = "done"] /\ pending' = [pending EXCEPT ![k] = NULL]
        /\ lostRow' = lostRow \cup {r}
        /\ UNCHANGED <<req, leads, outcome, rows, epoch, ranIn>>
    BY <1>8 DEF StoreFails, Respond, Goto, Released
  <2>3. \A c \in Keys : Committed(c)' = Committed(c) \ {r}
    BY <2>2 DEF Committed, Key
  <2>4. PendingIsLive'
    <3> SUFFICES ASSUME NEW c \in Keys, NEW s \in Requests
                 PROVE  pending'[c] = s <=> /\ leads'[s] /\ Key(s)' = c
                                            /\ pc'[s] \in {"handler", "storing"}
      BY DEF PendingIsLive
    <3>1. Key(s)' = Key(s)
      BY <2>2 DEF Key
    <3>2. CASE s = r
      BY <2>1, <2>2, <3>1, <3>2, NullAssumption DEF Inv, PendingIsLive, TypeOK
    <3>3. CASE s # r
      BY <2>1, <2>2, <3>1, <3>3, NullAssumption DEF Inv, PendingIsLive, TypeOK
    <3> QED BY <3>2, <3>3
  <2>5. HeldOnce'
    BY <1>8, <2>1, <2>2, <2>3 DEF StoreFails, HeldOnce, At, Inv, TypeOK
  <2>6. StillHeld' /\ LeaderOnce'
    BY <2>2, <2>3 DEF StillHeld, LeaderOnce, At, Inv, TypeOK, Committed
  <2> QED BY <2>4, <2>5, <2>6 DEF Held
<1>9. ASSUME NEW r \in Requests, Wake(r) PROVE Held'
  <2>1. ~leads[r]
    BY <1>9 DEF Wake, At, Inv, Placed
  <2> QED BY <1>9, <2>1, Bystander DEF Wake, Goto, Respond, Inv, TypeOK, server, history
<1>10. ASSUME NEW rules \in BOOLEAN, Reset(rules) PROVE Held'
  <2>1. \A c \in Keys : Committed(c)' = Committed(c)
    BY <1>10 DEF Reset, Committed, Key
  <2>2. PendingIsLive' /\ HeldOnce' /\ LeaderOnce'
    BY <1>10, <2>1 DEF Reset, Inv, PendingIsLive, HeldOnce, LeaderOnce, Key
  <2>3. \A s \in Requests : ranIn'[s] # epoch'
    BY <1>10, BoundAssumption DEF Reset, Inv, TypeOK, Placed
  <2> QED BY <2>2, <2>3 DEF Held, StillHeld, Committed
<1>11. ASSUME NEW rules \in BOOLEAN, Restart(rules) PROVE Held'
  <2>1. \A c \in Keys : Committed(c)' = {s \in Committed(c) : ~At(s, "storing")}
    BY <1>11 DEF Restart, Committed, Key, Cacheable
  <2>2. PendingIsLive'
    BY <1>11, NullAssumption DEF Restart, PendingIsLive, InFlight
  <2>3. HeldOnce'
    <3> SUFFICES ASSUME NEW c \in Keys, rows[c] # NULL
                 PROVE  rows[c] \in Committed(c)' /\ At(rows[c], "done")'
      BY <1>11 DEF Restart, HeldOnce
    <3>1. rows[c] \in Committed(c) /\ At(rows[c], "done")
      BY DEF Inv, HeldOnce
    <3> QED BY <1>11, <2>1, <3>1 DEF Restart, At, InFlight, Committed
  <2>4. StillHeld' /\ LeaderOnce'
    BY <1>11, <2>1 DEF Restart, StillHeld, LeaderOnce, Inv, Committed
  <2> QED BY <2>2, <2>3, <2>4 DEF Held
<1>12. CASE UNCHANGED vars
  BY <1>12 DEF vars, server, history, Inv, Held, PendingIsLive, HeldOnce, StillHeld,
               LeaderOnce, Committed, Key, At
<1> QED
  BY <1>1, <1>2, <1>3, <1>4, <1>5, <1>6, <1>7, <1>8, <1>9, <1>10, <1>11, <1>12
  DEF Next, Progress

LEMMA NextInv == Inv /\ [Next]_vars => Inv'
BY NextType, NextKeyed, NextPlaced, NextHeld DEF Inv, Held

-----------------------------------------------------------------------------
(* Replays. *)

Faithful == Linked /\ ReplayFaithful

\* Requests that have arrived keep their key and parameters, and outcomes stay.
LEMMA FaithfulKept ==
  ASSUME Inv, Faithful, NEW r \in Requests,
         UNCHANGED <<waits, req, outcome>>,
         promise' = promise \/ \E v \in {"pending", "failed", "rejected"} :
                                 promise' = [promise EXCEPT ![r] = v],
         \A s \in Requests \ {r} : pc'[s] = pc[s] /\ answer'[s] = answer[s],
         pc'[r] \notin {"idle", "waiting"},
         answer'[r].kind # "replay"
  PROVE  Faithful'
<1>1. \A s \in Requests : promise'[s] = "stored" => promise[s] = "stored"
  BY DEF Inv, TypeOK
<1>2. Linked'
  BY <1>1 DEF Faithful, Linked, At, Key
<1>3. ReplayFaithful'
  BY DEF Faithful, ReplayFaithful, Key
<1> QED BY <1>2, <1>3 DEF Faithful

\* A request that is answered with a replay of e, which committed for the same
\* key and the same parameters.
LEMMA FaithfulReplay ==
  ASSUME Inv, Faithful, NEW r \in Requests, NEW e \in Requests,
         UNCHANGED <<waits, req, outcome, promise>>,
         Respond(r, "replay", e),
         outcome[e] = "ok", Key(e) = Key(r), req[e].hash = req[r].hash
  PROVE  Faithful'
<1>1. /\ pc' = [pc EXCEPT ![r] = "done"]
      /\ answer' = [answer EXCEPT ![r] = [kind |-> "replay", of |-> e]]
  BY DEF Respond, Goto
<1>2. Linked'
  BY <1>1 DEF Faithful, Linked, At, Key, Inv, TypeOK
<1>3. ReplayFaithful'
  BY <1>1 DEF Faithful, ReplayFaithful, Key, Inv, TypeOK
<1> QED BY <1>2, <1>3 DEF Faithful

LEMMA InitFaithful == Init => Faithful
BY DEF Init, Faithful, Linked, ReplayFaithful, At

LEMMA NextFaithful == Inv /\ Faithful /\ [Next]_vars => Faithful'
<1> SUFFICES ASSUME Inv, Faithful, [Next]_vars PROVE Faithful'
  OBVIOUS
<1>1. ASSUME NEW r \in Requests, NEW k \in Keys \cup {NULL}, NEW h \in Hashes,
             Arrive(r, k, h)
      PROVE Faithful'
  <2>1. /\ At(r, "idle") /\ outcome[r] = "none" /\ UNCHANGED <<waits, promise, outcome>>
        /\ answer[r].kind # "replay"
    BY <1>1 DEF Arrive, At, Inv, Placed, Faithful, Linked
  <2>2. \A s \in Requests \ {r} : /\ pc'[s] = pc[s] /\ req'[s] = req[s]
                                  /\ answer'[s] = answer[s]
    BY <1>1 DEF Arrive, Goto, Respond, Inv, TypeOK
  <2>3. pc'[r] \in {"done", "handler", "lookup"} /\ answer'[r].kind # "replay"
    BY <1>1, <2>1 DEF Arrive, Goto, Respond, Inv, TypeOK
  <2>4. Linked'
    BY <2>1, <2>2, <2>3 DEF Faithful, Linked, At, Key
  <2>5. ReplayFaithful'
    BY <2>1, <2>2, <2>3 DEF Faithful, ReplayFaithful, Linked, Key
  <2> QED BY <2>4, <2>5 DEF Faithful
<1>2. ASSUME NEW r \in Requests, RefuseMismatch(r) PROVE Faithful'
  BY <1>2, FaithfulKept DEF RefuseMismatch, Respond, Goto, Inv, TypeOK
<1>3. ASSUME NEW r \in Requests, ReplayRow(r) PROVE Faithful'
  <2> DEFINE e == rows[Key(r)]
  <2>1. Key(r) \in Keys /\ e \in Committed(Key(r)) /\ req[e].hash = req[r].hash
    BY <1>3 DEF ReplayRow, At, Inv, Keyed, HeldOnce
  <2>2. e \in Requests /\ outcome[e] = "ok" /\ Key(e) = Key(r)
    BY <2>1 DEF Committed
  <2>3. Respond(r, "replay", e) /\ UNCHANGED <<waits, req, outcome, promise>>
    BY <1>3 DEF ReplayRow
  <2> QED BY <2>1, <2>2, <2>3, FaithfulReplay
<1>4. ASSUME NEW r \in Requests, JoinInFlight(r) PROVE Faithful'
  <2> DEFINE e == pending[Key(r)]
  <2>1. /\ Key(r) \in Keys /\ e \in Requests /\ req[e].hash = req[r].hash
        /\ pc' = [pc EXCEPT ![r] = "waiting"] /\ waits' = [waits EXCEPT ![r] = e]
        /\ At(r, "lookup") /\ UNCHANGED <<req, promise, outcome, answer>>
    BY <1>4 DEF JoinInFlight, Holder, At, Goto, Inv, Keyed, TypeOK
  <2>2. Key(e) = Key(r) /\ pc[e] \in {"handler", "storing"}
    BY <2>1 DEF Inv, PendingIsLive
  <2>3. Linked'
    BY <2>1, <2>2 DEF Faithful, Linked, At, Key, Inv, TypeOK
  <2>4. ReplayFaithful'
    BY <2>1 DEF Faithful, ReplayFaithful, Key
  <2> QED BY <2>3, <2>4 DEF Faithful
<1>5. ASSUME NEW r \in Requests, Lead(r) PROVE Faithful'
  <2>1. answer[r].kind # "replay"
    BY <1>5 DEF Lead, At, Faithful, Linked
  <2> QED BY <1>5, <2>1, FaithfulKept DEF Lead, Goto, Inv, TypeOK
<1>6. ASSUME NEW r \in Requests, NEW o \in Outcomes, Execute(r, o) PROVE Faithful'
  <2>1. At(r, "handler") /\ outcome[r] = "none" /\ UNCHANGED <<waits, req, promise>>
    BY <1>6 DEF Execute, At, Inv, Placed
  <2>2. \A s \in Requests \ {r} : /\ pc'[s] = pc[s] /\ outcome'[s] = outcome[s]
                                  /\ answer'[s] = answer[s]
    BY <1>6 DEF Execute, Goto, Inv, TypeOK
  <2>3. pc'[r] \in {"storing", "done"} /\ answer'[r].kind # "replay"
    BY <1>6 DEF Execute, Goto, Inv, TypeOK
  <2>4. Linked'
    BY <2>1, <2>2, <2>3 DEF Faithful, Linked, At, Key
  <2>5. ReplayFaithful'
    BY <2>1, <2>2, <2>3 DEF Faithful, ReplayFaithful, Linked, Key
  <2> QED BY <2>4, <2>5 DEF Faithful
<1>7. ASSUME NEW r \in Requests, Store(r) PROVE Faithful'
  <2>1. /\ UNCHANGED <<waits, req, outcome, answer>> /\ pc' = [pc EXCEPT ![r] = "done"]
        /\ promise' = [promise EXCEPT ![r] = IF outcome[r] = "ok" THEN "stored" ELSE "failed"]
    BY <1>7 DEF Store, Goto, Resolution, Cacheable
  <2>2. Linked'
    BY <2>1 DEF Faithful, Linked, At, Key, Inv, TypeOK
  <2>3. ReplayFaithful'
    BY <2>1 DEF Faithful, ReplayFaithful, Key
  <2> QED BY <2>2, <2>3 DEF Faithful
<1>8. ASSUME NEW r \in Requests, StoreFails(r) PROVE Faithful'
  <2>1. /\ UNCHANGED <<waits, req, outcome>> /\ pc' = [pc EXCEPT ![r] = "done"]
        /\ promise' = [promise EXCEPT ![r] = "rejected"]
        /\ answer' = [answer EXCEPT ![r] = [kind |-> "error", of |-> NULL]]
    BY <1>8 DEF StoreFails, Respond, Goto
  <2> QED BY <2>1, FaithfulKept DEF Inv, TypeOK
<1>9. ASSUME NEW r \in Requests, Wake(r) PROVE Faithful'
  <2>1. /\ waits[r] \in Requests /\ Key(waits[r]) = Key(r)
        /\ req[waits[r]].hash = req[r].hash
        /\ promise[waits[r]] = "stored" => outcome[waits[r]] = "ok"
        /\ answer[r].kind # "replay"
        /\ UNCHANGED <<waits, req, outcome, promise>>
    BY <1>9 DEF Wake, At, Faithful, Linked
  <2>2. CASE promise[waits[r]] = "stored"
    <3>1. Respond(r, "replay", waits[r])
      BY <1>9, <2>2 DEF Wake
    <3> QED BY <2>1, <2>2, <3>1, FaithfulReplay
  <2>3. CASE promise[waits[r]] = "rejected"
    <3>1. Respond(r, "error", NULL)
      BY <1>9, <2>3 DEF Wake
    <3> QED BY <2>1, <3>1, FaithfulKept DEF Respond, Goto, Inv, TypeOK
  <2>4. CASE promise[waits[r]] = "failed"
    <3>1. Goto(r, "handler") /\ UNCHANGED answer
      BY <1>9, <2>4 DEF Wake
    <3> QED BY <2>1, <3>1, FaithfulKept DEF Goto, Inv, TypeOK
  <2> QED BY <1>9, <2>2, <2>3, <2>4 DEF Wake
<1>10. ASSUME NEW rules \in BOOLEAN, Reset(rules) PROVE Faithful'
  BY <1>10 DEF Reset, Faithful, Linked, ReplayFaithful, At, Key
<1>11. ASSUME NEW rules \in BOOLEAN, Restart(rules) PROVE Faithful'
  <2>1. \A s \in Requests :
          /\ answer'[s].kind = "replay" => answer'[s] = answer[s]
          /\ pc'[s] # "waiting"
          /\ pc[s] = "done" => pc'[s] = "done"
    BY <1>11 DEF Restart, InFlight, Inv, TypeOK
  <2> QED BY <1>11, <2>1 DEF Restart, Faithful, Linked, ReplayFaithful, At, Key
<1>12. CASE UNCHANGED vars
  BY <1>12 DEF vars, Faithful, Linked, ReplayFaithful, At, Key
<1> QED
  BY <1>1, <1>2, <1>3, <1>4, <1>5, <1>6, <1>7, <1>8, <1>9, <1>10, <1>11, <1>12
  DEF Next, Progress

-----------------------------------------------------------------------------
(* Claims: what the requests that go without one have waited for. *)

\* A promise is a leader's own, pending until the leader is on its way out and
\* failed only when its handler did not commit.
Promised ==
  \A r \in Requests :
    /\ promise[r] = "none" <=> ~leads[r]
    /\ pc[r] \in {"handler", "storing"} /\ leads[r] => promise[r] = "pending"
    /\ promise[r] = "failed" => outcome[r] \in {"declined", "refused"}

\* A request with a key that runs the handler without claiming the key.
Unclaimed(r) == Key(r) # NULL /\ ~leads[r] /\ (At(r, "handler") \/ outcome[r] # "none")

\* It has waited for a request under its key that failed.
Excused(r) == /\ waits[r] \in Requests /\ Key(waits[r]) = Key(r)
              /\ promise[waits[r]] = "failed"

AfterFailure == \A r \in Requests : Unclaimed(r) => Excused(r)

\* A request that waits finds a settled promise or one whose leader still runs:
\* nobody waits for a leader that is gone.
Coming(r) == \/ promise[waits[r]] \in {"stored", "failed", "rejected"}
             \/ leads[waits[r]] /\ pc[waits[r]] \in {"handler", "storing"}

WillWake == \A r \in Requests : At(r, "waiting") => Coming(r)

Claims == Promised /\ AfterFailure /\ WillWake

LEMMA InitClaims == Init => Claims
BY DEF Init, Claims, Promised, AfterFailure, Unclaimed, WillWake, At, Key

\* A step of r that neither claims, runs nor settles anything, and after which r
\* does not wait, keeps what the others wait for.
LEMMA ClaimsKept ==
  ASSUME Inv, Linked, Claims, NEW r \in Requests,
         UNCHANGED <<leads, promise, outcome>>,
         \A s \in Requests \ {r} : /\ pc'[s] = pc[s] /\ req'[s] = req[s]
                                   /\ waits'[s] = waits[s],
         At(r, "idle") \/ req'[r] = req[r],
         pc'[r] # "waiting", pc'[r] \in {"handler", "storing"} => ~leads[r],
         leads[r] => pc[r] \notin {"handler", "storing"},
         Unclaimed(r)' => Excused(r)'
  PROVE  Claims'
<1>1. Promised'
  <2> SUFFICES ASSUME NEW s \in Requests
               PROVE  /\ promise'[s] = "none" <=> ~leads'[s]
                      /\ pc'[s] \in {"handler", "storing"} /\ leads'[s]
                           => promise'[s] = "pending"
                      /\ promise'[s] = "failed" => outcome'[s] \in {"declined", "refused"}
    BY DEF Promised
  <2>1. /\ promise[s] = "none" <=> ~leads[s]
        /\ pc[s] \in {"handler", "storing"} /\ leads[s] => promise[s] = "pending"
        /\ promise[s] = "failed" => outcome[s] \in {"declined", "refused"}
    BY DEF Claims, Promised
  <2>2. promise' = promise /\ leads' = leads /\ outcome' = outcome
    OBVIOUS
  <2>3. CASE s = r
    BY <2>1, <2>2, <2>3
  <2>4. CASE s # r
    BY <2>1, <2>2, <2>4
  <2> QED BY <2>3, <2>4
<1>2. \A s \in Requests : promise[s] = "failed" => leads[s] /\ ~At(s, "idle")
  BY DEF Inv, Placed, Claims, Promised, At
<1>3. ASSUME NEW s \in Requests, Unclaimed(s)' PROVE Excused(s)'
  <2>1. CASE s = r
    BY <1>3, <2>1
  <2>2. CASE s # r
    <3>1. Unclaimed(s)
      BY <1>3, <2>2 DEF Unclaimed, Key, At
    <3>2. Excused(s)
      BY <3>1 DEF Claims, AfterFailure
    <3>3. waits'[s] = waits[s] /\ req'[s] = req[s]
      BY <2>2
    <3>4. ~At(waits[s], "idle") /\ waits[s] \in Requests
      BY <1>2, <3>2 DEF Excused
    <3>5. req'[waits[s]] = req[waits[s]]
      BY <3>4
    <3> QED BY <3>2, <3>3, <3>5 DEF Excused, Key
  <2> QED BY <2>1, <2>2
<1>4. ASSUME NEW s \in Requests, At(s, "waiting")' PROVE Coming(s)'
  <2>1. s # r
    BY <1>4 DEF At
  <2>2. At(s, "waiting") /\ waits'[s] = waits[s]
    BY <1>4, <2>1 DEF At
  <2>3. waits[s] \in Requests /\ Coming(s)
    BY <2>2 DEF Linked, Claims, WillWake
  <2>4. leads[waits[s]] /\ pc[waits[s]] \in {"handler", "storing"} => waits[s] # r
    OBVIOUS
  <2> QED BY <2>2, <2>3, <2>4 DEF Coming
<1> QED BY <1>1, <1>3, <1>4 DEF Claims, AfterFailure, WillWake

LEMMA NextClaims == Inv /\ Linked /\ Claims /\ [Next]_vars => Claims'
<1> SUFFICES ASSUME Inv, Linked, Claims, [Next]_vars PROVE Claims'
  OBVIOUS
<1>1. ASSUME NEW r \in Requests, NEW k \in Keys \cup {NULL}, NEW h \in Hashes,
             Arrive(r, k, h)
      PROVE Claims'
  <2>1. /\ At(r, "idle") /\ ~leads[r] /\ outcome[r] = "none"
        /\ UNCHANGED <<leads, promise, outcome, waits>>
    BY <1>1 DEF Arrive, Inv, Placed, At
  <2>2. /\ req'[r].key = k /\ \A s \in Requests \ {r} : req'[s] = req[s]
        /\ pc'[r] \in {"done", "lookup"} \/ (pc'[r] = "handler" /\ k = NULL)
        /\ \A s \in Requests \ {r} : pc'[s] = pc[s]
    BY <1>1 DEF Arrive, Respond, Goto, Inv, TypeOK
  <2>3. ~Unclaimed(r)'
    BY <2>1, <2>2 DEF Unclaimed, Key, At
  <2> QED BY <2>1, <2>2, <2>3, ClaimsKept
<1>2. ASSUME NEW r \in Requests, RefuseMismatch(r) PROVE Claims'
  <2>1. /\ At(r, "lookup") /\ ~leads[r] /\ outcome[r] = "none" /\ pc'[r] = "done"
        /\ \A s \in Requests \ {r} : pc'[s] = pc[s]
        /\ UNCHANGED <<leads, promise, outcome, waits, req>>
    BY <1>2 DEF RefuseMismatch, Respond, Goto, Inv, TypeOK, Placed, At
  <2>2. ~Unclaimed(r)'
    BY <2>1 DEF Unclaimed, At
  <2> QED BY <2>1, <2>2, ClaimsKept
<1>3. ASSUME NEW r \in Requests, ReplayRow(r) PROVE Claims'
  <2>1. /\ At(r, "lookup") /\ ~leads[r] /\ outcome[r] = "none" /\ pc'[r] = "done"
        /\ \A s \in Requests \ {r} : pc'[s] = pc[s]
        /\ UNCHANGED <<leads, promise, outcome, waits, req>>
    BY <1>3 DEF ReplayRow, Respond, Goto, Inv, TypeOK, Placed, At
  <2>2. ~Unclaimed(r)'
    BY <2>1 DEF Unclaimed, At
  <2> QED BY <2>1, <2>2, ClaimsKept
<1>4. ASSUME NEW r \in Requests, JoinInFlight(r) PROVE Claims'
  <2> DEFINE h == pending[Key(r)]
  <2>1. /\ At(r, "lookup") /\ ~leads[r] /\ outcome[r] = "none"
        /\ UNCHANGED <<leads, promise, outcome, req>>
        /\ pc' = [pc EXCEPT ![r] = "waiting"] /\ waits' = [waits EXCEPT ![r] = h]
        /\ h # NULL /\ Key(r) \in Keys
    BY <1>4 DEF JoinInFlight, Goto, Holder, Inv, TypeOK, Placed, Keyed, At
  <2>2. h \in Requests /\ leads[h] /\ pc[h] \in {"handler", "storing"} /\ h # r
    BY <2>1 DEF Inv, TypeOK, PendingIsLive, At
  <2>3. Coming(r)'
    BY <2>1, <2>2 DEF Coming, Inv, TypeOK
  <2>4. ASSUME NEW s \in Requests, s # r, At(s, "waiting")' PROVE Coming(s)'
    <3>1. At(s, "waiting") /\ waits'[s] = waits[s] /\ waits[s] \in Requests
      BY <2>1, <2>4 DEF At, Inv, TypeOK, Linked
    <3>2. Coming(s)
      BY <3>1 DEF Claims, WillWake
    <3>3. pc[waits[s]] \in {"handler", "storing"} => pc'[waits[s]] = pc[waits[s]]
      BY <2>1, <3>1 DEF At, Inv, TypeOK
    <3> QED BY <2>1, <3>1, <3>2, <3>3 DEF Coming
  <2>5. ASSUME NEW s \in Requests, Unclaimed(s)' PROVE Excused(s)'
    <3>1. s # r
      BY <2>1, <2>5 DEF Unclaimed, At, Inv, TypeOK
    <3>2. Unclaimed(s) /\ waits'[s] = waits[s]
      BY <2>1, <2>5, <3>1 DEF Unclaimed, At, Key, Inv, TypeOK
    <3> QED BY <2>1, <3>2 DEF Claims, AfterFailure, Excused, Key
  <2>6. Promised'
    BY <2>1 DEF Claims, Promised, Inv, TypeOK
  <2> QED BY <2>3, <2>4, <2>5, <2>6 DEF Claims, AfterFailure, WillWake
<1>5. ASSUME NEW r \in Requests, Lead(r) PROVE Claims'
  <2>1. /\ At(r, "lookup") /\ ~leads[r] /\ promise[r] = "none"
        /\ UNCHANGED <<outcome, waits, req>>
        /\ pc' = [pc EXCEPT ![r] = "handler"]
        /\ leads' = [leads EXCEPT ![r] = TRUE]
        /\ promise' = [promise EXCEPT ![r] = "pending"]
    BY <1>5 DEF Lead, Goto, Inv, Placed, At, Claims, Promised
  <2>2. Promised'
    BY <2>1 DEF Claims, Promised, Inv, TypeOK
  <2>3. ASSUME NEW s \in Requests, At(s, "waiting")' PROVE Coming(s)'
    <3>1. At(s, "waiting") /\ waits[s] \in Requests
      BY <2>1, <2>3 DEF At, Inv, TypeOK, Linked
    <3>2. Coming(s)
      BY <3>1 DEF Claims, WillWake
    <3>3. waits[s] # r
      BY <2>1, <3>2 DEF Coming
    <3> QED BY <2>1, <3>1, <3>2, <3>3 DEF Coming, Inv, TypeOK
  <2>4. ASSUME NEW s \in Requests, Unclaimed(s)' PROVE Excused(s)'
    <3>1. s # r /\ Unclaimed(s)
      BY <2>1, <2>4 DEF Unclaimed, At, Key, Inv, TypeOK
    <3>2. Excused(s)
      BY <3>1 DEF Claims, AfterFailure
    <3>3. waits[s] # r
      BY <2>1, <3>2 DEF Excused
    <3> QED BY <2>1, <3>2, <3>3 DEF Excused, Key, Inv, TypeOK
  <2> QED BY <2>2, <2>3, <2>4 DEF Claims, AfterFailure, WillWake
<1>6. ASSUME NEW r \in Requests, NEW o \in Outcomes, Execute(r, o) PROVE Claims'
  <2>1. /\ At(r, "handler") /\ UNCHANGED <<leads, promise, waits, req>>
        /\ outcome' = [outcome EXCEPT ![r] = o]
        /\ pc' = [pc EXCEPT ![r] = IF leads[r] THEN "storing" ELSE "done"]
        /\ outcome[r] = "none"
    BY <1>6 DEF Execute, Goto, Inv, Placed, At
  <2>2. Promised'
    <3>1. promise[r] # "failed"
      BY <2>1 DEF Claims, Promised
    <3>2. ASSUME NEW s \in Requests
          PROVE  /\ pc'[s] \in {"handler", "storing"} /\ leads[s]
                      => pc[s] \in {"handler", "storing"}
                 /\ promise[s] = "failed" => outcome'[s] = outcome[s]
      BY <2>1, <3>1 DEF At, Inv, TypeOK
    <3>3. promise' = promise /\ leads' = leads
      BY <2>1
    <3> QED BY <3>2, <3>3 DEF Claims, Promised
  <2>3. ASSUME NEW s \in Requests, At(s, "waiting")' PROVE Coming(s)'
    <3>1. At(s, "waiting") /\ waits[s] \in Requests
      BY <2>1, <2>3 DEF At, Inv, TypeOK, Linked
    <3>2. Coming(s)
      BY <3>1 DEF Claims, WillWake
    <3>3. leads[waits[s]] /\ pc[waits[s]] \in {"handler", "storing"}
            => pc'[waits[s]] \in {"handler", "storing"}
      BY <2>1, <3>1 DEF At, Inv, TypeOK
    <3> QED BY <2>1, <3>1, <3>2, <3>3 DEF Coming
  <2>4. ASSUME NEW s \in Requests, Unclaimed(s)' PROVE Excused(s)'
    <3>1. Unclaimed(s)
      BY <2>1, <2>4 DEF Unclaimed, At, Key, Inv, TypeOK
    <3> QED BY <2>1, <3>1 DEF Claims, AfterFailure, Excused, Key
  <2> QED BY <2>2, <2>3, <2>4 DEF Claims, AfterFailure, WillWake
<1>7. ASSUME NEW r \in Requests, NEW v \in {"stored", "failed", "rejected"},
             At(r, "storing"), UNCHANGED <<leads, waits, req, outcome>>,
             v = "failed" => outcome[r] \in {"declined", "refused"},
             promise' = [promise EXCEPT ![r] = v], pc' = [pc EXCEPT ![r] = "done"]
      PROVE Claims'
  <2>1. leads[r] /\ promise[r] = "pending"
    BY <1>7 DEF Inv, Placed, At, Claims, Promised
  <2>2. Promised'
    BY <1>7, <2>1 DEF Claims, Promised, Inv, TypeOK
  <2>3. ASSUME NEW s \in Requests, At(s, "waiting")' PROVE Coming(s)'
    <3>1. At(s, "waiting") /\ waits[s] \in Requests
      BY <1>7, <2>3 DEF At, Inv, TypeOK, Linked
    <3>2. Coming(s)
      BY <3>1 DEF Claims, WillWake
    <3> QED BY <1>7, <3>1, <3>2 DEF Coming, Inv, TypeOK
  <2>4. ASSUME NEW s \in Requests, Unclaimed(s)' PROVE Excused(s)'
    <3>1. Unclaimed(s)
      BY <1>7, <2>1, <2>4 DEF Unclaimed, At, Key, Inv, TypeOK
    <3>2. Excused(s)
      BY <3>1 DEF Claims, AfterFailure
    <3>3. waits[s] # r
      BY <2>1, <3>2 DEF Excused
    <3> QED BY <1>7, <3>2, <3>3 DEF Excused, Key, Inv, TypeOK
  <2> QED BY <2>2, <2>3, <2>4 DEF Claims, AfterFailure, WillWake
<1>8. ASSUME NEW r \in Requests, Store(r) PROVE Claims'
  <2>1. /\ At(r, "storing") /\ UNCHANGED <<leads, waits, req, outcome>>
        /\ promise' = [promise EXCEPT ![r] = Resolution(r)]
        /\ pc' = [pc EXCEPT ![r] = "done"]
    BY <1>8 DEF Store, Goto
  <2>2. outcome[r] \in Outcomes
    BY <2>1 DEF Inv, Placed, TypeOK
  <2>3. /\ Resolution(r) \in {"stored", "failed"}
        /\ Resolution(r) = "failed" => outcome[r] \in {"declined", "refused"}
    BY <2>2 DEF Resolution, Cacheable, Outcomes
  <2> QED BY <1>7, <2>1, <2>3
<1>9. ASSUME NEW r \in Requests, StoreFails(r) PROVE Claims'
  BY <1>7, <1>9 DEF StoreFails, Respond, Goto
<1>10. ASSUME NEW r \in Requests, Wake(r) PROVE Claims'
  <2>1. /\ At(r, "waiting") /\ ~leads[r] /\ outcome[r] = "none"
        /\ UNCHANGED <<leads, promise, outcome, waits, req>>
        /\ pc'[r] = "done" \/ (pc'[r] = "handler" /\ promise[waits[r]] = "failed")
        /\ \A s \in Requests \ {r} : pc'[s] = pc[s]
    BY <1>10 DEF Wake, Respond, Goto, Inv, TypeOK, Placed, At
  <2>2. waits[r] \in Requests /\ Key(waits[r]) = Key(r)
    BY <2>1 DEF Linked
  <2>3. Unclaimed(r)' => Excused(r)'
    BY <2>1, <2>2 DEF Unclaimed, Excused, Key, At
  <2> QED BY <2>1, <2>3, ClaimsKept
<1>11. ASSUME NEW rules \in BOOLEAN, Reset(rules) PROVE Claims'
  BY <1>11 DEF Reset, Claims, Promised, AfterFailure, Unclaimed, Excused, WillWake,
               Coming, At, Key
<1>12. ASSUME NEW rules \in BOOLEAN, Restart(rules) PROVE Claims'
  <2>1. /\ UNCHANGED <<leads, promise, outcome, waits, req>>
        /\ \A s \in Requests : pc'[s] \in {"idle", "done"}
    BY <1>12 DEF Restart, InFlight, Inv, TypeOK
  <2>2. Promised' /\ WillWake'
    BY <2>1 DEF Claims, Promised, WillWake, At
  <2>3. AfterFailure'
    BY <2>1 DEF Claims, AfterFailure, Unclaimed, Excused, At, Key
  <2> QED BY <2>2, <2>3 DEF Claims
<1>13. CASE UNCHANGED vars
  BY <1>13 DEF vars, Claims, Promised, AfterFailure, Unclaimed, Excused, WillWake,
               Coming, At, Key
<1> QED
  BY <1>1, <1>2, <1>3, <1>4, <1>5, <1>6, <1>8, <1>9, <1>10, <1>11, <1>12, <1>13
  DEF Next, Progress

-----------------------------------------------------------------------------
(* The tape. *)

\* What a request's events are by what became of it: nothing yet, or the answer
\* of its handler, a replay, or an injected refusal that no handler saw.
Untold(r) == tape[r] = <<>> /\ outcome[r] = "none" /\ answer[r].kind # "replay"
Told(r) ==
  /\ pc[r] \in {"storing", "done"} /\ outcome[r] # "none" /\ answer[r].kind # "replay"
  /\ tape[r] = <<HandlerEvent(outcome[r])>>
Replayed(r) ==
  /\ At(r, "done") /\ outcome[r] = "none" /\ answer[r].kind = "replay"
  /\ tape[r] = <<DedupeEvent>>
Injected(r) ==
  /\ At(r, "done") /\ outcome[r] = "none" /\ answer[r].kind # "replay"
  /\ tape[r] = <<HandlerEvent("refused")>>

Taped ==
  \A r \in Requests :
    /\ pc[r] \in {"idle", "lookup", "waiting", "handler"} => Untold(r)
    /\ Untold(r) \/ Told(r) \/ Replayed(r) \/ Injected(r)

LEMMA InitTaped == Init => Taped
BY DEF Init, Taped, Untold

\* A step of one request leaves what is told of the others.
Kept(r) == \A s \in Requests \ {r} : /\ pc'[s] = pc[s] /\ outcome'[s] = outcome[s]
                                     /\ answer'[s] = answer[s] /\ tape'[s] = tape[s]

LEMMA TapedKept ==
  ASSUME Inv, Taped, NEW r \in Requests, Kept(r),
         pc'[r] \in {"idle", "lookup", "waiting", "handler"} => Untold(r)',
         Untold(r)' \/ Told(r)' \/ Replayed(r)' \/ Injected(r)'
  PROVE  Taped'
<1> SUFFICES ASSUME NEW s \in Requests \ {r}
             PROVE  /\ pc'[s] \in {"idle", "lookup", "waiting", "handler"} => Untold(s)'
                    /\ Untold(s)' \/ Told(s)' \/ Replayed(s)' \/ Injected(s)'
  BY DEF Taped
<1>1. /\ pc'[s] = pc[s] /\ outcome'[s] = outcome[s]
      /\ answer'[s] = answer[s] /\ tape'[s] = tape[s]
  BY DEF Kept
<1> QED BY <1>1 DEF Taped, Untold, Told, Replayed, Injected, At, HandlerEvent

LEMMA Responded ==
  ASSUME Inv, NEW r \in Requests, NEW kind, NEW of, Respond(r, kind, of)
  PROVE  /\ pc'[r] = "done" /\ answer'[r].kind = kind
         /\ \A s \in Requests \ {r} : pc'[s] = pc[s] /\ answer'[s] = answer[s]
<1>1. /\ pc' = [pc EXCEPT ![r] = "done"]
      /\ answer' = [answer EXCEPT ![r] = [kind |-> kind, of |-> of]]
  BY DEF Respond, Goto
<1>2. DOMAIN pc = Requests /\ DOMAIN answer = Requests
  BY DEF Inv, TypeOK
<1> QED BY <1>1, <1>2

LEMMA Recorded ==
  ASSUME Inv, NEW r \in Requests, NEW e, Record(r, e)
  PROVE  /\ tape[r] = <<>> => tape'[r] = <<e>>
         /\ \A s \in Requests \ {r} : tape'[s] = tape[s]
<1>1. tape' = [tape EXCEPT ![r] = Append(tape[r], e)] /\ DOMAIN tape = Requests
  BY DEF Record, Inv, TypeOK
<1>2. Append(<<>>, e) = <<e>>
  OBVIOUS
<1> QED BY <1>1, <1>2

LEMMA NextTaped == Inv /\ Taped /\ [Next]_vars => Taped'
<1> SUFFICES ASSUME Inv, Taped, [Next]_vars PROVE Taped'
  OBVIOUS
<1>1. ASSUME NEW r \in Requests, NEW k \in Keys \cup {NULL}, NEW h \in Hashes,
             Arrive(r, k, h)
      PROVE Taped'
  <2>1. Untold(r) /\ outcome' = outcome
    BY <1>1 DEF Arrive, At, Taped
  <2>2. CASE armed /\ count + 1 = BeforeAttempt
    <3>1. Respond(r, "injected", NULL) /\ Record(r, HandlerEvent("refused"))
      BY <1>1, <2>2 DEF Arrive
    <3>2. Kept(r) /\ Injected(r)' /\ pc'[r] = "done"
      BY <2>1, <3>1, Responded, Recorded DEF Kept, Untold, Injected, At
    <3> QED BY <3>2, TapedKept
  <2>3. CASE ~(armed /\ count + 1 = BeforeAttempt)
    <3>1. /\ Goto(r, IF k = NULL THEN "handler" ELSE "lookup")
          /\ UNCHANGED <<answer, tape>>
      BY <1>1, <2>3 DEF Arrive
    <3>2. Kept(r) /\ Untold(r)'
      BY <2>1, <3>1 DEF Kept, Goto, Untold, Inv, TypeOK
    <3> QED BY <3>2, TapedKept
  <2> QED BY <2>2, <2>3
<1>2. ASSUME NEW r \in Requests, RefuseMismatch(r) PROVE Taped'
  <2>1. Untold(r) /\ UNCHANGED <<outcome, tape>> /\ Respond(r, "mismatch", NULL)
    BY <1>2 DEF RefuseMismatch, At, Taped
  <2>2. Kept(r) /\ Untold(r)'
    BY <2>1, Responded DEF Kept, Untold
  <2> QED BY <2>2, TapedKept
<1>3. ASSUME NEW r \in Requests, ReplayRow(r) PROVE Taped'
  <2>1. /\ Untold(r) /\ outcome' = outcome
        /\ Respond(r, "replay", rows[Key(r)]) /\ Record(r, DedupeEvent)
    BY <1>3 DEF ReplayRow, At, Taped
  <2>2. Kept(r) /\ Replayed(r)' /\ pc'[r] = "done"
    BY <2>1, Responded, Recorded DEF Kept, Untold, Replayed, At
  <2> QED BY <2>2, TapedKept
<1>4. ASSUME NEW r \in Requests, JoinInFlight(r) PROVE Taped'
  <2>1. Untold(r) /\ UNCHANGED <<outcome, answer, tape>> /\ Goto(r, "waiting")
    BY <1>4 DEF JoinInFlight, At, Taped
  <2>2. Kept(r) /\ Untold(r)'
    BY <2>1 DEF Kept, Goto, Untold, Inv, TypeOK
  <2> QED BY <2>2, TapedKept
<1>5. ASSUME NEW r \in Requests, Lead(r) PROVE Taped'
  <2>1. Untold(r) /\ UNCHANGED <<outcome, answer, tape>> /\ Goto(r, "handler")
    BY <1>5 DEF Lead, At, Taped
  <2>2. Kept(r) /\ Untold(r)'
    BY <2>1 DEF Kept, Goto, Untold, Inv, TypeOK
  <2> QED BY <2>2, TapedKept
<1>6. ASSUME NEW r \in Requests, NEW o \in Outcomes, Execute(r, o) PROVE Taped'
  <2>1. Untold(r) /\ Record(r, HandlerEvent(o))
    BY <1>6 DEF Execute, At, Taped
  <2>2. /\ outcome'[r] = o /\ o # "none" /\ pc'[r] \in {"storing", "done"}
        /\ answer'[r].kind # "replay"
        /\ \A s \in Requests \ {r} : /\ pc'[s] = pc[s] /\ outcome'[s] = outcome[s]
                                      /\ answer'[s] = answer[s]
    BY <1>6 DEF Execute, Goto, Outcomes, Inv, TypeOK
  <2>3. Kept(r) /\ Told(r)'
    BY <2>1, <2>2, Recorded DEF Kept, Untold, Told, HandlerEvent, Mutates
  <2> QED BY <2>2, <2>3, TapedKept
<1>7. ASSUME NEW r \in Requests, Store(r) PROVE Taped'
  <2>1. Told(r) /\ UNCHANGED <<outcome, answer, tape>> /\ Goto(r, "done")
    BY <1>7 DEF Store, At, Taped, Untold, Replayed, Injected, Inv, Placed
  <2>2. Kept(r) /\ Told(r)' /\ pc'[r] = "done"
    BY <2>1 DEF Kept, Goto, Told, HandlerEvent, Inv, TypeOK
  <2> QED BY <2>2, TapedKept
<1>8. ASSUME NEW r \in Requests, StoreFails(r) PROVE Taped'
  <2>1. Told(r) /\ UNCHANGED <<outcome, tape>> /\ Respond(r, "error", NULL)
    BY <1>8 DEF StoreFails, At, Taped, Untold, Replayed, Injected, Inv, Placed
  <2>2. Kept(r) /\ Told(r)' /\ pc'[r] = "done"
    BY <2>1, Responded DEF Kept, Told, HandlerEvent
  <2> QED BY <2>2, TapedKept
<1>9. ASSUME NEW r \in Requests, Wake(r) PROVE Taped'
  <2>1. Untold(r) /\ outcome' = outcome
    BY <1>9 DEF Wake, At, Taped
  <2>2. CASE promise[waits[r]] = "stored"
    <3>1. Respond(r, "replay", waits[r]) /\ Record(r, DedupeEvent)
      BY <1>9, <2>2 DEF Wake
    <3>2. Kept(r) /\ Replayed(r)' /\ pc'[r] = "done"
      BY <2>1, <3>1, Responded, Recorded DEF Kept, Untold, Replayed, At
    <3> QED BY <3>2, TapedKept
  <2>3. CASE promise[waits[r]] = "rejected"
    <3>1. Respond(r, "error", NULL) /\ UNCHANGED tape
      BY <1>9, <2>3 DEF Wake
    <3>2. Kept(r) /\ Untold(r)'
      BY <2>1, <3>1, Responded DEF Kept, Untold
    <3> QED BY <3>2, TapedKept
  <2>4. CASE promise[waits[r]] = "failed"
    <3>1. Goto(r, "handler") /\ UNCHANGED <<answer, tape>>
      BY <1>9, <2>4 DEF Wake
    <3>2. Kept(r) /\ Untold(r)'
      BY <2>1, <3>1 DEF Kept, Goto, Untold, Inv, TypeOK
    <3> QED BY <3>2, TapedKept
  <2> QED BY <1>9, <2>2, <2>3, <2>4 DEF Wake
<1>10. ASSUME NEW rules \in BOOLEAN, Reset(rules) PROVE Taped'
  BY <1>10 DEF Reset, Taped, Untold, Told, Replayed, Injected, At, HandlerEvent
<1>11. ASSUME NEW rules \in BOOLEAN, Restart(rules) PROVE Taped'
  <2> SUFFICES ASSUME NEW s \in Requests
               PROVE  /\ pc'[s] \in {"idle", "lookup", "waiting", "handler"} => Untold(s)'
                      /\ Untold(s)' \/ Told(s)' \/ Replayed(s)' \/ Injected(s)'
    BY DEF Taped
  <2>1. UNCHANGED <<outcome, tape>>
    BY <1>11 DEF Restart
  <2>2. CASE pc[s] \in InFlight
    <3>1. pc'[s] = "done" /\ answer'[s].kind = "lost"
      BY <1>11, <2>2 DEF Restart
    <3>2. Untold(s) \/ Told(s)
      BY <2>2 DEF Taped, Replayed, Injected, At, InFlight
    <3> QED BY <2>1, <3>1, <3>2 DEF Untold, Told, HandlerEvent
  <2>3. CASE pc[s] \notin InFlight
    <3>1. pc'[s] = pc[s] /\ answer'[s] = answer[s]
      BY <1>11, <2>3 DEF Restart
    <3> QED BY <2>1, <3>1 DEF Taped, Untold, Told, Replayed, Injected, At, HandlerEvent
  <2> QED BY <2>2, <2>3
<1>12. CASE UNCHANGED vars
  BY <1>12 DEF vars, Taped, Untold, Told, Replayed, Injected, At, HandlerEvent
<1> QED
  BY <1>1, <1>2, <1>3, <1>4, <1>5, <1>6, <1>7, <1>8, <1>9, <1>10, <1>11, <1>12
  DEF Next, Progress

\* A tape of at most one event counts what that event says.
LEMMA TapedIsTruthful == Taped => TapeTruthful
<1> SUFFICES ASSUME Taped, NEW r \in Requests
             PROVE  /\ Cardinality({i \in DOMAIN tape[r] : tape[r][i].mutation})
                          = IF Mutates(outcome[r]) THEN 1 ELSE 0
                    /\ Cardinality({i \in DOMAIN tape[r] : tape[r][i].dedupe})
                          = IF answer[r].kind = "replay" THEN 1 ELSE 0
  BY DEF TapeTruthful
<1>1. Cardinality({}) = 0 /\ Cardinality({1}) = 1
  BY FS_EmptySet, FS_Singleton
<1>2. CASE Untold(r)
  <2>1. DOMAIN tape[r] = {} /\ ~Mutates(outcome[r]) /\ answer[r].kind # "replay"
    BY <1>2 DEF Untold, Mutates
  <2> QED BY <1>1, <2>1
<1>3. ASSUME NEW e, tape[r] = <<e>>
      PROVE  /\ {i \in DOMAIN tape[r] : tape[r][i].mutation} = IF e.mutation THEN {1} ELSE {}
             /\ {i \in DOMAIN tape[r] : tape[r][i].dedupe} = IF e.dedupe THEN {1} ELSE {}
  <2>1. DOMAIN tape[r] = {1} /\ tape[r][1] = e
    BY <1>3
  <2> QED BY <2>1
<1>4. CASE Told(r)
  <2>1. /\ HandlerEvent(outcome[r]).mutation = Mutates(outcome[r])
        /\ HandlerEvent(outcome[r]).dedupe = FALSE
    BY DEF HandlerEvent
  <2> QED BY <1>1, <1>3, <1>4, <2>1 DEF Told
<1>5. CASE Replayed(r)
  BY <1>1, <1>3, <1>5 DEF Replayed, DedupeEvent, Mutates
<1>6. CASE Injected(r)
  <2>1. HandlerEvent("refused").mutation = FALSE /\ HandlerEvent("refused").dedupe = FALSE
    <3>1. Mutates("refused") = FALSE
      BY DEF Mutates
    <3> QED BY <3>1 DEF HandlerEvent
  <2>2. tape[r] = <<HandlerEvent("refused")>> /\ answer[r].kind # "replay" /\ ~Mutates(outcome[r])
    BY <1>6 DEF Injected, Mutates
  <2>3. /\ {i \in DOMAIN tape[r] : tape[r][i].mutation} = {}
        /\ {i \in DOMAIN tape[r] : tape[r][i].dedupe} = {}
    BY <1>3, <2>1, <2>2
  <2> QED BY <1>1, <2>2, <2>3
<1> QED BY <1>2, <1>4, <1>5, <1>6 DEF Taped

-----------------------------------------------------------------------------
(* The theorems. *)

LEMMA Invariant == Spec => []Inv
BY InitInv, NextInv, PTL DEF Spec

\* Every variable of the middleware keeps its type, for any constants.
THEOREM TypeCorrect == Spec => []TypeOK
<1>1. Inv => TypeOK
  BY DEF Inv
<1> QED BY <1>1, Invariant, PTL

\* Of any number of requests that claim a key, in any order of arrivals, failed
\* row insertions, restarts and resets, one commits between two resets.
THEOREM LeaderOnceAlways == Spec => []LeaderOnce
<1>1. Inv => LeaderOnce
  BY DEF Inv
<1> QED BY <1>1, Invariant, PTL

LEMMA ClaimsInvariant == Spec => []Claims
<1>1. Faithful => Linked
  BY DEF Faithful
<1> QED BY <1>1, Invariant, InitFaithful, NextFaithful, InitClaims, NextClaims, PTL DEF Spec

\* Of any number of requests under one key, however they are interleaved with
\* failures, resets and restarts, two commit between two resets only if one of
\* them had waited for a request under that key that did not commit.
THEOREM CommitsOnceAlways == Spec => []CommitsOnce
<1>1. Inv /\ Claims => CommitsOnce
  <2> SUFFICES ASSUME Inv, Claims, NEW r \in Requests, NEW s \in Requests,
                      r # s, Key(r) = Key(s), Key(r) # NULL,
                      outcome[r] = "ok", outcome[s] = "ok", ranIn[r] = ranIn[s],
                      r \notin lostRow, s \notin lostRow
               PROVE  \E w \in {r, s} : /\ waits[w] \in Requests /\ Key(waits[w]) = Key(w)
                                        /\ outcome[waits[w]] \in {"declined", "refused"}
    BY DEF CommitsOnce
  <2>1. ASSUME NEW w \in {r, s}, ~leads[w]
        PROVE  /\ waits[w] \in Requests /\ Key(waits[w]) = Key(w)
               /\ outcome[waits[w]] \in {"declined", "refused"}
    <3>1. Unclaimed(w)
      BY <2>1 DEF Unclaimed
    <3> QED BY <3>1 DEF Claims, AfterFailure, Excused, Promised
  <2>2. ~(leads[r] /\ leads[s])
    <3>1. Key(r) \in Keys
      BY DEF Inv, TypeOK, Key
    <3> QED BY <3>1 DEF Committed, Inv, LeaderOnce
  <2> QED BY <2>1, <2>2
<1> QED BY <1>1, Invariant, ClaimsInvariant, PTL

\* Whoever waits for a promise finds it settled or its leader still running,
\* through refusals, failed insertions, resets and restarts: the safety half of
\* Answered.
THEOREM WillWakeAlways == Spec => []WillWake
<1>1. Claims => WillWake
  BY DEF Claims
<1> QED BY <1>1, ClaimsInvariant, PTL

\* The in-flight map holds exactly the requests that claimed a key and are still
\* running: none leaks and none is dropped early.
THEOREM PendingIsLiveAlways == Spec => []PendingIsLive
<1>1. Inv => PendingIsLive
  BY DEF Inv
<1> QED BY <1>1, Invariant, PTL

\* The response of a request that claimed its key and committed is there to be
\* replayed when its client has been answered, whatever the client was shown.
THEOREM CommittedIsStoredAlways == Spec => []CommittedIsStored
<1>1. Inv => CommittedIsStored
  <2> SUFFICES ASSUME Inv, NEW k \in Keys, NEW r \in Committed(k),
                      At(r, "done"), ranIn[r] = epoch
               PROVE  rows[k] # NULL /\ (ranIn[rows[k]] = epoch => rows[k] = r)
    BY DEF CommittedIsStored
  <2>1. rows[k] # NULL
    BY DEF Inv, StillHeld, At
  <2>2. rows[k] \in Committed(k)
    BY <2>1 DEF Inv, HeldOnce
  <2> QED BY <2>1, <2>2 DEF Inv, LeaderOnce
<1> QED BY <1>1, Invariant, PTL

\* No order of joins, failures, stale rows and restarts replays to a request
\* anything but a response that a handler committed for its key and parameters.
THEOREM ReplayFaithfulAlways == Spec => []ReplayFaithful
<1>1. Faithful => ReplayFaithful
  BY DEF Faithful
<1> QED BY <1>1, Invariant, InitFaithful, NextFaithful, PTL DEF Spec

\* The tape has one mutation for a handler that committed and none otherwise, and
\* one dedupe event for a replay, whatever was injected, joined or restarted.
THEOREM TapeTruthfulAlways == Spec => []TapeTruthful
BY Invariant, InitTaped, NextTaped, TapedIsTruthful, PTL DEF Spec
=============================================================================
