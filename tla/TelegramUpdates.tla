---------------------------- MODULE TelegramUpdates ----------------------------
(***************************************************************************)
(* The Bot API update queue of the Telegram twin: long polls, the durable  *)
(* webhook outbox and the runtime that drains it                           *)
(* (packages/twin-telegram/src/updates.ts and domain.ts).                  *)
(*                                                                         *)
(* updates and outbox are SQLite tables and outlive the process; poll,     *)
(* drain and retryAt are the runtime's and do not.  An action is the code  *)
(* between two awaits.  An update's content is its bot and its number n    *)
(* among the updates ever queued for that bot, since the ids start over    *)
(* at a reset.  allowed_updates only decides which bots a message is       *)
(* queued for; the webhook's URL and secret only reach the receiver.       *)
(***************************************************************************)
EXTENDS Integers, FiniteSets

CONSTANTS
  Bots, NULL,
  Batch,        \* MAX_WEBHOOK_BATCH, 8
  LockFor,      \* seconds a claimed row stays locked, 30
  Retention,    \* UPDATE_RETENTION_SEC, 24 hours
  MaxSent, MaxTime, MaxCalls  \* bounds of a run

Row   == [n : Nat, at : Nat]
Entry == [attempts : Nat, due : Nat, locked : Nat]

ASSUME TelegramAssumption == /\ Batch \in Nat \ {0} /\ LockFor \in Nat \ {0}
                             /\ Retention \in Nat \ {0}
                             /\ MaxSent \in Nat
                             /\ MaxTime \in Nat /\ MaxCalls \in Nat
ASSUME NullAssumption == NULL \notin Row \cup Entry \cup Nat

VARIABLES
  now,
  webhook,    \* whether a webhook_url is set
  nextId,     \* next_update_id
  updates,    \* table bot_updates
  outbox,     \* table webhook_outbox
  poll,       \* the one active getUpdates of a bot, and its offset
  drain,      \* the drain in progress, if any
  retryAt,    \* when the armed retry timer is for
  sent,       \* updates ever queued for a bot
  known,      \* highest id a poll has returned since the last reset
  released,   \* updates a poll returned or skipped, a receiver got, or
              \* a drop or a reset was asked to forget
  strayed,    \* a seed that failed cancelled the timer, no wakeup since
  calls       \* webhook calls, resets and restarts so far

tables  == <<webhook, nextId, updates, outbox>>
history == <<sent, known, released>>
counts  == <<now, calls>>
vars    == <<tables, poll, drain, retryAt, strayed, history, counts>>

Ids == 1 .. MaxSent
Cells == Bots \X Ids

\* live and sched: the generations read when the flush began and when the
\* drain was scheduled are still the runtime's.
Drain == [at : {"off", "queued", "sending"}, key : Cells \cup {NULL}, n : Nat,
          rest : SUBSET Cells, began : Nat, full : BOOLEAN,
          live : BOOLEAN, sched : BOOLEAN]

Off    == [at |-> "off", key |-> NULL, n |-> 0, rest |-> {}, began |-> 0,
           full |-> FALSE, live |-> TRUE, sched |-> TRUE]
Queued == [Off EXCEPT !.at = "queued"]

TypeOK ==
  /\ webhook \in [Bots -> BOOLEAN]
  /\ nextId \in [Bots -> Nat \ {0}]
  /\ updates \in [Cells -> Row \cup {NULL}]
  /\ outbox \in [Cells -> Entry \cup {NULL}]
  /\ poll \in [Bots -> [at : {"idle", "waiting", "woken"}, offset : Int]]
  /\ drain \in Drain
  /\ retryAt \in Nat \cup {NULL}
  /\ sent \in [Bots -> Nat] /\ known \in [Bots -> Nat]
  /\ released \subseteq Bots \X Nat
  /\ strayed \in BOOLEAN
  /\ now \in Nat /\ calls \in Nat

Idle == [at |-> "idle", offset |-> 0]

ZeroBased  == 0
FirstId    == 1         \* next_update_id of a new row
Asleep     == Off
Registered == Queued    \* registerDispatcher schedules the first drain

\* A fresh database, or an older one whose queues are empty.
Init ==
  /\ now = 0 /\ calls = 0
  /\ webhook \in [Bots -> BOOLEAN] /\ nextId = [b \in Bots |-> FirstId]
  /\ updates = [k \in Cells |-> NULL] /\ outbox = [k \in Cells |-> NULL]
  /\ poll = [b \in Bots |-> Idle]
  /\ drain = Registered /\ retryAt = NULL /\ strayed = FALSE
  /\ sent = [b \in Bots |-> 0] /\ known = [b \in Bots |-> 0]
  /\ released = {}

-----------------------------------------------------------------------------
(* The tables. *)

\* purgeExpiredUpdates, and the ON DELETE CASCADE of the outbox.
Expired(row)  == row # NULL /\ row.at <= now - Retention
Purged(u)     == [k \in Cells |-> IF Expired(u[k]) THEN NULL ELSE u[k]]
Cascade(o, u) == [k \in Cells |-> IF u[k] = NULL THEN NULL ELSE o[k]]

IdsOf(u, b)  == {i \in Ids : u[<<b, i>>] # NULL}
Events(u, C) == {<<k[1], u[k].n>> : k \in {c \in C : u[c] # NULL}}

Numbers       == {e \in Bots \X Ids : e[2] <= sent[e[1]]}

Due0(t) == [attempts |-> 0, due |-> t, locked |-> 0]

First(S, n) == {i \in S : Cardinality({j \in S : j < i}) < n}
Last(S, n)  == {i \in S : Cardinality({j \in S : j > i}) < n}

(* The runtime. *)

\* A woken poll's continuation is a microtask: it runs before another request.
NoneWoken == \A b \in Bots : poll[b].at # "woken"
Keep(B)   == poll
Wake(B)   == [b \in Bots |-> IF b \in B /\ poll[b].at = "waiting"
                               THEN [poll[b] EXCEPT !.at = "woken"] ELSE poll[b]]
\* scheduleDrain; and cancelAll, whose new generation is nobody's.
Scheduled(d) == IF d.at = "off" THEN Queued ELSE d
Cancelled(d) == IF d.at = "off" THEN d ELSE [d EXCEPT !.live = FALSE, !.sched = FALSE]

Notify(b) == /\ poll' = Wake({b})
             /\ drain' = Scheduled(drain) /\ strayed' = FALSE
             /\ UNCHANGED retryAt

-----------------------------------------------------------------------------
(* Messages and polls. *)

\* A committed write queues an update for every bot of the chat that allows
\* the type, and then notifies each.
SendMessage(S) ==
  /\ NoneWoken
  /\ \A b \in S : nextId[b] \in Ids
  /\ Cardinality(Numbers) + Cardinality(S) <= MaxSent
  /\ LET new == {<<b, nextId[b]>> : b \in S}
     IN /\ updates' = [k \in Cells |->
              IF k \in new THEN [n |-> sent[k[1]] + 1, at |-> now] ELSE updates[k]]
        /\ outbox' = [k \in Cells |->
              IF k \in new /\ webhook[k[1]] THEN Due0(now) ELSE outbox[k]]
  /\ nextId' = [b \in Bots |-> IF b \in S THEN nextId[b] + 1 ELSE nextId[b]]
  /\ sent' = [b \in Bots |-> IF b \in S THEN sent[b] + 1 ELSE sent[b]]
  /\ poll' = Wake(S)
  /\ drain' = Scheduled(drain) /\ strayed' = FALSE
  /\ UNCHANGED <<webhook, retryAt, known, released, counts>>

\* What a getUpdates with this offset and limit returns and deletes.  Offsets
\* a client sends acknowledge ids it was given; none at all is 1, for ids start
\* at 1; a negative one skips to the tail.
Offsets(b) == {-1} \cup 1 .. known[b] + 1
Returned(u, b, off, lim) ==
  IF off < 0 THEN Last(IdsOf(u, b), IF -off < lim THEN -off ELSE lim)
             ELSE First({i \in IdsOf(u, b) : i >= off}, lim)
Deleted(u, b, off, lim) ==
  IF off < 0 THEN {i \in IdsOf(u, b) : \A j \in Returned(u, b, off, lim) : i < j}
             ELSE {i \in IdsOf(u, b) : i < off}

\* getUpdates: it purges before it finds a webhook active and answers 409.
GetUpdates(b, off, lim) ==
  LET u   == Purged(updates)
      got == Returned(u, b, off, lim)
      del == {b} \X Deleted(u, b, off, lim)
      v   == [k \in Cells |-> IF k \in del THEN NULL ELSE u[k]]
  IN  IF webhook[b]
        THEN /\ updates' = u /\ outbox' = Cascade(outbox, u)
             /\ UNCHANGED <<known, released>>
        ELSE /\ updates' = v /\ outbox' = Cascade(outbox, v)
             /\ released' = released \cup Events(u, {b} \X (IF off < 0 THEN IdsOf(u, b) ELSE got))
             /\ \E top \in got \cup {known[b]} :
                  /\ \A i \in got \cup {known[b]} : i <= top
                  /\ known' = [known EXCEPT ![b] = top]

\* It returned nothing, and did not fail.
Empty(b, off) == ~webhook[b] /\ \A i \in IdsOf(Purged(updates), b) : i < off

\* waitForUpdates; a second one for the bot is refused and changes nothing.
Poll(b, off, lim, wait) ==
  /\ NoneWoken /\ poll[b].at = "idle"
  /\ GetUpdates(b, off, lim)
  /\ poll' = [poll EXCEPT ![b] = IF wait /\ Empty(b, off)
                                   THEN [at |-> "waiting", offset |-> off] ELSE Idle]
  /\ UNCHANGED <<webhook, nextId, drain, retryAt, strayed, sent, counts>>

\* The timeout passes, or the client goes away.
PollTimesOut(b) ==
  /\ poll[b].at = "waiting"
  /\ poll' = Wake({b})
  /\ UNCHANGED <<tables, drain, retryAt, strayed, history, counts>>

PollResumes(b, lim) ==
  /\ poll[b].at = "woken"
  /\ GetUpdates(b, poll[b].offset, lim)
  /\ poll' = [poll EXCEPT ![b] = Idle]
  /\ UNCHANGED <<webhook, nextId, drain, retryAt, strayed, sent, counts>>

\* getWebhookInfo reads, and purges.
GetWebhookInfo ==
  /\ NoneWoken
  /\ updates' = Purged(updates) /\ outbox' = Cascade(outbox, updates')
  /\ UNCHANGED <<webhook, nextId, poll, drain, retryAt, strayed, sent, known, released, counts>>

-----------------------------------------------------------------------------
(* Webhook calls, and resets. *)

Called == calls < MaxCalls /\ calls' = calls + 1 /\ UNCHANGED now

Without(b)   == [k \in Cells |-> IF k[1] = b THEN NULL ELSE updates[k]]
NoOutbox(b)  == [k \in Cells |-> IF k[1] = b THEN NULL ELSE outbox[k]]
Forgotten(u) == released \cup Events(updates, {k \in Cells : u[k] = NULL})
\* INSERT OR IGNORE: rows already in the outbox keep their attempts and lock.
Reoffered(b) == [k \in Cells |-> IF k[1] = b /\ updates[k] # NULL /\ outbox[k] = NULL
                                   THEN Due0(now) ELSE outbox[k]]

\* drop is drop_pending_updates.  A new URL is no new generation.
SetWebhook(b, drop) ==
  /\ NoneWoken /\ Called
  /\ webhook' = [webhook EXCEPT ![b] = TRUE]
  /\ updates' = IF drop THEN Without(b) ELSE updates
  /\ outbox' = IF drop THEN NoOutbox(b) ELSE Reoffered(b)
  /\ Notify(b)
  /\ released' = IF drop THEN Forgotten(updates') ELSE released
  /\ UNCHANGED <<nextId, sent, known>>

\* cancelAll wakes the polls of every bot, and then notify schedules.
DeleteWebhook(b, drop) ==
  /\ NoneWoken /\ Called
  /\ webhook' = [webhook EXCEPT ![b] = FALSE]
  /\ outbox' = NoOutbox(b)
  /\ updates' = IF drop THEN Without(b) ELSE updates
  /\ poll' = Wake(Bots)
  /\ drain' = Scheduled(Cancelled(drain)) /\ strayed' = FALSE /\ retryAt' = NULL
  /\ released' = IF drop THEN Forgotten(updates') ELSE released
  /\ UNCHANGED <<nextId, sent, known>>

\* seed and reset: cancelAll, then every table starts over, ids included.  The
\* clients of the bots start over with it.
Seed ==
  /\ NoneWoken /\ Called
  /\ poll' = Wake(Bots) /\ drain' = Cancelled(drain)
  /\ retryAt' = NULL /\ strayed' = FALSE
  /\ webhook' = [b \in Bots |-> FALSE] /\ nextId' = [b \in Bots |-> FirstId]
  /\ updates' = [k \in Cells |-> NULL] /\ outbox' = [k \in Cells |-> NULL]
  /\ released' = Forgotten(updates') /\ known' = [b \in Bots |-> 0]
  /\ UNCHANGED sent

\* A seed the schema lets through, but whose insert breaks a constraint (a
\* member twice in a chat): the transaction is rolled back, cancelAll is not.
SeedFails ==
  /\ NoneWoken /\ Called
  /\ poll' = Wake(Bots) /\ drain' = Cancelled(drain)
  /\ retryAt' = NULL /\ strayed' = (strayed \/ drain.at = "off")
  /\ UNCHANGED <<tables, history>>

-----------------------------------------------------------------------------
(* flushWebhookOutbox, and what its caller does with the result. *)

Backoff  == <<1, 2, 4, 8, 16, 32>>
Delay(a) == Backoff[IF a < 6 THEN a ELSE 6]

AnyGeneration(d) == TRUE
Live(d)          == d.live
Offered(o)       == {k \in Cells : o[k] # NULL}
Ready(e)         == IF e.due > e.locked THEN e.due ELSE e.locked
Before(o, j, k)  == \/ o[j].due < o[k].due
                    \/ o[j].due = o[k].due /\ j[2] < k[2]

\* scheduleRetry(nextAttemptAt): an earlier timer stays armed.
Earlier(next) == IF retryAt # NULL /\ retryAt <= next THEN retryAt ELSE next

ArmRetry(o) ==
  \/ Offered(o) = {} /\ UNCHANGED retryAt
  \/ \E k \in Offered(o) : /\ \A j \in Offered(o) : Ready(o[k]) <= Ready(o[j])
                           /\ retryAt' = Earlier(Ready(o[k]))

\* The flush goes on with the rows left: it claims the next one not locked and
\* sends it, or is done.  A drain scheduled under an older generation is then
\* repeated; a full one is too, and arms the timer as well.
Continue(o, u, d) ==
  LET claimable == {k \in d.rest : o[k] # NULL /\ o[k].locked <= d.began}
  IN  \/ \E k \in claimable :
           /\ \A j \in claimable : ~Before(o, j, k)
           /\ outbox' = [o EXCEPT ![k].locked = d.began + LockFor]
           /\ drain' = [d EXCEPT !.at = "sending", !.key = k, !.n = u[k].n,
                                 !.rest = claimable \ {k}]
           /\ UNCHANGED retryAt
      \/ /\ claimable = {} /\ outbox' = o
         /\ drain' = IF d.full \/ ~d.sched THEN Queued ELSE Off
         /\ IF d.sched THEN ArmRetry(o) ELSE UNCHANGED retryAt

FlushBegins ==
  /\ drain.at = "queued"
  /\ updates' = Purged(updates)
  /\ LET o   == Cascade(outbox, updates')
         due == {k \in Offered(o) : o[k].due <= now /\ o[k].locked <= now}
     IN \E batch \in SUBSET due :
          /\ Cardinality(batch) = IF Cardinality(due) < Batch THEN Cardinality(due) ELSE Batch
          /\ \A k \in batch, j \in due \ batch : ~Before(o, j, k)
          /\ Continue(o, updates', [drain EXCEPT !.rest = batch, !.began = now,
                        !.full = Cardinality(batch) >= Batch, !.live = TRUE])
  /\ UNCHANGED <<webhook, nextId, poll, strayed, history, counts>>

\* The receiver answers 2xx: the update is done with.
Acknowledged ==
  /\ drain.at = "sending" /\ Live(drain)
  /\ updates' = [updates EXCEPT ![drain.key] = NULL]
  /\ Continue([outbox EXCEPT ![drain.key] = NULL], updates, drain)
  /\ released' = released \cup {<<drain.key[1], drain.n>>}
  /\ UNCHANGED <<webhook, nextId, poll, strayed, sent, known, counts>>

\* It answers anything else or throws: the row, if it is still there, waits.
Rescheduled ==
  /\ drain.at = "sending" /\ Live(drain)
  /\ LET e == outbox[drain.key]
     IN  Continue(IF e = NULL THEN outbox
                  ELSE [outbox EXCEPT ![drain.key] =
                          [attempts |-> e.attempts + 1, locked |-> 0,
                           due |-> drain.began + Delay(e.attempts + 1)]],
                  updates, drain)
  /\ UNCHANGED <<webhook, nextId, updates, poll, strayed, history, counts>>

\* The generation has changed: the answer changes nothing, and a new drain is
\* scheduled.
Abandoned ==
  /\ drain.at = "sending" /\ ~Live(drain)
  /\ \E ok \in BOOLEAN : released' = released \cup (IF ok THEN {<<drain.key[1], drain.n>>} ELSE {})
  /\ drain' = Queued
  /\ UNCHANGED <<tables, poll, retryAt, strayed, sent, known, counts>>

TimerFires ==
  /\ retryAt # NULL /\ retryAt <= now
  /\ retryAt' = NULL
  /\ drain' = Scheduled(drain) /\ strayed' = FALSE
  /\ UNCHANGED <<tables, poll, history, counts>>

Tick ==
  /\ now < MaxTime /\ now' = now + 1
  /\ UNCHANGED <<tables, poll, drain, retryAt, strayed, history, calls>>

\* The process dies at any point and starts over on the same database file.
Restart ==
  /\ Called
  /\ poll' = [b \in Bots |-> Idle]
  /\ drain' = Registered /\ retryAt' = NULL /\ strayed' = FALSE
  /\ UNCHANGED <<tables, history>>

-----------------------------------------------------------------------------
Limits == {1, 100}

DrainStep == FlushBegins \/ Acknowledged \/ Rescheduled \/ Abandoned

Next ==
  \/ \E S \in SUBSET Bots \ {{}} : SendMessage(S)
  \/ \E b \in Bots, lim \in Limits :
       \/ \E off \in Offsets(b), wait \in BOOLEAN : Poll(b, off, lim, wait)
       \/ PollResumes(b, lim)
  \/ \E b \in Bots : PollTimesOut(b)
  \/ GetWebhookInfo
  \/ \E b \in Bots, drop \in BOOLEAN : SetWebhook(b, drop) \/ DeleteWebhook(b, drop)
  \/ Seed \/ SeedFails
  \/ DrainStep
  \/ TimerFires \/ Tick \/ Restart

\* Microtasks and timers run and every receiver answers; the clock need not
\* advance, and polls need not end.
Fairness == WF_vars(DrainStep) /\ WF_vars(TimerFires)

Spec == Init /\ [][Next]_vars /\ Fairness

-----------------------------------------------------------------------------
(* Properties. *)

\* An update leaves the queue only if somebody got it, a poll or a receiver, or
\* its loss was asked for or is the retention's: no answer that comes late, to
\* an update whose id a reset gave to another, takes that one with it.
Lost(k) == /\ updates[k] # NULL /\ updates'[k] # updates[k]
           /\ ~Expired(updates[k]) /\ <<k[1], updates[k].n>> \notin released'
NoLostUpdate == [][\A k \in Cells : ~Lost(k)]_vars

\* The queue keeps what Mailbox promises whatever the polls, webhooks, retries,
\* resets and restarts do: an update stays until somebody got it, its loss was
\* asked for or it expired, none that left is ever queued again, and nobody gets
\* one that was never sent.
Letters(b) == {updates[<<b, i>>] : i \in Ids} \ {NULL}
Mail == INSTANCE Mailbox WITH
  Owners <- Bots, Age <- Retention, clock <- now, posted <- sent,
  box <- [b \in Bots |-> Letters(b)], had <- released
Delivers == Mail!Spec

\* While a webhook is set every update queued is in the outbox too, for no poll
\* may fetch it; with none set nothing is.
OutboxCoversQueue ==
  \A k \in Cells : outbox[k] # NULL <=> updates[k] # NULL /\ webhook[k[1]]

\* A poll sleeps only while there is nothing to answer it with: no update it
\* asked for, and no webhook to refuse it over.
NoLostWakeup ==
  \A b \in Bots : poll[b].at = "waiting" =>
    ~webhook[b] /\ \A i \in Ids : updates[<<b, i>>] # NULL => i < poll[b].offset

\* With no drain in progress the timer is armed, and for no later than any row
\* of the outbox is ready, locks left by abandoned and dead drains included.
WakeupArmed ==
  (drain.at = "off" /\ ~strayed) =>
    \A k \in Cells : outbox[k] # NULL => retryAt # NULL /\ retryAt <= Ready(outbox[k])

\* A row that is ready is sent or goes, unless a failed seed took the timer.  A
\* drain does not throw here: its own database calls are taken to succeed.
IsReady(k)  == outbox[k] # NULL /\ Ready(outbox[k]) <= now
Attempted(k) == outbox[k] = NULL \/ (drain.at = "sending" /\ drain.key = k)
DueRowsAttempted == \A k \in Cells : IsReady(k) ~> (Attempted(k) \/ strayed)

\* updates.test.ts:266, "retries a failed local fixture without a second flush
\* or notify": the same, with no exception.
RetriedWithoutNotify == \A k \in Cells : IsReady(k) ~> Attempted(k)
=============================================================================
