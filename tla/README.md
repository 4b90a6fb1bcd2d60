# A TLA+ model of the digital twins

The repository is a set of local stand-ins ("twins") for GitHub, Slack, Stripe,
Gmail, Linear and Telegram, and a CLI, `pome`, that boots them or runs agents
against hosted ones. A twin is an HTTP and MCP server over a SQLite database. It
answers like the service it stands for, and it records what every request did to
its state on an append-only *tape* that tests and judges read.

This directory models the parts of that system whose correctness depends on the
order of things: money that moves through several tables, requests that meet in
the middle, queues that outlive the process, shutdowns that overlap, copies of a
branch's files that must agree, handlers suspended between their change and its
consequences, and a cloud that may or may not have heard what it was told. TLC
checks each module on a small instance; TLAPS proves the most important
properties for every instance.

## 1. The system

Everything but the CLI's children runs on Node's event loop, so code between two
awaits is atomic. That is the grain of every module here: an action is a handler
or the part of one between two awaits, and the database driver is synchronous,
so a domain call (with its transaction) is a single step.

| Part | State | Operations | Talks to | What is hard | Model |
|---|---|---|---|---|---|
| Stripe money (`twin-stripe/src/domain`) | tables of PaymentIntents, charges, refunds, balance, customers, payment methods, events | create, confirm, deposit, cancel, refund, attach, detach, reset | the x402 gate and the REST routes call it | long sequences of legal calls, several tables per call | `StripeLedger`, `Settlement` |
| Stripe idempotency (`idempotency.ts`) under failure injection (`sdk/src/failure-injection.ts`) | row per key, map of requests in flight, attempt counters | look up, replay, join, lead, store | wraps every POST | requests meeting at awaits, failed stores, restarts | `StripeIdempotency` |
| x402 gate (`x402.ts`) | challenge cache, settled headers | challenge, settle, serve | calls the twin over HTTP | lost answers, expiry, reused challenges | `X402Gate` |
| Recorder and `serve()` (`sdk/src/recorder.ts`, `server.ts`) | tape, pending writes, a retained failure, shutdown hooks | record, flush, close, signal | every twin records through it | overlapping closes and signals, failed writes, crashes | `ServedTape` |
| Telegram updates (`twin-telegram/src/updates.ts`, `domain.ts`) | update queue, webhook outbox, one long poll per bot, a retry timer | getUpdates, setWebhook, deleteWebhook, drain, reset | receivers over HTTP | answers that come after a reset, lost wake-ups, restarts | `TelegramUpdates` |
| Hosted trial group (`cli/src/runner`, `cli/src/hosted`) | sessions, worker pool, one row per trial | mint, run, finalize, poll, abandon, delete | the cloud's control plane | lost answers, failures at every step, deadlines | `TrialGroup` |
| GitHub branches and pull requests (`twin-github/src/domain`) | branches, files per branch, files per commit, ancestry, statuses, pull requests with their stored diff | commit, create and delete a branch, open, rebase, close, reopen, update from base, merge | REST and MCP | one content kept in three places, long sequences of calls | `GithubPulls` |
| Linear issues, sessions and webhooks (`twin-linear/src/domain`, `webhooks/dispatch.ts`) | issues, agent sessions, webhooks, deliveries, the id counter, suspended mutations | create, update, delete an issue, delegate, dispatch, reset | receivers over HTTP | a mutation awaits a POST per webhook while others run | `LinearIssues` |
| twin-slack, twin-gmail, the rest of the other twins | tables | CRUD with rules | REST, MCP and tape | sequences of calls, access rules | section 7 |
| SDK plumbing, `wire`, `checks`, `dashboard`, `sandbox-domains`, CLI commands, contract | none or display | validate, project, render | | | not modelled, section 7 |

What makes each part correct:

* **Money**: a PaymentIntent is charged at most once and never twice by a retry;
  refunds never exceed a capture; every table that speaks of an amount agrees;
  a settled PaymentIntent is final; nothing is charged with a payment method
  that has been detached.
* **Idempotency**: one key, one commit; what is replayed is that commit's
  answer; nothing waits for a promise nobody will settle.
* **x402**: nobody is served unpaid, nobody pays twice for one header, and the
  price charged is the one that was offered.
* **Tape**: an accepted event is on disk, or some flush says it is not; a flush
  that returned is a barrier; a process does not exit before its tapes are
  drained.
* **Updates**: an update leaves the queue only because somebody received it or
  asked for its loss; no poll sleeps on an answer; a due delivery is attempted.
* **Pull requests**: the copies of a branch's content agree; the diff a merge
  uses is the diff of its branches as long as neither moved; a merge makes base
  what head is; what was merged stays in the default branch's history.
* **Issues**: parents make no cycle; timestamps tell the state; a delegated
  issue gets its agent session whatever else happens during the dispatch.
* **Trials**: a row says what the cloud judged; no session is forgotten.

## 2. The modules

A file `XProofs` holds theorems about `X`, `XMC` the constants of a run that are
not simple values, `X*.cfg` the runs.

### StripeLedger and Settlement

One variable per table, one action per mutating method of `StripeDomain`
(`CreateCryptoPI`, `CreateCardPI`, `ConfirmCardPI`, `UpdateCardPI`, `CancelPI`,
`SimulateCryptoDeposit`, `CreateRefund`, `CreateCustomer`, `UpdateCustomer`,
`DeleteCustomer`, `CreatePM`, `AttachPM`, `DetachPM`, `Reset`). A row that does
not exist has status `"absent"`; a new id is one that is not in use. The code draws
it at random (`newId`), the model takes the next one: that it is fresh is all
the properties and proofs use.
`Capture` and `Decline` are the shared ends of a confirm. Test cards are reduced
to whether they decline. `NULL` is SQL's, `KEEP` an optional parameter that was
not sent. The event log of an object is a sequence bounded by `MaxEvents`.

`Settlement` is what the ledger promises: per PaymentIntent a phase, the amount
captured and the amount refunded, with no tables. `StripeLedger!Settles` is the
refinement: money may only move the way Settlement moves it. `Total` is the sum
of an amount over a set of rows, which is how `BalanceReconciles` compares the
tables.

Left out: billing objects, metadata, idempotency keys (below), serializers,
seeded rows that are already terminal.

### StripeIdempotency

Concurrent POSTs under the `Idempotency-Key` middleware and, around it, failure
injection, for one (account, method, path): the middleware keeps nothing else in
common between two tuples. Cut at the awaits: reading the body (`Arrive`), the
handler (`Execute`), a joined promise (`Wake`), the insertion of the row
(`Store`, `StoreFails`). `Lead` claims the pending entry in the same step as the
lookup that missed, as the code does with no await between. `Reset` and
`Restart` can come at any moment, since the SDK has no lock around them.
`StoreFails` answers 500 and the process goes on; with no waiter the rejected
promise is unhandled, which Node by default ends the process for, and a
`Restart` may follow. Promises are named by the request that created them; a
response by the request whose execution it came from, so that "replays the right
response" is `answer[r].of`. `CommitsOnce` is the promise as far as the code
keeps it: two requests of a key both commit between resets only where one of
them had waited for a request that did not, the path section 6 describes. A
plainer form of it, `LeaderOnce`, speaks only of the requests that claimed the
key.

### X402Gate and Paywall

Requests with and without an `X-PAYMENT` header, at any number of routes, cut at
the calls to the twin: mint a PaymentIntent per accepts entry, settle, retrieve
after an error. `book` and `settled` are the two maps of `ChallengeCache`; `now`
is the clock the TTL reads; `Cancel` and `Wipe` are other clients of the twin.
`Deposit` may lose its answer after the twin charged, and `Retrieve` decides.
Header encoding, asset and network strings are left out; a price is a value. An
offer stands for the cache's TTL, which is what the code keeps it for; the
`maxTimeoutSeconds` the client is told is another number and is not compared.

`Paywall` is what the gate promises the owner of a route: a bill is issued once
over one value, paid at most once and over that value, and a guest is let in
only with a payment for which there is a receipt. It has no challenges, caches,
clock or retries. `X402Gate!Collects` is the refinement: bills are
PaymentIntents, `paidBy` the header that charged each, `shown` the header each
served request sent.

### ServedTape and DurableLog

The twins one process serves, each with its recorder store. A handler's end and
its `record()` are one step; the line it queues is written and fsynced by two
later callbacks in any order, either of which may fail. `closer` gives the place
of every run of `close()`: a caller's, or a signal handler's through the
registered hooks. Ending the file may fail like a write. A handler that called
`process.exit` is marked, so `ExitDrains` says what it left behind without
repeating the condition it exits on. `Die` is the kill or the machine crash,
which loses a suffix of what was not synced. The heap copy behind
`GET /_pome/events` is left out.

`DurableLog` is what a twin's tape promises: an accepted event becomes durable
or fails, a failure is told, a flush returns only when everything accepted is
one or the other, and the end of the process costs nothing that was durable.
`ServedTape!Logs` is the refinement, with no files, hooks, signals or closes on
the abstract side; `DurableBarrier` is the invariant it rests on.

### TelegramUpdates and Mailbox

`updates` and `outbox` are SQLite tables and survive `Restart`; `poll`, `drain`
and `retryAt` are the runtime's and do not. Each delivery carries the bot's
generation in the code; the model keeps two flags, whether the delivery is still
current and whether a further drain was asked for, instead of an unbounded
counter. Woken polls run before the next macrotask, which is the guard
`NoneWoken`. An update's content is its bot and its number, because update ids
start over at a reset and the property is about the update, not the id.
`Restart` is a restart with `TELEGRAM_TWIN_NO_SEED=1` on the same file, and
clients start their offsets afresh after a reset. Left out: `callbackWaiters`,
the frozen clock a test may inject, a drain whose own database calls throw
(section 6), and the branch for an outbox row without an
update or a webhook, which `OutboxCoversQueue` shows unreachable.

`Mailbox` is what the queue promises whoever posts to it: a letter stays until
somebody had it, asked to be rid of it or let it grow old, one that left is never
there again, and nobody has what was never posted. It has no ids, offsets,
webhooks, retries or restarts. `TelegramUpdates!Delivers` is the refinement: the
letters of a bot are the rows of its table, whatever their ids.

### TrialGroup

`at` is where each trial is in `runTaskHosted`, `report` what that returned or
threw, `cloud` and `judged` the control plane's session, which is external and
modelled from what the client sends and accepts. Every request may fail before
or after its effect: an orphaned mint, a finalize taken and never answered, an
abandon or a DELETE that never arrives. The steps of a trial are in two groups
by what ends the await before them: `Bounded`, a timeout, a deadline or a last
attempt of the code's own, and `Unbounded`, only the other side. The group's own
resolution of its agent comes before `Init`. The judge's criterion results are
records of the fields the verdict reads; `Unresolved` counts them as
`scoreFromFinalizeResponse` does, by subtraction. The display-only outcome
`errored`, which no response can carry, is left out, and so are uploads,
artifacts and terminal output, none of which decides anything.

### GithubPulls

One repository, one action per call, since each is one SQLite transaction.
`tree` is the `files` table, `files` is `file_versions` and `Snapshot` the fold
of it along the ancestry; `pulls[n].rows` are the `pull_request_files`. A blob
stands for its sha, and paths are numbers because renames are paired in path
order. `copied` and `seen` are history variables: which branches got their files
with their head (all but those made from a sha), and which heads a pull
request's rows were computed from. `Diff` is `diffFiles` with its renames by
equal content. Left out: forks, titles and bodies, reviews, comments, issues,
and the `head_sha` and `base_sha` columns, which only serializers read.

### LinearIssues

GraphQL mutations, cut at the awaits of `emitWebhook`: a mutation changes the
tables and takes the id of its first delivery in one step (`Emit`), each POST
that comes back inserts a row and takes the next id (`RecordDelivery`,
`RecordFails`), and a delegation opens its session when the last one is done
(`Delegate`). `requests[r]` is what a suspended handler holds. Ids are the values
of `id_counter`; a row's prefix is left out, since tables are apart. `unserved`
is a history variable: issues whose delegation a seed or a request that failed
left without a session. Receivers are external: whether a POST is answered,
refused or timed out decides nothing but a column. Left out: texts, people,
labels, relations, projects and cycles, comments, documents and OAuth.

## 3. The runs

| Run | Shows | Distinct states |
|---|---|---|
| `stripe_money` | two PaymentIntents, three charges, two refunds, declining cards: no order of calls loses or double-counts money; implements Settlement | 160 503 |
| `stripe_methods` | two customers, two payment methods: detach and customer deletion race with confirms | 240 712 |
| `idem` | three requests, one key, equal or different bodies, injected failures, failed stores, a reset, a restart | 979 263 |
| `x402_minted` | three requests over two priced routes with expiry, cancels and wipes; implements Paywall | 5.3 million |
| `served_tape` | two twins, three requests, a caller's close and a signal's, failed writes, a crash; implements DurableLog | 605 545 |
| `telegram_updates` | two bots, messages, polls, webhooks, resets, failures, expiry, a restart; implements Mailbox | 371 676 |
| `trial_group` | two trials, every step failing, every answer lost, any of the unbounded awaits stuck, every mixture of criterion results | 817 291 |
| `github_pulls` | three branches, two paths, a moved file, three commits, one pull request opened, rebased, closed, reopened, updated and merged | 3.1 million |
| `linear_issues` | two mutations at a time, two issues, two agents, two webhooks, four ids, a reset | 2.0 million |
| `x402_explicit` `served_signals` `telegram_seed` | violations: see section 6 | |

### Bounds, and why they are enough

* *stripe_money*: two charges of one PaymentIntent need a decline and a retry,
  over-refunding needs two refunds of one charge, and cross-talk needs a second
  PaymentIntent; amounts 1 and 2 distinguish partial from full. `MaxEvents`
  bounds declines per PaymentIntent.
* *stripe_methods*: two payment methods and two customers, so that one can be
  detached or its owner deleted while the other is used. The seed row in
  `requires_action` is included.
* *idem*: three requests are a leader, a waiter and a late retry, which is what
  every scenario of the middleware needs; the two failure rules match different
  attempts, so either can hit either of the first two.
* *x402_minted*: three requests are a challenge, a payment and its replay or a
  payment elsewhere; with TTL 1 and two ticks a challenge can be fresh, exactly
  at its limit and expired. Requests are interchangeable, in the gate and in
  Paywall alike (symmetry; only safety is checked).
* *served_tape*: two twins share a process and its hook registry; a twin has two
  requests so that one write may fail while another is pending; one caller and
  one signal overlap their closes.
* *telegram_updates*: two bots separate per-bot from global state (the drain and
  the timer are shared); two updates per bot distinguish acknowledging one from
  acknowledging all; two calls of setWebhook, deleteWebhook, seed or restart
  give a delivery that outlives its webhook and one that outlives its ids.
* *trial_group*: with two trials the first mint may succeed and the second be
  refused, which is the lazy path; seven kinds of criterion results over two
  criteria contain every pair, in particular a row exempt twice beside a gap.
* *github_pulls*: three branches are a base, a head and a base to change to or a
  branch made from another; with two paths a change and a rename, or a change on
  each side, are distinct; the seed takes one or two commits, so that a third is
  a push, an update or a merge. One pull request is enough for the properties,
  which speak of one at a time; branches other than the default are
  interchangeable. One failing status at a time.
* *linear_issues*: two handlers are the one that is suspended and the one that
  moves its issue; two issues make a cycle; two agents a delegate that changes
  twice; two webhooks a second POST after the first; and one reset meets a
  handler of the world before it. Four ids are an issue, two deliveries and a
  session. Requests and agents are interchangeable.

Deadlock is checked in the Stripe money runs. Elsewhere a finite set of requests
or trials ends, and the configuration says `CHECK_DEADLOCK FALSE`.

## 4. Fairness

Only what the event loop and the code's own timeouts give:

* `StripeIdempotency`: every request that is ready continues (`Answered`).
* `ServedTape`: handlers end, the file system calls back, each `close()`
  continues (`CloseSettles`). Nobody has to call close or send a signal.
* `TelegramUpdates`: the drain continues, so receivers answer, and the armed
  timer fires (`DueRowsAttempted`). The code awaits a receiver without a
  timeout, so one that never answers blocks every later drain; that is assumed
  away here and listed below. The clock need not advance.
* `TrialGroup`: what has a timeout that covers the answer's body (`postJson`,
  `deleteSession`, each status request), a deadline (the poll) or a last attempt
  (the lazy mint) comes to an end: fairness of `Bounded` and of the pool. Four
  awaits have none of these and get no fairness (`Unbounded`): `Prepare` may
  send `POST /v1/agents` by a bare `fetch`, the initial and the final
  `fetchState` and `fetchEvents` stop their timer before the body is read, and a
  killed agent is waited for until its pipes close. `GroupEnds` therefore carries
  its condition: the group ends if no trial stays in one of these for ever. Of
  the cloud nothing else is assumed; in particular it need not evaluate.

`GithubPulls` is calls that each end at once, and `LinearIssues` waits for
receivers it does not own: both state safety only.

## 5. The proofs

All from the constants' named assumptions (that bounds are numbers, that ids are
finitely many, that `NULL` is neither a value nor a price), for any number of
rows, requests, twins, bots and trials.

| Module | Theorems | Argument |
|---|---|---|
| `StripeLedgerProofs` | `TypeCorrect`, `CapturedOnceAlways`, `NeverOverRefundedAlways`, `ChargedWithUsablePMAlways`, `SettlesAlways`, `EventsTellOutcomeAlways`, `DetachedForGoodAlways`, `BookedOnceAlways`, `BalanceReconcilesAlways` | types, `CapturedOnce` and `NeverOverRefunded` are inductive together: a fresh id is an absent row, so `Capture` adds the only succeeded charge, and a refund takes at most what is left. With `Priced` (a PaymentIntent that exists has a price) each call then maps to one step of `Settlement` or a stutter. An unsettled PaymentIntent has a log with no outcome in it (`Tells`), a payment method not detached a log with no detach (`Kept`), and a row not created names no balance transaction (`Books`). The sums: `Total` is a fold over a finite set, and the lemmas about it (a row more, a row changed, rows of zeros) are proved by the smallest set that would break them, which stands in for induction; a capture then adds its amount to both sides, a refund takes its own from both (`Sums`) |
| `StripeIdempotencyProofs` | `TypeCorrect`, `LeaderOnceAlways`, `CommitsOnceAlways`, `WillWakeAlways`, `PendingIsLiveAlways`, `CommittedIsStoredAlways`, `ReplayFaithfulAlways`, `TapeTruthfulAlways` | a key is a row, a pending entry or free, and never two (`HeldOnce`); a leader in flight still holds its key (`StillHeld`); `Keyed` and `Placed` tie control points to data; `Taped` gives the events of a request by what became of it. A commit that is neither lost nor stored nor in flight is excused by the failure of the request it waited for (`Unclaimed`, `Excused`, `AfterFailure`); whoever waits has a leader that runs or a result that is there (`Coming`) |
| `X402GateProofs` | `TypeCorrect`, `ServedIsPaidAlways`, `ChargedAsPricedAlways`, `MintedChargedOnceAlways`, `CollectsAlways`, `ChargeIsAskedAlways`, `SettledIsFinalAlways`, `SettledIsBackedAlways`, `MintedOffersStandAlways` | prices are carried from PaymentIntent to challenge to matched payment to charge (`BookPriced`, `TargetPriced`, `ChargePriced`); the challenge of a minted address is stamped no later than now and lasts at least as long as each offer of it (`Standing`). A minted address belongs to one PaymentIntent wherever it is named, in the book, in an offer or in a request (`OneLink`), so a charge is a payment to that bill and a header served from memory has a receipt (`Wall`): with these every step is one of Paywall or none |
| `ServedTapeProofs` | `TypeCorrect`, `NoSilentLossAlways`, `DurableBarrierAlways`, `NothingAfterCloseAlways`, `ExitDrainsAlways`, `LogsAlways`, `OneSignalIsGraceful`, `ShutsDownAlways` | what each control point of a close knows of its store and server. With the barrier each callback, flush and exit maps to one step of DurableLog or a stutter; with one signal and no other caller, every hook is still there when its handler takes them (`TakesAll`). The places of requests, lines and closes are numbered in the order they are passed, and every step raises a number (`Forward`) |
| `TelegramUpdatesProofs` | `TypeCorrect`, `OutboxCoversQueueAlways`, `NoLostWakeupAlways`, `WakeupArmedAlways`, `NoLostUpdateAlways`, `QueuedInOrderAlways`, `DeliversAlways` | ids in the tables are below `next_update_id` (`Numbered`), offsets are ones the client knows (`OffsetsKnown`), and a delivery in flight that is still current holds the row it began with (`InFlight`). Every step but a message and the clock's only takes updates away and marks as had what is in the table or in the drain's hand (`Takes`), all of which was sent (`WasSent`): a step of Mailbox |
| `GithubPullsProofs` | `TypeCorrect`, `TreeIsSnapshotAlways`, `RowsAreCacheAlways`, `MergedIntoMainAlways`, `FreshMergeConvergesAlways`, `UpdateSettlesAlways` | commits are numbered along every ancestry (`CommitsInOrder`), so a new one is the newest writer of the paths it touches and its snapshot is its parent's with those replaced; snapshots of made commits do not change (`SnapshotsKept`), so rows computed at the present heads are rows of the present trees (`RowsOfSeen`) |
| `LinearIssuesProofs` | `TypeCorrect`, `ParentsWellFoundedAlways`, `StampsFollowStateAlways`, `DelegationServedAlways`, `DeliveryIdsReservedAlways` | ids in use are not above the counter (`IdsPassed`), an idle handler holds nothing (`AtRest`); well-foundedness is stated over sets, so that a walk that ends is a set that closes |
| `TrialGroupProofs` | `TypeCorrect`, `RowsFaithfulAlways`, `SessionsReleasedAlways`, `RunsDownAlways`, `EveryTrialReportedAlways` | trials are taken in order (`InOrder`), an unfinished one has no report (`Unreported`) and no evaluation before its finalize (`NotYetTaken`); `PassIsClean` shows the subtractive count equal to the quantified definition. `Stage` numbers the places of a trial in the order it passes them, so a step raises one number of a bounded many and lowers none |

Every safety property a run checks is stated by a theorem. Some theorems state
what no run checks:

* what a checked property rests on or contains: `NeverOverRefundedAlways`,
  `BookedOnceAlways`, `PendingIsLiveAlways`, `CommittedIsStoredAlways`,
  `LeaderOnceAlways`, `ServedIsPaidAlways`, `ChargedAsPricedAlways`,
  `SettledIsBackedAlways`, `DurableBarrierAlways`, `NothingAfterCloseAlways`,
  `OutboxCoversQueueAlways`, `WakeupArmedAlways`, `NoLostUpdateAlways`,
  `QueuedInOrderAlways`;
* the safety half of a liveness property: `WillWakeAlways` of `Answered` (whoever
  waits can be woken), `RunsDownAlways` and `EveryTrialReportedAlways` of
  `GroupEnds` (every step of the client raises a bounded count, and at the end
  there is a row for each trial), `ShutsDownAlways` of `CloseSettles` (every step
  of the process raises a bounded count), `WakeupArmedAlways` of
  `DueRowsAttempted`;
* how far a sentence holds that a run of section 6 refutes:
  `OneSignalIsGraceful`, `ChargeIsAskedAlways`, `SettledIsFinalAlways`.

Only model-checked: liveness (`Answered`, `CloseSettles`, `DueRowsAttempted`,
`GroupEnds`). Its proofs need to know where an action is ENABLED, which the
provers cannot reason about.

## 6. Where the code and its words part

Shown by a run, each against a sentence of the repository:

* `x402_explicit`: with an explicit `payTo` every 402 repoints the address to a
  new PaymentIntent, so a retried settlement charges a second one
  (`x402.ts:715`, `test/x402-replay.test.ts:5-7`). What is left of the sentence
  is proved: n requests charge at most n times (`ChargeIsAskedAlways`), and once
  one was served and none is under way the header charges nothing more
  (`SettledIsFinalAlways`).
* `served_signals`: a second signal finds no hooks and exits while the first is
  still draining (`server.ts:526`, comment at 507-509). With a single signal and
  no `close()` beside it the comment is a theorem (`OneSignalIsGraceful`).
* `telegram_seed`: a refused seed has already cleared the retry timer
  (`domain.ts:157`, comment at `updates.ts:54-55`).

Met while modelling, without a run:

* a request that joined a leader which failed runs the handler without claiming
  the key or storing a row, so a later retry commits again
  (`idempotency.ts:161-171`; the header comment at line 10 says "on response,
  store row");
* an errored trial may still be judged by the cloud, when the answer of its
  finalize is lost or its poll gives up (`runTaskHosted.ts:692`; the comment at
  66-67 says never);
* GitHub: files pushed to a head after the pull request was opened never reach
  base, since the merge reads the stored rows (`pulls.ts:236`); a renamed file
  keeps its old path on base; two open pull requests for one pair of branches
  come about by reopening or by changing the base; a branch created from a sha
  has no files and its sha is not looked up (`git.ts:198-216`); a second
  update-branch does not bring a later change of base on a path already merged
  (`github-domain.ts:843`); reopening does not ask whether the head branch
  exists, and one made again under its name is merged instead; a row for a file
  that base no longer has makes the merge fail; a push to the head drops a
  failing status with the sha it was on;
* Linear: removing a webhook, or a reset, during its POST makes the recording of
  the delivery fail on its foreign key, so the request is answered with an error
  after it committed, later webhooks hear nothing and the agent session is not
  opened (`dispatch.ts:46`); a reset starts `id_counter` over under handlers
  that are still suspended; with strict scopes a token with only `issues:create`
  delegates and then fails for want of `write`; `createIssue` with an unknown
  related issue leaves the row;
* a card PaymentIntent seeded in `requires_action` can be settled by
  `simulate_crypto_deposit`, which looks at the status only;
* a response stored after a reset that ran during its handler is replayed in the
  next run; the idempotency path is the raw one while failure rules see it
  without `/s/:sid`;
* two concurrent x402 requests with one header both call
  `simulate_crypto_deposit`; a payment matched to a cheap route's challenge opens
  a dear route; a reused challenge gets a new `createdAt`, and may be backed by a
  canceled PaymentIntent;
* a second `close()` closes the store under requests the first still waits for;
  a flush reports a failed write once; the write stream has no `error` listener;
* two first boots race over the secret file (`sdk/src/server-helpers.ts`);
* a drain that throws clears `draining` and schedules nothing, so the rows it
  left wait for the next message or call (`updates.ts:123-125`);
* `setWebhook` to a new URL does not bump the generation; `deleteWebhook` of one
  bot abandons other bots' delivery; a receiver that hangs blocks all;
* a trial re-reads its task and resolves its agent before the `try` whose
  `finally` deletes the pre-minted session, so a failure there leaks it
  (`runTaskHosted.ts:219-236`);
* a trial, and with it the group, can wait for the cloud without a bound of the
  CLI's own: `POST /v1/agents` is sent with no timeout (`agent-resolver.ts:53-60`,
  awaited at `runTaskHosted.ts:234` and once for the group at
  `runTrialGroup.ts:137`), and `getJsonBearer` and `getJsonWithApiKey` clear
  theirs when the headers are there (`client.ts:621` and `644`), although the
  comment at `client.ts:582-583` says why it has to stay active for the body;
* `runAgentCommand` waits for `close`, which a grandchild holding the pipes can
  put off for ever (`agentRunner.ts:78`).

## 7. Not modelled

In the order in which they would come next:

1. twin-slack: membership against archiving, threads against deletion.
2. twin-gmail: drafts that become messages, labels, trash, and the history id
   that clients poll.
3. twin-telegram's chats: who a message and a membership change reach;
   `TelegramUpdates`, whose `SendMessage(S)` takes the set of bots as given, is
   the half that could lose them.
4. What is left of twin-github (reviews, issues, forks, tags) and twin-linear
   (comments, documents, OAuth): rows that are written and read alone.
5. Billing as an extension of `StripeLedger`; the two files of the CLI and the
   SDK that several processes read and write (the twin status file, the
   generated auth secret).
6. Proofs: abstract specifications for `GithubPulls` and `LinearIssues`, whose
   properties are theorems but which implement nothing simpler yet.

Not to be modelled, because there is no state or only display: route-input and
fidelity tables, serializers, the MCP tool lists, checks, OpenTelemetry
projection, the dashboard, argument parsing, scaffolds and examples.
