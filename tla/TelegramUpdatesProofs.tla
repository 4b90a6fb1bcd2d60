------------------------- MODULE TelegramUpdatesProofs -------------------------
(***************************************************************************)
(* Theorems of TelegramUpdates: its safety properties for every set of     *)
(* bots, batch size, lock time, retention and bound.                       *)
(***************************************************************************)
EXTENDS TelegramUpdates, FiniteSetTheorems, TLAPS

\* Ids are handed out in order, and a poll has returned every update up to the
\* highest id it returned.
Numbered ==
  /\ \A k \in Cells : updates[k] # NULL =>
       /\ k[2] < nextId[k[1]]
       /\ k[2] <= known[k[1]] => <<k[1], updates[k].n>> \in released
  /\ \A b \in Bots : known[b] < nextId[b]

\* A poll acknowledges ids its client was given; one that sleeps through a
\* reset wakes to an empty queue.
OffsetsKnown ==
  \A b \in Bots : poll[b].at # "idle" =>
    \/ poll[b].offset <= known[b] + 1
    \/ poll[b].at = "woken" /\ \A i \in Ids : updates[<<b, i>>] = NULL

\* While the generation lasts, the id in flight names the update in flight.
InFlight ==
  drain.at = "sending" =>
    /\ drain.key \in Cells
    /\ drain.live => /\ drain.key[2] < nextId[drain.key[1]]
                     /\ updates[drain.key] # NULL => updates[drain.key].n = drain.n

IInv == /\ TypeOK /\ OutboxCoversQueue /\ NoLostWakeup /\ WakeupArmed
        /\ Numbered /\ OffsetsKnown /\ InFlight

-----------------------------------------------------------------------------
(* Lemmas about the operators. *)

\* NULL is no row, entry, number or record of the drain.
LEMMA NullFacts ==
  /\ \A r \in Row : r # NULL
  /\ \A e \in Entry : e # NULL
  /\ \A t \in Nat : t # NULL
  BY NullAssumption

\* A backoff is a number of seconds.
LEMMA DelayType == ASSUME NEW a \in Nat \ {0} PROVE Delay(a) \in Nat
  BY DEF Delay, Backoff

LEMMA DrainTypes == Off \in Drain /\ Queued \in Drain
  BY DEF Off, Queued, Drain

\* scheduleDrain and cancelAll keep the drain's type, and what is in flight.
LEMMA ScheduleFacts ==
  ASSUME NEW d \in Drain
  PROVE  /\ Scheduled(d) \in Drain /\ Scheduled(d).at # "off"
         /\ Cancelled(d) \in Drain /\ Cancelled(d).at = d.at
         /\ Scheduled(d).at = "sending" => Scheduled(d) = d
         /\ Cancelled(d).at = "sending" => Cancelled(d).key = d.key /\ ~Cancelled(d).live
  BY DEF Scheduled, Cancelled, Off, Queued, Drain

\* A set of ids is finite, so the first ids of one are closed downwards.
LEMMA FirstClosed ==
  ASSUME NEW S \in SUBSET Ids, NEW n \in Nat, NEW i \in S, NEW j \in First(S, n), i < j
  PROVE  i \in First(S, n)
  <1>1. IsFiniteSet(Ids)
    BY FS_Interval, TelegramAssumption DEF Ids
  <1>2. IsFiniteSet({x \in S : x < j})
    BY <1>1, FS_Subset
  <1>0. j \in S /\ \A x \in S : x \in Int
    BY TelegramAssumption DEF First, Ids
  <1>3. {x \in S : x < i} \subseteq {x \in S : x < j}
    BY <1>0
  <1>4. /\ Cardinality({x \in S : x < i}) <= Cardinality({x \in S : x < j})
        /\ Cardinality({x \in S : x < i}) \in Nat
        /\ Cardinality({x \in S : x < j}) \in Nat
    BY <1>2, <1>3, FS_Subset, FS_CardinalityType
  <1>5. Cardinality({x \in S : x < j}) < n
    BY DEF First
  <1>6. Cardinality({x \in S : x < i}) < n
    BY <1>4, <1>5
  <1> QED  BY <1>6, Zenon DEF First

\* A step that only takes updates away, and their outbox rows with them.
Shrinks == /\ \A k \in Cells : updates'[k] \in {NULL, updates[k]}
           /\ updates' = [k \in Cells |-> updates'[k]]
           /\ outbox' = Cascade(outbox, updates')
           /\ webhook' = webhook

LEMMA ShrinkFacts ==
  ASSUME TypeOK, OutboxCoversQueue, Shrinks
  PROVE  /\ updates' \in [Cells -> Row \cup {NULL}]
         /\ outbox' \in [Cells -> Entry \cup {NULL}]
         /\ \A k \in Cells : outbox'[k] \in {NULL, outbox[k]}
         /\ OutboxCoversQueue'
  <1>1. updates' \in [Cells -> Row \cup {NULL}]
    BY DEF TypeOK, Shrinks
  <1>2. \A k \in Cells : outbox'[k] = IF updates'[k] = NULL THEN NULL ELSE outbox[k]
    BY DEF Shrinks, Cascade
  <1>3. outbox' \in [Cells -> Entry \cup {NULL}]
    BY DEF TypeOK, Shrinks, Cascade
  <1>4. OutboxCoversQueue'
    BY <1>2 DEF OutboxCoversQueue, Shrinks
  <1> QED  BY <1>1, <1>2, <1>3, <1>4

\* Taking updates away leaves a poll asleep and the timer armed.
LEMMA ShrinkKeeps ==
  ASSUME IInv, Shrinks,
         UNCHANGED <<nextId, drain, retryAt, strayed, sent, counts>>
  PROVE  /\ WakeupArmed' /\ InFlight'
         /\ \A k \in Cells : updates'[k] # NULL => k[2] < nextId[k[1]]
  <1>1. \A k \in Cells : outbox'[k] \in {NULL, outbox[k]}
    BY ShrinkFacts DEF IInv
  <1>2. WakeupArmed'
    BY <1>1 DEF IInv, WakeupArmed, Ready
  <1>3. InFlight'
    BY DEF IInv, InFlight, Shrinks
  <1>4. \A k \in Cells : updates'[k] # NULL => k[2] < nextId[k[1]]
    BY DEF IInv, Numbered, Shrinks
  <1> QED  BY <1>2, <1>3, <1>4

\* What the flush goes on with: it keeps the outbox's rows, sends a row that
\* is there under its own number, and stops only with the timer armed.
LEMMA ContinueFacts ==
  ASSUME NEW o \in [Cells -> Entry \cup {NULL}], NEW u \in [Cells -> Row \cup {NULL}],
         NEW d \in Drain, retryAt \in Nat \cup {NULL},
         \A k \in Cells : o[k] # NULL => u[k] # NULL,
         Continue(o, u, d)
  PROVE  /\ outbox' \in [Cells -> Entry \cup {NULL}]
         /\ \A k \in Cells : outbox'[k] = NULL <=> o[k] = NULL
         /\ drain' \in Drain /\ retryAt' \in Nat \cup {NULL}
         /\ drain'.at = "off" => \A k \in Cells : outbox'[k] # NULL =>
                                   retryAt' # NULL /\ retryAt' <= Ready(outbox'[k])
         /\ drain'.at = "sending" => /\ drain'.key \in Cells /\ u[drain'.key] # NULL
                                     /\ drain'.n = u[drain'.key].n
  <1> DEFINE claimable == {k \in d.rest : o[k] # NULL /\ o[k].locked <= d.began}
  <1>1. CASE \E k \in claimable :
               /\ outbox' = [o EXCEPT ![k].locked = d.began + LockFor]
               /\ drain' = [d EXCEPT !.at = "sending", !.key = k, !.n = u[k].n,
                                     !.rest = claimable \ {k}]
               /\ UNCHANGED retryAt
    <2>1. PICK k \in claimable :
               /\ outbox' = [o EXCEPT ![k].locked = d.began + LockFor]
               /\ drain' = [d EXCEPT !.at = "sending", !.key = k, !.n = u[k].n,
                                     !.rest = claimable \ {k}]
               /\ UNCHANGED retryAt
      BY <1>1
    <2>2. k \in Cells /\ o[k] \in Entry /\ u[k] \in Row
      BY DEF Drain
    <2>3. [o[k] EXCEPT !.locked = d.began + LockFor] \in Entry
      BY <2>2, TelegramAssumption DEF Entry, Drain
    <2>4. outbox' = [o EXCEPT ![k] = [o[k] EXCEPT !.locked = d.began + LockFor]]
      BY <2>1
    <2>5. /\ outbox' \in [Cells -> Entry \cup {NULL}]
          /\ \A j \in Cells : outbox'[j] = NULL <=> o[j] = NULL
      BY <2>2, <2>3, <2>4, NullFacts
    <2>6. claimable \ {k} \in SUBSET Cells /\ u[k].n \in Nat
      BY <2>2 DEF Drain, Row
    <2>7. drain' \in Drain /\ drain'.at = "sending" /\ drain'.key = k /\ drain'.n = u[k].n
      BY <2>1, <2>2, <2>6 DEF Drain
    <2> QED  BY <2>1, <2>2, <2>5, <2>7, NullFacts
  <1>2. CASE /\ claimable = {} /\ outbox' = o
             /\ drain' = IF d.full \/ ~d.sched THEN Queued ELSE Off
             /\ IF d.sched THEN ArmRetry(o) ELSE UNCHANGED retryAt
    <2>1. drain' \in Drain /\ drain'.at # "sending" /\ (drain'.at = "off" => d.sched)
      BY <1>2, DrainTypes DEF Queued, Off
    <2>2. \A k \in Cells : o[k] # NULL => Ready(o[k]) \in Nat
      BY DEF Ready, Entry
    <2>3. ASSUME d.sched
          PROVE  /\ retryAt' \in Nat \cup {NULL}
                 /\ \A k \in Cells : o[k] # NULL => retryAt' # NULL /\ retryAt' <= Ready(o[k])
      <3>1. CASE Offered(o) = {} /\ UNCHANGED retryAt
        BY <3>1 DEF Offered
      <3>2. CASE \E k \in Offered(o) : /\ \A j \in Offered(o) : Ready(o[k]) <= Ready(o[j])
                                       /\ retryAt' = Earlier(Ready(o[k]))
        <4>1. PICK k \in Offered(o) : /\ \A j \in Offered(o) : Ready(o[k]) <= Ready(o[j])
                                      /\ retryAt' = Earlier(Ready(o[k]))
          BY <3>2
        <4>2. Ready(o[k]) \in Nat
          BY <2>2 DEF Offered
        <4>3. retryAt' \in Nat /\ retryAt' <= Ready(o[k])
          BY <4>1, <4>2, NullFacts DEF Earlier
        <4>4. \A j \in Cells : o[j] # NULL => retryAt' <= Ready(o[j])
          BY <4>1, <4>2, <4>3, <2>2 DEF Offered
        <4> QED  BY <4>3, <4>4, NullFacts
      <3> QED  BY <1>2, <2>3, <3>1, <3>2 DEF ArmRetry
    <2> QED  BY <1>2, <2>1, <2>3
  <1> QED  BY <1>1, <1>2 DEF Continue

-----------------------------------------------------------------------------
(* Polls. *)

LEMMA CellFacts ==
  /\ \A k \in Cells : k[1] \in Bots /\ k[2] \in Ids /\ k = <<k[1], k[2]>>
  /\ \A b \in Bots, i \in Ids : <<b, i>> \in Cells
  /\ \A i \in Ids : i \in Nat
  BY TelegramAssumption DEF Cells, Ids

\* What a getUpdates takes away has expired, was asked to be skipped, or was
\* returned before; and what it leaves below the highest id returned, was too.
LEMMA GetUpdatesFacts ==
  ASSUME IInv, NEW b \in Bots, NEW off \in Int, NEW lim \in Limits,
         GetUpdates(b, off, lim), webhook' = webhook,
         off <= known[b] + 1 \/ \A i \in Ids : updates[<<b, i>>] = NULL
  PROVE  /\ Shrinks
         /\ known' \in [Bots -> Nat]
         /\ \A c \in Bots : known[c] <= known'[c] /\ known'[c] < nextId[c]
         /\ released' \subseteq Bots \X Nat /\ released \subseteq released'
         /\ \A k \in Cells : updates'[k] # NULL /\ k[2] <= known'[k[1]] =>
                              <<k[1], updates'[k].n>> \in released'
         /\ \A k \in Cells : ~Lost(k)
         /\ Empty(b, off) => \A i \in Ids : updates'[<<b, i>>] # NULL => i < off
  <1> DEFINE u   == Purged(updates)
             got == Returned(u, b, off, lim)
             del == {b} \X Deleted(u, b, off, lim)
             v   == [k \in Cells |-> IF k \in del THEN NULL ELSE u[k]]
  <1>1. /\ u = [k \in Cells |-> u[k]]
        /\ \A k \in Cells : u[k] = IF Expired(updates[k]) THEN NULL ELSE updates[k]
    BY DEF Purged
  <1>2. \A k \in Cells : u[k] # NULL => u[k] = updates[k] /\ u[k] \in Row
    BY <1>1 DEF IInv, TypeOK
  <1>3. got \subseteq IdsOf(u, b) /\ IdsOf(u, b) \subseteq Ids
    BY DEF Returned, First, Last, IdsOf
  <1>4. /\ known \in [Bots -> Nat] /\ nextId \in [Bots -> Nat]
        /\ \A c \in Bots : known[c] < nextId[c]
        /\ released \subseteq Bots \X Nat
    BY DEF IInv, TypeOK, Numbered
  <1>5. CASE webhook[b]
    <2>1. /\ updates' = u /\ outbox' = Cascade(outbox, u)
          /\ known' = known /\ released' = released
      BY <1>5 DEF GetUpdates
    <2>2. Shrinks
      BY <2>1, <1>1 DEF Shrinks
    <2>3. \A k \in Cells : ~Lost(k)
      BY <2>1, <1>1 DEF Lost
    <2>4. \A k \in Cells : updates'[k] # NULL /\ k[2] <= known'[k[1]] =>
                           <<k[1], updates'[k].n>> \in released'
      BY <2>1, <1>2 DEF IInv, Numbered
    <2> QED  BY <1>4, <1>5, <2>1, <2>2, <2>3, <2>4 DEF Empty
  <1>6. CASE ~webhook[b]
    <2> DEFINE fresh == Events(u, {b} \X (IF off < 0 THEN IdsOf(u, b) ELSE got))
    <2>1. /\ updates' = v /\ outbox' = Cascade(outbox, v)
          /\ released' = released \cup fresh
          /\ \E top \in got \cup {known[b]} :
               /\ \A i \in got \cup {known[b]} : i <= top
               /\ known' = [known EXCEPT ![b] = top]
      BY <1>6 DEF GetUpdates
    <2>2. PICK top \in got \cup {known[b]} :
               /\ \A i \in got \cup {known[b]} : i <= top
               /\ known' = [known EXCEPT ![b] = top]
      BY <2>1
    <2>3. \A i \in IdsOf(u, b) : <<b, i>> \in Cells /\ updates[<<b, i>>] # NULL /\ i \in Nat
      BY <1>2, CellFacts DEF IdsOf
    <2>4. \A i \in IdsOf(u, b) : i < nextId[b]
      BY <2>3, CellFacts DEF IInv, Numbered
    <2>5. top \in Nat /\ known[b] <= top /\ top < nextId[b]
      BY <1>3, <1>4, <2>2, <2>3, <2>4
    <2>6. /\ known' \in [Bots -> Nat]
          /\ \A c \in Bots : known[c] <= known'[c] /\ known'[c] < nextId[c]
      BY <1>4, <2>2, <2>5
    <2>7. \A k \in Cells : updates'[k] # NULL => k \notin del /\ updates'[k] = u[k]
      BY <2>1
    <2>8. Shrinks
      <3>1. \A k \in Cells : updates'[k] \in {NULL, updates[k]}
        BY <1>2, <2>1
      <3> QED  BY <3>1, <2>1 DEF Shrinks
    <2>9. released' \subseteq Bots \X Nat /\ released \subseteq released'
      <3>1. fresh \subseteq Bots \X Nat
        <4>1. \A i \in IdsOf(u, b) : u[<<b, i>>].n \in Nat
          BY <1>2, <2>3 DEF IdsOf, Row
        <4> QED  BY <4>1, <1>3 DEF Events
      <3> QED  BY <1>4, <2>1, <3>1
    <2>10. ASSUME NEW k \in Cells, updates'[k] # NULL, k[2] <= known'[k[1]]
           PROVE  <<k[1], updates'[k].n>> \in released'
      <3>1. k \notin del /\ updates'[k] = u[k] /\ u[k] = updates[k] /\ updates[k] # NULL
        BY <1>2, <2>7, <2>10
      <3>2. CASE k[2] <= known[k[1]]
        BY <2>9, <3>1, <3>2 DEF IInv, Numbered
      <3>3. CASE ~(k[2] <= known[k[1]])
        <4>1. k[1] = b /\ k[2] <= top
          BY <1>4, <2>2, <2>10, <3>3, CellFacts
        <4>2. k = <<b, k[2]>> /\ k[2] \in IdsOf(u, b) /\ k[2] \in Nat
          BY <3>1, <4>1, CellFacts DEF IdsOf
        <4>3. CASE off < 0
          BY <2>1, <3>1, <4>1, <4>2, <4>3 DEF Events
        <4>4. CASE ~(off < 0)
          <5> DEFINE above == {i \in IdsOf(u, b) : i >= off}
          <5>1. got = First(above, lim) /\ above \in SUBSET Ids /\ lim \in Nat
            BY <4>4, <1>3 DEF Returned, Limits
          <5>2. k[2] \in above
            BY <3>1, <4>2, <4>4 DEF Deleted
          <5>3. top \in got
            BY <1>4, <2>2, <2>5, <3>3, <4>1, <4>2
          <5>4. k[2] \in got
            <6>1. CASE k[2] = top
              BY <6>1, <5>3
            <6>2. CASE k[2] < top
              BY <5>1, <5>2, <5>3, <6>2, FirstClosed
            <6> QED  BY <4>1, <4>2, <2>5, <6>1, <6>2
          <5> QED  BY <2>1, <3>1, <4>1, <4>2, <4>4, <5>4 DEF Events
        <4> QED  BY <4>3, <4>4
      <3> QED  BY <3>2, <3>3
    <2>11. ASSUME NEW k \in Cells, Lost(k)  PROVE FALSE
      <3>1. updates[k] # NULL /\ updates'[k] # updates[k] /\ ~Expired(updates[k])
        BY <2>11 DEF Lost
      <3>2. u[k] = updates[k] /\ k \in del
        BY <1>1, <2>1, <3>1
      <3>3. k[1] = b /\ k[2] \in Deleted(u, b, off, lim) /\ k = <<b, k[2]>>
        BY <3>2, CellFacts
      <3>4. k[2] \in IdsOf(u, b)
        BY <3>3 DEF Deleted
      <3>5. <<k[1], updates[k].n>> \in released'
        <4>1. CASE off < 0
          BY <2>1, <3>1, <3>2, <3>3, <3>4, <4>1 DEF Events
        <4>2. CASE ~(off < 0)
          <5>1. k[2] < off /\ k[2] \in Nat
            BY <3>3, <3>4, <4>2, <2>3 DEF Deleted
          <5>2. k[2] <= known[b]
            BY <1>4, <3>1, <3>3, <5>1, CellFacts
          <5> QED  BY <2>9, <3>1, <3>3, <5>2 DEF IInv, Numbered
        <4> QED  BY <4>1, <4>2
      <3> QED  BY <2>11, <3>5 DEF Lost
    <2>12. ASSUME Empty(b, off), NEW i \in Ids, updates'[<<b, i>>] # NULL  PROVE i < off
      <3>1. u[<<b, i>>] # NULL
        BY <2>7, <2>12, CellFacts
      <3> QED  BY <2>12, <3>1 DEF Empty, IdsOf
    <2> QED  BY <2>6, <2>8, <2>9, <2>10, <2>11, <2>12
  <1> QED  BY <1>5, <1>6

\* A poll keeps the invariant, whether it starts to wait or has answered.
LEMMA PollKeeps ==
  ASSUME IInv, NEW b \in Bots, NEW off \in Int, NEW lim \in Limits,
         GetUpdates(b, off, lim),
         off <= known[b] + 1 \/ \A i \in Ids : updates[<<b, i>>] = NULL,
         NEW p, poll' = [poll EXCEPT ![b] = p],
         \/ p = Idle
         \/ /\ p = [at |-> "waiting", offset |-> off]
            /\ off <= known[b] + 1 /\ Empty(b, off),
         UNCHANGED <<webhook, nextId, drain, retryAt, strayed, sent, counts>>
  PROVE  IInv' /\ \A k \in Cells : ~Lost(k)
  <1>1. /\ Shrinks
        /\ known' \in [Bots -> Nat]
        /\ \A c \in Bots : known[c] <= known'[c] /\ known'[c] < nextId[c]
        /\ released' \subseteq Bots \X Nat /\ released \subseteq released'
        /\ \A k \in Cells : updates'[k] # NULL /\ k[2] <= known'[k[1]] =>
                             <<k[1], updates'[k].n>> \in released'
        /\ \A k \in Cells : ~Lost(k)
        /\ Empty(b, off) => \A i \in Ids : updates'[<<b, i>>] # NULL => i < off
    BY GetUpdatesFacts
  <1>2. WakeupArmed' /\ InFlight' /\ \A k \in Cells : updates'[k] # NULL => k[2] < nextId[k[1]]
    BY <1>1, ShrinkKeeps
  <1>3. /\ updates' \in [Cells -> Row \cup {NULL}]
        /\ outbox' \in [Cells -> Entry \cup {NULL}] /\ OutboxCoversQueue'
    BY <1>1, ShrinkFacts DEF IInv
  <1>4. p \in [at : {"idle", "waiting", "woken"}, offset : Int]
    BY DEF Idle
  <1>5. TypeOK'
    BY <1>1, <1>3, <1>4 DEF IInv, TypeOK, counts
  <1>6. Numbered'
    BY <1>1, <1>2 DEF Numbered
  <1>7. \A c \in Bots, i \in Ids : updates'[<<c, i>>] \in {NULL, updates[<<c, i>>]}
    BY <1>1, CellFacts DEF Shrinks
  <1>8. ASSUME NEW c \in Bots, poll'[c].at = "waiting"
        PROVE  ~webhook'[c] /\ \A i \in Ids : updates'[<<c, i>>] # NULL => i < poll'[c].offset
    <2>1. CASE c = b
      BY <1>1, <1>8, <2>1 DEF IInv, TypeOK, Idle, Empty
    <2>2. CASE c # b
      BY <1>7, <1>8, <2>2 DEF IInv, TypeOK, NoLostWakeup
    <2> QED  BY <2>1, <2>2
  <1>9. ASSUME NEW c \in Bots, poll'[c].at # "idle"
        PROVE  \/ poll'[c].offset <= known'[c] + 1
               \/ poll'[c].at = "woken" /\ \A i \in Ids : updates'[<<c, i>>] = NULL
    <2>0. /\ known[c] \in Nat /\ known'[c] \in Nat /\ known[c] <= known'[c]
          /\ poll[c].offset \in Int
      BY <1>1 DEF IInv, TypeOK
    <2>1. CASE c = b
      BY <1>9, <2>0, <2>1 DEF IInv, TypeOK, Idle
    <2>2. CASE c # b
      BY <1>7, <1>9, <2>0, <2>2 DEF IInv, TypeOK, OffsetsKnown
    <2> QED  BY <2>1, <2>2
  <1> QED  BY <1>1, <1>2, <1>3, <1>5, <1>6, <1>8, <1>9 DEF IInv, NoLostWakeup, OffsetsKnown

-----------------------------------------------------------------------------
(* The other actions. *)

\* A wake keeps the offset, and leaves nobody of B waiting.
LEMMA WakeFacts ==
  ASSUME TypeOK, NEW B \in SUBSET Bots
  PROVE  /\ Wake(B) \in [Bots -> [at : {"idle", "waiting", "woken"}, offset : Int]]
         /\ \A b \in Bots : /\ Wake(B)[b].offset = poll[b].offset
                            /\ Wake(B)[b].at = "waiting" => poll[b].at = "waiting" /\ b \notin B
                            /\ Wake(B)[b].at # "idle" => poll[b].at # "idle"
                            /\ poll[b].at = "woken" => Wake(B)[b].at = "woken"
  <1>1. \A b \in Bots : [poll[b] EXCEPT !.at = "woken"] \in
                           [at : {"idle", "waiting", "woken"}, offset : Int]
    BY DEF TypeOK
  <1>2. \A b \in Bots : Wake(B)[b] = IF b \in B /\ poll[b].at = "waiting"
                                       THEN [poll[b] EXCEPT !.at = "woken"] ELSE poll[b]
    BY DEF Wake
  <1>3. Wake(B) \in [Bots -> [at : {"idle", "waiting", "woken"}, offset : Int]]
    BY <1>1 DEF Wake, TypeOK
  <1>4. \A b \in Bots : poll[b] \in [at : {"idle", "waiting", "woken"}, offset : Int]
    BY DEF TypeOK
  <1> QED  BY <1>2, <1>3, <1>4

\* Polls stay as they are, or some wake; no update arrives and no webhook is
\* set but for a bot that was woken.
LEMMA PollsKept ==
  ASSUME IInv, NEW B \in SUBSET Bots,
         poll' = Wake(B) \/ poll' = poll,
         \A k \in Cells : updates'[k] \in {NULL, updates[k]},
         \A b \in Bots : poll'[b].at = "waiting" /\ webhook'[b] => webhook[b],
         known' = known
  PROVE  /\ poll' \in [Bots -> [at : {"idle", "waiting", "woken"}, offset : Int]]
         /\ NoLostWakeup' /\ OffsetsKnown'
  <1>1. /\ poll' \in [Bots -> [at : {"idle", "waiting", "woken"}, offset : Int]]
        /\ \A b \in Bots : /\ poll'[b].offset = poll[b].offset
                           /\ poll'[b].at = "waiting" => poll[b].at = "waiting"
                           /\ poll'[b].at # "idle" => poll[b].at # "idle"
                           /\ poll[b].at = "woken" => poll'[b].at = "woken"
    BY WakeFacts DEF IInv, TypeOK
  <1>2. \A b \in Bots, i \in Ids : updates'[<<b, i>>] \in {NULL, updates[<<b, i>>]}
    BY CellFacts
  <1>3. NoLostWakeup'
    BY <1>1, <1>2 DEF IInv, NoLostWakeup
  <1>4. OffsetsKnown'
    BY <1>1, <1>2 DEF IInv, OffsetsKnown
  <1> QED  BY <1>1, <1>3, <1>4

\* The ids stay numbered while updates only leave.
LEMMA NumberedKept ==
  ASSUME IInv, \A k \in Cells : updates'[k] \in {NULL, updates[k]},
         UNCHANGED <<nextId, known>>, released \subseteq released'
  PROVE  Numbered'
  BY DEF IInv, Numbered

\* A row whose loss was asked for is released.
LEMMA ForgottenFacts ==
  ASSUME TypeOK, updates' \in [Cells -> Row \cup {NULL}]
  PROVE  /\ Forgotten(updates') \subseteq Bots \X Nat
         /\ released \subseteq Forgotten(updates')
         /\ \A k \in Cells : updates[k] # NULL /\ updates'[k] = NULL =>
                              <<k[1], updates[k].n>> \in Forgotten(updates')
  <1>1. \A k \in Cells : updates[k] # NULL => k[1] \in Bots /\ updates[k].n \in Nat
    BY CellFacts DEF TypeOK, Row
  <1>2. Events(updates, {k \in Cells : updates'[k] = NULL}) \subseteq Bots \X Nat
    BY <1>1 DEF Events
  <1>3. \A k \in Cells : updates[k] # NULL /\ updates'[k] = NULL =>
          <<k[1], updates[k].n>> \in Events(updates, {c \in Cells : updates'[c] = NULL})
    BY DEF Events
  <1> QED  BY <1>2, <1>3 DEF Forgotten, TypeOK

LEMMA SendKeeps ==
  ASSUME IInv, NEW S \in SUBSET Bots, SendMessage(S)
  PROVE  IInv' /\ \A k \in Cells : ~Lost(k)
  <1> DEFINE new == {<<b, nextId[b]>> : b \in S}
  <1>1. /\ NoneWoken /\ \A b \in S : nextId[b] \in Ids
        /\ updates' = [k \in Cells |->
              IF k \in new THEN [n |-> sent[k[1]] + 1, at |-> now] ELSE updates[k]]
        /\ outbox' = [k \in Cells |->
              IF k \in new /\ webhook[k[1]] THEN Due0(now) ELSE outbox[k]]
        /\ nextId' = [b \in Bots |-> IF b \in S THEN nextId[b] + 1 ELSE nextId[b]]
        /\ sent' = [b \in Bots |-> IF b \in S THEN sent[b] + 1 ELSE sent[b]]
        /\ poll' = Wake(S) /\ drain' = Scheduled(drain) /\ strayed' = FALSE
        /\ UNCHANGED <<webhook, retryAt, known, released, counts>>
    BY DEF SendMessage
  <1>2. \A k \in Cells : k \in new <=> k[1] \in S /\ k[2] = nextId[k[1]]
    BY CellFacts
  <1>3. \A k \in Cells : sent[k[1]] \in Nat /\ nextId[k[1]] \in Nat /\ known[k[1]] \in Nat
                         /\ k[1] \in Bots /\ k[2] \in Nat
    BY CellFacts DEF IInv, TypeOK
  <1>4. \A k \in Cells : [n |-> sent[k[1]] + 1, at |-> now] \in Row /\ Due0(now) \in Entry
    BY <1>3 DEF IInv, TypeOK, Row, Due0, Entry
  <1>5. \A k \in Cells : k \in new => updates[k] = NULL
    <2>1. \A k \in Cells : updates[k] # NULL => k[2] < nextId[k[1]]
      BY DEF IInv, Numbered
    <2> QED  BY <1>2, <1>3, <2>1
  <1>6. TypeOK'
    <2>1. updates' \in [Cells -> Row \cup {NULL}] /\ outbox' \in [Cells -> Entry \cup {NULL}]
      BY <1>1, <1>4 DEF IInv, TypeOK
    <2>2. nextId' \in [Bots -> Nat \ {0}] /\ sent' \in [Bots -> Nat]
      BY <1>1 DEF IInv, TypeOK
    <2>3. poll' \in [Bots -> [at : {"idle", "waiting", "woken"}, offset : Int]]
      BY <1>1, WakeFacts DEF IInv
    <2>4. drain' \in Drain
      BY <1>1, ScheduleFacts DEF IInv, TypeOK
    <2> QED  BY <1>1, <2>1, <2>2, <2>3, <2>4 DEF IInv, TypeOK, counts
  <1>7. OutboxCoversQueue'
    <2>1. ASSUME NEW k \in Cells
          PROVE  outbox'[k] # NULL <=> updates'[k] # NULL /\ webhook'[k[1]]
      BY <1>1, <1>4, <1>5, NullFacts DEF IInv, OutboxCoversQueue
    <2> QED  BY <2>1 DEF OutboxCoversQueue
  <1>8. NoLostWakeup'
    <2>1. \A b \in Bots : poll'[b].at = "waiting" =>
            poll[b].at = "waiting" /\ b \notin S /\ poll'[b].offset = poll[b].offset
      BY <1>1, WakeFacts DEF IInv
    <2>2. \A b \in Bots, i \in Ids : b \notin S => updates'[<<b, i>>] = updates[<<b, i>>]
      BY <1>1, <1>2, CellFacts
    <2> QED  BY <1>1, <2>1, <2>2 DEF IInv, NoLostWakeup
  <1>9. WakeupArmed'
    BY <1>1, ScheduleFacts DEF IInv, TypeOK, WakeupArmed
  <1>10. Numbered'
    <2>1. ASSUME NEW k \in Cells, updates'[k] # NULL
          PROVE  /\ k[2] < nextId'[k[1]]
                 /\ k[2] <= known'[k[1]] => <<k[1], updates'[k].n>> \in released'
      <3>1. CASE k \in new
        BY <1>1, <1>2, <1>3, <3>1 DEF IInv, Numbered
      <3>2. CASE k \notin new
        BY <1>1, <1>3, <2>1, <3>2 DEF IInv, Numbered
      <3> QED  BY <3>1, <3>2
    <2>2. \A b \in Bots : known'[b] < nextId'[b]
      BY <1>1 DEF IInv, TypeOK, Numbered
    <2> QED  BY <2>1, <2>2 DEF Numbered
  <1>11. OffsetsKnown'
    BY <1>1, WakeFacts DEF IInv, OffsetsKnown, NoneWoken
  <1>12. InFlight'
    <2>1. SUFFICES ASSUME drain'.at = "sending"
                   PROVE  /\ drain'.key \in Cells
                          /\ drain'.live => /\ drain'.key[2] < nextId'[drain'.key[1]]
                                            /\ updates'[drain'.key] # NULL =>
                                                 updates'[drain'.key].n = drain'.n
      BY DEF InFlight
    <2>2. drain' = drain /\ drain.at = "sending" /\ drain.key \in Cells
      BY <1>1, <2>1, ScheduleFacts DEF IInv, TypeOK, InFlight
    <2>3. ASSUME drain.live
          PROVE  /\ drain.key[2] < nextId[drain.key[1]]
                 /\ updates[drain.key] # NULL => updates[drain.key].n = drain.n
      BY <2>2, <2>3 DEF IInv, InFlight
    <2>4. ASSUME drain.live  PROVE drain.key \notin new
      BY <1>2, <1>3, <2>2, <2>3, <2>4
    <2>5. drain.live => drain.key[2] < nextId'[drain.key[1]]
      BY <1>1, <1>3, <2>2, <2>3
    <2> QED  BY <1>1, <2>2, <2>3, <2>4, <2>5
  <1>13. \A k \in Cells : ~Lost(k)
    BY <1>1, <1>5 DEF Lost
  <1> QED  BY <1>6, <1>7, <1>8, <1>9, <1>10, <1>11, <1>12, <1>13 DEF IInv

LEMMA TimeOutKeeps ==
  ASSUME IInv, NEW b \in Bots, PollTimesOut(b)
  PROVE  IInv' /\ \A k \in Cells : ~Lost(k)
  <1>1. poll' = Wake({b}) /\ UNCHANGED <<tables, drain, retryAt, strayed, history, counts>>
    BY DEF PollTimesOut
  <1>2. /\ poll' \in [Bots -> [at : {"idle", "waiting", "woken"}, offset : Int]]
        /\ NoLostWakeup' /\ OffsetsKnown'
    BY <1>1, PollsKept DEF tables, history
  <1>3. TypeOK'
    BY <1>1, <1>2 DEF IInv, TypeOK, tables, history, counts
  <1>4. OutboxCoversQueue' /\ WakeupArmed' /\ Numbered' /\ InFlight'
    BY <1>1 DEF IInv, OutboxCoversQueue, WakeupArmed, Numbered, InFlight, tables, history
  <1>5. \A k \in Cells : ~Lost(k)
    BY <1>1 DEF Lost, tables
  <1> QED  BY <1>2, <1>3, <1>4, <1>5 DEF IInv

LEMMA InfoKeeps ==
  ASSUME IInv, GetWebhookInfo
  PROVE  IInv' /\ \A k \in Cells : ~Lost(k)
  <1>1. /\ updates' = Purged(updates) /\ outbox' = Cascade(outbox, updates')
        /\ UNCHANGED <<webhook, nextId, poll, drain, retryAt, strayed, sent, known, released, counts>>
    BY DEF GetWebhookInfo
  <1>2. \A k \in Cells : updates'[k] = IF Expired(updates[k]) THEN NULL ELSE updates[k]
    BY <1>1 DEF Purged
  <1>3. Shrinks
    BY <1>1, <1>2 DEF Shrinks, Purged
  <1>4. /\ updates' \in [Cells -> Row \cup {NULL}]
        /\ outbox' \in [Cells -> Entry \cup {NULL}] /\ OutboxCoversQueue'
    BY <1>3, ShrinkFacts DEF IInv
  <1>5. WakeupArmed' /\ InFlight'
    BY <1>1, <1>3, ShrinkKeeps
  <1>6. NoLostWakeup' /\ OffsetsKnown' /\ Numbered'
    BY <1>1, <1>3, PollsKept, NumberedKept DEF Shrinks
  <1>7. TypeOK'
    BY <1>1, <1>4 DEF IInv, TypeOK, counts
  <1>8. \A k \in Cells : ~Lost(k)
    BY <1>2 DEF Lost
  <1> QED  BY <1>4, <1>5, <1>6, <1>7, <1>8 DEF IInv

LEMMA SetWebhookKeeps ==
  ASSUME IInv, NEW b \in Bots, NEW drop \in BOOLEAN, SetWebhook(b, drop)
  PROVE  IInv' /\ \A k \in Cells : ~Lost(k)
  <1>1. /\ webhook' = [webhook EXCEPT ![b] = TRUE]
        /\ updates' = (IF drop THEN Without(b) ELSE updates)
        /\ outbox' = (IF drop THEN NoOutbox(b) ELSE Reoffered(b))
        /\ released' = (IF drop THEN Forgotten(updates') ELSE released)
        /\ poll' = Wake({b}) /\ drain' = Scheduled(drain) /\ strayed' = FALSE
        /\ calls' = calls + 1
        /\ UNCHANGED <<now, retryAt, nextId, sent, known>>
    BY DEF SetWebhook, Called, Notify
  <1>2. /\ updates' \in [Cells -> Row \cup {NULL}]
        /\ \A k \in Cells : updates'[k] = IF drop /\ k[1] = b THEN NULL ELSE updates[k]
    BY <1>1 DEF Without, IInv, TypeOK
  <1>3. Due0(now) \in Entry
    BY DEF IInv, TypeOK, Entry, Due0
  <1>4. /\ outbox' \in [Cells -> Entry \cup {NULL}]
        /\ \A k \in Cells : outbox'[k] =
             IF k[1] # b THEN outbox[k]
             ELSE IF drop THEN NULL
             ELSE IF updates[k] # NULL /\ outbox[k] = NULL THEN Due0(now) ELSE outbox[k]
    BY <1>1, <1>3 DEF NoOutbox, Reoffered, IInv, TypeOK
  <1>5. OutboxCoversQueue'
    <2>1. ASSUME NEW k \in Cells
          PROVE  outbox'[k] # NULL <=> updates'[k] # NULL /\ webhook'[k[1]]
      <3>1. CASE k[1] # b
        BY <1>1, <1>2, <1>4, <3>1, CellFacts DEF IInv, TypeOK, OutboxCoversQueue
      <3>2. CASE k[1] = b
        BY <1>1, <1>2, <1>3, <1>4, <3>2, NullFacts DEF IInv, TypeOK, OutboxCoversQueue
      <3> QED  BY <3>1, <3>2
    <2> QED  BY <2>1 DEF OutboxCoversQueue
  <1>6. \A c \in Bots : poll'[c].at = "waiting" /\ webhook'[c] => webhook[c]
    <2>1. \A c \in Bots : poll'[c].at = "waiting" => c # b
      BY <1>1, WakeFacts DEF IInv
    <2> QED  BY <1>1, <2>1 DEF IInv, TypeOK
  <1>7. /\ poll' \in [Bots -> [at : {"idle", "waiting", "woken"}, offset : Int]]
        /\ NoLostWakeup' /\ OffsetsKnown'
    <2>1. \A k \in Cells : updates'[k] \in {NULL, updates[k]}
      BY <1>2
    <2> QED  BY <1>1, <1>6, <2>1, PollsKept
  <1>8. /\ released' \subseteq Bots \X Nat /\ released \subseteq released'
        /\ \A k \in Cells : ~Lost(k)
    BY <1>1, <1>2, ForgottenFacts DEF IInv, TypeOK, Lost
  <1>9. Numbered'
    BY <1>1, <1>2, <1>8, NumberedKept
  <1>10. drain' \in Drain /\ drain'.at # "off"
         /\ (drain'.at = "sending" => drain' = drain)
    BY <1>1, ScheduleFacts DEF IInv, TypeOK
  <1>11. WakeupArmed'
    BY <1>10 DEF WakeupArmed
  <1>12. InFlight'
    BY <1>1, <1>2, <1>10 DEF IInv, InFlight
  <1>13. webhook' \in [Bots -> BOOLEAN]
    BY <1>1 DEF IInv, TypeOK
  <1>14. strayed' \in BOOLEAN /\ calls' \in Nat /\ now' \in Nat /\ retryAt' \in Nat \cup {NULL}
    <2>1. strayed' = FALSE
      BY <1>1
    <2>2. calls' \in Nat /\ now' \in Nat /\ retryAt' \in Nat \cup {NULL}
      BY <1>1 DEF IInv, TypeOK
    <2> QED  BY <2>1, <2>2, Zenon
  <1>15. TypeOK'
    BY <1>1, <1>2, <1>4, <1>7, <1>8, <1>10, <1>13, <1>14 DEF IInv, TypeOK
  <1> QED  BY <1>5, <1>7, <1>8, <1>9, <1>11, <1>12, <1>15 DEF IInv

LEMMA DeleteWebhookKeeps ==
  ASSUME IInv, NEW b \in Bots, NEW drop \in BOOLEAN, DeleteWebhook(b, drop)
  PROVE  IInv' /\ \A k \in Cells : ~Lost(k)
  <1>1. /\ webhook' = [webhook EXCEPT ![b] = FALSE]
        /\ outbox' = NoOutbox(b)
        /\ updates' = (IF drop THEN Without(b) ELSE updates)
        /\ released' = (IF drop THEN Forgotten(updates') ELSE released)
        /\ poll' = Wake(Bots)
        /\ drain' = Scheduled(Cancelled(drain)) /\ strayed' = FALSE /\ retryAt' = NULL
        /\ calls' = calls + 1 /\ UNCHANGED <<now, nextId, sent, known>>
    BY DEF DeleteWebhook, Called
  <1>2. /\ updates' \in [Cells -> Row \cup {NULL}]
        /\ \A k \in Cells : updates'[k] = IF drop /\ k[1] = b THEN NULL ELSE updates[k]
    BY <1>1 DEF Without, IInv, TypeOK
  <1>3. /\ outbox' \in [Cells -> Entry \cup {NULL}]
        /\ \A k \in Cells : outbox'[k] = IF k[1] = b THEN NULL ELSE outbox[k]
    BY <1>1 DEF NoOutbox, IInv, TypeOK
  <1>4. OutboxCoversQueue'
    BY <1>1, <1>2, <1>3, CellFacts DEF IInv, TypeOK, OutboxCoversQueue
  <1>5. \A c \in Bots : webhook'[c] => webhook[c]
    BY <1>1 DEF IInv, TypeOK
  <1>6. /\ poll' \in [Bots -> [at : {"idle", "waiting", "woken"}, offset : Int]]
        /\ NoLostWakeup' /\ OffsetsKnown'
    BY <1>1, <1>2, <1>5, PollsKept
  <1>7. /\ released' \subseteq Bots \X Nat /\ released \subseteq released'
        /\ \A k \in Cells : ~Lost(k)
    BY <1>1, <1>2, ForgottenFacts DEF IInv, TypeOK, Lost
  <1>8. Numbered'
    BY <1>1, <1>2, <1>7, NumberedKept
  <1>9. drain' \in Drain /\ drain'.at # "off"
        /\ (drain'.at = "sending" =>
              drain.at = "sending" /\ drain'.key = drain.key /\ ~drain'.live)
    <2>1. Cancelled(drain) \in Drain /\ Cancelled(drain).at = drain.at
          /\ (Cancelled(drain).at = "sending" =>
                Cancelled(drain).key = drain.key /\ ~Cancelled(drain).live)
      BY ScheduleFacts DEF IInv, TypeOK
    <2> QED  BY <1>1, <2>1, ScheduleFacts
  <1>10. WakeupArmed'
    BY <1>9 DEF WakeupArmed
  <1>11. InFlight'
    BY <1>9 DEF IInv, InFlight
  <1>12. webhook' \in [Bots -> BOOLEAN]
    BY <1>1 DEF IInv, TypeOK
  <1>13. strayed' \in BOOLEAN /\ calls' \in Nat /\ now' \in Nat /\ retryAt' \in Nat \cup {NULL}
    <2>1. strayed' = FALSE
      BY <1>1
    <2>2. calls' \in Nat /\ now' \in Nat /\ retryAt' \in Nat \cup {NULL}
      BY <1>1 DEF IInv, TypeOK
    <2> QED  BY <2>1, <2>2, Zenon
  <1>14. TypeOK'
    BY <1>1, <1>2, <1>3, <1>6, <1>7, <1>9, <1>12, <1>13 DEF IInv, TypeOK
  <1> QED  BY <1>4, <1>6, <1>7, <1>8, <1>10, <1>11, <1>14 DEF IInv

LEMMA SeedKeeps ==
  ASSUME IInv, Seed
  PROVE  IInv' /\ \A k \in Cells : ~Lost(k)
  <1>1. /\ poll' = Wake(Bots) /\ drain' = Cancelled(drain)
        /\ retryAt' = NULL /\ strayed' = FALSE
        /\ webhook' = [b \in Bots |-> FALSE] /\ nextId' = [b \in Bots |-> FirstId]
        /\ updates' = [k \in Cells |-> NULL] /\ outbox' = [k \in Cells |-> NULL]
        /\ released' = Forgotten(updates') /\ known' = [b \in Bots |-> 0]
        /\ calls' = calls + 1 /\ UNCHANGED <<now, sent>>
    BY DEF Seed, Called
  <1>2. /\ poll' \in [Bots -> [at : {"idle", "waiting", "woken"}, offset : Int]]
        /\ \A b \in Bots : poll'[b].at # "waiting"
    BY <1>1, WakeFacts DEF IInv
  <1>3. poll' = [b \in Bots |-> poll'[b]] /\ \A b \in Bots : poll'[b].at \in {"idle", "woken"}
    BY <1>2
  <1>4. \A b \in Bots, i \in Ids : updates'[<<b, i>>] = NULL
    BY <1>1, CellFacts
  <1>5. NoLostWakeup' /\ OffsetsKnown'
    BY <1>3, <1>4 DEF NoLostWakeup, OffsetsKnown
  <1>6. released' \subseteq Bots \X Nat /\ \A k \in Cells : ~Lost(k)
    BY <1>1, ForgottenFacts DEF IInv, TypeOK, Lost
  <1>7. drain' \in Drain
        /\ (drain'.at = "sending" =>
              drain.at = "sending" /\ drain'.key = drain.key /\ ~drain'.live)
    BY <1>1, ScheduleFacts DEF IInv, TypeOK
  <1>8. InFlight'
    BY <1>7 DEF IInv, InFlight
  <1>9. OutboxCoversQueue' /\ WakeupArmed' /\ Numbered'
    BY <1>1, CellFacts DEF OutboxCoversQueue, WakeupArmed, Numbered, FirstId
  <1>10. strayed' \in BOOLEAN /\ calls' \in Nat /\ now' \in Nat /\ retryAt' \in Nat \cup {NULL}
    <2>1. strayed' = FALSE
      BY <1>1
    <2>2. calls' \in Nat /\ now' \in Nat /\ retryAt' \in Nat \cup {NULL}
      BY <1>1 DEF IInv, TypeOK
    <2> QED  BY <2>1, <2>2, Zenon
  <1>11. TypeOK'
    BY <1>1, <1>2, <1>6, <1>7, <1>10 DEF IInv, TypeOK, FirstId
  <1> QED  BY <1>5, <1>6, <1>8, <1>9, <1>11 DEF IInv

LEMMA SeedFailsKeeps ==
  ASSUME IInv, SeedFails
  PROVE  IInv' /\ \A k \in Cells : ~Lost(k)
  <1>1. /\ poll' = Wake(Bots) /\ drain' = Cancelled(drain) /\ retryAt' = NULL
        /\ strayed' = (strayed \/ drain.at = "off")
        /\ calls' = calls + 1 /\ UNCHANGED now
        /\ UNCHANGED <<webhook, nextId, updates, outbox, sent, known, released>>
    BY DEF SeedFails, Called, tables, history
  <1>2. /\ poll' \in [Bots -> [at : {"idle", "waiting", "woken"}, offset : Int]]
        /\ NoLostWakeup' /\ OffsetsKnown'
    BY <1>1, PollsKept
  <1>3. drain' \in Drain /\ drain'.at = drain.at
        /\ (drain'.at = "sending" => drain'.key = drain.key /\ ~drain'.live)
    BY <1>1, ScheduleFacts DEF IInv, TypeOK
  <1>4. WakeupArmed' /\ InFlight'
    BY <1>1, <1>3 DEF IInv, WakeupArmed, InFlight
  <1>5. OutboxCoversQueue' /\ Numbered' /\ \A k \in Cells : ~Lost(k)
    BY <1>1 DEF IInv, OutboxCoversQueue, Numbered, Lost
  <1>6. TypeOK'
    BY <1>1, <1>2, <1>3 DEF IInv, TypeOK
  <1> QED  BY <1>2, <1>4, <1>5, <1>6 DEF IInv

LEMMA RestartKeeps ==
  ASSUME IInv, Restart
  PROVE  IInv' /\ \A k \in Cells : ~Lost(k)
  <1>1. /\ poll' = [b \in Bots |-> Idle] /\ drain' = Queued /\ retryAt' = NULL
        /\ strayed' = FALSE /\ calls' = calls + 1 /\ UNCHANGED now
        /\ UNCHANGED <<webhook, nextId, updates, outbox, sent, known, released>>
    BY DEF Restart, Called, Registered, tables, history
  <1>2. NoLostWakeup' /\ OffsetsKnown'
    BY <1>1 DEF NoLostWakeup, OffsetsKnown, Idle
  <1>3. WakeupArmed' /\ InFlight'
    BY <1>1 DEF WakeupArmed, InFlight, Queued, Off
  <1>4. OutboxCoversQueue' /\ Numbered' /\ \A k \in Cells : ~Lost(k)
    BY <1>1 DEF IInv, OutboxCoversQueue, Numbered, Lost
  <1>5. strayed' \in BOOLEAN /\ calls' \in Nat /\ now' \in Nat /\ retryAt' \in Nat \cup {NULL}
    <2>1. strayed' = FALSE
      BY <1>1
    <2>2. calls' \in Nat /\ now' \in Nat /\ retryAt' \in Nat \cup {NULL}
      BY <1>1 DEF IInv, TypeOK
    <2> QED  BY <2>1, <2>2, Zenon
  <1>6. TypeOK'
    BY <1>1, DrainTypes, <1>5 DEF IInv, TypeOK, Idle
  <1> QED  BY <1>2, <1>3, <1>4, <1>6 DEF IInv

LEMMA TimeKeeps ==
  ASSUME IInv, TimerFires \/ Tick
  PROVE  IInv' /\ \A k \in Cells : ~Lost(k)
  <1>1. /\ UNCHANGED <<webhook, nextId, updates, outbox, poll, sent, known, released>>
        /\ now' \in Nat /\ calls' = calls
    BY DEF TimerFires, Tick, tables, history, counts, IInv, TypeOK
  <1>2. /\ drain' \in Drain /\ retryAt' \in Nat \cup {NULL} /\ strayed' \in BOOLEAN
        /\ drain'.at = "sending" => drain' = drain
        /\ drain'.at = "off" => drain' = drain /\ retryAt' = retryAt /\ strayed' = strayed
    BY ScheduleFacts DEF TimerFires, Tick, IInv, TypeOK
  <1>3. WakeupArmed' /\ InFlight'
    BY <1>1, <1>2 DEF IInv, WakeupArmed, InFlight
  <1>4. /\ OutboxCoversQueue' /\ Numbered' /\ NoLostWakeup' /\ OffsetsKnown'
        /\ \A k \in Cells : ~Lost(k)
    BY <1>1 DEF IInv, OutboxCoversQueue, Numbered, NoLostWakeup, OffsetsKnown, Lost
  <1>5. TypeOK'
    BY <1>1, <1>2 DEF IInv, TypeOK
  <1> QED  BY <1>3, <1>4, <1>5 DEF IInv

-----------------------------------------------------------------------------
(* The flush. *)

\* A part of the flush that goes on: the table passed to Continue holds a row
\* just for the updates that the step leaves under a webhook.
LEMMA ContinueKeeps ==
  ASSUME IInv, NEW o \in [Cells -> Entry \cup {NULL}], NEW u \in [Cells -> Row \cup {NULL}],
         NEW d \in Drain, Continue(o, u, d),
         updates' \in [Cells -> Row \cup {NULL}],
         \A k \in Cells : updates'[k] \in {NULL, updates[k]} /\ updates'[k] \in {NULL, u[k]},
         \A k \in Cells : u[k] # NULL => u[k] = updates[k],
         \A k \in Cells : o[k] # NULL <=> updates'[k] # NULL /\ webhook[k[1]],
         released' \subseteq Bots \X Nat, released \subseteq released',
         UNCHANGED <<webhook, nextId, poll, strayed, sent, known, counts>>
  PROVE  IInv'
  <1>1. \A k \in Cells : o[k] # NULL => u[k] # NULL /\ updates'[k] # NULL
    OBVIOUS
  <1>2. /\ outbox' \in [Cells -> Entry \cup {NULL}]
        /\ \A k \in Cells : outbox'[k] = NULL <=> o[k] = NULL
        /\ drain' \in Drain /\ retryAt' \in Nat \cup {NULL}
        /\ drain'.at = "off" => \A k \in Cells : outbox'[k] # NULL =>
                                  retryAt' # NULL /\ retryAt' <= Ready(outbox'[k])
        /\ drain'.at = "sending" => /\ drain'.key \in Cells /\ u[drain'.key] # NULL
                                    /\ drain'.n = u[drain'.key].n
    BY <1>1, ContinueFacts DEF IInv, TypeOK
  <1>3. OutboxCoversQueue' /\ WakeupArmed'
    BY <1>2 DEF OutboxCoversQueue, WakeupArmed
  <1>4. InFlight'
    <2>1. ASSUME drain'.at = "sending"
          PROVE  /\ drain'.key \in Cells /\ drain'.key[2] < nextId'[drain'.key[1]]
                 /\ updates'[drain'.key] # NULL => updates'[drain'.key].n = drain'.n
      <3>1. drain'.key \in Cells /\ u[drain'.key] # NULL /\ drain'.n = u[drain'.key].n
        BY <1>2, <2>1
      <3>2. u[drain'.key] = updates[drain'.key] /\ updates[drain'.key] # NULL
        BY <3>1
      <3>3. drain'.key[2] < nextId[drain'.key[1]]
        BY <3>1, <3>2 DEF IInv, Numbered
      <3> QED  BY <3>1, <3>3
    <2> QED  BY <2>1 DEF InFlight
  <1>5. NoLostWakeup' /\ OffsetsKnown' /\ Numbered'
    BY PollsKept, NumberedKept
  <1>6. TypeOK'
    BY <1>2 DEF IInv, TypeOK, counts
  <1> QED  BY <1>3, <1>4, <1>5, <1>6 DEF IInv

LEMMA FlushKeeps ==
  ASSUME IInv, FlushBegins
  PROVE  IInv' /\ \A k \in Cells : ~Lost(k)
  <1> DEFINE o == Cascade(outbox, updates')
             due == {k \in Offered(o) : o[k].due <= now /\ o[k].locked <= now}
  <1>1. /\ drain.at = "queued" /\ updates' = Purged(updates)
        /\ UNCHANGED <<webhook, nextId, poll, strayed, sent, known, released, counts>>
    BY DEF FlushBegins, history
  <1>2. PICK batch \in SUBSET due :
          Continue(o, updates', [drain EXCEPT !.rest = batch, !.began = now,
                        !.full = Cardinality(batch) >= Batch, !.live = TRUE])
    BY DEF FlushBegins
  <1>3. \A k \in Cells : updates'[k] = IF Expired(updates[k]) THEN NULL ELSE updates[k]
    BY <1>1 DEF Purged
  <1>4. updates' \in [Cells -> Row \cup {NULL}]
    BY <1>1 DEF Purged, IInv, TypeOK
  <1>5. /\ o \in [Cells -> Entry \cup {NULL}]
        /\ \A k \in Cells : o[k] = IF updates'[k] = NULL THEN NULL ELSE outbox[k]
    BY DEF Cascade, IInv, TypeOK
  <1>6. \A k \in Cells : o[k] # NULL <=> updates'[k] # NULL /\ webhook[k[1]]
    BY <1>3, <1>5 DEF IInv, OutboxCoversQueue
  <1> DEFINE full == Cardinality(batch) >= Batch
             d    == [drain EXCEPT !.rest = batch, !.began = now, !.full = full, !.live = TRUE]
  <1>7. d \in Drain
    <2>1. batch \in SUBSET Cells
      BY DEF Offered
    <2>2. full \in BOOLEAN /\ now \in Nat /\ drain \in Drain
      BY DEF IInv, TypeOK
    <2> HIDE DEF full
    <2> QED  BY <2>1, <2>2 DEF Drain
  <1>8. Continue(o, updates', d)
    BY <1>2
  <1>9. \A k \in Cells : updates'[k] \in {NULL, updates[k]}
                         /\ (updates'[k] # NULL => updates'[k] = updates[k])
    BY <1>3
  <1>10. released' \subseteq Bots \X Nat /\ released \subseteq released'
    BY <1>1 DEF IInv, TypeOK
  <1> HIDE DEF o, d
  <1>11. IInv'
    BY <1>1, <1>4, <1>5, <1>6, <1>7, <1>8, <1>9, <1>10, ContinueKeeps
  <1>12. \A k \in Cells : ~Lost(k)
    BY <1>3 DEF Lost
  <1> QED  BY <1>11, <1>12

LEMMA AcknowledgedKeeps ==
  ASSUME IInv, Acknowledged
  PROVE  IInv' /\ \A k \in Cells : ~Lost(k)
  <1> DEFINE o == [outbox EXCEPT ![drain.key] = NULL]
  <1>1. /\ drain.at = "sending" /\ drain.live
        /\ updates' = [updates EXCEPT ![drain.key] = NULL]
        /\ Continue(o, updates, drain)
        /\ released' = released \cup {<<drain.key[1], drain.n>>}
        /\ UNCHANGED <<webhook, nextId, poll, strayed, sent, known, counts>>
    BY DEF Acknowledged, Live
  <1>2. /\ drain.key \in Cells /\ drain \in Drain /\ drain.n \in Nat
        /\ updates[drain.key] # NULL => updates[drain.key].n = drain.n
    BY <1>1 DEF IInv, TypeOK, InFlight, Drain
  <1>3. /\ updates' \in [Cells -> Row \cup {NULL}]
        /\ \A k \in Cells : updates'[k] = IF k = drain.key THEN NULL ELSE updates[k]
    BY <1>1, <1>2 DEF IInv, TypeOK
  <1>4. /\ o \in [Cells -> Entry \cup {NULL}]
        /\ \A k \in Cells : o[k] = IF k = drain.key THEN NULL ELSE outbox[k]
    BY <1>2 DEF IInv, TypeOK
  <1>5. \A k \in Cells : o[k] # NULL <=> updates'[k] # NULL /\ webhook[k[1]]
    BY <1>3, <1>4 DEF IInv, OutboxCoversQueue
  <1>6. released' \subseteq Bots \X Nat /\ released \subseteq released'
    BY <1>1, <1>2, CellFacts DEF IInv, TypeOK
  <1>7. updates \in [Cells -> Row \cup {NULL}]
        /\ \A k \in Cells : updates'[k] \in {NULL, updates[k]}
    BY <1>3 DEF IInv, TypeOK
  <1> HIDE DEF o
  <1>8. IInv'
    BY <1>1, <1>2, <1>3, <1>4, <1>5, <1>6, <1>7, ContinueKeeps
  <1>9. \A k \in Cells : ~Lost(k)
    BY <1>1, <1>2, <1>3 DEF Lost
  <1> QED  BY <1>8, <1>9

LEMMA RescheduledKeeps ==
  ASSUME IInv, Rescheduled
  PROVE  IInv' /\ \A k \in Cells : ~Lost(k)
  <1> DEFINE e == outbox[drain.key]
             next == [attempts |-> e.attempts + 1, locked |-> 0,
                      due |-> drain.began + Delay(e.attempts + 1)]
             o == IF e = NULL THEN outbox ELSE [outbox EXCEPT ![drain.key] = next]
  <1>1. /\ drain.at = "sending" /\ Continue(o, updates, drain)
        /\ UNCHANGED <<webhook, nextId, updates, poll, strayed, sent, known, released, counts>>
    BY DEF Rescheduled, history
  <1>2. drain.key \in Cells /\ drain \in Drain /\ e \in Entry \cup {NULL}
    BY <1>1 DEF IInv, TypeOK, InFlight
  <1>3. ASSUME e # NULL  PROVE next \in Entry
    <2>1. e.attempts + 1 \in Nat \ {0} /\ drain.began \in Nat
      BY <1>2, <1>3 DEF Entry, Drain
    <2>2. Delay(e.attempts + 1) \in Nat
      BY <2>1, DelayType
    <2> QED  BY <2>1, <2>2 DEF Entry
  <1>4. /\ o \in [Cells -> Entry \cup {NULL}]
        /\ \A k \in Cells : o[k] # NULL <=> outbox[k] # NULL
    <2> HIDE DEF next
    <2> QED  BY <1>2, <1>3, NullFacts DEF IInv, TypeOK
  <1>5. \A k \in Cells : o[k] # NULL <=> updates[k] # NULL /\ webhook[k[1]]
    BY <1>4 DEF IInv, OutboxCoversQueue
  <1> HIDE DEF o
  <1>6. IInv'
    <2>1. updates \in [Cells -> Row \cup {NULL}] /\ released \subseteq Bots \X Nat
      BY DEF IInv, TypeOK
    <2> QED  BY <1>1, <1>2, <1>4, <1>5, <2>1, ContinueKeeps
  <1>7. \A k \in Cells : ~Lost(k)
    BY <1>1 DEF Lost
  <1> QED  BY <1>6, <1>7

LEMMA AbandonedKeeps ==
  ASSUME IInv, Abandoned
  PROVE  IInv' /\ \A k \in Cells : ~Lost(k)
  <1>1. /\ drain.at = "sending" /\ drain' = Queued
        /\ UNCHANGED <<webhook, nextId, updates, outbox, poll, retryAt, strayed, sent, known, counts>>
    BY DEF Abandoned, tables
  <1>2. PICK ok \in BOOLEAN :
          released' = released \cup (IF ok THEN {<<drain.key[1], drain.n>>} ELSE {})
    BY DEF Abandoned
  <1>3. drain.key[1] \in Bots /\ drain.n \in Nat
    BY <1>1, CellFacts DEF IInv, TypeOK, InFlight, Drain
  <1>4. released' \subseteq Bots \X Nat /\ released \subseteq released'
    BY <1>2, <1>3 DEF IInv, TypeOK
  <1>5. TypeOK'
    BY <1>1, <1>4, DrainTypes DEF IInv, TypeOK, counts
  <1>6. Queued.at = "queued"
    BY DEF Queued, Off
  <1>7. WakeupArmed' /\ InFlight'
    BY <1>1, <1>6 DEF WakeupArmed, InFlight
  <1>8. OutboxCoversQueue' /\ NoLostWakeup' /\ OffsetsKnown' /\ \A k \in Cells : ~Lost(k)
    BY <1>1 DEF IInv, OutboxCoversQueue, NoLostWakeup, OffsetsKnown, Lost
  <1>9. Numbered'
    BY <1>1, <1>4, NumberedKept
  <1> QED  BY <1>5, <1>7, <1>8, <1>9 DEF IInv

-----------------------------------------------------------------------------
(* The theorems. *)

LEMMA InitIInv == Init => IInv
  <1> SUFFICES ASSUME Init  PROVE IInv
    OBVIOUS
  <1>1. TypeOK
    <2>1. strayed = FALSE
      BY DEF Init
    <2>2. strayed \in BOOLEAN
      BY <2>1, Zenon
    <2>3. drain \in Drain /\ released \subseteq Bots \X Nat /\ retryAt = NULL
      BY DrainTypes DEF Init, Registered
    <2> QED  BY <2>2, <2>3 DEF Init, TypeOK, FirstId, Idle
  <1>2. drain.at = "queued"
    BY DEF Init, Registered, Queued, Off
  <1>3. OutboxCoversQueue /\ NoLostWakeup /\ WakeupArmed /\ Numbered /\ OffsetsKnown /\ InFlight
    BY <1>2, CellFacts DEF Init, OutboxCoversQueue, NoLostWakeup, WakeupArmed, Numbered,
                           OffsetsKnown, InFlight, Idle, FirstId
  <1> QED  BY <1>1, <1>3 DEF IInv

LEMMA NextIInv == IInv /\ Next => IInv' /\ \A k \in Cells : ~Lost(k)
  <1> SUFFICES ASSUME IInv, Next  PROVE IInv' /\ \A k \in Cells : ~Lost(k)
    OBVIOUS
  <1>1. CASE \E S \in SUBSET Bots \ {{}} : SendMessage(S)
    BY <1>1, SendKeeps
  <1>2. CASE \E b \in Bots, lim \in Limits : \E off \in Offsets(b), wait \in BOOLEAN :
               Poll(b, off, lim, wait)
    <2>0. PICK b \in Bots, lim \in Limits : \E off \in Offsets(b), wait \in BOOLEAN :
               Poll(b, off, lim, wait)
      BY <1>2
    <2>1. PICK off \in Offsets(b), wait \in BOOLEAN : Poll(b, off, lim, wait)
      BY <2>0
    <2> DEFINE p == IF wait /\ Empty(b, off) THEN [at |-> "waiting", offset |-> off] ELSE Idle
    <2>2. known[b] \in Nat /\ off \in Int /\ off <= known[b] + 1
      BY DEF Offsets, IInv, TypeOK
    <2>3. /\ GetUpdates(b, off, lim) /\ poll' = [poll EXCEPT ![b] = p]
          /\ UNCHANGED <<webhook, nextId, drain, retryAt, strayed, sent, counts>>
      BY <2>1 DEF Poll
    <2>4. \/ p = Idle
          \/ /\ p = [at |-> "waiting", offset |-> off]
             /\ off <= known[b] + 1 /\ Empty(b, off)
      BY <2>2
    <2> HIDE DEF p
    <2> QED  BY <2>2, <2>3, <2>4, PollKeeps
  <1>3. CASE \E b \in Bots, lim \in Limits : PollResumes(b, lim)
    <2>1. PICK b \in Bots, lim \in Limits : PollResumes(b, lim)
      BY <1>3
    <2>2. /\ poll[b].at = "woken" /\ GetUpdates(b, poll[b].offset, lim)
          /\ poll' = [poll EXCEPT ![b] = Idle]
          /\ UNCHANGED <<webhook, nextId, drain, retryAt, strayed, sent, counts>>
      BY <2>1 DEF PollResumes
    <2>3. /\ poll[b].offset \in Int
          /\ poll[b].offset <= known[b] + 1 \/ \A i \in Ids : updates[<<b, i>>] = NULL
      BY <2>2 DEF IInv, TypeOK, OffsetsKnown
    <2> QED  BY <2>2, <2>3, PollKeeps
  <1>4. CASE \E b \in Bots : PollTimesOut(b)
    BY <1>4, TimeOutKeeps
  <1>5. CASE GetWebhookInfo
    BY <1>5, InfoKeeps
  <1>6. CASE \E b \in Bots, drop \in BOOLEAN : SetWebhook(b, drop) \/ DeleteWebhook(b, drop)
    BY <1>6, SetWebhookKeeps, DeleteWebhookKeeps
  <1>7. CASE Seed \/ SeedFails
    BY <1>7, SeedKeeps, SeedFailsKeeps
  <1>8. CASE DrainStep
    BY <1>8, FlushKeeps, AcknowledgedKeeps, RescheduledKeeps, AbandonedKeeps DEF DrainStep
  <1>9. CASE TimerFires \/ Tick \/ Restart
    BY <1>9, TimeKeeps, RestartKeeps
  <1> QED  BY <1>1, <1>2, <1>3, <1>4, <1>5, <1>6, <1>7, <1>8, <1>9 DEF Next

LEMMA StutterIInv == IInv /\ UNCHANGED vars => IInv' /\ \A k \in Cells : ~Lost(k)
  BY DEF IInv, vars, tables, history, counts, TypeOK, OutboxCoversQueue, NoLostWakeup,
         WakeupArmed, Numbered, OffsetsKnown, InFlight, Ready, Lost

LEMMA Inductive == Spec => []IInv
  <1>1. Init => IInv
    BY InitIInv
  <1>2. IInv /\ [Next]_vars => IInv'
    BY NextIInv, StutterIInv
  <1> QED  BY <1>1, <1>2, PTL DEF Spec

\* Type correctness: the tables, the runtime's poll, drain and timer, and the
\* history keep their shape.
THEOREM TypeCorrect == Spec => []TypeOK
  <1>1. IInv => TypeOK
    BY DEF IInv
  <1> QED  BY <1>1, Inductive, PTL

\* With a webhook set every update queued is in the outbox, and with none set
\* nothing is: setWebhook, deleteWebhook, the drops, the purge's cascade, the
\* receiver's answers and the resets keep the two tables together.
THEOREM OutboxCoversQueueAlways == Spec => []OutboxCoversQueue
  <1>1. IInv => OutboxCoversQueue
    BY DEF IInv
  <1> QED  BY <1>1, Inductive, PTL

\* No poll sleeps over an update it asked for or a webhook that refuses it:
\* every write that could answer it wakes it in the same step.
THEOREM NoLostWakeupAlways == Spec => []NoLostWakeup
  <1>1. IInv => NoLostWakeup
    BY DEF IInv
  <1> QED  BY <1>1, Inductive, PTL

\* When no drain is in progress the retry timer is armed in time for every row
\* of the outbox, unless a seed that failed has just taken it away.
THEOREM WakeupArmedAlways == Spec => []WakeupArmed
  <1>1. IInv => WakeupArmed
    BY DEF IInv
  <1> QED  BY <1>1, Inductive, PTL

\* An update leaves the queue only when a poll or a receiver got it, its loss
\* was asked for, or the retention expired: a late 2xx deletes the update it
\* was sent for or nothing, even where a reset handed its id out again.
THEOREM NoLostUpdateAlways == Spec => NoLostUpdate
  <1>1. IInv /\ [Next]_vars => [\A k \in Cells : ~Lost(k)]_vars
    BY NextIInv, StutterIInv
  <1> QED  BY <1>1, Inductive, PTL DEF NoLostUpdate, Spec

-----------------------------------------------------------------------------
(***************************************************************************)
(* The queue implements Mailbox.  Every step but a message and the clock's *)
(* only takes updates away and marks some as had, all of them ones that    *)
(* are in the table or in the drain's hand.                                *)
(***************************************************************************)

\* Numbers in the tables and in the drain's hand are of updates that were sent.
WasSent ==
  /\ \A k \in Cells : updates[k] # NULL => updates[k].n \in 1 .. sent[k[1]]
  /\ drain.at = "sending" => drain.n \in 1 .. sent[drain.key[1]]

\* The ids of a bot's updates are in the order in which these were queued.
QueuedInOrder ==
  \A b \in Bots, i, j \in Ids :
    (i < j /\ updates[<<b, i>>] # NULL /\ updates[<<b, j>>] # NULL)
      => updates[<<b, i>>].n < updates[<<b, j>>].n

InTable(e) == \E k \in Cells : updates[k] # NULL /\ e = <<k[1], updates[k].n>>
InHand(e)  == drain.at = "sending" /\ e = <<drain.key[1], drain.n>>

\* A step that adds nothing.
Takes ==
  /\ \A k \in Cells : updates'[k] \in {NULL, updates[k]}
  /\ UNCHANGED <<now, sent>>
  /\ released \subseteq released'
  /\ \A e \in released' \ released : InTable(e) \/ InHand(e)
  /\ drain'.at = "sending" =>
       LET e == <<drain'.key[1], drain'.n>> IN InTable(e) \/ InHand(e)

LEMMA StillTakes ==
  ASSUME UNCHANGED <<updates, now, sent, released>>,
         drain'.at = "sending" =>
           drain.at = "sending" /\ drain'.key = drain.key /\ drain'.n = drain.n
  PROVE  Takes
  BY DEF Takes, InHand

LEMMA EventsInTable ==
  ASSUME NEW C \in SUBSET Cells, NEW u, \A k \in C : u[k] \in {NULL, updates[k]}
  PROVE  \A e \in Events(u, C) : InTable(e)
  BY DEF Events, InTable

LEMMA PollTakes ==
  ASSUME IInv, NEW b \in Bots, NEW off \in Int, NEW lim \in Limits,
         GetUpdates(b, off, lim), webhook' = webhook,
         off <= known[b] + 1 \/ \A i \in Ids : updates[<<b, i>>] = NULL,
         UNCHANGED <<drain, sent, now>>
  PROVE  Takes
  <1> DEFINE u   == Purged(updates)
             got == Returned(u, b, off, lim)
             C   == {b} \X (IF off < 0 THEN IdsOf(u, b) ELSE got)
  <1>1. Shrinks /\ released \subseteq released'
    BY GetUpdatesFacts
  <1>2. released' = released \/ released' = released \cup Events(u, C)
    BY DEF GetUpdates
  <1>3. C \subseteq Cells /\ \A k \in C : u[k] \in {NULL, updates[k]}
    BY DEF Returned, First, Last, IdsOf, Purged, Cells
  <1>4. \A e \in Events(u, C) : InTable(e)
    BY <1>3, EventsInTable
  <1>5. \A e \in released' \ released : InTable(e)
    BY <1>2, <1>4
  <1> QED  BY <1>1, <1>5 DEF Takes, Shrinks, InHand

\* A drop, and a reset.
LEMMA ForgetTakes ==
  ASSUME \A k \in Cells : updates'[k] \in {NULL, updates[k]},
         released' \in {released, Forgotten(updates')}, UNCHANGED <<now, sent>>,
         drain'.at = "sending" =>
           drain.at = "sending" /\ drain'.key = drain.key /\ drain'.n = drain.n
  PROVE  Takes
  <1> DEFINE C == {k \in Cells : updates'[k] = NULL}
  <1>1. \A e \in Events(updates, C) : InTable(e)
    BY EventsInTable
  <1>2. released' = released \/ released' = released \cup Events(updates, C)
    BY DEF Forgotten
  <1> QED  BY <1>1, <1>2 DEF Takes, InHand

LEMMA CallTakes ==
  ASSUME IInv,
         \/ \E b \in Bots, drop \in BOOLEAN : SetWebhook(b, drop) \/ DeleteWebhook(b, drop)
         \/ Seed \/ SeedFails \/ Restart
  PROVE  Takes
  <1>1. drain \in Drain
    BY DEF IInv, TypeOK
  <1>2. \A d \in {drain, Cancelled(drain)} :
          /\ d.at = "sending" => drain.at = "sending" /\ d.key = drain.key /\ d.n = drain.n
          /\ Scheduled(d).at = "sending" =>
               drain.at = "sending" /\ Scheduled(d).key = drain.key /\ Scheduled(d).n = drain.n
    BY <1>1 DEF Cancelled, Scheduled, Queued, Off, Drain
  <1>3. ASSUME NEW b \in Bots, NEW drop \in BOOLEAN, SetWebhook(b, drop) \/ DeleteWebhook(b, drop)
        PROVE  Takes
    <2>1. /\ updates' = IF drop THEN Without(b) ELSE updates
          /\ released' = IF drop THEN Forgotten(updates') ELSE released
          /\ UNCHANGED <<now, sent>>
          /\ drain' \in {Scheduled(drain), Scheduled(Cancelled(drain))}
      BY <1>3 DEF SetWebhook, DeleteWebhook, Called, Notify
    <2>2. \A k \in Cells : updates'[k] \in {NULL, updates[k]}
      BY <2>1 DEF Without
    <2> QED  BY <1>2, <2>1, <2>2, ForgetTakes
  <1>4. CASE Seed
    BY <1>2, <1>4, ForgetTakes DEF Seed, Called
  <1>5. CASE SeedFails
    BY <1>2, <1>5, StillTakes DEF SeedFails, Called, tables, history
  <1>6. CASE Restart
    <2>1. drain'.at = "queued"
      BY <1>6 DEF Restart, Registered, Queued, Off
    <2> QED  BY <1>6, <2>1, StillTakes DEF Restart, Called, tables, history
  <1> QED  BY <1>3, <1>4, <1>5, <1>6

\* What a flush takes in hand is in the table.
LEMMA ContinueInHand ==
  ASSUME IInv, NEW o, NEW u, NEW d \in Drain, Continue(o, u, d),
         \A k \in Cells : o[k] # NULL => u[k] # NULL,
         \A k \in Cells : u[k] \in {NULL, updates[k]}
  PROVE  drain'.at = "sending" => InTable(<<drain'.key[1], drain'.n>>)
  <1> DEFINE claimable == {k \in d.rest : o[k] # NULL /\ o[k].locked <= d.began}
  <1> SUFFICES ASSUME drain'.at = "sending" PROVE InTable(<<drain'.key[1], drain'.n>>)
    OBVIOUS
  <1>1. PICK k \in claimable : drain' = [d EXCEPT !.at = "sending", !.key = k, !.n = u[k].n,
                                                  !.rest = claimable \ {k}]
    <2>1. Queued.at # "sending" /\ Off.at # "sending"
      BY DEF Queued, Off
    <2>2. drain' # (IF d.full \/ ~d.sched THEN Queued ELSE Off)
      BY <2>1
    <2> QED  BY <2>2 DEF Continue
  <1>2. drain'.key = k /\ drain'.n = u[k].n /\ k \in Cells
    BY <1>1 DEF Drain
  <1>3. u[k] = updates[k] /\ updates[k] # NULL
    BY <1>2
  <1> QED  BY <1>2, <1>3 DEF InTable

LEMMA DrainTakes == ASSUME IInv, DrainStep PROVE Takes
  <1>1. drain \in Drain /\ \A k \in Cells : outbox[k] # NULL => updates[k] # NULL
    BY DEF IInv, TypeOK, OutboxCoversQueue
  <1>2. CASE FlushBegins
    <2> DEFINE o == Cascade(outbox, updates')
               due == {k \in Offered(o) : o[k].due <= now /\ o[k].locked <= now}
    <2>1. updates' = Purged(updates) /\ UNCHANGED <<now, sent, released>>
      BY <1>2 DEF FlushBegins, history, counts
    <2>2. PICK batch \in SUBSET due :
            Continue(o, updates', [drain EXCEPT !.rest = batch, !.began = now,
                          !.full = Cardinality(batch) >= Batch, !.live = TRUE])
      BY <1>2 DEF FlushBegins
    <2> DEFINE full == Cardinality(batch) >= Batch
               d    == [drain EXCEPT !.rest = batch, !.began = now, !.full = full, !.live = TRUE]
    <2>3. d \in Drain
      <3>1. batch \in SUBSET Cells /\ full \in BOOLEAN /\ now \in Nat
        BY DEF Offered, IInv, TypeOK
      <3> HIDE DEF full
      <3> QED  BY <1>1, <3>1 DEF Drain
    <2>4. \A k \in Cells : updates'[k] \in {NULL, updates[k]}
      BY <2>1 DEF Purged
    <2>5. \A k \in Cells : o[k] # NULL => updates'[k] # NULL
      BY DEF Cascade
    <2>6. Continue(o, updates', d)
      BY <2>2
    <2> HIDE DEF o, d
    <2>7. drain'.at = "sending" => InTable(<<drain'.key[1], drain'.n>>)
      BY <2>3, <2>4, <2>5, <2>6, ContinueInHand
    <2> QED  BY <2>1, <2>4, <2>7 DEF Takes
  <1>3. CASE Acknowledged
    <2>1. /\ drain.at = "sending" /\ updates' = [updates EXCEPT ![drain.key] = NULL]
          /\ Continue([outbox EXCEPT ![drain.key] = NULL], updates, drain)
          /\ released' = released \cup {<<drain.key[1], drain.n>>}
          /\ UNCHANGED <<now, sent>>
      BY <1>3 DEF Acknowledged, counts
    <2>2. \A k \in Cells : [outbox EXCEPT ![drain.key] = NULL][k] # NULL => updates[k] # NULL
      BY <1>1 DEF IInv, TypeOK
    <2>3. drain'.at = "sending" => InTable(<<drain'.key[1], drain'.n>>)
      BY <1>1, <2>1, <2>2, ContinueInHand
    <2>4. \A k \in Cells : updates'[k] \in {NULL, updates[k]}
      BY <2>1 DEF IInv, TypeOK
    <2> QED  BY <2>1, <2>3, <2>4 DEF Takes, InHand
  <1>4. CASE Rescheduled
    <2> DEFINE e == outbox[drain.key]
               o == IF e = NULL THEN outbox
                    ELSE [outbox EXCEPT ![drain.key] =
                            [attempts |-> e.attempts + 1, locked |-> 0,
                             due |-> drain.began + Delay(e.attempts + 1)]]
    <2>1. /\ drain.at = "sending" /\ Continue(o, updates, drain)
          /\ UNCHANGED <<updates, now, sent, released>>
      BY <1>4 DEF Rescheduled, history, counts
    <2>2. \A k \in Cells : o[k] # NULL => updates[k] # NULL
      BY <1>1 DEF IInv, TypeOK
    <2> HIDE DEF o
    <2>3. drain'.at = "sending" => InTable(<<drain'.key[1], drain'.n>>)
      BY <1>1, <2>1, <2>2, ContinueInHand
    <2> QED  BY <2>1, <2>3 DEF Takes
  <1>5. CASE Abandoned
    <2>1. drain.at = "sending" /\ drain'.at # "sending" /\ UNCHANGED <<updates, now, sent>>
      BY <1>5 DEF Abandoned, tables, counts, Queued, Off
    <2>2. released' \in {released, released \cup {<<drain.key[1], drain.n>>}}
      BY <1>5 DEF Abandoned
    <2> QED  BY <2>1, <2>2 DEF Takes, InHand
  <1> QED  BY <1>2, <1>3, <1>4, <1>5 DEF DrainStep

LEMMA NextTakes ==
  ASSUME IInv, Next
  PROVE  Takes \/ Tick \/ \E S \in SUBSET Bots \ {{}} : SendMessage(S)
  <1>1. CASE \E b \in Bots, lim \in Limits :
               \/ \E off \in Offsets(b), wait \in BOOLEAN : Poll(b, off, lim, wait)
               \/ PollResumes(b, lim)
    <2>1. PICK b \in Bots, lim \in Limits :
               \/ \E off \in Offsets(b), wait \in BOOLEAN : Poll(b, off, lim, wait)
               \/ PollResumes(b, lim)
      BY <1>1
    <2>2. CASE \E off \in Offsets(b), wait \in BOOLEAN : Poll(b, off, lim, wait)
      <3>1. PICK off \in Offsets(b), wait \in BOOLEAN : Poll(b, off, lim, wait)
        BY <2>2
      <3>2. off \in Int /\ off <= known[b] + 1
        BY DEF Offsets, IInv, TypeOK
      <3>3. GetUpdates(b, off, lim) /\ UNCHANGED <<webhook, drain, sent, now>>
        BY <3>1 DEF Poll, counts
      <3> QED  BY <3>2, <3>3, PollTakes
    <2>3. CASE PollResumes(b, lim)
      <3>1. /\ GetUpdates(b, poll[b].offset, lim) /\ poll[b].at = "woken"
            /\ UNCHANGED <<webhook, drain, sent, now>>
        BY <2>3 DEF PollResumes, counts
      <3>2. /\ poll[b].offset \in Int
            /\ poll[b].offset <= known[b] + 1 \/ \A i \in Ids : updates[<<b, i>>] = NULL
        BY <3>1 DEF IInv, TypeOK, OffsetsKnown
      <3> QED  BY <3>1, <3>2, PollTakes
    <2> QED  BY <2>1, <2>2, <2>3
  <1>2. CASE \E b \in Bots : PollTimesOut(b)
    BY <1>2, StillTakes DEF PollTimesOut, tables, history, counts
  <1>3. CASE GetWebhookInfo
    BY <1>3 DEF GetWebhookInfo, Takes, InHand, Purged, counts
  <1>4. CASE TimerFires
    BY <1>4, StillTakes DEF TimerFires, Scheduled, Queued, Off, tables, history, counts
  <1>5. CASE \/ \E b \in Bots, drop \in BOOLEAN : SetWebhook(b, drop) \/ DeleteWebhook(b, drop)
             \/ Seed \/ SeedFails \/ Restart
    BY <1>5, CallTakes
  <1> QED  BY <1>1, <1>2, <1>3, <1>4, <1>5, DrainTakes DEF Next

LEMMA HeldWasSent ==
  ASSUME IInv, WasSent, NEW e, InTable(e) \/ InHand(e)
  PROVE  e[1] \in Bots /\ e[2] \in 1 .. sent[e[1]]
  <1>1. CASE InTable(e)
    BY <1>1, CellFacts DEF InTable, WasSent
  <1>2. CASE InHand(e)
    BY <1>2, CellFacts DEF InHand, WasSent, IInv, InFlight
  <1> QED  BY <1>1, <1>2

\* A message gets the next number under the next id.
LEMMA SendFacts ==
  ASSUME IInv, NEW S \in SUBSET Bots, SendMessage(S)
  PROVE  /\ UNCHANGED <<now, released>>
         /\ sent' = [b \in Bots |-> IF b \in S THEN sent[b] + 1 ELSE sent[b]]
         /\ \A b \in S : nextId[b] \in Ids /\ updates[<<b, nextId[b]>>] = NULL
         /\ \A b \in Bots, i \in Ids : updates'[<<b, i>>] =
              IF b \in S /\ i = nextId[b] THEN [n |-> sent[b] + 1, at |-> now]
                                          ELSE updates[<<b, i>>]
         /\ drain'.at = "sending" =>
              drain.at = "sending" /\ drain'.key = drain.key /\ drain'.n = drain.n
  <1> DEFINE new == {<<b, nextId[b]>> : b \in S}
  <1>1. /\ \A b \in S : nextId[b] \in Ids
        /\ updates' = [k \in Cells |->
              IF k \in new THEN [n |-> sent[k[1]] + 1, at |-> now] ELSE updates[k]]
        /\ sent' = [b \in Bots |-> IF b \in S THEN sent[b] + 1 ELSE sent[b]]
        /\ drain' = Scheduled(drain) /\ UNCHANGED <<now, released>>
    BY DEF SendMessage, counts
  <1>2. \A b \in Bots, i \in Ids : <<b, i>> \in Cells /\ (<<b, i>> \in new <=> b \in S /\ i = nextId[b])
    BY DEF Cells
  <1>3. ASSUME NEW b \in S PROVE updates[<<b, nextId[b]>>] = NULL
    <2>1. <<b, nextId[b]>> \in Cells /\ ~ nextId[b] < nextId[b]
      BY <1>1, <1>2 DEF IInv, TypeOK
    <2> QED  BY <2>1 DEF IInv, Numbered
  <1>4. \A b \in Bots, i \in Ids : updates'[<<b, i>>] =
          IF b \in S /\ i = nextId[b] THEN [n |-> sent[b] + 1, at |-> now] ELSE updates[<<b, i>>]
    BY <1>1, <1>2
  <1>5. drain'.at = "sending" => drain' = drain
    BY <1>1 DEF Scheduled, Queued, Off
  <1> QED  BY <1>1, <1>3, <1>4, <1>5

LEMMA WasSentStep == IInv /\ WasSent /\ [Next]_vars => WasSent'
  <1> SUFFICES ASSUME IInv, WasSent, [Next]_vars PROVE WasSent'
    OBVIOUS
  <1>1. CASE Takes
    <2>1. \A k \in Cells : updates'[k] # NULL => updates'[k].n \in 1 .. sent'[k[1]]
      BY <1>1 DEF Takes, WasSent
    <2>2. ASSUME drain'.at = "sending" PROVE drain'.n \in 1 .. sent'[drain'.key[1]]
      BY <1>1, <2>2, HeldWasSent DEF Takes
    <2> QED  BY <2>1, <2>2 DEF WasSent
  <1>2. ASSUME NEW S \in SUBSET Bots, SendMessage(S) PROVE WasSent'
    <2>1. \A b \in Bots : sent[b] \in Nat /\ sent'[b] \in {sent[b], sent[b] + 1}
      BY <1>2, SendFacts DEF IInv, TypeOK
    <2>2. ASSUME NEW b \in Bots, NEW i \in Ids, updates'[<<b, i>>] # NULL
          PROVE  updates'[<<b, i>>].n \in 1 .. sent'[b]
      <3>1. CASE b \in S /\ i = nextId[b]
        <4>1. updates'[<<b, i>>].n = sent[b] + 1 /\ sent'[b] = sent[b] + 1
          <5> DEFINE r == [n |-> sent[b] + 1, at |-> now]
          <5>1. updates'[<<b, i>>] = r /\ sent'[b] = sent[b] + 1
            BY <1>2, <3>1, SendFacts
          <5> QED  BY <5>1
        <4>2. sent[b] \in Nat
          BY DEF IInv, TypeOK
        <4>3. \A m \in Nat : m + 1 \in 1 .. m + 1
          OBVIOUS
        <4> QED  BY <4>1, <4>2, <4>3
      <3>2. CASE ~(b \in S /\ i = nextId[b])
        <4>1. updates'[<<b, i>>] = updates[<<b, i>>] /\ <<b, i>> \in Cells
          BY <1>2, <3>2, SendFacts DEF Cells
        <4>2. updates[<<b, i>>].n \in 1 .. sent[b]
          BY <2>2, <4>1 DEF WasSent
        <4> QED  BY <2>1, <4>1, <4>2
      <3> QED  BY <3>1, <3>2
    <2>3. \A k \in Cells : updates'[k] # NULL => updates'[k].n \in 1 .. sent'[k[1]]
      BY <2>2, CellFacts
    <2>4. ASSUME drain'.at = "sending" PROVE drain'.n \in 1 .. sent'[drain'.key[1]]
      <3>1. drain.at = "sending" /\ drain'.key = drain.key /\ drain'.n = drain.n
        BY <1>2, <2>4, SendFacts
      <3>2. drain.key[1] \in Bots /\ drain.n \in 1 .. sent[drain.key[1]]
        BY <3>1, CellFacts DEF IInv, InFlight, WasSent
      <3> QED  BY <2>1, <3>1, <3>2
    <2> QED  BY <2>3, <2>4 DEF WasSent
  <1>3. CASE Tick
    BY <1>3 DEF Tick, tables, history, WasSent
  <1>4. CASE UNCHANGED vars
    BY <1>4 DEF vars, tables, history, WasSent
  <1> QED  BY <1>1, <1>2, <1>3, <1>4, NextTakes

LEMMA InOrderStep == IInv /\ WasSent /\ QueuedInOrder /\ [Next]_vars => QueuedInOrder'
  <1> SUFFICES ASSUME IInv, WasSent, QueuedInOrder, [Next]_vars PROVE QueuedInOrder'
    OBVIOUS
  <1>1. CASE Takes
    BY <1>1 DEF Takes, QueuedInOrder, Cells
  <1>2. ASSUME NEW S \in SUBSET Bots, SendMessage(S) PROVE QueuedInOrder'
    <2> SUFFICES ASSUME NEW b \in Bots, NEW i \in Ids, NEW j \in Ids, i < j,
                        updates'[<<b, i>>] # NULL, updates'[<<b, j>>] # NULL
                 PROVE  updates'[<<b, i>>].n < updates'[<<b, j>>].n
      BY DEF QueuedInOrder
    <2>1. \A x \in Ids : updates[<<b, x>>] # NULL =>
                           x < nextId[b] /\ updates[<<b, x>>].n \in 1 .. sent[b]
      <3> SUFFICES ASSUME NEW x \in Ids, updates[<<b, x>>] # NULL
                   PROVE  x < nextId[b] /\ updates[<<b, x>>].n \in 1 .. sent[b]
        OBVIOUS
      <3> DEFINE k == <<b, x>>
      <3>1. k \in Cells /\ k[1] = b /\ k[2] = x
        BY CellFacts
      <3> QED  BY <3>1 DEF IInv, Numbered, WasSent
    <2>2. nextId[b] \in Nat /\ sent[b] \in Nat /\ i \in Nat /\ j \in Nat
      BY CellFacts DEF IInv, TypeOK
    <2>3. \A x \in Ids : updates'[<<b, x>>] =
            IF b \in S /\ x = nextId[b] THEN [n |-> sent[b] + 1, at |-> now]
                                        ELSE updates[<<b, x>>]
      BY <1>2, SendFacts
    <2>4. ~(b \in S /\ i = nextId[b])
      <3> SUFFICES ASSUME b \in S, i = nextId[b] PROVE FALSE
        OBVIOUS
      <3>1. updates'[<<b, j>>] = updates[<<b, j>>]
        BY <2>2, <2>3
      <3> QED  BY <2>1, <2>2, <3>1
    <2>5. CASE b \in S /\ j = nextId[b]
      <3>1. updates'[<<b, j>>].n = sent[b] + 1
        BY <2>3, <2>5
      <3>2. updates'[<<b, i>>] = updates[<<b, i>>]
        BY <2>3, <2>4
      <3>3. updates[<<b, i>>].n \in 1 .. sent[b]
        BY <2>1, <3>2
      <3> QED  BY <2>2, <3>1, <3>2, <3>3
    <2>6. CASE ~(b \in S /\ j = nextId[b])
      BY <2>3, <2>4, <2>6 DEF QueuedInOrder
    <2> QED  BY <2>5, <2>6
  <1>3. CASE Tick
    BY <1>3 DEF Tick, tables, QueuedInOrder
  <1>4. CASE UNCHANGED vars
    BY <1>4 DEF vars, tables, QueuedInOrder
  <1> QED  BY <1>1, <1>2, <1>3, <1>4, NextTakes

\* How the letters of a bot change.
LEMMA TakesMaps ==
  ASSUME IInv, WasSent, Takes, \A k \in Cells : ~Lost(k)
  PROVE  Mail!Empty
  <1>1. \A e \in released' \ released : e[1] \in Bots /\ e[2] \in 1 .. sent[e[1]]
    BY HeldWasSent DEF Takes
  <1>2. ASSUME NEW b \in Bots
        PROVE  /\ Letters(b)' \subseteq Letters(b)
               /\ \A x \in Letters(b) \ Letters(b)' :
                    <<b, x.n>> \in released' \/ x.at <= now - Retention
    <2>1. \A i \in Ids : <<b, i>> \in Cells /\ updates'[<<b, i>>] \in {NULL, updates[<<b, i>>]}
      BY DEF Takes, Cells
    <2>2. ASSUME NEW x \in Letters(b) \ Letters(b)'
          PROVE  <<b, x.n>> \in released' \/ x.at <= now - Retention
      <3>1. PICK i \in Ids : x = updates[<<b, i>>] /\ x # NULL
        BY DEF Letters
      <3>2. updates'[<<b, i>>] # updates[<<b, i>>]
        BY <2>2, <3>1 DEF Letters
      <3>3. ~Lost(<<b, i>>)
        BY <2>1
      <3> QED  BY <3>1, <3>2, <3>3 DEF Lost, Expired
    <2> QED  BY <2>1, <2>2 DEF Letters
  <1> QED  BY <1>1, <1>2 DEF Mail!Empty, Mail!Stale, Takes

LEMMA SendMaps ==
  ASSUME IInv, NEW S \in SUBSET Bots, SendMessage(S)
  PROVE  Mail!Post(S)
  <1>1. ASSUME NEW b \in Bots
        PROVE  Letters(b)' = Letters(b) \cup
                 (IF b \in S THEN {[n |-> sent[b] + 1, at |-> now]} ELSE {})
    <2> DEFINE x == [n |-> sent[b] + 1, at |-> now]
    <2>1. x # NULL
      BY NullAssumption DEF IInv, TypeOK, Row
    <2>2. b \in S => nextId[b] \in Ids /\ updates[<<b, nextId[b]>>] = NULL
      BY SendFacts
    <2>3. \A i \in Ids : updates'[<<b, i>>] =
            IF b \in S /\ i = nextId[b] THEN x ELSE updates[<<b, i>>]
      BY SendFacts
    <2> HIDE DEF x
    <2>4. CASE b \in S
      <3>1. updates'[<<b, nextId[b]>>] = x /\ nextId[b] \in Ids
        BY <2>2, <2>3, <2>4
      <3>2. \A i \in Ids : updates[<<b, i>>] # NULL => updates'[<<b, i>>] = updates[<<b, i>>]
        BY <2>2, <2>3, <2>4
      <3>3. \A i \in Ids : updates'[<<b, i>>] \in {x, updates[<<b, i>>]}
        BY <2>3
      <3>4. Letters(b)' \subseteq Letters(b) \cup {x}
        BY <3>3 DEF Letters
      <3>5. Letters(b) \cup {x} \subseteq Letters(b)'
        BY <2>1, <3>1, <3>2 DEF Letters
      <3> QED  BY <2>4, <3>4, <3>5 DEF x
    <2>5. CASE b \notin S
      BY <2>3, <2>5 DEF Letters
    <2> QED  BY <2>4, <2>5
  <1> QED  BY <1>1, SendFacts DEF Mail!Post

LEMMA NextMaps ==
  IInv /\ WasSent /\ [Next]_vars => [Mail!mvars' # Mail!mvars /\ Mail!Next]_(Mail!mvars)
  <1> SUFFICES ASSUME IInv, WasSent, [Next]_vars, Mail!mvars' # Mail!mvars
               PROVE  Mail!Next
    OBVIOUS
  <1>1. Next
    BY DEF vars, tables, history, counts, Mail!mvars, Letters
  <1>2. CASE Takes
    BY <1>1, <1>2, TakesMaps, NextIInv DEF Mail!Next
  <1>3. CASE \E S \in SUBSET Bots \ {{}} : SendMessage(S)
    BY <1>3, SendMaps DEF Mail!Next
  <1>4. CASE Tick
    BY <1>4 DEF Tick, tables, history, Letters, Mail!Pass, Mail!Next
  <1> QED  BY <1>1, <1>2, <1>3, <1>4, NextTakes

LEMMA SentAlways == Spec => []WasSent
  <1>1. Init => WasSent
    BY DEF Init, WasSent, Registered, Queued, Off
  <1> QED  BY <1>1, WasSentStep, Inductive, PTL DEF Spec

\* The ids of a bot's updates follow the order in which these were sent, through
\* resets that start the ids over: a client that polls in order of ids and
\* confirms the last one it saw has seen every earlier update that is there.
THEOREM QueuedInOrderAlways == Spec => []QueuedInOrder
  <1>1. Init => QueuedInOrder
    BY DEF Init, QueuedInOrder, Cells
  <1> QED  BY <1>1, InOrderStep, SentAlways, Inductive, PTL DEF Spec

\* The queue implements Mailbox: whatever the polls, webhooks, retries, resets
\* and restarts do, an update stays until it was had, given up or expired, and
\* one that left is never queued again.
THEOREM DeliversAlways == Spec => Delivers
  <1>1. Init => Mail!Init
    <2> SUFFICES ASSUME Init PROVE Mail!Init
      OBVIOUS
    <2>1. ASSUME NEW b \in Bots PROVE Letters(b) = {}
      <3>1. \A i \in Ids : updates[<<b, i>>] = NULL
        BY CellFacts DEF Init
      <3> QED  BY <3>1 DEF Letters
    <2> QED  BY <2>1 DEF Init, Mail!Init
  <1> QED  BY <1>1, NextMaps, SentAlways, Inductive, PTL DEF Spec, Delivers, Mail!Spec
=============================================================================
