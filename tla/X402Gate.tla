------------------------------ MODULE X402Gate ------------------------------
(***************************************************************************)
(* The seller-side x402 middleware of the Stripe twin (src/x402.ts): a     *)
(* request without payment is answered 402 with an accepts list, one       *)
(* PaymentIntent minted or reused per entry; a request with an X-PAYMENT   *)
(* header is matched against the challenges handed out, its PaymentIntent  *)
(* is settled on the twin over HTTP, and the wrapped handler serves it.    *)
(*                                                                         *)
(* Requests interleave at their awaits: the calls that mint, settle and    *)
(* retrieve a PaymentIntent.  A call's effect on the twin and the return   *)
(* of its answer are one step, except where the answer of a deposit is     *)
(* lost.  A price stands for an amount and the network it is priced on;    *)
(* the deposit address of a PaymentIntent is the PaymentIntent's number.   *)
(* Requests to routes that are not gated pass it by and are left out.      *)
(***************************************************************************)
EXTENDS Integers, Sequences, FiniteSets

CONSTANTS
  Requests, Routes, NULL,
  Accepts,     \* the accepts list of a route: a sequence of [price, payTo], payTo
               \* an explicit address or NULL
  Addresses,   \* the explicit addresses
  Prices, Nonces,
  NoPayment,   \* what arrives without an X-PAYMENT header, or with a malformed one
  TTL,         \* challengeTtlMs
  MaxPIs,      \* bound on the PaymentIntents minted
  MaxTime      \* bound on the clock

PIs    == 1 .. MaxPIs
PayTos == PIs \cup Addresses
Entry  == [price : Prices, payTo : Addresses \cup {NULL}]

ASSUME BoundAssumption == MaxPIs \in Nat /\ MaxTime \in Nat /\ TTL \in Nat
ASSUME AcceptsAssumption == Accepts \in [Routes -> Seq(Entry)]

\* An X-PAYMENT header; two payers differ in the nonce.
Payment == [to : PayTos, value : Prices, nonce : Nonces]
Header  == Payment \cup {NoPayment}
Request == [route : Routes, header : Header]

Challenge == [route : Routes, index : Nat, price : Prices, pi : PIs, createdAt : Nat]

ASSUME DistinctAssumption ==
  /\ Addresses \cap Nat = {}
  /\ NULL \notin PayTos \cup Prices \cup Payment \cup Request \cup Challenge

VARIABLES
  now,       \* the clock
  phase,     \* the PaymentIntents on the twin
  price,     \* what each was minted for
  book,      \* ChallengeCache.byPayTo
  settled,   \* ChallengeCache.byPaymentHeader
  pc, req,   \* the place of a request, its route and header
  index,     \* the accepts entry it is at
  target,    \* the PaymentIntent of the challenge it matched
  answer,    \* what it was answered
  offers,    \* the accepts entries handed out
  chargedBy  \* the payment that settled a PaymentIntent

twin == <<phase, price, chargedBy>>
gate == <<book, settled>>
vars == <<now, twin, gate, pc, req, index, target, offers, answer>>

TypeOK ==
  /\ now \in 0 .. MaxTime
  /\ phase \in [PIs -> {"none", "open", "paid", "gone"}]
  /\ price \in [PIs -> Prices \cup {NULL}]
  /\ chargedBy \in [PIs -> Payment \cup {NULL}]
  /\ book \in [PayTos -> Challenge \cup {NULL}] /\ settled \subseteq Payment
  /\ pc \in [Requests -> {"idle", "offering", "minting", "settling", "retrieving", "done"}]
  /\ req \in [Requests -> Request \cup {NULL}]
  /\ index \in [Requests -> Nat \ {0}]
  /\ target \in [Requests -> PIs \cup {NULL}]
  /\ offers \subseteq [payTo : PayTos, price : Prices, until : Nat]
  /\ answer \in [Requests -> {"none", "served", "402", "500"}]

Init ==
  /\ now = 0
  /\ phase = [p \in PIs |-> "none"] /\ price = [p \in PIs |-> NULL]
  /\ chargedBy = [p \in PIs |-> NULL]
  /\ book = [a \in PayTos |-> NULL] /\ settled = {}
  /\ pc = [r \in Requests |-> "idle"] /\ req = [r \in Requests |-> NULL]
  /\ index = [r \in Requests |-> 1] /\ target = [r \in Requests |-> NULL]
  /\ offers = {}
  /\ answer = [r \in Requests |-> "none"]

-----------------------------------------------------------------------------
(* Helpers. *)

At(r, label)   == pc[r] = label
Goto(r, label) == pc' = [pc EXCEPT ![r] = label]
Answer(r, a)   == Goto(r, "done") /\ answer' = [answer EXCEPT ![r] = a]
Hdr(r)         == req[r].header
EntryOf(r)     == Accepts[req[r].route][index[r]]

\* lookupByPayTo evicts a challenge that is older than its TTL.
Expired(c) == c # NULL /\ now - c.createdAt > TTL
Lookup(a)  == IF Expired(book[a]) THEN NULL ELSE book[a]
Evict(a)   == IF Expired(book[a]) THEN [book EXCEPT ![a] = NULL] ELSE book

\* What of a header is compared with the challenge it names.
Matches(h, c)  == c # NULL /\ h.value = c.price

\* findReusable: the first fresh challenge of this route, entry and price.
Alike(r, c) == c # NULL /\ c.index = index[r] /\ now - c.createdAt < TTL
Fresh(r, c) == /\ c # NULL
               /\ c.route = req[r].route /\ c.index = index[r]
               /\ c.price = EntryOf(r).price
               /\ now - c.createdAt < TTL
Reusable(r) == {a \in PIs : Fresh(r, book[a])}

\* The address an entry is offered at.
OneAddress(e, p) == IF e.payTo # NULL THEN e.payTo ELSE 1
PayTo(e, p)      == IF e.payTo # NULL THEN e.payTo ELSE p

\* The next round of buildAcceptsList.
SameEntry(r) == index[r]
NextEntry(r) == index[r] + 1

\* The entry is pushed and its challenge (re)written, stamped with the clock.
Offer(r, a, p) ==
  /\ book' = [book EXCEPT ![a] =
       [route |-> req[r].route, index |-> index[r], price |-> EntryOf(r).price,
        pi |-> p, createdAt |-> now]]
  /\ offers' = offers \cup {[payTo |-> a, price |-> EntryOf(r).price, until |-> now + TTL]}
  /\ index' = [index EXCEPT ![r] = NextEntry(r)]

\* simulate_crypto_deposit succeeds on an open PaymentIntent only.
Known(p)     == phase[p] # "gone"
Succeeded(p) == phase[p] = "paid"

\* rememberSettled is keyed by the header.
ByPayer(r)    == [Hdr(r) EXCEPT !.value = NULL]
SettledKey(r) == Hdr(r)

-----------------------------------------------------------------------------
(* A request's way through the middleware. *)

\* A request without payment or without a live challenge is answered 402 once
\* the accepts list is built; a header settled before is served at once.
Arrive(r, route, h) ==
  /\ At(r, "idle")
  /\ req' = [req EXCEPT ![r] = [route |-> route, header |-> h]]
  /\ \/ /\ h \notin Payment
        /\ Goto(r, "offering")
        /\ UNCHANGED <<gate, target, answer>>
     \/ /\ h \in settled
        /\ Answer(r, "served")
        /\ UNCHANGED <<gate, target>>
     \/ /\ h \in Payment \ settled
        /\ book' = Evict(h.to)
        /\ IF Matches(h, Lookup(h.to))
             THEN /\ target' = [target EXCEPT ![r] = Lookup(h.to).pi]
                  /\ Goto(r, "settling")
             ELSE Goto(r, "offering") /\ UNCHANGED target
        /\ UNCHANGED <<settled, answer>>
  /\ UNCHANGED <<now, twin, index, offers>>

\* buildAcceptsList: an entry with an explicit address always mints, another
\* reuses a fresh challenge, which counts as new from here on.
Reuse(r) ==
  /\ At(r, "offering") /\ index[r] <= Len(Accepts[req[r].route])
  /\ EntryOf(r).payTo = NULL
  /\ \E a \in Reusable(r) : /\ \A b \in Reusable(r) : a <= b
                            /\ Offer(r, a, book[a].pi)
  /\ UNCHANGED <<now, twin, settled, pc, req, target, answer>>

StartMint(r) ==
  /\ At(r, "offering") /\ index[r] <= Len(Accepts[req[r].route])
  /\ EntryOf(r).payTo # NULL \/ Reusable(r) = {}
  /\ Goto(r, "minting")
  /\ UNCHANGED <<now, twin, gate, req, index, target, offers, answer>>

Mint(r) ==
  /\ At(r, "minting")
  /\ \E p \in PIs :
       /\ phase[p] = "none" /\ \A q \in PIs : q < p => phase[q] # "none"
       /\ phase' = [phase EXCEPT ![p] = "open"]
       /\ price' = [price EXCEPT ![p] = EntryOf(r).price]
       /\ Offer(r, PayTo(EntryOf(r), p), p)
  /\ Goto(r, "offering")
  /\ UNCHANGED <<now, chargedBy, settled, req, target, answer>>

\* The twin cannot be reached: the error leaves the middleware.
MintFails(r) ==
  /\ At(r, "minting")
  /\ Answer(r, "500")
  /\ UNCHANGED <<now, twin, gate, req, index, target, offers>>

Challenged(r) ==
  /\ At(r, "offering") /\ index[r] > Len(Accepts[req[r].route])
  /\ Answer(r, "402")
  /\ UNCHANGED <<now, twin, gate, req, index, target, offers>>

\* The header is remembered and the wrapped handler serves the request.
Serve(r) ==
  /\ settled' = settled \cup {SettledKey(r)}
  /\ Answer(r, "served")
  /\ UNCHANGED book

\* The deposit: accepted while the PaymentIntent is open, its answer returned or
\* lost on the way; a call that fails is followed by a retrieve.
Deposit(r) ==
  /\ At(r, "settling")
  /\ LET p == target[r] IN
       \/ /\ phase[p] = "open"
          /\ phase' = [phase EXCEPT ![p] = "paid"]
          /\ chargedBy' = [chargedBy EXCEPT ![p] = Hdr(r)]
          /\ \/ Serve(r)
             \/ Goto(r, "retrieving") /\ UNCHANGED <<gate, answer>>
       \/ Goto(r, "retrieving") /\ UNCHANGED <<phase, chargedBy, gate, answer>>
  /\ UNCHANGED <<now, price, req, index, target, offers>>

\* After a failed deposit the request is served if the PaymentIntent has
\* succeeded, and challenged again otherwise.
Retrieve(r) ==
  /\ At(r, "retrieving")
  /\ \/ Succeeded(target[r]) /\ Serve(r)
     \/ Goto(r, "offering") /\ UNCHANGED <<gate, answer>>
  /\ UNCHANGED <<now, twin, req, index, target, offers>>

\* Around the middleware: time, a cancel by the account's owner and a reset of
\* the twin, after either of which a PaymentIntent is never paid.
Tick == /\ now < MaxTime /\ now' = now + 1
        /\ UNCHANGED <<twin, gate, pc, req, index, target, offers, answer>>

Cancel(p) ==
  /\ phase[p] = "open"
  /\ phase' = [phase EXCEPT ![p] = "gone"]
  /\ UNCHANGED <<now, price, chargedBy, gate, pc, req, index, target,
                 offers, answer>>

Wipe ==
  /\ \E p \in PIs : phase[p] \in {"open", "paid"}
  /\ phase' = [p \in PIs |-> IF phase[p] = "none" THEN "none" ELSE "gone"]
  /\ UNCHANGED <<now, price, chargedBy, gate, pc, req, index, target,
                 offers, answer>>

Progress(r) ==
  \/ Reuse(r) \/ StartMint(r) \/ Mint(r) \/ MintFails(r) \/ Challenged(r)
  \/ Deposit(r) \/ Retrieve(r)

Next ==
  \/ \E r \in Requests :
       \/ \E route \in Routes, h \in Header : Arrive(r, route, h)
       \/ Progress(r)
  \/ Tick \/ Wipe
  \/ \E p \in PIs : Cancel(p)

Spec == Init /\ [][Next]_vars

-----------------------------------------------------------------------------
(* Properties. *)

Charged(h) == {p \in PIs : chargedBy[p] = h}

\* Nobody is served for a payment that settled nothing: a header that was let
\* through named a PaymentIntent that has been charged, by that header or, when
\* the deposit was refused, by another one at the same price.
ServedIsPaid ==
  \A r \in Requests :
    (answer[r] = "served" /\ target[r] # NULL) =>
       /\ chargedBy[target[r]] # NULL
       /\ price[target[r]] = Hdr(r).value

\* A PaymentIntent is charged by a payment over its own price, whatever
\* challenges were rewritten between the match and the deposit.
ChargedAsPriced ==
  \A p \in PIs : chargedBy[p] # NULL => chargedBy[p].value = price[p]

\* The challenge of a minted address stays that of its PaymentIntent and of the
\* price it was offered at, for the cache's TTL from that offer on, whatever
\* maxTimeoutSeconds the 402 told the client (x402.ts, 374-460).
MintedOffersStand ==
  \A o \in offers :
    (o.payTo \in PIs /\ now <= o.until) =>
      /\ book[o.payTo] # NULL
      /\ book[o.payTo].pi = o.payTo /\ book[o.payTo].price = o.price

\* However often and however concurrently one X-PAYMENT header to a minted
\* address is sent, and whichever call fails under it, it is charged once.
MintedChargedOnce ==
  \A h \in Payment : h.to \in PIs => Charged(h) \subseteq {h.to}

\* A header remembered as settled was charged for, so that the shortcut of a
\* replay never lets an unpaid header through, even after a reset of the twin.
SettledIsBacked ==
  \A h \in settled : \E p \in PIs : /\ chargedBy[p] # NULL
                                    /\ price[p] = h.value
                                    /\ h.to \in PIs => p = h.to

\* The gate as a paywall: a PaymentIntent is a bill from its mint on, even once it
\* is canceled or wiped, and a request that was served showed its header.
W == INSTANCE Paywall WITH
       Bills <- PIs, Values <- Prices, Payments <- Payment, Guests <- Requests,
       owed <- price, paidBy <- chargedBy,
       shown <- [r \in Requests |-> IF answer[r] = "served" THEN Hdr(r) ELSE NULL]

\* Nobody gets in unpaid: whatever challenges expire, are reused or overwritten
\* while deposits fail or their answers are lost, a request is served only for a
\* payment that charged a PaymentIntent at the address and the price it names,
\* and a PaymentIntent is charged at most once and over its own price.
Collects == W!Spec

\* "MUST NOT mint a second charge" for the same header, at an explicit address.
ChargedOnce == \A h \in Payment : Cardinality(Charged(h)) <= 1
=============================================================================
