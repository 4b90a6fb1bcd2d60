---------------------------- MODULE StripeLedger ----------------------------
(***************************************************************************)
(* The Stripe twin's money tables (packages/twin-stripe/src/domain): what  *)
(* every mutating call on PaymentIntents, charges, refunds, the balance,   *)
(* customers and payment methods does to the SQLite rows and to the event  *)
(* log that agents poll.                                                   *)
(*                                                                         *)
(* Every domain method is synchronous JavaScript over a synchronous SQLite *)
(* driver, so one call is one atomic step: an action is a whole call, with *)
(* its transaction, its compare-and-set legs and the events it appends.    *)
(* A call the code refuses changes nothing and is the absence of a step.   *)
(* One account is modelled: every statement carries account_id = ?.        *)
(*                                                                         *)
(* A table is a total function from its ids to rows; the row of an id that *)
(* newId() has not minted has the status "absent".  Descriptive columns    *)
(* (metadata, timestamps, client_secret, currency) are left out.           *)
(***************************************************************************)
EXTENDS Integers, Sequences, FiniteSetsExt

CONSTANTS
  PIs, Charges, Refunds, BalanceTxs, Customers, PMs,  \* ids the tables may use
  Amounts,          \* amounts a request may carry
  SeedStatuses,     \* statuses of card PaymentIntents a seed may insert
  MaxEvents,        \* bound on the customer.updated events of one customer
  NULL,             \* SQL NULL
  KEEP              \* a parameter the request leaves out (undefined)

Unsettled == {"requires_payment_method", "requires_confirmation",
              "requires_action", "processing", "requires_capture"}
Terminal  == {"succeeded", "canceled"}

ASSUME FiniteAssumption  == \A ids \in {Charges, Refunds, BalanceTxs} : IsFiniteSet(ids)
ASSUME AmountsAssumption == Amounts \subseteq Nat \ {0}
ASSUME SeedAssumption    == SeedStatuses \subseteq Unsettled
ASSUME BoundAssumption   == MaxEvents \in Nat
ASSUME NullAssumption ==
  /\ NULL \notin PIs \cup Charges \cup Refunds \cup BalanceTxs \cup Customers \cup PMs
  /\ KEEP \notin Customers \cup PMs \cup Amounts \cup {NULL}
  /\ NULL \notin Amounts

VARIABLES
  payment_intents,       \* rows of payment_intents
  charges,               \* rows of charges
  refunds,               \* rows of refunds
  balance_transactions,  \* rows of balance_transactions
  customers,             \* rows of customers
  payment_methods,       \* rows of payment_methods
  events                 \* the event types appended for each object, in order

money == <<payment_intents, charges, refunds, balance_transactions>>
vars  == <<money, customers, payment_methods, events>>

-----------------------------------------------------------------------------
(* Rows. *)

PIRow == [rail   : {"card", "crypto"},
          status : Unsettled \cup Terminal \cup {"absent"},
          amount : Amounts \cup {0},
          payment_method_id : PMs \cup {NULL},
          customer_id       : Customers \cup {NULL},
          latest_charge_id  : Charges \cup {NULL},
          last_payment_error : BOOLEAN]

ChargeRow == [status : {"absent", "succeeded", "failed"},
              payment_intent_id : PIs \cup {NULL},
              amount          : Amounts \cup {0},
              amount_refunded : Nat,
              balance_transaction_id : BalanceTxs \cup {NULL},
              payment_method_id : PMs \cup {NULL},
              customer_id       : Customers \cup {NULL}]

RefundRow == [status    : {"absent", "succeeded"},
              charge_id : Charges \cup {NULL},
              amount    : Nat,
              balance_transaction_id : BalanceTxs \cup {NULL}]

BalanceTxRow == [status : {"absent", "available"},
                 type   : {"charge", "refund"},
                 net    : Int,
                 source_id : PIs \cup Refunds \cup {NULL}]

CustomerRow == [status : {"absent", "live", "deleted"}]

PMRow == [status      : {"absent", "present"},
          declines    : BOOLEAN,           \* fingerprint of a magic test card
          customer_id : Customers \cup {NULL},
          detached    : BOOLEAN]

NoPI     == [rail |-> "card", status |-> "absent", amount |-> 0,
             payment_method_id |-> NULL, customer_id |-> NULL,
             latest_charge_id |-> NULL, last_payment_error |-> FALSE]
NoCharge == [status |-> "absent", payment_intent_id |-> NULL, amount |-> 0,
             amount_refunded |-> 0, balance_transaction_id |-> NULL,
             payment_method_id |-> NULL, customer_id |-> NULL]
NoRefund == [status |-> "absent", charge_id |-> NULL, amount |-> 0,
             balance_transaction_id |-> NULL]
NoBalanceTx == [status |-> "absent", type |-> "charge", net |-> 0,
                source_id |-> NULL]
NoCustomer  == [status |-> "absent"]
NoPM == [status |-> "absent", declines |-> FALSE, customer_id |-> NULL,
         detached |-> FALSE]

EventTypes == {"payment_intent.created", "payment_intent.requires_action",
  "payment_intent.processing", "payment_intent.succeeded",
  "payment_intent.payment_failed", "payment_intent.canceled",
  "charge.succeeded", "charge.failed", "charge.refunded", "refund.created",
  "customer.created", "customer.updated", "customer.deleted",
  "payment_method.attached", "payment_method.detached"}

\* An event's data.object, as the kind of the object and its id.
Objects == ({"pi"} \X PIs) \cup ({"ch"} \X Charges) \cup ({"re"} \X Refunds)
             \cup ({"cus"} \X Customers) \cup ({"pm"} \X PMs)

NoEvents == [o \in Objects |-> <<>>]

TypeOK ==
  /\ payment_intents \in [PIs -> PIRow]
  /\ charges \in [Charges -> ChargeRow]
  /\ refunds \in [Refunds -> RefundRow]
  /\ balance_transactions \in [BalanceTxs -> BalanceTxRow]
  /\ customers \in [Customers -> CustomerRow]
  /\ payment_methods \in [PMs -> PMRow]
  /\ events \in [Objects -> Seq(EventTypes)]

-----------------------------------------------------------------------------
(* newId(): an id no row of the table has. *)

Room(table)  == \E i \in DOMAIN table : table[i].status = "absent"
NewId(table) == CHOOSE i \in DOMAIN table : table[i].status = "absent"

\* A parameter of a request, or the value it keeps when the request has none.
ResolveNull(param, kept) == IF param = KEEP THEN NULL ELSE param
Resolve(param, kept) == IF param = KEEP THEN kept ELSE param

\* this.events.create: append one event to the log of its object.
Emit(log, o, type) == [log EXCEPT ![o] = Append(@, type)]

-----------------------------------------------------------------------------
(* Customers and payment methods. *)

Live(c)      == customers[c].status = "live"       \* customers.requireLive
PMExists(pm) == payment_methods[pm].status = "present"

\* assertPMUsable: never detached, and on no customer but the given one.
PMAnyCustomer(pm, customer) == PMExists(pm) /\ ~payment_methods[pm].detached
PMUsable(pm, customer) ==
  /\ PMExists(pm)
  /\ ~payment_methods[pm].detached
  /\ payment_methods[pm].customer_id \in {NULL, customer}

CreateCustomer ==
  /\ Room(customers)
  /\ LET c == NewId(customers) IN
       /\ customers' = [customers EXCEPT ![c].status = "live"]
       /\ events' = Emit(events, <<"cus", c>>, "customer.created")
  /\ UNCHANGED <<money, payment_methods>>

UpdateCustomer(c) ==
  /\ Live(c)
  /\ Len(events[<<"cus", c>>]) < MaxEvents
  /\ events' = Emit(events, <<"cus", c>>, "customer.updated")
  /\ UNCHANGED <<money, customers, payment_methods>>

\* A soft delete; its payment methods are detached in the same transaction and
\* one detached event per payment method follows.  Re-deleting changes nothing.
DeleteCustomer(c) ==
  /\ Live(c)
  /\ LET attached == {pm \in PMs : payment_methods[pm].customer_id = c} IN
       /\ customers' = [customers EXCEPT ![c].status = "deleted"]
       /\ payment_methods' = [pm \in PMs |->
            IF pm \in attached
              THEN [payment_methods[pm] EXCEPT !.customer_id = NULL, !.detached = TRUE]
              ELSE payment_methods[pm]]
       /\ events' = [o \in Objects |->
            CASE o = <<"cus", c>> -> Append(events[o], "customer.deleted")
              [] o \in {"pm"} \X attached -> Append(events[o], "payment_method.detached")
              [] OTHER -> events[o]]
  /\ UNCHANGED money

CreatePM(declines) ==
  /\ Room(payment_methods)
  /\ payment_methods' = [payment_methods EXCEPT ![NewId(payment_methods)] =
       [status |-> "present", declines |-> declines, customer_id |-> NULL,
        detached |-> FALSE]]
  /\ UNCHANGED <<money, customers, events>>

\* attach() refuses a payment method that is on a customer or was ever detached.
FreePM(pm) == payment_methods[pm].customer_id = NULL
Attachable(pm) == FreePM(pm) /\ ~payment_methods[pm].detached

AttachPM(pm, c) ==
  /\ Live(c) /\ PMExists(pm) /\ Attachable(pm)
  /\ payment_methods' = [payment_methods EXCEPT ![pm].customer_id = c]
  /\ events' = Emit(events, <<"pm", pm>>, "payment_method.attached")
  /\ UNCHANGED <<money, customers>>

DetachPM(pm) ==
  /\ PMExists(pm)
  /\ payment_methods[pm].customer_id # NULL
  /\ payment_methods' = [payment_methods EXCEPT ![pm].customer_id = NULL,
                                                ![pm].detached = TRUE]
  /\ events' = Emit(events, <<"pm", pm>>, "payment_method.detached")
  /\ UNCHANGED <<money, customers>>

-----------------------------------------------------------------------------
(* PaymentIntents, charges and the balance. *)

\* The statuses each call accepts.
ConfirmAgain == {"requires_confirmation", "requires_payment_method", "succeeded"}
Confirmable  == {"requires_confirmation", "requires_payment_method"}
Updatable    == {"requires_payment_method", "requires_confirmation", "requires_action"}
Cancelable   == Unsettled
DepositVoid  == {"requires_action", "canceled"}
Depositable  == {"requires_action"}

\* The events of a capture, appended to log.
ChargeLogOnly(log, p, c) == Emit(log, <<"ch", c>>, "charge.succeeded")
CaptureLog(log, p, c) ==
  Emit(Emit(log, <<"pi", p>>, "payment_intent.succeeded"),
       <<"ch", c>>, "charge.succeeded")

\* The row a decline leaves: the attempt's payment method is dropped.
Declined(pi, c) ==
  [pi EXCEPT !.status = "requires_payment_method", !.latest_charge_id = c,
             !.payment_method_id = NULL, !.last_payment_error = TRUE]

\* Mint a succeeded charge with its balance transaction and settle the
\* PaymentIntent p, whose row is otherwise pi; log is the event log so far.
Capture(p, pi, pm, customer, log) ==
  /\ Room(charges) /\ Room(balance_transactions)
  /\ LET c == NewId(charges)
         b == NewId(balance_transactions)
     IN
       /\ balance_transactions' = [balance_transactions EXCEPT ![b] =
            [status |-> "available", type |-> "charge", net |-> pi.amount,
             source_id |-> p]]
       /\ charges' = [charges EXCEPT ![c] =
            [status |-> "succeeded", payment_intent_id |-> p,
             amount |-> pi.amount, amount_refunded |-> 0,
             balance_transaction_id |-> b, payment_method_id |-> pm,
             customer_id |-> customer]]
       /\ payment_intents' = [payment_intents EXCEPT ![p] =
            [pi EXCEPT !.status = "succeeded", !.latest_charge_id = c]]
       /\ events' = CaptureLog(log, p, c)
  /\ UNCHANGED refunds

\* A declined attempt commits a failed charge, drops the payment method and
\* goes back to requires_payment_method; no balance transaction is minted.
Decline(p, pi, pm, log) ==
  /\ Room(charges)
  /\ LET c == NewId(charges) IN
       /\ charges' = [charges EXCEPT ![c] =
            [status |-> "failed", payment_intent_id |-> p, amount |-> pi.amount,
             amount_refunded |-> 0, balance_transaction_id |-> NULL,
             payment_method_id |-> pm, customer_id |-> pi.customer_id]]
       /\ payment_intents' = [payment_intents EXCEPT ![p] = Declined(pi, c)]
       /\ events' = Emit(Emit(log, <<"pi", p>>, "payment_intent.payment_failed"),
                         <<"ch", c>>, "charge.failed")
  /\ UNCHANGED <<refunds, balance_transactions>>

\* The transaction of confirmPaymentIntent on the card rail.
CardAttempt(p, pi, pm, log) ==
  IF payment_methods[pm].declines
    THEN Decline(p, pi, pm, log)
    ELSE Capture(p, [pi EXCEPT !.payment_method_id = pm,
                               !.last_payment_error = FALSE],
                 pm, pi.customer_id, log)

CreateCryptoPI(a) ==
  /\ Room(payment_intents)
  /\ LET p == NewId(payment_intents) IN
       /\ payment_intents' = [payment_intents EXCEPT ![p] =
            [NoPI EXCEPT !.rail = "crypto", !.status = "requires_action",
                         !.amount = a]]
       /\ events' = Emit(Emit(events, <<"pi", p>>, "payment_intent.created"),
                         <<"pi", p>>, "payment_intent.requires_action")
  /\ UNCHANGED <<charges, refunds, balance_transactions, customers, payment_methods>>

\* Card create, with an optional customer and payment method, and the one-shot
\* create + confirm, which needs the payment method up front.
CreateCardPI(a, customer, pm, confirm) ==
  /\ Room(payment_intents)
  /\ customer # NULL => Live(customer)
  /\ pm # NULL => PMUsable(pm, customer)
  /\ confirm => pm # NULL
  /\ LET p  == NewId(payment_intents)
         pi == [NoPI EXCEPT !.amount = a, !.payment_method_id = pm,
                            !.customer_id = customer,
                            !.status = IF pm = NULL THEN "requires_payment_method"
                                                    ELSE "requires_confirmation"]
         log == Emit(events, <<"pi", p>>, "payment_intent.created")
     IN IF confirm
          THEN CardAttempt(p, pi, pm, log)
          ELSE /\ payment_intents' = [payment_intents EXCEPT ![p] = pi]
               /\ events' = log
               /\ UNCHANGED <<charges, refunds, balance_transactions>>
  /\ UNCHANGED <<customers, payment_methods>>

\* POST .../confirm on the card rail: pm is the request's payment method, or the
\* attached one when the request has none.  Confirming a crypto PaymentIntent
\* is a no-op.
ConfirmCardPI(p, requested) ==
  LET pi == payment_intents[p]
      pm == Resolve(requested, pi.payment_method_id)
  IN
  /\ pi.rail = "card"
  /\ pi.status \in Confirmable
  /\ pm # NULL
  /\ PMUsable(pm, pi.customer_id)
  /\ CardAttempt(p, pi, pm, events)
  /\ UNCHANGED <<customers, payment_methods>>

\* POST /v1/payment_intents/:id on the card rail.  Crypto PaymentIntents accept
\* metadata only, which is not modelled.
UpdateCardPI(p, amount, customer, pm) ==
  LET pi  == payment_intents[p]
      cus == Resolve(customer, pi.customer_id)
      m   == Resolve(pm, pi.payment_method_id)
  IN
  /\ pi.rail = "card"
  /\ pi.status \in Updatable
  /\ customer \notin {KEEP, NULL} => Live(customer)
  /\ pm \notin {KEEP, NULL} => PMUsable(pm, cus)
  /\ (pm = KEEP /\ customer # KEEP /\ m # NULL) => PMUsable(m, cus)
  /\ payment_intents' = [payment_intents EXCEPT ![p] =
       [pi EXCEPT
          !.amount = Resolve(amount, @),
          !.customer_id = cus,
          !.payment_method_id = m,
          !.status = CASE m # NULL /\ @ = "requires_payment_method" -> "requires_confirmation"
                       [] m = NULL /\ @ = "requires_confirmation" -> "requires_payment_method"
                       [] OTHER -> @]]
  /\ UNCHANGED <<charges, refunds, balance_transactions, customers,
                 payment_methods, events>>

CancelPI(p) ==
  /\ payment_intents[p].status \in Cancelable
  /\ payment_intents' = [payment_intents EXCEPT ![p].status = "canceled"]
  /\ events' = Emit(events, <<"pi", p>>, "payment_intent.canceled")
  /\ UNCHANGED <<charges, refunds, balance_transactions, customers, payment_methods>>

\* simulate_crypto_deposit: both legs in one transaction.  Leg 1 looks at the
\* status only, never at the rail, and the charge carries no card details.
SimulateCryptoDeposit(p) ==
  /\ payment_intents[p].status \in Depositable
  /\ Capture(p, payment_intents[p], NULL, NULL,
             Emit(events, <<"pi", p>>, "payment_intent.processing"))
  /\ UNCHANGED <<customers, payment_methods>>

\* What is left to refund of a charge, and the rows a refund writes.
Refundable(ch) == ch.amount - ch.amount_refunded

AddRefunded(ch, amount) == [ch EXCEPT !.amount_refunded = @ + amount]

RefundOf(c, amount, b) ==
  [status |-> "succeeded", charge_id |-> c, amount |-> amount,
   balance_transaction_id |-> b]

CreditTx(r, amount) ==
  [status |-> "available", type |-> "refund", net |-> amount, source_id |-> r]
RefundTx(r, amount) ==
  [status |-> "available", type |-> "refund", net |-> -amount, source_id |-> r]

\* POST /v1/refunds: no amount means whatever is left of the charge.
CreateRefund(c, requested) ==
  LET ch     == charges[c]
      amount == Resolve(requested, Refundable(ch))
  IN
  /\ ch.status = "succeeded"
  /\ amount > 0 /\ amount <= Refundable(ch)
  /\ Room(refunds) /\ Room(balance_transactions)
  /\ LET r == NewId(refunds)
         b == NewId(balance_transactions)
     IN
       /\ refunds' = [refunds EXCEPT ![r] = RefundOf(c, amount, b)]
       /\ balance_transactions' = [balance_transactions EXCEPT ![b] = RefundTx(r, amount)]
       /\ events' = Emit(Emit(events, <<"ch", c>>, "charge.refunded"),
                         <<"re", r>>, "refund.created")
  /\ charges' = [charges EXCEPT ![c] = AddRefunded(ch, amount)]
  /\ UNCHANGED <<payment_intents, customers, payment_methods>>

-----------------------------------------------------------------------------
(* The worlds the twin starts in, and the specification. *)

\* A seeded row is inserted as it is, with no customer and no payment method.
SeededPI(status, a) == [NoPI EXCEPT !.status = status, !.amount = a]

SeededPIs ==
  [PIs -> {NoPI} \cup {SeededPI(s, a) : s \in SeedStatuses, a \in Amounts}]

\* applySeed on a fresh database: no events are written for seeded rows.
Init ==
  /\ payment_intents \in SeededPIs
  /\ charges = [c \in Charges |-> NoCharge]
  /\ refunds = [r \in Refunds |-> NoRefund]
  /\ balance_transactions = [b \in BalanceTxs |-> NoBalanceTx]
  /\ customers = [c \in Customers |-> NoCustomer]
  /\ payment_methods = [pm \in PMs |-> NoPM]
  /\ events = NoEvents

\* /admin/reset and /admin/seed: every table is emptied, then a seed is applied
\* (the default one has no Stripe rows).
Reset ==
  /\ payment_intents' \in SeededPIs
  /\ charges' = [c \in Charges |-> NoCharge]
  /\ refunds' = [r \in Refunds |-> NoRefund]
  /\ balance_transactions' = [b \in BalanceTxs |-> NoBalanceTx]
  /\ customers' = [c \in Customers |-> NoCustomer]
  /\ payment_methods' = [pm \in PMs |-> NoPM]
  /\ events' = NoEvents

Next ==
  \/ \E a \in Amounts : CreateCryptoPI(a)
  \/ \E a \in Amounts, cus \in Customers \cup {NULL}, pm \in PMs \cup {NULL},
        confirm \in BOOLEAN : CreateCardPI(a, cus, pm, confirm)
  \/ \E p \in PIs :
       \/ \E pm \in PMs \cup {KEEP} : ConfirmCardPI(p, pm)
       \/ \E a \in Amounts \cup {KEEP}, cus \in Customers \cup {NULL, KEEP},
             pm \in PMs \cup {NULL, KEEP} : UpdateCardPI(p, a, cus, pm)
       \/ CancelPI(p)
       \/ SimulateCryptoDeposit(p)
  \/ \E c \in Charges, a \in Amounts \cup {KEEP} : CreateRefund(c, a)
  \/ CreateCustomer
  \/ \E c \in Customers : UpdateCustomer(c) \/ DeleteCustomer(c)
  \/ \E declines \in BOOLEAN : CreatePM(declines)
  \/ \E pm \in PMs : DetachPM(pm) \/ \E c \in Customers : AttachPM(pm, c)
  \/ Reset

Spec == Init /\ [][Next]_vars

-----------------------------------------------------------------------------
(* Properties. *)

Captures(p) == {c \in Charges : /\ charges[c].status = "succeeded"
                                /\ charges[c].payment_intent_id = p}
RefundsOf(c) == {r \in Refunds : /\ refunds[r].status # "absent"
                                 /\ refunds[r].charge_id = c}

\* However confirms, retries after a decline, deposits and cancels follow each
\* other, a PaymentIntent is charged at most once, and it is "succeeded" exactly
\* when that charge exists and is the one latest_charge names.
CapturedOnce ==
  \A p \in PIs :
    Captures(p) = IF payment_intents[p].status = "succeeded"
                    THEN {payment_intents[p].latest_charge_id} ELSE {}

\* A column summed over a set of rows.
Total(column, rows) == MapThenSumSet(LAMBDA i : column[i], rows)

RefundAmount == [r \in Refunds |-> refunds[r].amount]
Net  == [b \in BalanceTxs |-> balance_transactions[b].net]
Held == [c \in Charges |-> charges[c].amount - charges[c].amount_refunded]
Succeeded == {c \in Charges : charges[c].status = "succeeded"}

\* A charge's amount_refunded is the sum of its refunds: the two tables move
\* together through every sequence of full and partial refunds.
RefundsReconcile ==
  \A c \in Charges :
    charges[c].amount_refunded = Total(RefundAmount, RefundsOf(c))

\* No sequence of full and partial refunds gives back more than was captured,
\* and a failed charge gives back nothing.
NeverOverRefunded ==
  \A c \in Charges :
    charges[c].amount_refunded
      <= IF charges[c].status = "succeeded" THEN charges[c].amount ELSE 0

\* Each balance transaction is booked for exactly one charge or refund, which
\* links back to it; a failed charge has none.
BookedOnce ==
  \A b \in BalanceTxs :
    LET bt     == balance_transactions[b]
        booked == {c \in Charges : charges[c].balance_transaction_id = b}
        given  == {r \in Refunds : refunds[r].balance_transaction_id = b}
    IN
    /\ bt.status = "absent" => booked = {} /\ given = {}
    /\ bt.status = "available" /\ bt.type = "charge" =>
         /\ given = {}
         /\ \E c \in Charges : /\ booked = {c}
                               /\ charges[c].status = "succeeded"
                               /\ charges[c].payment_intent_id = bt.source_id
    /\ bt.status = "available" /\ bt.type = "refund" =>
         booked = {} /\ given = {bt.source_id}

\* The refunds of a charge add up to its amount_refunded and to no more than was
\* captured, each balance transaction is booked once, and GET /v1/balance, the sum
\* of net over them, is what the succeeded charges hold after their refunds: no
\* call moves one table without the others.
BalanceReconciles ==
  /\ RefundsReconcile /\ NeverOverRefunded /\ BookedOnce
  /\ Total(Net, BalanceTxs) = Total(Held, Succeeded)

\* An agent that polls the events learns the outcome: the log of a PaymentIntent
\* ends in succeeded (canceled) exactly when the row is, and nothing is logged
\* after either.
EventsTellOutcome ==
  \A p \in PIs :
    LET log == events[<<"pi", p>>]
        final == {"payment_intent.succeeded", "payment_intent.canceled"}
        outcome == IF log = <<>> THEN "none" ELSE log[Len(log)]
    IN
    /\ payment_intents[p].status = "succeeded" <=> outcome = "payment_intent.succeeded"
    /\ payment_intents[p].status = "canceled"  <=> outcome = "payment_intent.canceled"
    /\ \A i \in 1 .. Len(log) - 1 : log[i] \notin final

\* A payment method is never left on a deleted customer, and whichever call
\* detached it, the log says so once, last, and it is on no customer again.
DetachedForGood ==
  \A pm \in PMs :
    LET row == payment_methods[pm]
        log == events[<<"pm", pm>>]
    IN
    /\ row.customer_id # NULL => Live(row.customer_id)
    /\ row.detached => row.customer_id = NULL
    /\ row.detached
         <=> \E i \in DOMAIN log : log[i] = "payment_method.detached"
    /\ \A i \in DOMAIN log : log[i] = "payment_method.detached" => i = Len(log)

\* A charge is only minted with a payment method that is usable at that moment:
\* what was true when it was put on the PaymentIntent may have gone stale since,
\* by a detach, a deleted customer or an attach to another customer.
ChargesUsablePM ==
  \A c \in Charges :
    LET pm == charges'[c].payment_method_id IN
    (charges[c].status = "absent" /\ charges'[c].status # "absent" /\ pm # NULL)
    => /\ payment_methods[pm].status = "present"
       /\ ~payment_methods[pm].detached
       /\ payment_methods[pm].customer_id \in {NULL, charges'[c].customer_id}

ChargedWithUsablePM == [][ChargesUsablePM]_vars

\* The tables implement the abstract settlement of each PaymentIntent.
PhaseOf(p) == CASE payment_intents[p].status = "absent"    -> "none"
                [] payment_intents[p].status \in Unsettled -> "open"
                [] payment_intents[p].status = "succeeded" -> "captured"
                [] payment_intents[p].status = "canceled"  -> "void"
ChargeOf(p) == charges[payment_intents[p].latest_charge_id]

S == INSTANCE Settlement WITH
       phase    <- [p \in PIs |-> PhaseOf(p)],
       captured <- [p \in PIs |-> IF payment_intents[p].status = "succeeded"
                                    THEN ChargeOf(p).amount ELSE 0],
       refunded <- [p \in PIs |-> IF payment_intents[p].status = "succeeded"
                                    THEN ChargeOf(p).amount_refunded ELSE 0]

\* Every call is, for the money, an open, one capture, a void, a bounded refund
\* or nothing.
Settles == S!Spec
=============================================================================
