------------------------ MODULE StripeLedgerProofs ------------------------
(***************************************************************************)
(* Proofs about StripeLedger, for every set of ids and amounts.            *)
(***************************************************************************)
EXTENDS StripeLedger, FiniteSetTheorems, WellFoundedInduction, TLAPS

\* newId() returns an unused id of its table as long as there is one.
LEMMA NewIdUnused ==
  ASSUME NEW table, Room(table)
  PROVE  NewId(table) \in DOMAIN table /\ table[NewId(table)].status = "absent"
BY DEF Room, NewId

\* Appending an event keeps the event log well formed.
LEMMA EmitType ==
  ASSUME NEW log \in [Objects -> Seq(EventTypes)], NEW o \in Objects, NEW t \in EventTypes
  PROVE  Emit(log, o, t) \in [Objects -> Seq(EventTypes)]
BY DEF Emit

\* Amounts are integers, and so is the 0 of an absent row.
LEMMA AmountsAreInt == \A a \in Amounts \cup {0} : a \in Int /\ a >= 0
BY AmountsAssumption

MoneyType ==
  /\ payment_intents \in [PIs -> PIRow]
  /\ charges \in [Charges -> ChargeRow]
  /\ refunds \in [Refunds -> RefundRow]
  /\ balance_transactions \in [BalanceTxs -> BalanceTxRow]
  /\ events \in [Objects -> Seq(EventTypes)]

\* Settling a PaymentIntent keeps the money tables and the log well typed.
LEMMA CaptureType ==
  ASSUME TypeOK, NEW p \in PIs, NEW pi \in PIRow, NEW pm \in PMs \cup {NULL},
         NEW customer \in Customers \cup {NULL},
         NEW log \in [Objects -> Seq(EventTypes)],
         Capture(p, pi, pm, customer, log)
  PROVE  MoneyType'
<1> DEFINE c == NewId(charges)
           b == NewId(balance_transactions)
<1>1. c \in Charges /\ b \in BalanceTxs
  BY NewIdUnused DEF Capture, TypeOK
<1>2. balance_transactions' \in [BalanceTxs -> BalanceTxRow]
  <2>1. [status |-> "available", type |-> "charge", net |-> pi.amount,
         source_id |-> p] \in BalanceTxRow
    <3>1. pi.amount \in Amounts \cup {0}
      BY DEF PIRow
    <3>2. pi.amount \in Int
      BY <3>1, AmountsAreInt
    <3> QED BY <3>2 DEF BalanceTxRow
  <2> QED BY <1>1, <2>1 DEF Capture, TypeOK
<1>3. charges' \in [Charges -> ChargeRow]
  <2>1. [status |-> "succeeded", payment_intent_id |-> p,
         amount |-> pi.amount, amount_refunded |-> 0,
         balance_transaction_id |-> b, payment_method_id |-> pm,
         customer_id |-> customer] \in ChargeRow
    BY <1>1 DEF ChargeRow, PIRow
  <2> QED BY <1>1, <2>1 DEF Capture, TypeOK
<1>4. payment_intents' \in [PIs -> PIRow]
  <2>1. [pi EXCEPT !.status = "succeeded", !.latest_charge_id = c] \in PIRow
    BY <1>1 DEF PIRow, Terminal
  <2> QED BY <2>1 DEF Capture, TypeOK
<1>5. events' \in [Objects -> Seq(EventTypes)]
  <2>1. <<"pi", p>> \in Objects /\ <<"ch", c>> \in Objects
    BY <1>1 DEF Objects
  <2>2. Emit(log, <<"pi", p>>, "payment_intent.succeeded") \in [Objects -> Seq(EventTypes)]
    BY <2>1, EmitType DEF EventTypes
  <2> QED BY <2>1, <2>2, EmitType DEF Capture, EventTypes, CaptureLog
<1> QED BY <1>2, <1>3, <1>4, <1>5 DEF MoneyType, Capture, TypeOK

\* So does a decline.
LEMMA DeclineType ==
  ASSUME TypeOK, NEW p \in PIs, NEW pi \in PIRow, NEW pm \in PMs,
         NEW log \in [Objects -> Seq(EventTypes)],
         Decline(p, pi, pm, log)
  PROVE  MoneyType'
<1> DEFINE c == NewId(charges)
<1>1. c \in Charges
  BY NewIdUnused DEF Decline, TypeOK
<1>3. charges' \in [Charges -> ChargeRow]
  <2>1. [status |-> "failed", payment_intent_id |-> p, amount |-> pi.amount,
         amount_refunded |-> 0, balance_transaction_id |-> NULL,
         payment_method_id |-> pm, customer_id |-> pi.customer_id] \in ChargeRow
    BY DEF ChargeRow, PIRow
  <2> QED BY <1>1, <2>1 DEF Decline, TypeOK
<1>4. payment_intents' \in [PIs -> PIRow]
  <2>1. [pi EXCEPT !.status = "requires_payment_method",
                   !.latest_charge_id = c, !.payment_method_id = NULL,
                   !.last_payment_error = TRUE] \in PIRow
    BY <1>1 DEF PIRow, Unsettled
  <2> QED BY <2>1 DEF Decline, TypeOK, Declined
<1>5. events' \in [Objects -> Seq(EventTypes)]
  <2>1. <<"pi", p>> \in Objects /\ <<"ch", c>> \in Objects
    BY <1>1 DEF Objects
  <2>2. Emit(log, <<"pi", p>>, "payment_intent.payment_failed") \in [Objects -> Seq(EventTypes)]
    BY <2>1, EmitType DEF EventTypes
  <2> QED BY <2>1, <2>2, EmitType DEF Decline, EventTypes
<1> QED BY <1>3, <1>4, <1>5 DEF MoneyType, Decline, TypeOK

\* And a confirm, whichever of the two it comes to.
LEMMA CardAttemptType ==
  ASSUME TypeOK, NEW p \in PIs, NEW pi \in PIRow, NEW pm \in PMs,
         NEW log \in [Objects -> Seq(EventTypes)],
         CardAttempt(p, pi, pm, log)
  PROVE  MoneyType'
<1>1. CASE payment_methods[pm].declines
  BY <1>1, DeclineType DEF CardAttempt
<1>2. CASE ~payment_methods[pm].declines
  <2> DEFINE row == [pi EXCEPT !.payment_method_id = pm,
                               !.last_payment_error = FALSE]
  <2>1. row \in PIRow /\ pi.customer_id \in Customers \cup {NULL}
    BY DEF PIRow
  <2>2. Capture(p, row, pm, pi.customer_id, log)
    BY <1>2 DEF CardAttempt
  <2> HIDE DEF row
  <2> QED BY <2>1, <2>2, CaptureType
<1> QED BY <1>1, <1>2

-----------------------------------------------------------------------------
(* Type correctness. *)

\* A seed inserts well-typed rows, none of them succeeded.
LEMMA SeededType ==
  SeededPIs \subseteq {t \in [PIs -> PIRow] : \A p \in PIs : t[p].status # "succeeded"}
<1>1. NoPI \in PIRow /\ NoPI.status # "succeeded"
  BY DEF NoPI, PIRow
<1>2. \A s \in SeedStatuses, a \in Amounts :
        SeededPI(s, a) \in PIRow /\ SeededPI(s, a).status # "succeeded"
  BY SeedAssumption DEF SeededPI, NoPI, PIRow, Unsettled
<1> QED BY <1>1, <1>2 DEF SeededPIs

LEMMA InitType == Init => TypeOK
<1> SUFFICES ASSUME Init PROVE TypeOK
  OBVIOUS
<1>1. payment_intents \in [PIs -> PIRow]
  BY SeededType DEF Init
<1>2. /\ NoCharge \in ChargeRow
      /\ NoRefund \in RefundRow
      /\ NoBalanceTx \in BalanceTxRow
      /\ NoCustomer \in CustomerRow
      /\ NoPM \in PMRow
  BY DEF NoCharge, NoRefund, NoBalanceTx, NoCustomer, NoPM, ChargeRow,
         RefundRow, BalanceTxRow, CustomerRow, PMRow
<1>3. NoEvents \in [Objects -> Seq(EventTypes)]
  BY DEF NoEvents
<1> QED BY <1>1, <1>2, <1>3 DEF Init, TypeOK

LEMMA NextType == TypeOK /\ [Next]_vars => TypeOK'
<1> SUFFICES ASSUME TypeOK, [Next]_vars PROVE TypeOK'
  OBVIOUS
<1>1. ASSUME NEW a \in Amounts, CreateCryptoPI(a) PROVE TypeOK'
  <2> DEFINE p == NewId(payment_intents)
  <2>1. p \in PIs
    BY <1>1, NewIdUnused DEF CreateCryptoPI, TypeOK
  <2>2. [NoPI EXCEPT !.rail = "crypto", !.status = "requires_action", !.amount = a]
          \in PIRow
    BY DEF NoPI, PIRow, Unsettled
  <2>3. events' \in [Objects -> Seq(EventTypes)]
    <3>1. <<"pi", p>> \in Objects
      BY <2>1 DEF Objects
    <3>2. Emit(events, <<"pi", p>>, "payment_intent.created")
            \in [Objects -> Seq(EventTypes)]
      BY <3>1, EmitType DEF EventTypes, TypeOK
    <3> QED BY <1>1, <3>1, <3>2, EmitType DEF CreateCryptoPI, EventTypes
  <2> QED BY <1>1, <2>2, <2>3 DEF CreateCryptoPI, TypeOK
<1>2. ASSUME NEW a \in Amounts, NEW customer \in Customers \cup {NULL},
             NEW pm \in PMs \cup {NULL}, NEW confirm \in BOOLEAN,
             CreateCardPI(a, customer, pm, confirm)
      PROVE TypeOK'
  <2> DEFINE p == NewId(payment_intents)
             pi == [NoPI EXCEPT !.amount = a, !.payment_method_id = pm,
                      !.customer_id = customer,
                      !.status = IF pm = NULL THEN "requires_payment_method"
                                              ELSE "requires_confirmation"]
             log == Emit(events, <<"pi", p>>, "payment_intent.created")
  <2>1. p \in PIs
    BY <1>2, NewIdUnused DEF CreateCardPI, TypeOK
  <2>2. pi \in PIRow
    BY DEF NoPI, PIRow, Unsettled
  <2>3. log \in [Objects -> Seq(EventTypes)]
    <3>1. <<"pi", p>> \in Objects
      BY <2>1 DEF Objects
    <3> QED BY <3>1, EmitType DEF EventTypes, TypeOK
  <2>4. CASE confirm
    <3>1. pm \in PMs /\ CardAttempt(p, pi, pm, log)
      BY <1>2, <2>4 DEF CreateCardPI
    <3> HIDE DEF p, pi, log
    <3>2. MoneyType'
      BY <2>1, <2>2, <2>3, <3>1, CardAttemptType
    <3> QED BY <1>2, <3>2 DEF MoneyType, TypeOK, CreateCardPI
  <2>5. CASE ~confirm
    <3>1. /\ payment_intents' = [payment_intents EXCEPT ![p] = pi]
          /\ events' = log
          /\ UNCHANGED <<charges, refunds, balance_transactions>>
      BY <1>2, <2>5 DEF CreateCardPI
    <3> QED BY <1>2, <2>2, <2>3, <3>1 DEF TypeOK, CreateCardPI
  <2> QED BY <2>4, <2>5
<1>3. ASSUME NEW p \in PIs, NEW requested \in PMs \cup {KEEP},
             ConfirmCardPI(p, requested)
      PROVE TypeOK'
  <2> DEFINE pi == payment_intents[p]
             pm == IF requested = KEEP THEN pi.payment_method_id ELSE requested
  <2>1. pi \in PIRow
    BY DEF TypeOK
  <2>2. pm \in PMs
    BY <1>3, <2>1 DEF ConfirmCardPI, PIRow, Confirmable, Resolve
  <2>3. CardAttempt(p, pi, pm, events)
    BY <1>3 DEF ConfirmCardPI, Confirmable, Resolve
  <2>4. events \in [Objects -> Seq(EventTypes)]
    BY DEF TypeOK
  <2> HIDE DEF pi, pm
  <2>5. MoneyType'
    BY <2>1, <2>2, <2>3, <2>4, CardAttemptType
  <2> QED BY <1>3, <2>5 DEF MoneyType, TypeOK, ConfirmCardPI, Confirmable, Resolve
<1>4. ASSUME NEW p \in PIs, NEW a \in Amounts \cup {KEEP},
             NEW customer \in Customers \cup {NULL, KEEP},
             NEW pm \in PMs \cup {NULL, KEEP},
             UpdateCardPI(p, a, customer, pm)
      PROVE TypeOK'
  <2>1. payment_intents[p] \in PIRow
    BY DEF TypeOK
  <2>2. payment_intents'[p] \in PIRow
    <3> DEFINE pi == payment_intents[p]
               row == payment_intents'[p]
    <3>1. /\ row.rail = pi.rail
          /\ row.amount \in Amounts \cup {0}
          /\ row.payment_method_id \in PMs \cup {NULL}
          /\ row.customer_id \in Customers \cup {NULL}
          /\ row.latest_charge_id = pi.latest_charge_id
          /\ row.last_payment_error = pi.last_payment_error
      BY <1>4, <2>1 DEF UpdateCardPI, PIRow, TypeOK, Updatable, Resolve
    <3>2. row.status \in Unsettled
      BY <1>4, <2>1 DEF UpdateCardPI, PIRow, TypeOK, Unsettled, Updatable, Resolve
    <3>3. row = [rail |-> row.rail, status |-> row.status, amount |-> row.amount,
                 payment_method_id |-> row.payment_method_id,
                 customer_id |-> row.customer_id,
                 latest_charge_id |-> row.latest_charge_id,
                 last_payment_error |-> row.last_payment_error]
      BY <1>4, <2>1 DEF UpdateCardPI, PIRow, TypeOK, Updatable, Resolve
    <3> QED BY <2>1, <3>1, <3>2, <3>3 DEF PIRow
  <2>3. payment_intents' = [payment_intents EXCEPT ![p] = payment_intents'[p]]
    BY <1>4 DEF UpdateCardPI, TypeOK, Updatable, Resolve
  <2> QED BY <1>4, <2>2, <2>3 DEF UpdateCardPI, TypeOK, Updatable, Resolve
<1>5. ASSUME NEW p \in PIs, CancelPI(p) PROVE TypeOK'
  <2>1. <<"pi", p>> \in Objects
    BY DEF Objects
  <2>2. events' \in [Objects -> Seq(EventTypes)]
    BY <1>5, <2>1, EmitType DEF CancelPI, EventTypes, TypeOK, Cancelable
  <2>3. payment_intents' \in [PIs -> PIRow]
    BY <1>5 DEF CancelPI, TypeOK, PIRow, Terminal, Cancelable
  <2> QED BY <1>5, <2>2, <2>3 DEF CancelPI, TypeOK, Cancelable
<1>6. ASSUME NEW p \in PIs, SimulateCryptoDeposit(p) PROVE TypeOK'
  <2> DEFINE log == Emit(events, <<"pi", p>>, "payment_intent.processing")
  <2>1. log \in [Objects -> Seq(EventTypes)]
    <3>1. <<"pi", p>> \in Objects
      BY DEF Objects
    <3> QED BY <3>1, EmitType DEF EventTypes, TypeOK
  <2>2. payment_intents[p] \in PIRow
    BY DEF TypeOK
  <2>3. Capture(p, payment_intents[p], NULL, NULL, log)
    BY <1>6 DEF SimulateCryptoDeposit, Depositable
  <2> HIDE DEF log
  <2>4. MoneyType'
    BY <2>1, <2>2, <2>3, CaptureType
  <2> QED BY <1>6, <2>4 DEF MoneyType, TypeOK, SimulateCryptoDeposit, Depositable
<1>7. ASSUME NEW c \in Charges, NEW requested \in Amounts \cup {KEEP},
             CreateRefund(c, requested)
      PROVE TypeOK'
  <2> DEFINE refundable == Refundable(charges[c])
             amount == IF requested = KEEP THEN refundable ELSE requested
             r == NewId(refunds)
             b == NewId(balance_transactions)
  <2>1. amount \in Nat /\ charges[c].amount_refunded + amount \in Nat
    <3>1. charges[c] \in ChargeRow
      BY DEF TypeOK
    <3>2. charges[c].amount \in Amounts \cup {0} /\ charges[c].amount_refunded \in Nat
      BY <3>1 DEF ChargeRow
    <3>3. charges[c].amount \in Int
      BY <3>2, AmountsAreInt
    <3>4. requested # KEEP => requested \in Int
      BY AmountsAreInt
    <3>5. amount > 0
      BY <1>7 DEF CreateRefund, Refundable, Resolve, RefundOf, RefundTx, AddRefunded
    <3>6. amount \in Int
      BY <3>2, <3>3, <3>4 DEF Refundable
    <3> HIDE DEF amount
    <3> QED BY <3>2, <3>5, <3>6
  <2>2. r \in Refunds /\ b \in BalanceTxs
    BY <1>7, NewIdUnused DEF CreateRefund, TypeOK, Refundable, Resolve, RefundOf, RefundTx, AddRefunded
  <2>3. refunds' \in [Refunds -> RefundRow]
    <3>1. [status |-> "succeeded", charge_id |-> c, amount |-> amount,
           balance_transaction_id |-> b] \in RefundRow
      BY <2>1, <2>2 DEF RefundRow
    <3> QED BY <1>7, <3>1 DEF CreateRefund, TypeOK, Refundable, Resolve, RefundOf, RefundTx, AddRefunded
  <2>4. balance_transactions' \in [BalanceTxs -> BalanceTxRow]
    <3>1. [status |-> "available", type |-> "refund", net |-> -amount,
           source_id |-> r] \in BalanceTxRow
      BY <2>1, <2>2 DEF BalanceTxRow
    <3> QED BY <1>7, <3>1 DEF CreateRefund, TypeOK, Refundable, Resolve, RefundOf, RefundTx, AddRefunded
  <2>5. charges' \in [Charges -> ChargeRow]
    <3>1. [charges[c] EXCEPT !.amount_refunded = @ + amount] \in ChargeRow
      BY <2>1 DEF ChargeRow, TypeOK
    <3> QED BY <1>7, <3>1 DEF CreateRefund, TypeOK, Refundable, Resolve, RefundOf, RefundTx, AddRefunded
  <2>6. events' \in [Objects -> Seq(EventTypes)]
    <3>1. <<"ch", c>> \in Objects /\ <<"re", r>> \in Objects
      BY <2>2 DEF Objects
    <3>2. Emit(events, <<"ch", c>>, "charge.refunded") \in [Objects -> Seq(EventTypes)]
      BY <3>1, EmitType DEF EventTypes, TypeOK
    <3> QED BY <1>7, <3>1, <3>2, EmitType DEF CreateRefund, EventTypes, Refundable, Resolve, RefundOf, RefundTx, AddRefunded
  <2> QED BY <1>7, <2>3, <2>4, <2>5, <2>6 DEF CreateRefund, TypeOK, Refundable, Resolve, RefundOf, RefundTx, AddRefunded
<1>8. ASSUME CreateCustomer PROVE TypeOK'
  <2> DEFINE c == NewId(customers)
  <2>1. c \in Customers
    BY <1>8, NewIdUnused DEF CreateCustomer, TypeOK
  <2>2. <<"cus", c>> \in Objects
    BY <2>1 DEF Objects
  <2>3. events' \in [Objects -> Seq(EventTypes)]
    BY <1>8, <2>2, EmitType DEF CreateCustomer, EventTypes, TypeOK
  <2>4. customers' \in [Customers -> CustomerRow]
    BY <1>8 DEF CreateCustomer, CustomerRow, TypeOK
  <2> QED BY <1>8, <2>3, <2>4 DEF CreateCustomer, TypeOK, money
<1>9. ASSUME NEW c \in Customers, UpdateCustomer(c) PROVE TypeOK'
  <2>1. <<"cus", c>> \in Objects
    BY DEF Objects
  <2>2. events' \in [Objects -> Seq(EventTypes)]
    BY <1>9, <2>1, EmitType DEF UpdateCustomer, EventTypes, TypeOK
  <2> QED BY <1>9, <2>2 DEF UpdateCustomer, TypeOK, money
<1>10. ASSUME NEW c \in Customers, DeleteCustomer(c) PROVE TypeOK'
  <2>1. customers' \in [Customers -> CustomerRow]
    BY <1>10 DEF DeleteCustomer, CustomerRow, TypeOK
  <2>2. payment_methods' \in [PMs -> PMRow]
    BY <1>10 DEF DeleteCustomer, PMRow, TypeOK
  <2>3. \A o \in Objects : /\ events[o] \in Seq(EventTypes)
                           /\ Append(events[o], "customer.deleted") \in Seq(EventTypes)
                           /\ Append(events[o], "payment_method.detached") \in Seq(EventTypes)
    BY DEF TypeOK, EventTypes
  <2>4. events' \in [Objects -> Seq(EventTypes)]
    BY <1>10, <2>3 DEF DeleteCustomer
  <2> QED BY <1>10, <2>1, <2>2, <2>4 DEF DeleteCustomer, TypeOK, money
<1>11. ASSUME NEW declines \in BOOLEAN, CreatePM(declines) PROVE TypeOK'
  <2>1. [status |-> "present", declines |-> declines, customer_id |-> NULL,
         detached |-> FALSE] \in PMRow
    BY DEF PMRow
  <2> QED BY <1>11, <2>1 DEF CreatePM, TypeOK, money
<1>12. ASSUME NEW pm \in PMs, DetachPM(pm) PROVE TypeOK'
  <2>1. <<"pm", pm>> \in Objects
    BY DEF Objects
  <2>2. events' \in [Objects -> Seq(EventTypes)]
    BY <1>12, <2>1, EmitType DEF DetachPM, EventTypes, TypeOK
  <2>3. payment_methods' \in [PMs -> PMRow]
    BY <1>12 DEF DetachPM, PMRow, TypeOK
  <2> QED BY <1>12, <2>2, <2>3 DEF DetachPM, TypeOK, money
<1>13. ASSUME NEW pm \in PMs, NEW c \in Customers, AttachPM(pm, c) PROVE TypeOK'
  <2>1. <<"pm", pm>> \in Objects
    BY DEF Objects
  <2>2. events' \in [Objects -> Seq(EventTypes)]
    BY <1>13, <2>1, EmitType DEF AttachPM, EventTypes, TypeOK, Attachable, FreePM
  <2>3. payment_methods' \in [PMs -> PMRow]
    BY <1>13 DEF AttachPM, PMRow, TypeOK, Attachable, FreePM
  <2> QED BY <1>13, <2>2, <2>3 DEF AttachPM, TypeOK, money, Attachable, FreePM
<1>14. ASSUME Reset PROVE TypeOK'
  <2>1. /\ NoCharge \in ChargeRow
        /\ NoRefund \in RefundRow
        /\ NoBalanceTx \in BalanceTxRow
        /\ NoCustomer \in CustomerRow
        /\ NoPM \in PMRow
    BY DEF NoCharge, NoRefund, NoBalanceTx, NoCustomer, NoPM, ChargeRow,
           RefundRow, BalanceTxRow, CustomerRow, PMRow
  <2>2. NoEvents \in [Objects -> Seq(EventTypes)]
    BY DEF NoEvents
  <2> QED BY <1>14, <2>1, <2>2, SeededType DEF Reset, TypeOK
<1>15. CASE UNCHANGED vars
  BY <1>15 DEF vars, money, TypeOK
<1> QED
  BY <1>1, <1>2, <1>3, <1>4, <1>5, <1>6, <1>7, <1>8, <1>9, <1>10, <1>11, <1>12,
     <1>13, <1>14, <1>15 DEF Next

\* Every row stays well formed, whatever the calls and their order.
THEOREM TypeCorrect == Spec => []TypeOK
BY InitType, NextType, PTL DEF Spec

-----------------------------------------------------------------------------
(* A PaymentIntent is captured at most once, and a charge never gives back   *)
(* more than it took.                                                        *)

Inv == TypeOK /\ CapturedOnce /\ NeverOverRefunded

LEMMA CaptureOnce ==
  ASSUME Inv, NEW p \in PIs, NEW pi \in PIRow, NEW pm, NEW customer, NEW log,
         payment_intents[p].status # "succeeded",
         Capture(p, pi, pm, customer, log)
  PROVE  CapturedOnce' /\ NeverOverRefunded'
<1> DEFINE c == NewId(charges)
<1>1. c \in Charges /\ charges[c].status = "absent"
  BY NewIdUnused DEF Capture, Inv, TypeOK
<1>2. /\ charges'[c].status = "succeeded"
      /\ charges'[c].payment_intent_id = p
      /\ charges'[c].amount = pi.amount
      /\ charges'[c].amount_refunded = 0
      /\ \A d \in Charges : d # c => charges'[d] = charges[d]
  BY <1>1 DEF Capture, Inv, TypeOK
<1>3. /\ payment_intents'[p].status = "succeeded"
      /\ payment_intents'[p].latest_charge_id = c
      /\ \A q \in PIs : q # p => payment_intents'[q] = payment_intents[q]
  BY DEF Capture, Inv, TypeOK, PIRow
<1> HIDE DEF c
<1>4. Captures(p) = {}
  BY DEF Inv, CapturedOnce
<1>5. Captures(p)' = {c}
  BY <1>1, <1>2, <1>4 DEF Captures
<1>6. ASSUME NEW q \in PIs, q # p PROVE Captures(q)' = Captures(q)
  BY <1>1, <1>2, <1>6 DEF Captures
<1>7. CapturedOnce'
  BY <1>3, <1>5, <1>6 DEF Inv, CapturedOnce
<1>8. NeverOverRefunded'
  <2>1. pi.amount \in Amounts \cup {0}
    BY DEF PIRow
  <2>2. pi.amount \in Int /\ pi.amount >= 0
    BY <2>1, AmountsAreInt
  <2> QED BY <1>2, <2>2 DEF Inv, NeverOverRefunded
<1> QED BY <1>7, <1>8

LEMMA DeclineOnce ==
  ASSUME Inv, NEW p \in PIs, NEW pi \in PIRow, NEW pm, NEW log,
         payment_intents[p].status # "succeeded",
         Decline(p, pi, pm, log)
  PROVE  CapturedOnce' /\ NeverOverRefunded'
<1> DEFINE c == NewId(charges)
<1>1. c \in Charges /\ charges[c].status = "absent"
  BY NewIdUnused DEF Decline, Inv, TypeOK
<1>2. /\ charges'[c].status = "failed"
      /\ charges'[c].amount_refunded = 0
      /\ \A d \in Charges : d # c => charges'[d] = charges[d]
  BY <1>1 DEF Decline, Inv, TypeOK, Declined
<1>3. /\ payment_intents'[p].status = "requires_payment_method"
      /\ \A q \in PIs : q # p => payment_intents'[q] = payment_intents[q]
  BY DEF Decline, Inv, TypeOK, PIRow, Declined
<1> HIDE DEF c
<1>4. ASSUME NEW q \in PIs PROVE Captures(q)' = Captures(q)
  BY <1>1, <1>2 DEF Captures
<1> QED BY <1>2, <1>3, <1>4 DEF Inv, CapturedOnce, NeverOverRefunded

LEMMA AttemptOnce ==
  ASSUME Inv, NEW p \in PIs, NEW pi \in PIRow, NEW pm \in PMs, NEW log,
         payment_intents[p].status # "succeeded",
         CardAttempt(p, pi, pm, log)
  PROVE  CapturedOnce' /\ NeverOverRefunded'
<1>1. CASE payment_methods[pm].declines
  BY <1>1, DeclineOnce DEF CardAttempt
<1>2. CASE ~payment_methods[pm].declines
  <2> DEFINE row == [pi EXCEPT !.payment_method_id = pm,
                               !.last_payment_error = FALSE]
  <2>1. row \in PIRow
    BY DEF PIRow
  <2>2. Capture(p, row, pm, pi.customer_id, log)
    BY <1>2 DEF CardAttempt
  <2> HIDE DEF row
  <2> QED BY <2>1, <2>2, CaptureOnce
<1> QED BY <1>1, <1>2

\* A step that mints no charge and settles no PaymentIntent.
LEMMA OtherOnce ==
  ASSUME Inv, charges' = charges,
         \A p \in PIs :
           \/ payment_intents'[p] = payment_intents[p]
           \/ payment_intents[p].status # "succeeded"
                /\ payment_intents'[p].status # "succeeded"
  PROVE  CapturedOnce' /\ NeverOverRefunded'
<1>1. \A p \in PIs : Captures(p)' = Captures(p)
  BY DEF Captures
<1> QED BY <1>1 DEF Inv, CapturedOnce, NeverOverRefunded

LEMMA InitInv == Init => Inv
<1> SUFFICES ASSUME Init PROVE Inv
  OBVIOUS
<1>1. \A p \in PIs : payment_intents[p].status # "succeeded"
  BY SeededType DEF Init
<1>2. \A c \in Charges : charges[c] = NoCharge
  BY DEF Init
<1>3. \A p \in PIs : Captures(p) = {}
  BY <1>2 DEF Captures, NoCharge
<1> QED BY <1>1, <1>2, <1>3, InitType DEF Inv, CapturedOnce, NeverOverRefunded, NoCharge

LEMMA NextInv == Inv /\ [Next]_vars => Inv'
<1> SUFFICES ASSUME Inv, [Next]_vars PROVE CapturedOnce' /\ NeverOverRefunded'
  BY NextType DEF Inv
<1>0. \A p \in PIs : payment_intents[p] \in PIRow
  BY DEF Inv, TypeOK
<1>1. ASSUME NEW a \in Amounts, CreateCryptoPI(a)
      PROVE CapturedOnce' /\ NeverOverRefunded'
  <2>1. /\ NewId(payment_intents) \in PIs
        /\ payment_intents[NewId(payment_intents)].status = "absent"
    BY <1>1, NewIdUnused DEF CreateCryptoPI, Inv, TypeOK
  <2> QED BY <1>1, <2>1, OtherOnce DEF CreateCryptoPI, Inv, TypeOK, NoPI
<1>2. ASSUME NEW a \in Amounts, NEW customer \in Customers \cup {NULL},
             NEW pm \in PMs \cup {NULL}, NEW confirm \in BOOLEAN,
             CreateCardPI(a, customer, pm, confirm)
      PROVE CapturedOnce' /\ NeverOverRefunded'
  <2> DEFINE p == NewId(payment_intents)
             pi == [NoPI EXCEPT !.amount = a, !.payment_method_id = pm,
                      !.customer_id = customer,
                      !.status = IF pm = NULL THEN "requires_payment_method"
                                              ELSE "requires_confirmation"]
             log == Emit(events, <<"pi", p>>, "payment_intent.created")
  <2>1. p \in PIs /\ payment_intents[p].status = "absent"
    BY <1>2, NewIdUnused DEF CreateCardPI, Inv, TypeOK
  <2>2. pi \in PIRow /\ pi.status # "succeeded"
    BY DEF NoPI, PIRow, Unsettled
  <2>3. CASE confirm
    <3>1. pm \in PMs /\ CardAttempt(p, pi, pm, log)
      BY <1>2, <2>3 DEF CreateCardPI
    <3> HIDE DEF p, pi, log
    <3> QED BY <2>1, <2>2, <3>1, AttemptOnce
  <2>4. CASE ~confirm
    <3>1. /\ payment_intents' = [payment_intents EXCEPT ![p] = pi]
          /\ charges' = charges
      BY <1>2, <2>4 DEF CreateCardPI
    <3> HIDE DEF p, pi
    <3> QED BY <2>1, <2>2, <3>1, OtherOnce DEF Inv, TypeOK
  <2> QED BY <2>3, <2>4
<1>3. ASSUME NEW p \in PIs, NEW requested \in PMs \cup {KEEP},
             ConfirmCardPI(p, requested)
      PROVE CapturedOnce' /\ NeverOverRefunded'
  <2> DEFINE pi == payment_intents[p]
             pm == IF requested = KEEP THEN pi.payment_method_id ELSE requested
  <2>1. pm \in PMs /\ pi.status # "succeeded" /\ CardAttempt(p, pi, pm, events)
    BY <1>0, <1>3 DEF ConfirmCardPI, PIRow, Confirmable, Resolve
  <2> HIDE DEF pm
  <2> QED BY <1>0, <2>1, AttemptOnce
<1>4. ASSUME NEW p \in PIs, NEW a \in Amounts \cup {KEEP},
             NEW customer \in Customers \cup {NULL, KEEP},
             NEW pm \in PMs \cup {NULL, KEEP},
             UpdateCardPI(p, a, customer, pm)
      PROVE CapturedOnce' /\ NeverOverRefunded'
  <2>1. /\ charges' = charges
        /\ payment_intents[p].status # "succeeded"
        /\ \A q \in PIs : q # p => payment_intents'[q] = payment_intents[q]
    BY <1>4 DEF UpdateCardPI, Inv, TypeOK, Updatable, Resolve
  <2>2. payment_intents'[p].status # "succeeded"
    BY <1>0, <1>4 DEF UpdateCardPI, Inv, TypeOK, PIRow, Updatable, Resolve
  <2> QED BY <2>1, <2>2, OtherOnce
<1>5. ASSUME NEW p \in PIs, CancelPI(p) PROVE CapturedOnce' /\ NeverOverRefunded'
  <2>1. /\ charges' = charges
        /\ payment_intents[p].status # "succeeded"
        /\ payment_intents'[p].status = "canceled"
        /\ \A q \in PIs : q # p => payment_intents'[q] = payment_intents[q]
    BY <1>0, <1>5 DEF CancelPI, Inv, TypeOK, Unsettled, PIRow, Cancelable
  <2> QED BY <2>1, OtherOnce
<1>6. ASSUME NEW p \in PIs, SimulateCryptoDeposit(p)
      PROVE CapturedOnce' /\ NeverOverRefunded'
  BY <1>0, <1>6, CaptureOnce DEF SimulateCryptoDeposit, Depositable
<1>7. ASSUME NEW c \in Charges, NEW requested \in Amounts \cup {KEEP},
             CreateRefund(c, requested)
      PROVE CapturedOnce' /\ NeverOverRefunded'
  <2> DEFINE refundable == Refundable(charges[c])
             amount == IF requested = KEEP THEN refundable ELSE requested
  <2>1. charges[c] \in ChargeRow
    BY DEF Inv, TypeOK
  <2>2. charges[c].amount \in Amounts \cup {0} /\ charges[c].amount_refunded \in Nat
    BY <2>1 DEF ChargeRow
  <2>3. charges[c].amount \in Int
    BY <2>2, AmountsAreInt
  <2>4. amount \in Int
    BY <2>2, <2>3, AmountsAreInt DEF Refundable
  <2>5. /\ charges' = [charges EXCEPT ![c].amount_refunded = @ + amount]
        /\ charges[c].status = "succeeded"
        /\ amount <= refundable
        /\ payment_intents' = payment_intents
    BY <1>7 DEF CreateRefund, Refundable, Resolve, RefundOf, RefundTx, AddRefunded
  <2>6. /\ charges'[c].status = "succeeded"
        /\ charges'[c].amount = charges[c].amount
        /\ charges'[c].payment_intent_id = charges[c].payment_intent_id
        /\ charges'[c].amount_refunded = charges[c].amount_refunded + amount
        /\ \A d \in Charges : d # c => charges'[d] = charges[d]
    BY <2>1, <2>5 DEF Inv, TypeOK, ChargeRow
  <2> HIDE DEF amount
  <2>7. \A q \in PIs : Captures(q)' = Captures(q)
    BY <2>5, <2>6 DEF Captures
  <2>8. CapturedOnce'
    BY <2>5, <2>7 DEF Inv, CapturedOnce
  <2>9. charges'[c].amount_refunded <= charges'[c].amount
    BY <2>2, <2>3, <2>4, <2>5, <2>6 DEF Refundable
  <2> QED BY <2>6, <2>8, <2>9 DEF Inv, NeverOverRefunded
<1>8. ASSUME charges' = charges, payment_intents' = payment_intents
      PROVE CapturedOnce' /\ NeverOverRefunded'
  BY <1>8, OtherOnce
<1>9. ASSUME Reset PROVE CapturedOnce' /\ NeverOverRefunded'
  <2>1. /\ \A p \in PIs : payment_intents'[p].status # "succeeded"
        /\ \A c \in Charges : charges'[c] = NoCharge
    BY <1>9, SeededType DEF Reset
  <2>2. \A p \in PIs : Captures(p)' = {}
    BY <2>1 DEF Captures, NoCharge
  <2> QED BY <2>1, <2>2 DEF CapturedOnce, NeverOverRefunded, NoCharge
<1> QED
  BY <1>1, <1>2, <1>3, <1>4, <1>5, <1>6, <1>7, <1>8, <1>9
  DEF Next, vars, money, CreateCustomer, UpdateCustomer, DeleteCustomer,
      CreatePM, AttachPM, DetachPM

\* Whatever the calls and their order, a PaymentIntent is charged at most once,
\* and it is succeeded exactly when it was.
THEOREM CapturedOnceAlways == Spec => []CapturedOnce
BY InitInv, NextInv, PTL DEF Spec, Inv

\* And no charge ever gives back more than it captured.
THEOREM NeverOverRefundedAlways == Spec => []NeverOverRefunded
BY InitInv, NextInv, PTL DEF Spec, Inv

-----------------------------------------------------------------------------
(* What a step may never do. *)

\* How the two outcomes of an attempt touch the charges.
LEMMA CaptureMints ==
  ASSUME TypeOK, NEW p \in PIs, NEW pi, NEW pm, NEW customer, NEW log,
         Capture(p, pi, pm, customer, log)
  PROVE  \E c \in Charges :
           /\ charges[c].status = "absent"
           /\ \A d \in Charges : d # c => charges'[d] = charges[d]
           /\ charges'[c].status = "succeeded"
           /\ charges'[c].payment_intent_id = p
           /\ charges'[c].amount = pi.amount
           /\ charges'[c].amount_refunded = 0
           /\ charges'[c].payment_method_id = pm
           /\ charges'[c].customer_id = customer
<1> DEFINE c == NewId(charges)
<1>1. c \in Charges /\ charges[c].status = "absent"
  BY NewIdUnused DEF Capture, TypeOK
<1>2. /\ \A d \in Charges : d # c => charges'[d] = charges[d]
      /\ charges'[c].status = "succeeded"
      /\ charges'[c].payment_intent_id = p
      /\ charges'[c].amount = pi.amount
      /\ charges'[c].amount_refunded = 0
      /\ charges'[c].payment_method_id = pm
      /\ charges'[c].customer_id = customer
  BY <1>1 DEF Capture, TypeOK
<1> HIDE DEF c
<1> QED BY <1>1, <1>2

LEMMA DeclineMints ==
  ASSUME TypeOK, NEW p \in PIs, NEW pi, NEW pm, NEW log,
         Decline(p, pi, pm, log)
  PROVE  \E c \in Charges :
           /\ charges[c].status = "absent"
           /\ \A d \in Charges : d # c => charges'[d] = charges[d]
           /\ charges'[c].status = "failed"
           /\ charges'[c].payment_method_id = pm
           /\ charges'[c].customer_id = pi.customer_id
<1> DEFINE c == NewId(charges)
<1>1. c \in Charges /\ charges[c].status = "absent"
  BY NewIdUnused DEF Decline, TypeOK
<1>2. /\ \A d \in Charges : d # c => charges'[d] = charges[d]
      /\ charges'[c].status = "failed"
      /\ charges'[c].payment_method_id = pm
      /\ charges'[c].customer_id = pi.customer_id
  BY <1>1 DEF Decline, TypeOK, Declined
<1> HIDE DEF c
<1> QED BY <1>1, <1>2

\* Either way one unused charge row is filled, for the customer of the
\* PaymentIntent and with the payment method of the attempt.
LEMMA AttemptMints ==
  ASSUME TypeOK, NEW p \in PIs, NEW pi \in PIRow, NEW pm, NEW log,
         CardAttempt(p, pi, pm, log)
  PROVE  \E c \in Charges :
           /\ charges[c].status = "absent"
           /\ \A d \in Charges : d # c => charges'[d] = charges[d]
           /\ charges'[c].payment_method_id = pm
           /\ charges'[c].customer_id = pi.customer_id
<1>1. CASE payment_methods[pm].declines
  <2>1. Decline(p, pi, pm, log)
    BY <1>1 DEF CardAttempt
  <2> QED BY <2>1, DeclineMints
<1>2. CASE ~payment_methods[pm].declines
  <2>1. Capture(p, [pi EXCEPT !.payment_method_id = pm, !.last_payment_error = FALSE],
                pm, pi.customer_id, log)
    BY <1>2 DEF CardAttempt
  <2> QED BY <2>1, CaptureMints
<1> QED BY <1>1, <1>2

LEMMA NextChargesUsablePM == TypeOK /\ [Next]_vars => ChargesUsablePM
<1> SUFFICES ASSUME TypeOK, [Next]_vars PROVE ChargesUsablePM
  OBVIOUS
<1>1. ASSUME NEW p \in PIs, NEW pi \in PIRow, NEW pm, NEW log,
             CardAttempt(p, pi, pm, log), PMUsable(pm, pi.customer_id)
      PROVE ChargesUsablePM
  <2>1. PICK c \in Charges :
           /\ \A d \in Charges : d # c => charges'[d] = charges[d]
           /\ charges'[c].payment_method_id = pm
           /\ charges'[c].customer_id = pi.customer_id
    BY <1>1, AttemptMints
  <2> QED BY <1>1, <2>1 DEF ChargesUsablePM, PMUsable, PMExists
<1>2. ASSUME NEW a \in Amounts, NEW customer \in Customers \cup {NULL},
             NEW pm \in PMs \cup {NULL}, NEW confirm \in BOOLEAN,
             CreateCardPI(a, customer, pm, confirm)
      PROVE ChargesUsablePM
  <2> DEFINE p == NewId(payment_intents)
             pi == [NoPI EXCEPT !.amount = a, !.payment_method_id = pm,
                      !.customer_id = customer,
                      !.status = IF pm = NULL THEN "requires_payment_method"
                                              ELSE "requires_confirmation"]
             log == Emit(events, <<"pi", p>>, "payment_intent.created")
  <2>1. p \in PIs
    BY <1>2, NewIdUnused DEF CreateCardPI, TypeOK
  <2>2. pi \in PIRow /\ pi.customer_id = customer
    BY DEF NoPI, PIRow, Unsettled
  <2>3. CASE confirm
    <3>1. CardAttempt(p, pi, pm, log) /\ PMUsable(pm, customer)
      BY <1>2, <2>3 DEF CreateCardPI
    <3> HIDE DEF p, pi, log
    <3> QED BY <1>1, <2>1, <2>2, <3>1
  <2>4. CASE ~confirm
    BY <1>2, <2>4 DEF CreateCardPI, ChargesUsablePM
  <2> QED BY <2>3, <2>4
<1>3. ASSUME NEW p \in PIs, NEW requested \in PMs \cup {KEEP},
             ConfirmCardPI(p, requested)
      PROVE ChargesUsablePM
  <2> DEFINE pi == payment_intents[p]
             pm == IF requested = KEEP THEN pi.payment_method_id ELSE requested
  <2>1. pi \in PIRow /\ CardAttempt(p, pi, pm, events) /\ PMUsable(pm, pi.customer_id)
    BY <1>3 DEF ConfirmCardPI, TypeOK, Confirmable, Resolve
  <2> HIDE DEF pi, pm
  <2> QED BY <1>1, <2>1
<1>4. ASSUME NEW p \in PIs, SimulateCryptoDeposit(p) PROVE ChargesUsablePM
  <2>1. PICK c \in Charges :
           /\ \A d \in Charges : d # c => charges'[d] = charges[d]
           /\ charges'[c].payment_method_id = NULL
    BY <1>4, CaptureMints DEF SimulateCryptoDeposit, Depositable
  <2> QED BY <2>1 DEF ChargesUsablePM
<1>5. ASSUME NEW c \in Charges, NEW requested \in Amounts \cup {KEEP},
             CreateRefund(c, requested)
      PROVE ChargesUsablePM
  <2>1. charges[c].status = "succeeded"
        /\ \A d \in Charges : d # c => charges'[d] = charges[d]
    BY <1>5 DEF CreateRefund, TypeOK, Refundable, Resolve, RefundOf, RefundTx, AddRefunded
  <2> QED BY <2>1 DEF ChargesUsablePM
<1>6. ASSUME charges' = charges PROVE ChargesUsablePM
  BY <1>6 DEF ChargesUsablePM
<1>7. ASSUME Reset PROVE ChargesUsablePM
  BY <1>7 DEF Reset, NoCharge, ChargesUsablePM
<1> QED
  BY <1>2, <1>3, <1>4, <1>5, <1>6, <1>7
  DEF Next, vars, money, CreateCustomer, UpdateCustomer, DeleteCustomer,
      CreatePM, AttachPM, DetachPM, CreateCryptoPI, UpdateCardPI, CancelPI

\* No charge is ever minted with a payment method that had become unusable since
\* it was put on the PaymentIntent.
THEOREM ChargedWithUsablePMAlways == Spec => ChargedWithUsablePM
<1>1. TypeOK /\ [Next]_vars => [ChargesUsablePM]_vars
  BY NextChargesUsablePM
<1> QED BY <1>1, TypeCorrect, PTL DEF Spec, ChargedWithUsablePM

-----------------------------------------------------------------------------
(* What the event logs say.                                                  *)

Logs == [Objects -> Seq(EventTypes)]

\* The logs of the PaymentIntents.
PILogs(log) == [p \in PIs |-> log[<<"pi", p>>]]

LEMMA PILogsType ==
  ASSUME NEW log \in Logs
  PROVE  PILogs(log) \in [PIs -> Seq(EventTypes)]
<1>1. \A p \in PIs : <<"pi", p>> \in Objects
  BY DEF Objects
<1> QED BY <1>1 DEF Logs, PILogs

\* An event of a PaymentIntent is appended to its log; no other log changes.
LEMMA PIEmits ==
  ASSUME NEW log \in Logs, NEW p \in PIs, NEW t \in EventTypes
  PROVE  /\ Emit(log, <<"pi", p>>, t) \in Logs
         /\ PILogs(Emit(log, <<"pi", p>>, t))[p] = Append(PILogs(log)[p], t)
         /\ \A q \in PIs \ {p} : PILogs(Emit(log, <<"pi", p>>, t))[q] = PILogs(log)[q]
<1>1. \A q \in PIs : <<"pi", q>> \in Objects
  BY DEF Objects
<1>2. \A q \in PIs \ {p} : <<"pi", q>> # <<"pi", p>>
  OBVIOUS
<1> QED BY <1>1, <1>2, EmitType DEF Emit, PILogs, Logs

\* The events of the other objects leave the logs of the PaymentIntents alone.
OnlyOthers(log, new) == new \in Logs /\ PILogs(new) = PILogs(log)

LEMMA OtherEmits ==
  ASSUME NEW log \in Logs, NEW t \in EventTypes
  PROVE  /\ \A c \in Charges : OnlyOthers(log, Emit(log, <<"ch", c>>, t))
         /\ \A r \in Refunds : OnlyOthers(log, Emit(log, <<"re", r>>, t))
         /\ \A c \in Customers : OnlyOthers(log, Emit(log, <<"cus", c>>, t))
         /\ \A pm \in PMs : OnlyOthers(log, Emit(log, <<"pm", pm>>, t))
<1>1. \A q \in PIs : <<"pi", q>> \in Objects
  BY DEF Objects
<1>2. ASSUME NEW o \in Objects, \A q \in PIs : <<"pi", q>> # o
      PROVE OnlyOthers(log, Emit(log, o, t))
  BY <1>1, <1>2, EmitType DEF Emit, OnlyOthers, PILogs, Logs
<1>3. ASSUME NEW c \in Charges PROVE OnlyOthers(log, Emit(log, <<"ch", c>>, t))
  <2>1. <<"ch", c>> \in Objects /\ \A q \in PIs : <<"pi", q>> # <<"ch", c>>
    BY DEF Objects
  <2> QED BY <1>2, <2>1
<1>4. ASSUME NEW r \in Refunds PROVE OnlyOthers(log, Emit(log, <<"re", r>>, t))
  <2>1. <<"re", r>> \in Objects /\ \A q \in PIs : <<"pi", q>> # <<"re", r>>
    BY DEF Objects
  <2> QED BY <1>2, <2>1
<1>5. ASSUME NEW c \in Customers PROVE OnlyOthers(log, Emit(log, <<"cus", c>>, t))
  <2>1. <<"cus", c>> \in Objects /\ \A q \in PIs : <<"pi", q>> # <<"cus", c>>
    BY DEF Objects
  <2> QED BY <1>2, <2>1
<1>6. ASSUME NEW pm \in PMs PROVE OnlyOthers(log, Emit(log, <<"pm", pm>>, t))
  <2>1. <<"pm", pm>> \in Objects /\ \A q \in PIs : <<"pi", q>> # <<"pm", pm>>
    BY DEF Objects
  <2> QED BY <1>2, <2>1
<1> QED BY <1>3, <1>4, <1>5, <1>6

LEMMA EventNames ==
  /\ "payment_intent.created" \in EventTypes
  /\ "payment_intent.requires_action" \in EventTypes
  /\ "payment_intent.processing" \in EventTypes
  /\ "payment_intent.succeeded" \in EventTypes
  /\ "payment_intent.payment_failed" \in EventTypes
  /\ "payment_intent.canceled" \in EventTypes
  /\ "charge.succeeded" \in EventTypes
  /\ "charge.failed" \in EventTypes
  /\ "charge.refunded" \in EventTypes
  /\ "refund.created" \in EventTypes
  /\ "customer.created" \in EventTypes
  /\ "customer.updated" \in EventTypes
  /\ "customer.deleted" \in EventTypes
  /\ "payment_method.attached" \in EventTypes
  /\ "payment_method.detached" \in EventTypes
BY DEF EventTypes

Final == {"payment_intent.succeeded", "payment_intent.canceled"}
Quiet(log) == \A i \in DOMAIN log : log[i] \notin Final

\* What the log of one PaymentIntent says of its status; the log of a
\* PaymentIntent that was never created is empty.
Tells(status, log) ==
  LET outcome == IF log = <<>> THEN "none" ELSE log[Len(log)] IN
  /\ status = "succeeded" <=> outcome = "payment_intent.succeeded"
  /\ status = "canceled"  <=> outcome = "payment_intent.canceled"
  /\ \A i \in 1 .. Len(log) - 1 : log[i] \notin Final
  /\ status = "absent" => log = <<>>

AllTell == \A p \in PIs : Tells(payment_intents[p].status, PILogs(events)[p])

LEMMA UnsettledQuiet ==
  ASSUME NEW status, NEW log \in Seq(EventTypes), Tells(status, log),
         status \notin Terminal
  PROVE  Quiet(log)
<1>1. CASE log = <<>>
  BY <1>1 DEF Quiet
<1>2. CASE log # <<>>
  <2>0. status # "succeeded" /\ status # "canceled"
    BY DEF Terminal
  <2>1. log[Len(log)] \notin Final
    BY <1>2, <2>0 DEF Tells, Final
  <2>2. DOMAIN log = 1 .. Len(log) /\ Len(log) \in Nat
    OBVIOUS
  <2>a. \A n \in Nat : \A i \in 1 .. n : i = n \/ i \in 1 .. n - 1
    OBVIOUS
  <2>3. \A i \in 1 .. Len(log) : i = Len(log) \/ i \in 1 .. Len(log) - 1
    BY <2>2, <2>a
  <2>4. \A i \in 1 .. Len(log) - 1 : log[i] \notin Final
    BY DEF Tells
  <2> QED BY <2>1, <2>2, <2>3, <2>4 DEF Quiet
<1> QED BY <1>1, <1>2

LEMMA QuietTells ==
  ASSUME NEW status, NEW log \in Seq(EventTypes), Quiet(log), status \in Unsettled
  PROVE  Tells(status, log)
<1>1. DOMAIN log = 1 .. Len(log) /\ Len(log) \in Nat
  OBVIOUS
<1>2. log # <<>> => Len(log) \in DOMAIN log
  BY <1>1
<1>3. 1 .. Len(log) - 1 \subseteq DOMAIN log
  BY <1>1
<1> QED BY <1>2, <1>3 DEF Tells, Quiet, Final, Unsettled

LEMMA QuietAppend ==
  ASSUME NEW log \in Seq(EventTypes), NEW t \in EventTypes, Quiet(log)
  PROVE  /\ t \notin Final => Quiet(Append(log, t))
         /\ t = "payment_intent.succeeded" => Tells("succeeded", Append(log, t))
         /\ t = "payment_intent.canceled" => Tells("canceled", Append(log, t))
<1> DEFINE new == Append(log, t)
<1>1. /\ DOMAIN log = 1 .. Len(log) /\ Len(log) \in Nat
      /\ DOMAIN new = 1 .. Len(log) + 1 /\ Len(new) = Len(log) + 1
      /\ new[Len(log) + 1] = t
      /\ \A i \in 1 .. Len(log) : new[i] = log[i]
  OBVIOUS
<1>2. new # <<>> /\ Len(new) - 1 = Len(log)
  BY <1>1
<1>3. \A i \in 1 .. Len(log) : new[i] \notin Final
  BY <1>1 DEF Quiet
<1> HIDE DEF new
<1>4. t \notin Final => Quiet(new)
  BY <1>1, <1>3 DEF Quiet
<1>5. new[Len(new)] = t
  BY <1>1
<1>6. t \in Final => \A i \in 1 .. Len(new) - 1 : new[i] \notin Final
  BY <1>2, <1>3
<1> QED BY <1>2, <1>4, <1>5, <1>6 DEF Tells, Final, new

\* A capture or a decline logged after a quiet log of p.
LEMMA CaptureTells ==
  ASSUME TypeOK, NEW p \in PIs, NEW pi \in PIRow, NEW pm, NEW customer,
         NEW log \in Logs, Quiet(PILogs(log)[p]),
         \A q \in PIs \ {p} : Tells(payment_intents[q].status, PILogs(log)[q]),
         Capture(p, pi, pm, customer, log)
  PROVE  AllTell'
<1> DEFINE c == NewId(charges)
           first == Emit(log, <<"pi", p>>, "payment_intent.succeeded")
<1>1. c \in Charges
  BY NewIdUnused DEF Capture, TypeOK
<1>2. /\ payment_intents'[p].status = "succeeded"
      /\ \A q \in PIs \ {p} : payment_intents'[q] = payment_intents[q]
  BY DEF Capture, TypeOK, PIRow
<1>3. events' = Emit(first, <<"ch", c>>, "charge.succeeded")
  BY DEF Capture, CaptureLog
<1> HIDE DEF c
<1>4. /\ first \in Logs
      /\ PILogs(first)[p] = Append(PILogs(log)[p], "payment_intent.succeeded")
      /\ \A q \in PIs \ {p} : PILogs(first)[q] = PILogs(log)[q]
  BY PIEmits, PILogsType, EventNames
<1> HIDE DEF first
<1>5. PILogs(events') = PILogs(first)
  BY <1>1, <1>3, <1>4, OtherEmits, EventNames DEF OnlyOthers
<1>6. Tells("succeeded", Append(PILogs(log)[p], "payment_intent.succeeded"))
  <2>1. PILogs(log)[p] \in Seq(EventTypes)
    BY PILogsType
  <2>2. "payment_intent.succeeded" \in EventTypes
    BY DEF EventTypes
  <2> QED BY <2>1, <2>2, QuietAppend
<1> QED BY <1>2, <1>4, <1>5, <1>6 DEF AllTell

LEMMA DeclineTells ==
  ASSUME TypeOK, NEW p \in PIs, NEW pi \in PIRow, NEW pm,
         NEW log \in Logs, Quiet(PILogs(log)[p]),
         \A q \in PIs \ {p} : Tells(payment_intents[q].status, PILogs(log)[q]),
         Decline(p, pi, pm, log)
  PROVE  AllTell'
<1> DEFINE c == NewId(charges)
           first == Emit(log, <<"pi", p>>, "payment_intent.payment_failed")
<1>1. c \in Charges
  BY NewIdUnused DEF Decline, TypeOK
<1>2. /\ payment_intents'[p].status = "requires_payment_method"
      /\ \A q \in PIs \ {p} : payment_intents'[q] = payment_intents[q]
  BY DEF Decline, TypeOK, PIRow, Declined
<1>3. events' = Emit(first, <<"ch", c>>, "charge.failed")
  BY DEF Decline
<1> HIDE DEF c
<1>4. /\ first \in Logs
      /\ PILogs(first)[p] = Append(PILogs(log)[p], "payment_intent.payment_failed")
      /\ \A q \in PIs \ {p} : PILogs(first)[q] = PILogs(log)[q]
  BY PIEmits, PILogsType, EventNames
<1> HIDE DEF first
<1>5. PILogs(events') = PILogs(first)
  BY <1>1, <1>3, <1>4, OtherEmits, EventNames DEF OnlyOthers
<1>6. Quiet(PILogs(first)[p])
  <2>1. PILogs(log)[p] \in Seq(EventTypes)
    BY PILogsType
  <2>2. "payment_intent.payment_failed" \in EventTypes \ Final
    BY DEF EventTypes, Final
  <2> QED BY <1>4, <2>1, <2>2, QuietAppend
<1>7. Tells("requires_payment_method", PILogs(first)[p])
  <2>1. PILogs(first)[p] \in Seq(EventTypes)
    BY <1>4, PILogsType
  <2> QED BY <1>6, <2>1, QuietTells DEF Unsettled
<1> QED BY <1>2, <1>4, <1>5, <1>7 DEF AllTell

LEMMA AttemptTells ==
  ASSUME TypeOK, NEW p \in PIs, NEW pi \in PIRow, NEW pm \in PMs,
         NEW log \in Logs, Quiet(PILogs(log)[p]),
         \A q \in PIs \ {p} : Tells(payment_intents[q].status, PILogs(log)[q]),
         CardAttempt(p, pi, pm, log)
  PROVE  AllTell'
<1>1. CASE payment_methods[pm].declines
  BY <1>1, DeclineTells DEF CardAttempt
<1>2. CASE ~payment_methods[pm].declines
  <2> DEFINE row == [pi EXCEPT !.payment_method_id = pm,
                               !.last_payment_error = FALSE]
  <2>1. row \in PIRow
    BY DEF PIRow
  <2>2. Capture(p, row, pm, pi.customer_id, log)
    BY <1>2 DEF CardAttempt
  <2> HIDE DEF row
  <2> QED BY <2>1, <2>2, CaptureTells
<1> QED BY <1>1, <1>2

\* A call that leaves the PaymentIntents and their logs alone.
LEMMA OtherTells ==
  ASSUME AllTell, payment_intents' = payment_intents,
         PILogs(events') = PILogs(events)
  PROVE  AllTell'
BY DEF AllTell

\* A seeded PaymentIntent is unsettled and has an empty log.
LEMMA SeededTell ==
  ASSUME NEW table \in SeededPIs, NEW p \in PIs
  PROVE  Tells(table[p].status, PILogs(NoEvents)[p])
<1>1. PILogs(NoEvents)[p] = <<>>
  BY DEF NoEvents, PILogs, Objects
<1>2. table[p] = NoPI \/ \E s \in SeedStatuses, a \in Amounts : table[p] = SeededPI(s, a)
  BY DEF SeededPIs
<1>3. table[p].status \notin Terminal
  <2>1. NoPI.status = "absent"
    BY DEF NoPI
  <2>2. \A s \in SeedStatuses, a \in Amounts : SeededPI(s, a).status = s
    BY DEF NoPI, SeededPI
  <2>3. \A s \in SeedStatuses : s \notin Terminal
    BY SeedAssumption DEF Unsettled, Terminal
  <2> QED BY <1>2, <2>1, <2>2, <2>3 DEF Terminal
<1>4. table[p].status # "succeeded" /\ table[p].status # "canceled"
  BY <1>3 DEF Terminal
<1>5. 1 .. Len(<<>>) - 1 = {}
  OBVIOUS
<1> QED BY <1>1, <1>4, <1>5 DEF Tells

LEMMA NextTells == TypeOK /\ AllTell /\ [Next]_vars => AllTell'
<1> SUFFICES ASSUME TypeOK, AllTell, [Next]_vars PROVE AllTell'
  OBVIOUS
<1>0. /\ events \in Logs
      /\ \A p \in PIs : payment_intents[p] \in PIRow /\ PILogs(events)[p] \in Seq(EventTypes)
  BY PILogsType DEF TypeOK, Logs
<1>a. ASSUME NEW p \in PIs, payment_intents[p].status \notin Terminal
      PROVE Quiet(PILogs(events)[p])
  BY <1>0, <1>a, UnsettledQuiet DEF AllTell
<1>1. ASSUME NEW a \in Amounts, CreateCryptoPI(a) PROVE AllTell'
  <2> DEFINE p == NewId(payment_intents)
             first == Emit(events, <<"pi", p>>, "payment_intent.created")
  <2>1. p \in PIs /\ payment_intents[p].status = "absent"
    BY <1>1, NewIdUnused DEF CreateCryptoPI, TypeOK
  <2>2. /\ payment_intents'[p].status = "requires_action"
        /\ \A q \in PIs \ {p} : payment_intents'[q] = payment_intents[q]
        /\ events' = Emit(first, <<"pi", p>>, "payment_intent.requires_action")
    BY <1>1, <2>1 DEF CreateCryptoPI, TypeOK, NoPI
  <2> HIDE DEF p
  <2>3. /\ first \in Logs
        /\ PILogs(first)[p] = Append(PILogs(events)[p], "payment_intent.created")
        /\ \A q \in PIs \ {p} : PILogs(first)[q] = PILogs(events)[q]
    BY <1>0, <2>1, PIEmits, PILogsType, EventNames
  <2>4. Quiet(PILogs(first)[p])
    <3>1. Quiet(PILogs(events)[p])
      BY <1>a, <2>1 DEF Terminal
    <3>2. "payment_intent.created" \in EventTypes \ Final
      BY DEF EventTypes, Final
    <3> QED BY <1>0, <2>1, <2>3, <3>1, <3>2, QuietAppend
  <2> HIDE DEF first
  <2>5. /\ PILogs(events')[p] = Append(PILogs(first)[p], "payment_intent.requires_action")
        /\ PILogs(events')[p] \in Seq(EventTypes)
        /\ \A q \in PIs \ {p} : PILogs(events')[q] = PILogs(first)[q]
    BY <2>1, <2>2, <2>3, PIEmits, PILogsType, EventNames
  <2>6. Quiet(PILogs(events')[p])
    <3>1. PILogs(first)[p] \in Seq(EventTypes)
      BY <2>1, <2>3, PILogsType
    <3>2. "payment_intent.requires_action" \in EventTypes \ Final
      BY DEF EventTypes, Final
    <3> QED BY <2>4, <2>5, <3>1, <3>2, QuietAppend
  <2>7. Tells("requires_action", PILogs(events')[p])
    BY <2>5, <2>6, QuietTells DEF Unsettled
  <2> QED BY <2>2, <2>3, <2>5, <2>7 DEF AllTell
<1>2. ASSUME NEW a \in Amounts, NEW customer \in Customers \cup {NULL},
             NEW pm \in PMs \cup {NULL}, NEW confirm \in BOOLEAN,
             CreateCardPI(a, customer, pm, confirm)
      PROVE AllTell'
  <2> DEFINE p == NewId(payment_intents)
             pi == [NoPI EXCEPT !.amount = a, !.payment_method_id = pm,
                      !.customer_id = customer,
                      !.status = IF pm = NULL THEN "requires_payment_method"
                                              ELSE "requires_confirmation"]
             log == Emit(events, <<"pi", p>>, "payment_intent.created")
  <2>1. p \in PIs /\ payment_intents[p].status = "absent"
    BY <1>2, NewIdUnused DEF CreateCardPI, TypeOK
  <2>2. pi \in PIRow /\ pi.status \in Unsettled
    BY DEF NoPI, PIRow, Unsettled
  <2>3. CASE confirm
    <3>1. pm \in PMs /\ CardAttempt(p, pi, pm, log)
      BY <1>2, <2>3 DEF CreateCardPI
    <3> HIDE DEF p, pi
    <3>2. /\ log \in Logs
          /\ PILogs(log)[p] = Append(PILogs(events)[p], "payment_intent.created")
          /\ \A q \in PIs \ {p} : PILogs(log)[q] = PILogs(events)[q]
      BY <1>0, <2>1, PIEmits, PILogsType, EventNames
    <3>3. Quiet(PILogs(log)[p])
      <4>1. Quiet(PILogs(events)[p])
        BY <1>a, <2>1 DEF Terminal
      <4>2. "payment_intent.created" \in EventTypes \ Final
        BY DEF EventTypes, Final
      <4> QED BY <1>0, <2>1, <3>2, <4>1, <4>2, QuietAppend
    <3> HIDE DEF log
    <3>4. \A q \in PIs \ {p} : Tells(payment_intents[q].status, PILogs(log)[q])
      BY <3>2 DEF AllTell
    <3> QED BY <2>1, <2>2, <3>1, <3>2, <3>3, <3>4, AttemptTells
  <2>4. CASE ~confirm
    <3>1. /\ payment_intents' = [payment_intents EXCEPT ![p] = pi]
          /\ events' = log
      BY <1>2, <2>4 DEF CreateCardPI
    <3> HIDE DEF p, pi
    <3>2. /\ payment_intents'[p] = pi
          /\ \A q \in PIs \ {p} : payment_intents'[q] = payment_intents[q]
      BY <2>1, <3>1 DEF TypeOK
    <3>3. /\ log \in Logs
          /\ PILogs(log)[p] = Append(PILogs(events)[p], "payment_intent.created")
          /\ \A q \in PIs \ {p} : PILogs(log)[q] = PILogs(events)[q]
      BY <1>0, <2>1, PIEmits, PILogsType, EventNames
    <3>4. Quiet(PILogs(log)[p])
      <4>1. Quiet(PILogs(events)[p])
        BY <1>a, <2>1 DEF Terminal
      <4>2. "payment_intent.created" \in EventTypes \ Final
        BY DEF EventTypes, Final
      <4> QED BY <1>0, <2>1, <3>3, <4>1, <4>2, QuietAppend
    <3> HIDE DEF log
    <3>5. Tells(pi.status, PILogs(log)[p])
      BY <2>1, <2>2, <3>3, <3>4, QuietTells, PILogsType
    <3> QED BY <3>1, <3>2, <3>3, <3>5 DEF AllTell
  <2> QED BY <2>3, <2>4
<1>3. ASSUME NEW p \in PIs, NEW requested \in PMs \cup {KEEP},
             ConfirmCardPI(p, requested)
      PROVE AllTell'
  <2> DEFINE pi == payment_intents[p]
             pm == IF requested = KEEP THEN pi.payment_method_id ELSE requested
  <2>1. pm \in PMs /\ pi.status \notin Terminal /\ CardAttempt(p, pi, pm, events)
    BY <1>0, <1>3 DEF ConfirmCardPI, PIRow, Confirmable, Resolve, Terminal
  <2> HIDE DEF pm
  <2> QED BY <1>0, <1>a, <2>1, AttemptTells DEF AllTell
<1>4. ASSUME NEW p \in PIs, NEW a \in Amounts \cup {KEEP},
             NEW customer \in Customers \cup {NULL, KEEP},
             NEW pm \in PMs \cup {NULL, KEEP},
             UpdateCardPI(p, a, customer, pm)
      PROVE AllTell'
  <2>1. /\ events' = events
        /\ payment_intents[p].status \in Unsettled
        /\ \A q \in PIs \ {p} : payment_intents'[q] = payment_intents[q]
    BY <1>4 DEF UpdateCardPI, TypeOK, Updatable, Resolve, Unsettled
  <2>2. payment_intents'[p].status \in Unsettled
    BY <1>0, <1>4 DEF UpdateCardPI, TypeOK, PIRow, Updatable, Resolve, Unsettled
  <2>3. Quiet(PILogs(events)[p])
    BY <1>a, <2>1 DEF Unsettled, Terminal
  <2>4. Tells(payment_intents'[p].status, PILogs(events)[p])
    BY <1>0, <2>2, <2>3, QuietTells
  <2> QED BY <2>1, <2>4 DEF AllTell
<1>5. ASSUME NEW p \in PIs, CancelPI(p) PROVE AllTell'
  <2>1. /\ payment_intents[p].status \in Unsettled
        /\ payment_intents'[p].status = "canceled"
        /\ \A q \in PIs \ {p} : payment_intents'[q] = payment_intents[q]
        /\ events' = Emit(events, <<"pi", p>>, "payment_intent.canceled")
    BY <1>0, <1>5 DEF CancelPI, TypeOK, PIRow, Cancelable
  <2>2. /\ PILogs(events')[p] = Append(PILogs(events)[p], "payment_intent.canceled")
        /\ \A q \in PIs \ {p} : PILogs(events')[q] = PILogs(events)[q]
    BY <1>0, <2>1, PIEmits, PILogsType, EventNames
  <2>3. Tells("canceled", PILogs(events')[p])
    <3>1. Quiet(PILogs(events)[p])
      BY <1>a, <2>1 DEF Unsettled, Terminal
    <3>2. "payment_intent.canceled" \in EventTypes
      BY DEF EventTypes
    <3> QED BY <1>0, <2>2, <3>1, <3>2, QuietAppend
  <2> QED BY <2>1, <2>2, <2>3 DEF AllTell
<1>6. ASSUME NEW p \in PIs, SimulateCryptoDeposit(p) PROVE AllTell'
  <2> DEFINE log == Emit(events, <<"pi", p>>, "payment_intent.processing")
  <2>1. /\ payment_intents[p].status \notin Terminal
        /\ Capture(p, payment_intents[p], NULL, NULL, log)
    BY <1>6 DEF SimulateCryptoDeposit, Depositable, Terminal
  <2>2. /\ log \in Logs
        /\ PILogs(log)[p] = Append(PILogs(events)[p], "payment_intent.processing")
        /\ \A q \in PIs \ {p} : PILogs(log)[q] = PILogs(events)[q]
    BY <1>0, PIEmits, PILogsType, EventNames
  <2>3. Quiet(PILogs(log)[p])
    <3>1. "payment_intent.processing" \in EventTypes \ Final
      BY DEF EventTypes, Final
    <3> QED BY <1>0, <1>a, <2>1, <2>2, <3>1, QuietAppend
  <2> HIDE DEF log
  <2>4. \A q \in PIs \ {p} : Tells(payment_intents[q].status, PILogs(log)[q])
    BY <2>2 DEF AllTell
  <2> QED BY <1>0, <2>1, <2>2, <2>3, <2>4, CaptureTells
<1>7. ASSUME NEW c \in Charges, NEW requested \in Amounts \cup {KEEP},
             CreateRefund(c, requested)
      PROVE AllTell'
  <2> DEFINE r == NewId(refunds)
             first == Emit(events, <<"ch", c>>, "charge.refunded")
  <2>1. r \in Refunds /\ events' = Emit(first, <<"re", r>>, "refund.created")
    BY <1>7, NewIdUnused DEF CreateRefund, TypeOK
  <2>2. payment_intents' = payment_intents
    BY <1>7 DEF CreateRefund
  <2> HIDE DEF r
  <2>3. /\ first \in Logs
        /\ PILogs(first) = PILogs(events)
    BY <1>0, OtherEmits, EventNames DEF OnlyOthers
  <2> HIDE DEF first
  <2>4. PILogs(events') = PILogs(first)
    BY <2>1, <2>3, OtherEmits, EventNames DEF OnlyOthers
  <2> QED BY <2>2, <2>3, <2>4, OtherTells
<1>8. ASSUME CreateCustomer PROVE AllTell'
  <2>1. NewId(customers) \in Customers
    BY <1>8, NewIdUnused DEF CreateCustomer, TypeOK
  <2>2. PILogs(events') = PILogs(events)
    BY <1>0, <1>8, <2>1, OtherEmits, EventNames DEF CreateCustomer, OnlyOthers
  <2> QED BY <1>8, <2>2, OtherTells DEF CreateCustomer, money
<1>9. ASSUME NEW c \in Customers, UpdateCustomer(c) PROVE AllTell'
  <2>1. PILogs(events') = PILogs(events)
    BY <1>0, <1>9, OtherEmits, EventNames DEF UpdateCustomer, OnlyOthers
  <2> QED BY <1>9, <2>1, OtherTells DEF UpdateCustomer, money
<1>10. ASSUME NEW c \in Customers, DeleteCustomer(c) PROVE AllTell'
  <2>1. PILogs(events') = PILogs(events)
    BY <1>10 DEF DeleteCustomer, PILogs, Objects
  <2> QED BY <1>10, <2>1, OtherTells DEF DeleteCustomer, money
<1>11. ASSUME NEW pm \in PMs, DetachPM(pm) PROVE AllTell'
  <2>1. PILogs(events') = PILogs(events)
    BY <1>0, <1>11, OtherEmits, EventNames DEF DetachPM, OnlyOthers
  <2> QED BY <1>11, <2>1, OtherTells DEF DetachPM, money
<1>12. ASSUME NEW pm \in PMs, NEW c \in Customers, AttachPM(pm, c) PROVE AllTell'
  <2>1. PILogs(events') = PILogs(events)
    BY <1>0, <1>12, OtherEmits, EventNames DEF AttachPM, OnlyOthers
  <2> QED BY <1>12, <2>1, OtherTells DEF AttachPM, money
<1>13. ASSUME UNCHANGED <<money, events>> PROVE AllTell'
  BY <1>13, OtherTells DEF money
<1>14. ASSUME Reset PROVE AllTell'
  BY <1>14, SeededTell DEF Reset, AllTell
<1> QED
  BY <1>1, <1>2, <1>3, <1>4, <1>5, <1>6, <1>7, <1>8, <1>9, <1>10, <1>11, <1>12,
     <1>13, <1>14
  DEF Next, vars, CreatePM

LEMMA InitTells == Init => AllTell
BY SeededTell DEF Init, AllTell

\* An agent that polls the events learns how each PaymentIntent ended, for any
\* number of PaymentIntents, attempts, deposits and cancels.
THEOREM EventsTellOutcomeAlways == Spec => []EventsTellOutcome
<1>1. AllTell => EventsTellOutcome
  <2>1. \A p \in PIs : PILogs(events)[p] = events[<<"pi", p>>]
    BY DEF PILogs
  <2>2. AllTell => \A p \in PIs : Tells(payment_intents[p].status, events[<<"pi", p>>])
    BY <2>1 DEF AllTell
  <2> QED BY <2>2 DEF Tells, EventsTellOutcome, Final
<1> QED BY <1>1, InitTells, NextTells, TypeCorrect, PTL DEF Spec

-----------------------------------------------------------------------------
(* A detached payment method stays detached, and its log says so. *)

PMLogs(log) == [pm \in PMs |-> log[<<"pm", pm>>]]

LEMMA PMLogsType ==
  ASSUME NEW log \in Logs
  PROVE  PMLogs(log) \in [PMs -> Seq(EventTypes)]
<1>1. \A pm \in PMs : <<"pm", pm>> \in Objects
  BY DEF Objects
<1> QED BY <1>1 DEF Logs, PMLogs

LEMMA PMEmits ==
  ASSUME NEW log \in Logs, NEW pm \in PMs, NEW t \in EventTypes
  PROVE  /\ PMLogs(Emit(log, <<"pm", pm>>, t))[pm] = Append(PMLogs(log)[pm], t)
         /\ \A m \in PMs \ {pm} : PMLogs(Emit(log, <<"pm", pm>>, t))[m] = PMLogs(log)[m]
<1>1. \A m \in PMs : <<"pm", m>> \in Objects
  BY DEF Objects
<1>2. \A m \in PMs \ {pm} : <<"pm", m>> # <<"pm", pm>>
  OBVIOUS
<1> QED BY <1>1, <1>2, EmitType DEF Emit, PMLogs, Logs

\* The events of the other objects leave the logs of the payment methods alone.
KeepsPMLogs(log, new) == new \in Logs /\ PMLogs(new) = PMLogs(log)

LEMMA MoneyEmits ==
  ASSUME NEW log \in Logs, NEW t \in EventTypes
  PROVE  /\ \A p \in PIs : KeepsPMLogs(log, Emit(log, <<"pi", p>>, t))
         /\ \A c \in Charges : KeepsPMLogs(log, Emit(log, <<"ch", c>>, t))
         /\ \A r \in Refunds : KeepsPMLogs(log, Emit(log, <<"re", r>>, t))
         /\ \A c \in Customers : KeepsPMLogs(log, Emit(log, <<"cus", c>>, t))
<1>1. \A m \in PMs : <<"pm", m>> \in Objects
  BY DEF Objects
<1>2. ASSUME NEW o \in Objects, \A m \in PMs : <<"pm", m>> # o
      PROVE KeepsPMLogs(log, Emit(log, o, t))
  BY <1>1, <1>2, EmitType DEF Emit, KeepsPMLogs, PMLogs, Logs
<1>3. ASSUME NEW p \in PIs PROVE KeepsPMLogs(log, Emit(log, <<"pi", p>>, t))
  <2>1. <<"pi", p>> \in Objects /\ \A m \in PMs : <<"pm", m>> # <<"pi", p>>
    BY DEF Objects
  <2> QED BY <1>2, <2>1
<1>4. ASSUME NEW c \in Charges PROVE KeepsPMLogs(log, Emit(log, <<"ch", c>>, t))
  <2>1. <<"ch", c>> \in Objects /\ \A m \in PMs : <<"pm", m>> # <<"ch", c>>
    BY DEF Objects
  <2> QED BY <1>2, <2>1
<1>5. ASSUME NEW r \in Refunds PROVE KeepsPMLogs(log, Emit(log, <<"re", r>>, t))
  <2>1. <<"re", r>> \in Objects /\ \A m \in PMs : <<"pm", m>> # <<"re", r>>
    BY DEF Objects
  <2> QED BY <1>2, <2>1
<1>6. ASSUME NEW c \in Customers PROVE KeepsPMLogs(log, Emit(log, <<"cus", c>>, t))
  <2>1. <<"cus", c>> \in Objects /\ \A m \in PMs : <<"pm", m>> # <<"cus", c>>
    BY DEF Objects
  <2> QED BY <1>2, <2>1
<1> QED BY <1>3, <1>4, <1>5, <1>6

Saw(log) == \E i \in DOMAIN log : log[i] = "payment_method.detached"
SawLast(log) == \A i \in DOMAIN log : log[i] = "payment_method.detached" => i = Len(log)

LEMMA SawAppend ==
  ASSUME NEW log \in Seq(EventTypes), NEW t \in EventTypes, ~Saw(log)
  PROVE  /\ Saw(Append(log, t)) <=> t = "payment_method.detached"
         /\ SawLast(Append(log, t))
<1> DEFINE new == Append(log, t)
<1>1. /\ DOMAIN log = 1 .. Len(log) /\ Len(log) \in Nat
      /\ DOMAIN new = 1 .. Len(log) + 1 /\ Len(new) = Len(log) + 1
      /\ new[Len(log) + 1] = t
      /\ \A i \in 1 .. Len(log) : new[i] = log[i]
  OBVIOUS
<1> HIDE DEF new
<1>2. \A i \in DOMAIN new : i = Len(new) \/ new[i] # "payment_method.detached"
  BY <1>1 DEF Saw
<1>3. Len(new) \in DOMAIN new /\ new[Len(new)] = t
  BY <1>1
<1> QED BY <1>2, <1>3 DEF Saw, SawLast, new

\* A payment method is on a live customer or on none, a detached one is on none
\* and its log ends in the detach, and a row not yet created is blank.
Kept(row, log, table) ==
  /\ row.customer_id # NULL => table[row.customer_id].status = "live"
  /\ row.detached => row.customer_id = NULL
  /\ row.detached <=> Saw(log)
  /\ SawLast(log)
  /\ row.status = "absent" => ~row.detached /\ row.customer_id = NULL

AllKept == \A pm \in PMs : Kept(payment_methods[pm], PMLogs(events)[pm], customers)

\* A call about money leaves the customers and the payment methods alone.
LEMMA MoneyKept ==
  ASSUME AllKept, customers' = customers, payment_methods' = payment_methods,
         PMLogs(events') = PMLogs(events)
  PROVE  AllKept'
BY DEF AllKept

LEMMA CaptureKept ==
  ASSUME TypeOK, NEW p \in PIs, NEW pi, NEW pm, NEW customer, NEW log \in Logs,
         Capture(p, pi, pm, customer, log)
  PROVE  PMLogs(events') = PMLogs(log)
<1> DEFINE c == NewId(charges)
           first == Emit(log, <<"pi", p>>, "payment_intent.succeeded")
<1>1. c \in Charges /\ events' = Emit(first, <<"ch", c>>, "charge.succeeded")
  BY NewIdUnused DEF Capture, CaptureLog, TypeOK
<1> HIDE DEF c
<1>2. first \in Logs /\ PMLogs(first) = PMLogs(log)
  BY MoneyEmits, EventNames DEF KeepsPMLogs
<1> HIDE DEF first
<1> QED BY <1>1, <1>2, MoneyEmits, EventNames DEF KeepsPMLogs

LEMMA AttemptKept ==
  ASSUME TypeOK, NEW p \in PIs, NEW pi, NEW pm, NEW log \in Logs,
         CardAttempt(p, pi, pm, log)
  PROVE  PMLogs(events') = PMLogs(log)
<1>1. CASE Decline(p, pi, pm, log)
  <2> DEFINE c == NewId(charges)
             first == Emit(log, <<"pi", p>>, "payment_intent.payment_failed")
  <2>1. c \in Charges /\ events' = Emit(first, <<"ch", c>>, "charge.failed")
    BY <1>1, NewIdUnused DEF Decline, TypeOK
  <2> HIDE DEF c
  <2>2. first \in Logs /\ PMLogs(first) = PMLogs(log)
    BY MoneyEmits, EventNames DEF KeepsPMLogs
  <2> HIDE DEF first
  <2> QED BY <2>1, <2>2, MoneyEmits, EventNames DEF KeepsPMLogs
<1>2. ASSUME NEW row, NEW customer, Capture(p, row, pm, customer, log)
      PROVE PMLogs(events') = PMLogs(log)
  BY <1>2, CaptureKept
<1> QED BY <1>1, <1>2 DEF CardAttempt

\* A fresh table keeps it.
LEMMA BlankKept ==
  ASSUME NEW table, NEW pm \in PMs
  PROVE  Kept(NoPM, PMLogs(NoEvents)[pm], table)
<1>1. PMLogs(NoEvents)[pm] = <<>>
  BY DEF NoEvents, PMLogs, Objects
<1>2. DOMAIN <<>> = {}
  OBVIOUS
<1> QED BY <1>1, <1>2 DEF Kept, NoPM, Saw, SawLast

LEMMA NextKept == TypeOK /\ AllKept /\ [Next]_vars => AllKept'
<1> SUFFICES ASSUME TypeOK, AllKept, [Next]_vars PROVE AllKept'
  OBVIOUS
<1>0. /\ events \in Logs
      /\ \A pm \in PMs : payment_methods[pm] \in PMRow /\ PMLogs(events)[pm] \in Seq(EventTypes)
  BY PMLogsType DEF TypeOK, Logs
<1>1. ASSUME NEW a \in Amounts, CreateCryptoPI(a) PROVE AllKept'
  <2> DEFINE p == NewId(payment_intents)
             first == Emit(events, <<"pi", p>>, "payment_intent.created")
  <2>1. p \in PIs /\ events' = Emit(first, <<"pi", p>>, "payment_intent.requires_action")
    BY <1>1, NewIdUnused DEF CreateCryptoPI, TypeOK
  <2> HIDE DEF p
  <2>2. first \in Logs /\ PMLogs(first) = PMLogs(events)
    BY <1>0, <2>1, MoneyEmits, EventNames DEF KeepsPMLogs
  <2> HIDE DEF first
  <2>3. PMLogs(events') = PMLogs(first)
    BY <2>1, <2>2, MoneyEmits, EventNames DEF KeepsPMLogs
  <2> QED BY <1>1, <2>2, <2>3, MoneyKept DEF CreateCryptoPI
<1>2. ASSUME NEW a \in Amounts, NEW customer \in Customers \cup {NULL},
             NEW pm \in PMs \cup {NULL}, NEW confirm \in BOOLEAN,
             CreateCardPI(a, customer, pm, confirm)
      PROVE AllKept'
  <2> DEFINE p == NewId(payment_intents)
             pi == [NoPI EXCEPT !.amount = a, !.payment_method_id = pm,
                      !.customer_id = customer,
                      !.status = IF pm = NULL THEN "requires_payment_method"
                                              ELSE "requires_confirmation"]
             log == Emit(events, <<"pi", p>>, "payment_intent.created")
  <2>1. /\ p \in PIs /\ customers' = customers /\ payment_methods' = payment_methods
        /\ CardAttempt(p, pi, pm, log) \/ events' = log
    BY <1>2, NewIdUnused DEF CreateCardPI, TypeOK
  <2> HIDE DEF p, pi
  <2>2. log \in Logs /\ PMLogs(log) = PMLogs(events)
    BY <1>0, <2>1, MoneyEmits, EventNames DEF KeepsPMLogs
  <2> HIDE DEF log
  <2>3. PMLogs(events') = PMLogs(log)
    BY <2>1, <2>2, AttemptKept
  <2> QED BY <2>1, <2>2, <2>3, MoneyKept
<1>3. ASSUME NEW p \in PIs, NEW requested \in PMs \cup {KEEP},
             ConfirmCardPI(p, requested)
      PROVE AllKept'
  <2>1. PICK pm : CardAttempt(p, payment_intents[p], pm, events)
    BY <1>3 DEF ConfirmCardPI
  <2>2. PMLogs(events') = PMLogs(events)
    BY <1>0, <2>1, AttemptKept
  <2> QED BY <1>3, <2>2, MoneyKept DEF ConfirmCardPI
<1>4. ASSUME NEW p \in PIs, CancelPI(p) PROVE AllKept'
  <2>1. events' = Emit(events, <<"pi", p>>, "payment_intent.canceled")
    BY <1>4 DEF CancelPI
  <2>2. PMLogs(events') = PMLogs(events)
    BY <1>0, <2>1, MoneyEmits, EventNames DEF KeepsPMLogs
  <2> QED BY <1>4, <2>2, MoneyKept DEF CancelPI
<1>5. ASSUME NEW p \in PIs, SimulateCryptoDeposit(p) PROVE AllKept'
  <2> DEFINE log == Emit(events, <<"pi", p>>, "payment_intent.processing")
  <2>1. Capture(p, payment_intents[p], NULL, NULL, log)
    BY <1>5 DEF SimulateCryptoDeposit
  <2>2. log \in Logs /\ PMLogs(log) = PMLogs(events)
    BY <1>0, MoneyEmits, EventNames DEF KeepsPMLogs
  <2> HIDE DEF log
  <2>3. PMLogs(events') = PMLogs(log)
    BY <2>1, <2>2, CaptureKept
  <2> QED BY <1>5, <2>2, <2>3, MoneyKept DEF SimulateCryptoDeposit
<1>6. ASSUME NEW c \in Charges, NEW requested \in Amounts \cup {KEEP},
             CreateRefund(c, requested)
      PROVE AllKept'
  <2> DEFINE r == NewId(refunds)
             first == Emit(events, <<"ch", c>>, "charge.refunded")
  <2>1. r \in Refunds /\ events' = Emit(first, <<"re", r>>, "refund.created")
    BY <1>6, NewIdUnused DEF CreateRefund, TypeOK
  <2> HIDE DEF r
  <2>2. first \in Logs /\ PMLogs(first) = PMLogs(events)
    BY <1>0, MoneyEmits, EventNames DEF KeepsPMLogs
  <2> HIDE DEF first
  <2>3. PMLogs(events') = PMLogs(first)
    BY <2>1, <2>2, MoneyEmits, EventNames DEF KeepsPMLogs
  <2> QED BY <1>6, <2>2, <2>3, MoneyKept DEF CreateRefund
<1>7. ASSUME CreateCustomer PROVE AllKept'
  <2> DEFINE c == NewId(customers)
  <2>1. /\ c \in Customers /\ customers[c].status = "absent"
        /\ payment_methods' = payment_methods
        /\ events' = Emit(events, <<"cus", c>>, "customer.created")
    BY <1>7, NewIdUnused DEF CreateCustomer, TypeOK
  <2>2. \A d \in Customers : customers[d].status = "live" => customers'[d].status = "live"
    BY <1>7, <2>1 DEF CreateCustomer, TypeOK, CustomerRow
  <2> HIDE DEF c
  <2>3. PMLogs(events') = PMLogs(events)
    BY <1>0, <2>1, MoneyEmits, EventNames DEF KeepsPMLogs
  <2>4. \A pm \in PMs : payment_methods[pm].customer_id \in Customers \cup {NULL}
    BY <1>0 DEF PMRow
  <2> QED BY <2>1, <2>2, <2>3, <2>4 DEF AllKept, Kept
<1>8. ASSUME NEW c \in Customers, UpdateCustomer(c) PROVE AllKept'
  <2>1. events' = Emit(events, <<"cus", c>>, "customer.updated")
    BY <1>8 DEF UpdateCustomer
  <2>2. PMLogs(events') = PMLogs(events)
    BY <1>0, <2>1, MoneyEmits, EventNames DEF KeepsPMLogs
  <2> QED BY <1>8, <2>2, MoneyKept DEF UpdateCustomer
<1>9. ASSUME NEW c \in Customers, DeleteCustomer(c), NEW pm \in PMs
      PROVE Kept(payment_methods[pm], PMLogs(events)[pm], customers)'
  <2>1. Kept(payment_methods[pm], PMLogs(events)[pm], customers)
    BY DEF AllKept
  <2>2. c # NULL /\ payment_methods[pm].customer_id \in Customers \cup {NULL}
    BY <1>0, NullAssumption DEF PMRow
  <2>3. \A d \in Customers : d # c => customers'[d] = customers[d]
    BY <1>9 DEF DeleteCustomer, TypeOK
  <2>4. CASE payment_methods[pm].customer_id = c
    <3>1. /\ payment_methods'[pm].customer_id = NULL
          /\ payment_methods'[pm].detached = TRUE
          /\ payment_methods'[pm].status = payment_methods[pm].status
      BY <1>0, <1>9, <2>4 DEF DeleteCustomer, PMRow
    <3>2. PMLogs(events')[pm] = Append(PMLogs(events)[pm], "payment_method.detached")
      <4>1. <<"pm", pm>> \in Objects /\ <<"pm", pm>> # <<"cus", c>>
        BY DEF Objects
      <4>2. <<"pm", pm>> \in {"pm"} \X {m \in PMs : payment_methods[m].customer_id = c}
        BY <2>4
      <4> QED BY <1>9, <4>1, <4>2 DEF DeleteCustomer, PMLogs
    <3>3. ~Saw(PMLogs(events)[pm])
      BY <2>1, <2>2, <2>4 DEF Kept
    <3>4. Saw(PMLogs(events')[pm]) /\ SawLast(PMLogs(events')[pm])
      BY <1>0, <3>2, <3>3, SawAppend, EventNames
    <3>5. payment_methods[pm].status # "absent"
      BY <2>1, <2>2, <2>4 DEF Kept
    <3> QED BY <3>1, <3>4, <3>5 DEF Kept
  <2>5. CASE payment_methods[pm].customer_id # c
    <3>1. payment_methods'[pm] = payment_methods[pm]
      BY <1>9, <2>5 DEF DeleteCustomer
    <3>2. PMLogs(events')[pm] = PMLogs(events)[pm]
      <4>1. <<"pm", pm>> \in Objects /\ <<"pm", pm>> # <<"cus", c>>
        BY DEF Objects
      <4>2. <<"pm", pm>> \notin {"pm"} \X {m \in PMs : payment_methods[m].customer_id = c}
        BY <2>5
      <4> QED BY <1>9, <4>1, <4>2 DEF DeleteCustomer, PMLogs
    <3> QED BY <2>1, <2>2, <2>3, <2>5, <3>1, <3>2 DEF Kept
  <2> QED BY <2>4, <2>5
<1>10. ASSUME NEW declines \in BOOLEAN, CreatePM(declines) PROVE AllKept'
  <2> DEFINE pm == NewId(payment_methods)
  <2>1. /\ pm \in PMs /\ payment_methods[pm].status = "absent"
        /\ payment_methods'[pm].customer_id = NULL
        /\ payment_methods'[pm].detached = FALSE
        /\ payment_methods'[pm].status = "present"
        /\ \A m \in PMs : m # pm => payment_methods'[m] = payment_methods[m]
        /\ events' = events /\ customers' = customers
    BY <1>10, NewIdUnused DEF CreatePM, TypeOK
  <2> HIDE DEF pm
  <2> QED BY <2>1 DEF AllKept, Kept
<1>11. ASSUME NEW pm \in PMs, DetachPM(pm) PROVE AllKept'
  <2>1. /\ payment_methods'[pm].customer_id = NULL
        /\ payment_methods'[pm].detached = TRUE
        /\ payment_methods'[pm].status = "present"
        /\ \A m \in PMs : m # pm => payment_methods'[m] = payment_methods[m]
        /\ customers' = customers
        /\ events' = Emit(events, <<"pm", pm>>, "payment_method.detached")
    BY <1>0, <1>11 DEF DetachPM, PMExists, TypeOK, PMRow
  <2>2. /\ PMLogs(events')[pm] = Append(PMLogs(events)[pm], "payment_method.detached")
        /\ \A m \in PMs \ {pm} : PMLogs(events')[m] = PMLogs(events)[m]
    BY <1>0, <2>1, PMEmits, EventNames
  <2>3. ~Saw(PMLogs(events)[pm])
    BY <1>11 DEF AllKept, Kept, DetachPM
  <2>4. Saw(PMLogs(events')[pm]) /\ SawLast(PMLogs(events')[pm])
    BY <1>0, <2>2, <2>3, SawAppend, EventNames
  <2> QED BY <2>1, <2>2, <2>4 DEF AllKept, Kept
<1>12. ASSUME NEW pm \in PMs, NEW c \in Customers, AttachPM(pm, c) PROVE AllKept'
  <2>1. /\ payment_methods'[pm].customer_id = c
        /\ payment_methods'[pm].status = "present"
        /\ payment_methods'[pm].detached = FALSE
        /\ customers[c].status = "live"
        /\ \A m \in PMs : m # pm => payment_methods'[m] = payment_methods[m]
        /\ customers' = customers
        /\ events' = Emit(events, <<"pm", pm>>, "payment_method.attached")
    BY <1>0, <1>12 DEF AttachPM, Attachable, FreePM, Live, PMExists, TypeOK, PMRow
  <2>2. /\ PMLogs(events')[pm] = Append(PMLogs(events)[pm], "payment_method.attached")
        /\ \A m \in PMs \ {pm} : PMLogs(events')[m] = PMLogs(events)[m]
    BY <1>0, <2>1, PMEmits, EventNames
  <2>3. ~Saw(PMLogs(events)[pm])
    BY <1>12 DEF AllKept, Kept, AttachPM, Attachable
  <2>4. ~Saw(PMLogs(events')[pm]) /\ SawLast(PMLogs(events')[pm])
    BY <1>0, <2>2, <2>3, SawAppend, EventNames
  <2> QED BY <2>1, <2>2, <2>4 DEF AllKept, Kept
<1>13. ASSUME customers' = customers, payment_methods' = payment_methods, events' = events
       PROVE AllKept'
  BY <1>13, MoneyKept
<1>14. ASSUME Reset PROVE AllKept'
  BY <1>14, BlankKept DEF Reset, AllKept
<1> QED
  BY <1>1, <1>2, <1>3, <1>4, <1>5, <1>6, <1>7, <1>8, <1>9, <1>10, <1>11, <1>12,
     <1>13, <1>14
  DEF Next, vars, UpdateCardPI, AllKept

LEMMA InitKept == Init => AllKept
BY BlankKept DEF Init, AllKept

\* A detached payment method is on no customer for good and its log says so
\* once, last, for any number of customers, attaches, detaches and deletions.
THEOREM DetachedForGoodAlways == Spec => []DetachedForGood
<1>1. AllKept => DetachedForGood
  <2>1. \A pm \in PMs : PMLogs(events)[pm] = events[<<"pm", pm>>]
    BY DEF PMLogs
  <2>2. AllKept => \A pm \in PMs :
          Kept(payment_methods[pm], events[<<"pm", pm>>], customers)
    BY <2>1 DEF AllKept
  <2> QED BY <2>2 DEF Kept, Saw, SawLast, DetachedForGood, Live
<1> QED BY <1>1, InitKept, NextKept, TypeCorrect, PTL DEF Spec

-----------------------------------------------------------------------------
(* Each balance transaction is booked for one charge or one refund. *)

\* A row that is not created yet, and a failed charge, names no balance
\* transaction; and BookedOnce.
Books ==
  /\ BookedOnce
  /\ \A c \in Charges : charges[c].status # "succeeded" =>
       charges[c].balance_transaction_id = NULL
  /\ \A r \in Refunds : refunds[r].status = "absent" =>
       refunds[r].balance_transaction_id = NULL

\* The three tables it reads.
ledger == <<charges, refunds, balance_transactions>>

Booked(b) == {c \in Charges : charges[c].balance_transaction_id = b}
Given(b)  == {r \in Refunds : refunds[r].balance_transaction_id = b}

BookOK(b) ==
  LET bt == balance_transactions[b] IN
  /\ bt.status = "absent" => Booked(b) = {} /\ Given(b) = {}
  /\ bt.status = "available" /\ bt.type = "charge" =>
       /\ Given(b) = {}
       /\ \E c \in Charges : /\ Booked(b) = {c}
                             /\ charges[c].status = "succeeded"
                             /\ charges[c].payment_intent_id = bt.source_id
  /\ bt.status = "available" /\ bt.type = "refund" =>
       Booked(b) = {} /\ Given(b) = {bt.source_id}

LEMMA BookedPerTx == BookedOnce <=> \A b \in BalanceTxs : BookOK(b)
BY DEF BookedOnce, BookOK, Booked, Given

LEMMA CaptureBooks ==
  ASSUME TypeOK, Books, NEW p \in PIs, NEW pi, NEW pm, NEW customer, NEW log,
         Capture(p, pi, pm, customer, log)
  PROVE  Books'
<1>1. PICK c \in Charges, b \in BalanceTxs :
        /\ c = NewId(charges) /\ charges[c].status = "absent"
        /\ b = NewId(balance_transactions) /\ balance_transactions[b].status = "absent"
  BY NewIdUnused DEF Capture, TypeOK
<1>2. /\ charges'[c].status = "succeeded"
      /\ charges'[c].payment_intent_id = p
      /\ charges'[c].balance_transaction_id = b
      /\ \A d \in Charges \ {c} : charges'[d] = charges[d]
      /\ balance_transactions'[b].status = "available"
      /\ balance_transactions'[b].type = "charge"
      /\ balance_transactions'[b].source_id = p
      /\ \A d \in BalanceTxs \ {b} : balance_transactions'[d] = balance_transactions[d]
      /\ refunds' = refunds
  BY <1>1 DEF Capture, TypeOK
<1>3. b # NULL /\ charges[c].balance_transaction_id = NULL
  BY <1>1, NullAssumption DEF Books
<1>4. Booked(b)' = {c} /\ Given(b)' = {}
  <2>1. Booked(b) = {} /\ Given(b) = {}
    BY <1>1, BookedPerTx DEF Books, BookOK
  <2>2. \A e \in Charges : charges'[e].balance_transaction_id = b <=> e = c
    BY <1>1, <1>2, <2>1 DEF Booked
  <2>3. \A r \in Refunds : refunds'[r].balance_transaction_id # b
    BY <1>2, <2>1 DEF Given
  <2> QED BY <1>1, <2>2, <2>3 DEF Booked, Given
<1>5. ASSUME NEW d \in BalanceTxs \ {b} PROVE BookOK(d)'
  <2>1. Booked(d)' = Booked(d) /\ Given(d)' = Given(d)
    <3>1. d # NULL
      BY NullAssumption
    <3> QED BY <1>1, <1>2, <1>3, <3>1 DEF Booked, Given
  <2>2. BookOK(d)
    BY BookedPerTx DEF Books
  <2>3. \A e \in Charges : charges[e].status = "succeeded" => charges'[e] = charges[e]
    BY <1>1, <1>2
  <2> QED BY <1>2, <2>1, <2>2, <2>3 DEF BookOK
<1>6. BookOK(b)'
  <2>1. \E e \in Charges : /\ Booked(b)' = {e}
                           /\ charges'[e].status = "succeeded"
                           /\ charges'[e].payment_intent_id = p
    BY <1>1, <1>2, <1>4
  <2> QED BY <1>2, <1>4, <2>1 DEF BookOK
<1>7. BookedOnce'
  <2>1. \A d \in BalanceTxs : BookOK(d)'
    BY <1>5, <1>6
  <2> QED BY <2>1 DEF BookedOnce, BookOK, Booked, Given
<1> QED BY <1>1, <1>2, <1>7 DEF Books

LEMMA DeclineBooks ==
  ASSUME TypeOK, Books, NEW p \in PIs, NEW pi, NEW pm, NEW log,
         Decline(p, pi, pm, log)
  PROVE  Books'
<1> DEFINE c == NewId(charges)
<1>1. c \in Charges /\ charges[c].status = "absent"
  BY NewIdUnused DEF Decline, TypeOK
<1>2. /\ charges'[c].status = "failed"
      /\ charges'[c].balance_transaction_id = NULL
      /\ \A d \in Charges \ {c} : charges'[d] = charges[d]
      /\ UNCHANGED <<refunds, balance_transactions>>
  BY <1>1 DEF Decline, TypeOK
<1> HIDE DEF c
<1>3. charges[c].balance_transaction_id = NULL
  BY <1>1 DEF Books
<1>4. ASSUME NEW d \in BalanceTxs PROVE BookOK(d)'
  <2>1. Booked(d)' = Booked(d) /\ Given(d)' = Given(d)
    <3>1. d # NULL
      BY NullAssumption
    <3> QED BY <1>1, <1>2, <1>3, <3>1 DEF Booked, Given
  <2>2. BookOK(d)
    BY BookedPerTx DEF Books
  <2>3. \A e \in Charges : charges[e].status = "succeeded" => charges'[e] = charges[e]
    BY <1>1, <1>2
  <2> QED BY <1>2, <2>1, <2>2, <2>3 DEF BookOK
<1>5. BookedOnce'
  BY <1>4 DEF BookedOnce, BookOK, Booked, Given
<1> QED BY <1>1, <1>2, <1>5 DEF Books

LEMMA AttemptBooks ==
  ASSUME TypeOK, Books, NEW p \in PIs, NEW pi, NEW pm, NEW log,
         CardAttempt(p, pi, pm, log)
  PROVE  Books'
<1>1. ASSUME NEW row, NEW customer, Capture(p, row, pm, customer, log)
      PROVE Books'
  BY <1>1, CaptureBooks
<1> QED BY <1>1, DeclineBooks DEF CardAttempt

LEMMA RefundBooks ==
  ASSUME TypeOK, Books, NEW c \in Charges, NEW requested \in Amounts \cup {KEEP},
         CreateRefund(c, requested)
  PROVE  Books'
<1>1. PICK r \in Refunds, b \in BalanceTxs :
        /\ r = NewId(refunds) /\ refunds[r].status = "absent"
        /\ b = NewId(balance_transactions) /\ balance_transactions[b].status = "absent"
  BY NewIdUnused DEF CreateRefund, TypeOK
<1>2. PICK amount :
        /\ refunds' = [refunds EXCEPT ![r] = RefundOf(c, amount, b)]
        /\ balance_transactions' = [balance_transactions EXCEPT ![b] = RefundTx(r, amount)]
        /\ charges' = [charges EXCEPT ![c] = AddRefunded(charges[c], amount)]
  BY <1>1 DEF CreateRefund
<1>3. /\ refunds'[r].status = "succeeded"
      /\ refunds'[r].balance_transaction_id = b
      /\ \A d \in Refunds \ {r} : refunds'[d] = refunds[d]
      /\ balance_transactions'[b].status = "available"
      /\ balance_transactions'[b].type = "refund"
      /\ balance_transactions'[b].source_id = r
      /\ \A d \in BalanceTxs \ {b} : balance_transactions'[d] = balance_transactions[d]
  BY <1>1, <1>2 DEF RefundOf, RefundTx, TypeOK
<1>4. \A d \in Charges :
        /\ charges'[d].status = charges[d].status
        /\ charges'[d].payment_intent_id = charges[d].payment_intent_id
        /\ charges'[d].balance_transaction_id = charges[d].balance_transaction_id
  <2>1. charges \in [Charges -> ChargeRow]
    BY DEF TypeOK
  <2> QED BY <1>2, <2>1 DEF AddRefunded, ChargeRow
<1>5. refunds[r].balance_transaction_id = NULL
  BY <1>1 DEF Books
<1>6. Booked(b)' = {} /\ Given(b)' = {r}
  <2>1. Booked(b) = {} /\ Given(b) = {}
    BY <1>1, BookedPerTx DEF Books, BookOK
  <2>2. \A e \in Refunds : refunds'[e].balance_transaction_id = b <=> e = r
    BY <1>1, <1>3, <2>1 DEF Given
  <2>3. \A e \in Charges : charges'[e].balance_transaction_id # b
    BY <1>4, <2>1 DEF Booked
  <2> QED BY <1>1, <2>2, <2>3 DEF Booked, Given
<1>7. ASSUME NEW d \in BalanceTxs \ {b} PROVE BookOK(d)'
  <2>1. Booked(d)' = Booked(d) /\ Given(d)' = Given(d)
    <3>1. d # NULL
      BY NullAssumption
    <3> QED BY <1>1, <1>3, <1>4, <1>5, <3>1 DEF Booked, Given
  <2>2. BookOK(d)
    BY BookedPerTx DEF Books
  <2> QED BY <1>3, <1>4, <2>1, <2>2 DEF BookOK
<1>8. BookOK(b)'
  BY <1>3, <1>6 DEF BookOK
<1>9. BookedOnce'
  <2>1. \A d \in BalanceTxs : BookOK(d)'
    BY <1>7, <1>8
  <2> QED BY <2>1 DEF BookedOnce, BookOK, Booked, Given
<1> QED BY <1>1, <1>3, <1>4, <1>9 DEF Books

LEMMA BlankBooks ==
  ASSUME \A c \in Charges : charges[c] = NoCharge,
         \A r \in Refunds : refunds[r] = NoRefund,
         \A b \in BalanceTxs : balance_transactions[b] = NoBalanceTx
  PROVE  Books
<1>1. ASSUME NEW b \in BalanceTxs PROVE BookOK(b)
  <2>1. b # NULL
    BY NullAssumption
  <2>2. Booked(b) = {} /\ Given(b) = {}
    BY <2>1 DEF Booked, Given, NoCharge, NoRefund
  <2> QED BY <2>2 DEF BookOK, NoBalanceTx
<1> QED BY <1>1, BookedPerTx DEF Books, NoCharge, NoRefund

LEMMA InitBooks == Init => Books
BY BlankBooks DEF Init

LEMMA NextBooks == TypeOK /\ Books /\ [Next]_vars => Books'
<1> SUFFICES ASSUME TypeOK, Books, [Next]_vars PROVE Books'
  OBVIOUS
<1>1. ASSUME UNCHANGED ledger PROVE Books'
  BY <1>1 DEF ledger, Books, BookedOnce
<1>2. ASSUME NEW a \in Amounts, NEW customer \in Customers \cup {NULL},
             NEW pm \in PMs \cup {NULL}, NEW confirm \in BOOLEAN,
             CreateCardPI(a, customer, pm, confirm)
      PROVE Books'
  <2> DEFINE p == NewId(payment_intents)
             pi == [NoPI EXCEPT !.amount = a, !.payment_method_id = pm,
                      !.customer_id = customer,
                      !.status = IF pm = NULL THEN "requires_payment_method"
                                              ELSE "requires_confirmation"]
             log == Emit(events, <<"pi", p>>, "payment_intent.created")
  <2>1. p \in PIs /\ (CardAttempt(p, pi, pm, log) \/ UNCHANGED ledger)
    BY <1>2, NewIdUnused DEF CreateCardPI, TypeOK, ledger
  <2> HIDE DEF p, pi, log
  <2> QED BY <1>1, <2>1, AttemptBooks
<1>3. ASSUME NEW p \in PIs, NEW requested \in PMs \cup {KEEP},
             ConfirmCardPI(p, requested)
      PROVE Books'
  <2>1. PICK pm : CardAttempt(p, payment_intents[p], pm, events)
    BY <1>3 DEF ConfirmCardPI
  <2> QED BY <2>1, AttemptBooks
<1>4. ASSUME NEW p \in PIs, SimulateCryptoDeposit(p) PROVE Books'
  <2>1. PICK log : Capture(p, payment_intents[p], NULL, NULL, log)
    BY <1>4 DEF SimulateCryptoDeposit
  <2> QED BY <2>1, CaptureBooks
<1>5. ASSUME NEW c \in Charges, NEW requested \in Amounts \cup {KEEP},
             CreateRefund(c, requested)
      PROVE Books'
  BY <1>5, RefundBooks
<1>6. ASSUME Reset PROVE Books'
  <2>1. /\ \A c \in Charges : charges'[c] = NoCharge
        /\ \A r \in Refunds : refunds'[r] = NoRefund
        /\ \A b \in BalanceTxs : balance_transactions'[b] = NoBalanceTx
    BY <1>6 DEF Reset
  <2>2. ASSUME NEW b \in BalanceTxs PROVE BookOK(b)'
    <3>1. b # NULL
      BY NullAssumption
    <3>2. Booked(b)' = {} /\ Given(b)' = {}
      BY <2>1, <3>1 DEF Booked, Given, NoCharge, NoRefund
    <3> QED BY <2>1, <3>2 DEF BookOK, NoBalanceTx
  <2>3. BookedOnce'
    BY <2>2 DEF BookedOnce, BookOK, Booked, Given
  <2> QED BY <2>1, <2>3 DEF Books, NoCharge, NoRefund
<1> QED
  BY <1>1, <1>2, <1>3, <1>4, <1>5, <1>6
  DEF Next, vars, money, ledger, CreateCustomer, UpdateCustomer, DeleteCustomer,
      CreatePM, AttachPM, DetachPM, CreateCryptoPI, UpdateCardPI, CancelPI

\* Each balance transaction is booked for one succeeded charge or for one refund,
\* whatever the calls: the part of BalanceReconciles that is not a sum.
THEOREM BookedOnceAlways == Spec => []BookedOnce
<1>1. Books => BookedOnce
  BY DEF Books
<1> QED BY <1>1, InitBooks, NextBooks, TypeCorrect, PTL DEF Spec

-----------------------------------------------------------------------------
(* Sums.  A fold picks the rows of a table in an order of its own, and a lemma *)
(* about it needs an induction on the set.  Here the induction is a smallest   *)
(* counterexample: the sums of all subsets are put in one table, which exists  *)
(* for every finite set of rows and which every fold agrees with.              *)

\* In a finite set, a set of subsets has a smallest member.
LEMMA SmallestSubset ==
  ASSUME NEW D, IsFiniteSet(D), NEW B \in SUBSET (SUBSET D), B # {}
  PROVE  \E T \in B : \A U \in B : U \subseteq T => U = T
<1> DEFINE R == StrictSubsetOrdering(D)
<1>1. IsWellFoundedOn(R, SUBSET D)
  BY FS_StrictSubsetOrderingWellFounded, FS_FiniteSubsetsOfFinite
<1>2. \E T \in B : \A U \in B : <<U, T>> \notin R
  <2> HIDE DEF R
  <2> QED BY <1>1, WFMin
<1> QED BY <1>2 DEF StrictSubsetOrdering

\* The table of the sums of f over every subset of D.
SumTable(G, f, D) ==
  /\ G \in [SUBSET D -> Int]
  /\ G[{}] = 0
  /\ \A T \in SUBSET D : \A x \in T : G[T] = f[x] + G[T \ {x}]

\* Every column of integers over finitely many rows has one.
LEMMA SumTableExists ==
  ASSUME NEW D, IsFiniteSet(D), NEW f, \A x \in D : f[x] \in Int
  PROVE  \E G : SumTable(G, f, D)
<1> DEFINE B == {T \in SUBSET D : ~ \E G : SumTable(G, f, T)}
<1>1. SUFFICES ASSUME B # {} PROVE FALSE
  OBVIOUS
<1>2. PICK T \in B : \A U \in B : U \subseteq T => U = T
  <2>1. B \in SUBSET (SUBSET D)
    OBVIOUS
  <2> HIDE DEF B
  <2> QED BY <1>1, <2>1, SmallestSubset
<1>3. T # {}
  <2>1. SumTable([U \in SUBSET {} |-> 0], f, {})
    BY DEF SumTable
  <2> QED BY <2>1
<1>4. PICK x \in T : TRUE
  BY <1>3
<1>5. PICK G : SumTable(G, f, T \ {x})
  BY <1>2, <1>4
<1> DEFINE H == [U \in SUBSET T |-> IF x \in U THEN f[x] + G[U \ {x}] ELSE G[U]]
<1>6. SumTable(H, f, T)
  <2>1. \A U \in SUBSET T : U \ {x} \in SUBSET (T \ {x})
    OBVIOUS
  <2>2. \A U \in SUBSET (T \ {x}) : G[U] \in Int
    BY <1>5 DEF SumTable
  <2>3. f[x] \in Int
    BY <1>4
  <2>4. H \in [SUBSET T -> Int]
    <3>1. ASSUME NEW U \in SUBSET T PROVE H[U] \in Int
      <4>1. CASE x \in U
        BY <4>1, <2>1, <2>2, <2>3
      <4>2. CASE x \notin U
        <5>1. U \in SUBSET (T \ {x})
          BY <4>2
        <5> QED BY <4>2, <5>1, <2>2
      <4> QED BY <4>1, <4>2
    <3> QED BY <3>1
  <2>5. H[{}] = 0
    BY <1>5 DEF SumTable
  <2>6. ASSUME NEW U \in SUBSET T, NEW y \in U
        PROVE  H[U] = f[y] + H[U \ {y}]
    <3>1. CASE y = x
      BY <3>1
    <3>2. CASE y # x /\ x \notin U
      <4>1. U \in SUBSET (T \ {x})
        BY <3>2
      <4>2. G[U] = f[y] + G[U \ {y}]
        BY <1>5, <4>1 DEF SumTable
      <4> QED BY <4>2, <3>2
    <3>3. CASE y # x /\ x \in U
      <4> DEFINE V == U \ {x}
      <4>1. V \in SUBSET (T \ {x}) /\ y \in V
        BY <3>3
      <4>2. G[V] = f[y] + G[V \ {y}]
        BY <1>5, <4>1 DEF SumTable
      <4>3. V \ {y} = (U \ {y}) \ {x}
        OBVIOUS
      <4>4. H[U] = f[x] + (f[y] + G[V \ {y}])
        BY <3>3, <4>2
      <4>5. H[U \ {y}] = f[x] + G[V \ {y}]
        BY <3>3, <4>3
      <4>6. f[y] \in Int /\ G[V \ {y}] \in Int
        BY <2>2
      <4> QED BY <4>4, <4>5, <4>6, <2>3
    <3> QED BY <3>1, <3>2, <3>3
  <2> QED BY <2>4, <2>5, <2>6 DEF SumTable
<1> QED BY <1>6

\* The order in which the fold of Total takes the rows, and its equation.
Pick(s) == CHOOSE x \in s : TRUE
Iterates(g, f, D) ==
  g = [s \in SUBSET D |-> IF s = {} THEN 0 ELSE f[Pick(s)] + g[s \ {Pick(s)}]]

LEMMA TotalIterates ==
  ASSUME NEW f, NEW D
  PROVE  Total(f, D) = (CHOOSE g : Iterates(g, f, D))[D]
BY DEF Total, MapThenSumSet, MapThenFoldSet, Iterates, Pick

\* Whatever that order, the fold is the table's sum.
LEMMA TotalOfTable ==
  ASSUME NEW D, IsFiniteSet(D), NEW f, NEW G, SumTable(G, f, D)
  PROVE  Total(f, D) = G[D]
<1>1. Iterates(G, f, D)
  <2>1. ASSUME NEW s \in SUBSET D, s # {}
        PROVE  G[s] = f[Pick(s)] + G[s \ {Pick(s)}]
    <3>1. Pick(s) \in s
      BY <2>1 DEF Pick
    <3> QED BY <3>1 DEF SumTable
  <2>2. G = [s \in SUBSET D |-> G[s]] /\ G[{}] = 0
    BY DEF SumTable
  <2> QED BY <2>1, <2>2 DEF Iterates
<1> DEFINE g == CHOOSE g : Iterates(g, f, D)
<1>2. Iterates(g, f, D)
  BY <1>1
<1> HIDE DEF g
<1> DEFINE B == {T \in SUBSET D : g[T] # G[T]}
<1>3. ASSUME B # {} PROVE FALSE
  <2>1. B \in SUBSET (SUBSET D)
    OBVIOUS
  <2>2. PICK T \in B : \A U \in B : U \subseteq T => U = T
    <3> HIDE DEF B
    <3> QED BY <1>3, <2>1, SmallestSubset
  <2>3. T # {}
    BY <1>2 DEF Iterates, SumTable
  <2>4. Pick(T) \in T
    BY <2>3 DEF Pick
  <2>5. g[T] = f[Pick(T)] + g[T \ {Pick(T)}]
    BY <1>2, <2>3 DEF Iterates
  <2>6. g[T \ {Pick(T)}] = G[T \ {Pick(T)}]
    BY <2>2, <2>4
  <2> QED BY <2>4, <2>5, <2>6 DEF SumTable
<1> QED BY <1>3, TotalIterates DEF g

\* A table for D holds the sums of the subsets of D as well.
LEMMA TotalOfSubset ==
  ASSUME NEW D, IsFiniteSet(D), NEW f, NEW G, SumTable(G, f, D), NEW T \in SUBSET D
  PROVE  Total(f, T) = G[T]
<1> DEFINE H == [U \in SUBSET T |-> G[U]]
<1>1. IsFiniteSet(T)
  BY FS_Subset
<1>2. SumTable(H, f, T)
  BY DEF SumTable
<1> QED BY <1>1, <1>2, TotalOfTable

\* The sum over no row; the sum over D takes in the rows one at a time, in any
\* order; and it is an integer.
LEMMA TotalEmpty == ASSUME NEW f PROVE Total(f, {}) = 0
<1>1. PICK G : SumTable(G, f, {})
  BY SumTableExists, FS_EmptySet
<1>2. Total(f, {}) = G[{}]
  BY <1>1, TotalOfTable, FS_EmptySet
<1> QED BY <1>1, <1>2 DEF SumTable

LEMMA TotalStep ==
  ASSUME NEW D, IsFiniteSet(D), NEW f, \A x \in D : f[x] \in Int
  PROVE  /\ Total(f, D) \in Int
         /\ \A x \in D : Total(f, D) = f[x] + Total(f, D \ {x})
                         /\ Total(f, D \ {x}) \in Int
<1>1. PICK G : SumTable(G, f, D)
  BY SumTableExists
<1>2. ASSUME NEW T \in SUBSET D PROVE Total(f, T) = G[T] /\ G[T] \in Int
  <2>1. Total(f, T) = G[T]
    BY <1>1, TotalOfSubset
  <2> QED BY <1>1, <2>1 DEF SumTable
<1>3. Total(f, D) = G[D] /\ G[D] \in Int
  BY <1>2
<1>4. ASSUME NEW x \in D
      PROVE  Total(f, D) = f[x] + Total(f, D \ {x}) /\ Total(f, D \ {x}) \in Int
  <2>1. Total(f, D \ {x}) = G[D \ {x}] /\ G[D \ {x}] \in Int
    BY <1>2
  <2>2. G[D] = f[x] + G[D \ {x}]
    BY <1>1 DEF SumTable
  <2> QED BY <1>3, <2>1, <2>2
<1> QED BY <1>3, <1>4

\* Columns that agree on the rows have the same sum.
LEMMA TotalSame ==
  ASSUME NEW D, IsFiniteSet(D), NEW f, NEW g,
         \A x \in D : f[x] \in Int /\ g[x] = f[x]
  PROVE  Total(g, D) = Total(f, D)
<1>1. PICK G : SumTable(G, f, D)
  BY SumTableExists
<1>2. SumTable(G, g, D)
  BY <1>1 DEF SumTable
<1> QED BY <1>1, <1>2, TotalOfTable

\* A row added to D, or a row of D whose value changes.
LEMMA TotalAdd ==
  ASSUME NEW D, IsFiniteSet(D), NEW f, NEW g, NEW x, x \notin D, g[x] \in Int,
         \A y \in D : f[y] \in Int /\ g[y] = f[y],
         NEW E, E = D \cup {x}
  PROVE  Total(g, E) = Total(f, D) + g[x]
<1>1. IsFiniteSet(E) /\ x \in E /\ E \ {x} = D
  BY FS_AddElement
<1>2. Total(g, E) = g[x] + Total(g, D)
  <2>1. \A y \in E : g[y] \in Int
    OBVIOUS
  <2> QED BY <1>1, <2>1, TotalStep
<1>3. Total(g, D) = Total(f, D) /\ Total(f, D) \in Int
  BY TotalSame, TotalStep
<1> QED BY <1>2, <1>3

LEMMA TotalChange ==
  ASSUME NEW D, IsFiniteSet(D), NEW f, NEW g, NEW x \in D,
         f[x] \in Int, g[x] \in Int,
         \A y \in D \ {x} : f[y] \in Int /\ g[y] = f[y]
  PROVE  Total(g, D) = Total(f, D) - f[x] + g[x]
<1>1. IsFiniteSet(D \ {x})
  BY FS_RemoveElement
<1>2. Total(f, D) = f[x] + Total(f, D \ {x}) /\ Total(f, D \ {x}) \in Int
  BY TotalStep
<1>3. Total(g, D) = g[x] + Total(g, D \ {x})
  BY TotalStep
<1>4. Total(g, D \ {x}) = Total(f, D \ {x})
  BY <1>1, TotalSame
<1> QED BY <1>2, <1>3, <1>4

\* Rows of zeros sum to zero.
LEMMA TotalZero ==
  ASSUME NEW D, IsFiniteSet(D), NEW f, \A x \in D : f[x] = 0
  PROVE  Total(f, D) = 0
<1>1. SumTable([U \in SUBSET D |-> 0], f, D)
  BY DEF SumTable
<1> QED BY <1>1, TotalOfTable

-----------------------------------------------------------------------------
(* The balance.  A charge row may get an id that a refund row already names:   *)
(* the sums are kept only because a refund row names a succeeded charge and an *)
(* unused balance transaction counts for nothing.                              *)

Sums ==
  /\ \A r \in Refunds : refunds[r].status # "absent" =>
       /\ refunds[r].charge_id \in Charges
       /\ charges[refunds[r].charge_id].status = "succeeded"
  /\ \A b \in BalanceTxs :
       balance_transactions[b].status = "absent" => balance_transactions[b].net = 0
  /\ RefundsReconcile
  /\ Total(Net, BalanceTxs) = Total(Held, Succeeded)

\* The columns that are summed hold integers.
LEMMA ColumnsAreInt ==
  ASSUME TypeOK
  PROVE  /\ \A b \in BalanceTxs : Net[b] \in Int
         /\ \A c \in Charges : Held[c] \in Int
         /\ \A r \in Refunds : RefundAmount[r] \in Int
<1>1. ASSUME NEW b \in BalanceTxs PROVE Net[b] \in Int
  <2>1. balance_transactions[b] \in BalanceTxRow
    BY DEF TypeOK
  <2> QED BY <2>1 DEF Net, BalanceTxRow
<1>2. ASSUME NEW c \in Charges PROVE Held[c] \in Int
  <2>1. charges[c] \in ChargeRow
    BY DEF TypeOK
  <2>2. charges[c].amount \in Int /\ charges[c].amount_refunded \in Int
    BY <2>1, AmountsAreInt DEF ChargeRow
  <2> QED BY <2>2 DEF Held
<1>3. ASSUME NEW r \in Refunds PROVE RefundAmount[r] \in Int
  <2>1. refunds[r] \in RefundRow
    BY DEF TypeOK
  <2> QED BY <2>1 DEF RefundAmount, RefundRow
<1> QED BY <1>1, <1>2, <1>3

\* Only finitely many rows are summed.
LEMMA RowsAreFinite ==
  /\ IsFiniteSet(BalanceTxs)
  /\ IsFiniteSet(Succeeded)
  /\ \A c \in Charges : IsFiniteSet(RefundsOf(c))
<1>1. \A D \in SUBSET Refunds : IsFiniteSet(D)
  BY FiniteAssumption, FS_Subset
<1>2. \A D \in SUBSET Charges : IsFiniteSet(D)
  BY FiniteAssumption, FS_Subset
<1> QED BY <1>1, <1>2, FiniteAssumption DEF Succeeded, RefundsOf

\* A capture books what it charges: the balance and the succeeded charges grow
\* by the same amount, and no refund row names the new charge.
LEMMA CaptureSums ==
  ASSUME TypeOK, Sums, NEW p \in PIs, NEW pi, pi.amount \in Int, NEW pm, NEW customer,
         NEW log, Capture(p, pi, pm, customer, log)
  PROVE  Sums'
<1>1. PICK c \in Charges, b \in BalanceTxs :
        /\ c = NewId(charges) /\ charges[c].status = "absent"
        /\ b = NewId(balance_transactions) /\ balance_transactions[b].status = "absent"
  BY NewIdUnused DEF Capture, TypeOK
<1>2. /\ charges'[c].status = "succeeded"
      /\ charges'[c].amount = pi.amount
      /\ charges'[c].amount_refunded = 0
      /\ \A d \in Charges \ {c} : charges'[d] = charges[d]
      /\ balance_transactions'[b].status = "available"
      /\ balance_transactions'[b].net = pi.amount
      /\ \A d \in BalanceTxs \ {b} : balance_transactions'[d] = balance_transactions[d]
      /\ refunds' = refunds
  BY <1>1 DEF Capture, TypeOK
<1>3. Total(Net', BalanceTxs) = Total(Net, BalanceTxs) + pi.amount
  <2>1. PICK f, g : f = Net /\ g = Net'
    OBVIOUS
  <2>2. f[b] = 0 /\ g[b] = pi.amount
    BY <1>1, <1>2, <2>1 DEF Sums, Net
  <2>3. \A d \in BalanceTxs \ {b} : f[d] \in Int /\ g[d] = f[d]
    BY <1>2, <2>1, ColumnsAreInt DEF Net
  <2>4. f[b] \in Int /\ g[b] \in Int
    BY <2>2
  <2>5. Total(g, BalanceTxs) = Total(f, BalanceTxs) - f[b] + g[b]
    BY <2>3, <2>4, RowsAreFinite, TotalChange
  <2>6. Total(f, BalanceTxs) \in Int
    BY <2>1, ColumnsAreInt, RowsAreFinite, TotalStep
  <2> QED BY <2>1, <2>2, <2>5, <2>6
<1>4. Total(Held', Succeeded') = Total(Held, Succeeded) + pi.amount
  <2>1. PICK f, g, D : f = Held /\ g = Held' /\ D = Succeeded
    OBVIOUS
  <2>2. c \notin D /\ Succeeded' = D \cup {c}
    BY <1>1, <1>2, <2>1 DEF Succeeded
  <2>3. g[c] = pi.amount
    BY <1>2, <2>1 DEF Held
  <2>4. \A d \in D : f[d] \in Int /\ g[d] = f[d]
    BY <1>2, <2>1, <2>2, ColumnsAreInt DEF Held, Succeeded
  <2>5. IsFiniteSet(D)
    BY <2>1, RowsAreFinite
  <2>6. g[c] \in Int
    BY <2>3
  <2>7. Total(g, D \cup {c}) = Total(f, D) + g[c]
    <3>1. c \notin D
      BY <2>2
    <3> QED BY <2>4, <2>5, <2>6, <3>1, TotalAdd
  <2> QED BY <2>1, <2>2, <2>3, <2>7
<1>5. RefundsReconcile'
  <2>1. \A d \in Charges : RefundsOf(d)' = RefundsOf(d)
    BY <1>2 DEF RefundsOf
  <2>2. RefundAmount' = RefundAmount
    BY <1>2 DEF RefundAmount
  <2>3. RefundsOf(c) = {}
    BY <1>1 DEF RefundsOf, Sums
  <2>4. charges'[c].amount_refunded = Total(RefundAmount, RefundsOf(c))
    BY <1>2, <2>3, TotalEmpty
  <2>5. \A d \in Charges \ {c} :
          charges'[d].amount_refunded = Total(RefundAmount, RefundsOf(d))
    BY <1>2 DEF Sums, RefundsReconcile
  <2> QED BY <2>1, <2>2, <2>4, <2>5 DEF RefundsReconcile
<1>6. \A r \in Refunds : refunds'[r].status # "absent" =>
        /\ refunds'[r].charge_id \in Charges
        /\ charges'[refunds'[r].charge_id].status = "succeeded"
  BY <1>1, <1>2 DEF Sums
<1>7. \A d \in BalanceTxs :
        balance_transactions'[d].status = "absent" => balance_transactions'[d].net = 0
  BY <1>1, <1>2 DEF Sums
<1> QED BY <1>3, <1>4, <1>5, <1>6, <1>7 DEF Sums

\* A failed charge moves no sum.
LEMMA DeclineSums ==
  ASSUME TypeOK, Sums, NEW p \in PIs, NEW pi, NEW pm, NEW log,
         Decline(p, pi, pm, log)
  PROVE  Sums'
<1>1. PICK c \in Charges : c = NewId(charges) /\ charges[c].status = "absent"
  BY NewIdUnused DEF Decline, TypeOK
<1>2. /\ charges'[c].status = "failed"
      /\ charges'[c].amount_refunded = 0
      /\ \A d \in Charges \ {c} : charges'[d] = charges[d]
      /\ refunds' = refunds
      /\ balance_transactions' = balance_transactions
  BY <1>1 DEF Decline, TypeOK
<1>3. Net' = Net
  BY <1>2 DEF Net
<1>4. Total(Held', Succeeded') = Total(Held, Succeeded)
  <2>1. PICK f, g, D : f = Held /\ g = Held' /\ D = Succeeded
    OBVIOUS
  <2>2. c \notin D /\ Succeeded' = D
    BY <1>1, <1>2, <2>1 DEF Succeeded
  <2>3. \A d \in D : f[d] \in Int /\ g[d] = f[d]
    BY <1>2, <2>1, <2>2, ColumnsAreInt DEF Held, Succeeded
  <2>4. IsFiniteSet(D)
    BY <2>1, RowsAreFinite
  <2>5. Total(g, D) = Total(f, D)
    BY <2>3, <2>4, TotalSame
  <2> QED BY <2>1, <2>2, <2>5
<1>5. RefundsReconcile'
  <2>1. \A d \in Charges : RefundsOf(d)' = RefundsOf(d)
    BY <1>2 DEF RefundsOf
  <2>2. RefundAmount' = RefundAmount
    BY <1>2 DEF RefundAmount
  <2>3. RefundsOf(c) = {}
    BY <1>1 DEF RefundsOf, Sums
  <2>4. charges'[c].amount_refunded = Total(RefundAmount, RefundsOf(c))
    BY <1>2, <2>3, TotalEmpty
  <2>5. \A d \in Charges \ {c} :
          charges'[d].amount_refunded = Total(RefundAmount, RefundsOf(d))
    BY <1>2 DEF Sums, RefundsReconcile
  <2> QED BY <2>1, <2>2, <2>4, <2>5 DEF RefundsReconcile
<1>6. \A r \in Refunds : refunds'[r].status # "absent" =>
        /\ refunds'[r].charge_id \in Charges
        /\ charges'[refunds'[r].charge_id].status = "succeeded"
  BY <1>1, <1>2 DEF Sums
<1> QED BY <1>2, <1>3, <1>4, <1>5, <1>6 DEF Sums

LEMMA AttemptSums ==
  ASSUME TypeOK, Sums, NEW p \in PIs, NEW pi \in PIRow, NEW pm, NEW log,
         CardAttempt(p, pi, pm, log)
  PROVE  Sums'
<1> DEFINE row == [pi EXCEPT !.payment_method_id = pm, !.last_payment_error = FALSE]
<1>1. row.amount \in Int
  BY AmountsAreInt DEF PIRow
<1>2. CASE payment_methods[pm].declines
  BY <1>2, DeclineSums DEF CardAttempt
<1>3. CASE ~payment_methods[pm].declines
  <2>1. Capture(p, row, pm, pi.customer_id, log)
    BY <1>3 DEF CardAttempt
  <2> HIDE DEF row
  <2> QED BY <1>1, <2>1, CaptureSums
<1> QED BY <1>2, <1>3

\* A refund moves four rows by one amount: its own, its charge, its balance
\* transaction and, through them, both sides of the balance.
LEMMA RefundSums ==
  ASSUME TypeOK, Sums, NEW c \in Charges, NEW requested \in Amounts \cup {KEEP},
         CreateRefund(c, requested)
  PROVE  Sums'
<1>1. PICK r \in Refunds, b \in BalanceTxs :
        /\ r = NewId(refunds) /\ refunds[r].status = "absent"
        /\ b = NewId(balance_transactions) /\ balance_transactions[b].status = "absent"
  BY NewIdUnused DEF CreateRefund, TypeOK
<1>2. PICK amount :
        /\ amount = Resolve(requested, Refundable(charges[c]))
        /\ charges[c].status = "succeeded"
        /\ refunds' = [refunds EXCEPT ![r] = RefundOf(c, amount, b)]
        /\ balance_transactions' = [balance_transactions EXCEPT ![b] = RefundTx(r, amount)]
        /\ charges' = [charges EXCEPT ![c] = AddRefunded(charges[c], amount)]
  BY <1>1 DEF CreateRefund
<1>3. charges[c].amount \in Int /\ charges[c].amount_refunded \in Int
  <2>1. charges[c] \in ChargeRow
    BY DEF TypeOK
  <2> QED BY <2>1, AmountsAreInt DEF ChargeRow
<1>4. amount \in Int
  BY <1>2, <1>3, AmountsAreInt DEF Resolve, Refundable
<1>5. /\ refunds'[r].status = "succeeded"
      /\ refunds'[r].charge_id = c
      /\ refunds'[r].amount = amount
      /\ \A d \in Refunds \ {r} : refunds'[d] = refunds[d]
      /\ balance_transactions'[b].status = "available"
      /\ balance_transactions'[b].net = -amount
      /\ \A d \in BalanceTxs \ {b} : balance_transactions'[d] = balance_transactions[d]
  BY <1>1, <1>2 DEF RefundOf, RefundTx, TypeOK
<1>6. /\ charges'[c].status = charges[c].status
      /\ charges'[c].amount = charges[c].amount
      /\ charges'[c].amount_refunded = charges[c].amount_refunded + amount
      /\ \A d \in Charges \ {c} : charges'[d] = charges[d]
  <2>1. charges \in [Charges -> ChargeRow]
    BY DEF TypeOK
  <2> QED BY <1>2, <2>1 DEF AddRefunded, ChargeRow
<1>7. Total(Net', BalanceTxs) = Total(Net, BalanceTxs) - amount
  <2>1. PICK f, g : f = Net /\ g = Net'
    OBVIOUS
  <2>2. f[b] = 0 /\ g[b] = -amount
    BY <1>1, <1>5, <2>1 DEF Sums, Net
  <2>3. \A d \in BalanceTxs \ {b} : f[d] \in Int /\ g[d] = f[d]
    BY <1>5, <2>1, ColumnsAreInt DEF Net
  <2>4. f[b] \in Int /\ g[b] \in Int
    BY <1>4, <2>2
  <2>5. Total(g, BalanceTxs) = Total(f, BalanceTxs) - f[b] + g[b]
    BY <2>3, <2>4, RowsAreFinite, TotalChange
  <2>6. Total(f, BalanceTxs) \in Int
    BY <2>1, ColumnsAreInt, RowsAreFinite, TotalStep
  <2> QED BY <1>4, <2>1, <2>2, <2>5, <2>6
<1>8. Total(Held', Succeeded') = Total(Held, Succeeded) - amount
  <2>1. PICK f, g, D : f = Held /\ g = Held' /\ D = Succeeded
    OBVIOUS
  <2>2. c \in D /\ Succeeded' = D
    <3>1. \A d \in Charges : charges'[d].status = charges[d].status
      BY <1>6
    <3> QED BY <1>2, <2>1, <3>1 DEF Succeeded
  <2>3. g[c] = f[c] - amount
    BY <1>3, <1>4, <1>6, <2>1 DEF Held
  <2>4. \A d \in D \ {c} : f[d] \in Int /\ g[d] = f[d]
    BY <1>6, <2>1, ColumnsAreInt DEF Held, Succeeded
  <2>5. f[c] \in Int
    BY <2>1, ColumnsAreInt
  <2>6. IsFiniteSet(D)
    BY <2>1, RowsAreFinite
  <2>7. g[c] \in Int
    BY <1>4, <2>3, <2>5
  <2>8. Total(g, D) = Total(f, D) - f[c] + g[c]
    <3>1. c \in D
      BY <2>2
    <3> QED BY <2>4, <2>5, <2>6, <2>7, <3>1, TotalChange
  <2>9. Total(f, D) \in Int
    <3>1. \A d \in D : f[d] \in Int
      BY <2>4, <2>5
    <3> QED BY <2>6, <3>1, TotalStep
  <2> QED BY <1>4, <2>1, <2>2, <2>3, <2>5, <2>8, <2>9
<1>9. RefundsReconcile'
  <2>1. PICK f, g : f = RefundAmount /\ g = RefundAmount'
    OBVIOUS
  <2>2. g[r] = amount /\ \A d \in Refunds \ {r} : f[d] \in Int /\ g[d] = f[d]
    BY <1>5, <2>1, ColumnsAreInt DEF RefundAmount
  <2>3. ASSUME NEW d \in Charges \ {c}
        PROVE  charges'[d].amount_refunded = Total(g, RefundsOf(d)')
    <3>1. PICK D : D = RefundsOf(d)
      OBVIOUS
    <3>2. RefundsOf(d)' = D /\ r \notin D /\ D \subseteq Refunds
      BY <1>1, <1>5, <3>1 DEF RefundsOf
    <3>3. IsFiniteSet(D)
      BY <3>1, RowsAreFinite
    <3>4. Total(g, D) = Total(f, D)
      BY <2>2, <3>2, <3>3, TotalSame
    <3>5. charges[d].amount_refunded = Total(f, D)
      BY <2>1, <3>1 DEF Sums, RefundsReconcile
    <3> QED BY <1>6, <3>2, <3>4, <3>5
  <2>4. charges'[c].amount_refunded = Total(g, RefundsOf(c)')
    <3>1. PICK D : D = RefundsOf(c)
      OBVIOUS
    <3>2. RefundsOf(c)' = D \cup {r} /\ r \notin D /\ D \subseteq Refunds
      BY <1>1, <1>5, <3>1 DEF RefundsOf
    <3>3. IsFiniteSet(D)
      BY <3>1, RowsAreFinite
    <3>4. g[r] \in Int
      BY <1>4, <2>2
    <3>5. Total(g, D \cup {r}) = Total(f, D) + g[r]
      BY <2>2, <3>2, <3>3, <3>4, TotalAdd
    <3>6. charges[c].amount_refunded = Total(f, D)
      BY <2>1, <3>1 DEF Sums, RefundsReconcile
    <3> QED BY <1>6, <2>2, <3>2, <3>5, <3>6
  <2> QED BY <2>1, <2>3, <2>4 DEF RefundsReconcile
<1>10. \A d \in Refunds : refunds'[d].status # "absent" =>
         /\ refunds'[d].charge_id \in Charges
         /\ charges'[refunds'[d].charge_id].status = "succeeded"
  BY <1>2, <1>5, <1>6 DEF Sums
<1>11. \A d \in BalanceTxs :
         balance_transactions'[d].status = "absent" => balance_transactions'[d].net = 0
  BY <1>5 DEF Sums
<1> QED BY <1>7, <1>8, <1>9, <1>10, <1>11 DEF Sums

\* In an empty ledger every sum is zero.
LEMMA BlankSums ==
  ASSUME \A c \in Charges : charges[c] = NoCharge,
         \A r \in Refunds : refunds[r] = NoRefund,
         \A b \in BalanceTxs : balance_transactions[b] = NoBalanceTx
  PROVE  Sums
<1>1. \A c \in Charges : RefundsOf(c) = {}
  BY DEF RefundsOf, NoRefund
<1>2. Succeeded = {}
  BY DEF Succeeded, NoCharge
<1>3. RefundsReconcile
  BY <1>1, TotalEmpty DEF RefundsReconcile, NoCharge
<1>4. Total(Net, BalanceTxs) = 0
  <2>1. \A b \in BalanceTxs : Net[b] = 0
    BY DEF Net, NoBalanceTx
  <2> QED BY <2>1, RowsAreFinite, TotalZero
<1>5. Total(Held, Succeeded) = 0
  BY <1>2, TotalEmpty
<1> QED BY <1>3, <1>4, <1>5 DEF Sums, NoRefund, NoBalanceTx

LEMMA InitSums == Init => Sums
BY BlankSums DEF Init

LEMMA ResetSums == Reset => Sums'
<1> SUFFICES ASSUME Reset PROVE Sums'
  OBVIOUS
<1>1. /\ \A c \in Charges : charges'[c] = NoCharge
      /\ \A r \in Refunds : refunds'[r] = NoRefund
      /\ \A b \in BalanceTxs : balance_transactions'[b] = NoBalanceTx
  BY DEF Reset
<1>2. \A c \in Charges : RefundsOf(c)' = {}
  BY <1>1 DEF RefundsOf, NoRefund
<1>3. Succeeded' = {}
  BY <1>1 DEF Succeeded, NoCharge
<1>4. RefundsReconcile'
  BY <1>1, <1>2, TotalEmpty DEF RefundsReconcile, NoCharge
<1>5. Total(Net', BalanceTxs) = 0
  <2>1. PICK g : g = Net'
    OBVIOUS
  <2>2. \A b \in BalanceTxs : g[b] = 0
    BY <1>1, <2>1 DEF Net, NoBalanceTx
  <2> QED BY <2>1, <2>2, RowsAreFinite, TotalZero
<1>6. Total(Held', Succeeded') = 0
  BY <1>3, TotalEmpty
<1> QED BY <1>1, <1>4, <1>5, <1>6 DEF Sums, NoRefund, NoBalanceTx

LEMMA NextSums == TypeOK /\ Sums /\ [Next]_vars => Sums'
<1> SUFFICES ASSUME TypeOK, Sums, [Next]_vars PROVE Sums'
  OBVIOUS
<1>1. ASSUME UNCHANGED ledger PROVE Sums'
  <2>1. Net' = Net /\ Held' = Held /\ Succeeded' = Succeeded
    BY <1>1 DEF ledger, Net, Held, Succeeded
  <2>2. RefundsReconcile'
    BY <1>1 DEF ledger, Sums, RefundsReconcile, RefundAmount, RefundsOf
  <2> QED BY <1>1, <2>1, <2>2 DEF ledger, Sums
<1>2. ASSUME NEW a \in Amounts, NEW customer \in Customers \cup {NULL},
             NEW pm \in PMs \cup {NULL}, NEW confirm \in BOOLEAN,
             CreateCardPI(a, customer, pm, confirm)
      PROVE Sums'
  <2> DEFINE p == NewId(payment_intents)
             pi == [NoPI EXCEPT !.amount = a, !.payment_method_id = pm,
                      !.customer_id = customer,
                      !.status = IF pm = NULL THEN "requires_payment_method"
                                              ELSE "requires_confirmation"]
             log == Emit(events, <<"pi", p>>, "payment_intent.created")
  <2>1. p \in PIs /\ (CardAttempt(p, pi, pm, log) \/ UNCHANGED ledger)
    BY <1>2, NewIdUnused DEF CreateCardPI, TypeOK, ledger
  <2>2. pi \in PIRow
    BY DEF NoPI, PIRow, Unsettled
  <2> HIDE DEF p, pi, log
  <2> QED BY <1>1, <2>1, <2>2, AttemptSums
<1>3. ASSUME NEW p \in PIs, NEW requested \in PMs \cup {KEEP},
             ConfirmCardPI(p, requested)
      PROVE Sums'
  <2>1. PICK pm : CardAttempt(p, payment_intents[p], pm, events)
    BY <1>3 DEF ConfirmCardPI
  <2>2. payment_intents[p] \in PIRow
    BY DEF TypeOK
  <2> QED BY <2>1, <2>2, AttemptSums
<1>4. ASSUME NEW p \in PIs, SimulateCryptoDeposit(p) PROVE Sums'
  <2>1. PICK log : Capture(p, payment_intents[p], NULL, NULL, log)
    BY <1>4 DEF SimulateCryptoDeposit
  <2>2. payment_intents[p].amount \in Int
    <3>1. payment_intents[p] \in PIRow
      BY DEF TypeOK
    <3> QED BY <3>1, AmountsAreInt DEF PIRow
  <2> QED BY <2>1, <2>2, CaptureSums
<1>5. ASSUME NEW c \in Charges, NEW requested \in Amounts \cup {KEEP},
             CreateRefund(c, requested)
      PROVE Sums'
  BY <1>5, RefundSums
<1>6. ASSUME Reset PROVE Sums'
  BY <1>6, ResetSums
<1> QED
  BY <1>1, <1>2, <1>3, <1>4, <1>5, <1>6
  DEF Next, vars, money, ledger, CreateCustomer, UpdateCustomer, DeleteCustomer,
      CreatePM, AttachPM, DetachPM, CreateCryptoPI, UpdateCardPI, CancelPI

\* Whatever the calls and however many rows there are, a charge's amount_refunded
\* is the sum of its refunds, no more than was captured, every balance transaction
\* is booked once, and the balance is what the succeeded charges still hold.
THEOREM BalanceReconcilesAlways == Spec => []BalanceReconciles
<1>1. Inv /\ Books /\ Sums => BalanceReconciles
  BY DEF Inv, Books, Sums, BalanceReconciles
<1>2. Spec => []Inv
  BY InitInv, NextInv, PTL DEF Spec
<1>3. Spec => []Books
  BY InitBooks, NextBooks, TypeCorrect, PTL DEF Spec
<1>4. Spec => []Sums
  BY InitSums, NextSums, TypeCorrect, PTL DEF Spec
<1> QED BY <1>1, <1>2, <1>3, <1>4, PTL

-----------------------------------------------------------------------------
(* The ledger implements Settlement. *)

\* Besides Inv: a PaymentIntent that exists has a price, and a succeeded charge
\* belongs to a PaymentIntent.
Priced ==
  /\ \A p \in PIs : payment_intents[p].status # "absent" => payment_intents[p].amount \in Amounts
  /\ \A c \in Charges : charges[c].status = "succeeded" => charges[c].payment_intent_id \in PIs

SInv == Inv /\ Priced

\* What Settlement sees of one PaymentIntent.
Taken(p) == IF payment_intents[p].status = "succeeded" THEN ChargeOf(p).amount ELSE 0
Back(p)  == IF payment_intents[p].status = "succeeded" THEN ChargeOf(p).amount_refunded ELSE 0

Same(p) == PhaseOf(p)' = PhaseOf(p) /\ Taken(p)' = Taken(p) /\ Back(p)' = Back(p)

LEMMA Phases ==
  ASSUME NEW p \in PIs
  PROVE  /\ payment_intents[p].status = "absent" => PhaseOf(p) = "none"
         /\ payment_intents[p].status \in Unsettled => PhaseOf(p) = "open"
         /\ payment_intents[p].status = "succeeded" => PhaseOf(p) = "captured"
         /\ payment_intents[p].status = "canceled" => PhaseOf(p) = "void"
         /\ payment_intents[p].status # "succeeded" => Taken(p) = 0 /\ Back(p) = 0
BY DEF PhaseOf, Unsettled, Taken, Back

LEMMA PhasesNext ==
  ASSUME NEW p \in PIs
  PROVE  /\ payment_intents'[p].status = "absent" => PhaseOf(p)' = "none"
         /\ payment_intents'[p].status \in Unsettled => PhaseOf(p)' = "open"
         /\ payment_intents'[p].status = "succeeded" => PhaseOf(p)' = "captured"
         /\ payment_intents'[p].status = "canceled" => PhaseOf(p)' = "void"
         /\ payment_intents'[p].status # "succeeded" => Taken(p)' = 0 /\ Back(p)' = 0
BY DEF PhaseOf, Unsettled, Taken, Back

LEMMA Statuses ==
  ASSUME TypeOK, NEW p \in PIs
  PROVE  payment_intents[p].status \in Unsettled \cup Terminal \cup {"absent"}
BY DEF TypeOK, PIRow

\* The charge of a succeeded PaymentIntent.
LEMMA ChargeOfSucceeded ==
  ASSUME Inv, NEW p \in PIs, payment_intents[p].status = "succeeded"
  PROVE  /\ payment_intents[p].latest_charge_id \in Charges
         /\ ChargeOf(p).status = "succeeded"
         /\ ChargeOf(p).payment_intent_id = p
<1>1. Captures(p) = {payment_intents[p].latest_charge_id}
  BY DEF Inv, CapturedOnce
<1> QED BY <1>1 DEF Captures, ChargeOf

\* A PaymentIntent looks the same while its row and the succeeded charges do.
LEMMA Unmoved ==
  ASSUME Inv, NEW p \in PIs, payment_intents'[p] = payment_intents[p],
         \A c \in Charges : charges[c].status = "succeeded" => charges'[c] = charges[c]
  PROVE  Same(p)
<1>1. CASE payment_intents[p].status = "succeeded"
  <2>1. ChargeOf(p)' = ChargeOf(p)
    BY <1>1, ChargeOfSucceeded DEF ChargeOf
  <2> QED BY <1>1, <2>1 DEF Same, PhaseOf, Taken, Back
<1>2. CASE payment_intents[p].status # "succeeded"
  BY <1>2 DEF Same, PhaseOf, Taken, Back
<1> QED BY <1>1, <1>2

\* The steps of Settlement, by what they do to one PaymentIntent.
LEMMA MapStutter ==
  ASSUME \A q \in PIs : Same(q)
  PROVE  UNCHANGED S!svars
BY DEF Same, S!svars, Taken, Back

LEMMA MapOpen ==
  ASSUME NEW p \in PIs, PhaseOf(p) = "none", PhaseOf(p)' = "open",
         Taken(p)' = Taken(p), Back(p)' = Back(p), \A q \in PIs \ {p} : Same(q)
  PROVE  S!Open(p)
BY DEF Same, S!Open, Taken, Back

LEMMA MapVoid ==
  ASSUME NEW p \in PIs, PhaseOf(p) = "open", PhaseOf(p)' = "void",
         Taken(p)' = Taken(p), Back(p)' = Back(p), \A q \in PIs \ {p} : Same(q)
  PROVE  S!Void(p)
BY DEF Same, S!Void, Taken, Back

LEMMA MapCapture ==
  ASSUME NEW p \in PIs, NEW a, PhaseOf(p) \in {"none", "open"}, PhaseOf(p)' = "captured",
         Taken(p)' = a, Back(p)' = Back(p), \A q \in PIs \ {p} : Same(q)
  PROVE  S!Capture(p, a)
BY DEF Same, S!Capture, Taken, Back

LEMMA MapRefund ==
  ASSUME NEW p \in PIs, NEW a, PhaseOf(p) = "captured", PhaseOf(p)' = PhaseOf(p),
         Taken(p)' = Taken(p), Back(p)' = Back(p) + a, Back(p) + a <= Taken(p),
         \A q \in PIs \ {p} : Same(q)
  PROVE  S!Refund(p, a)
BY DEF Same, S!Refund, Taken, Back

\* Capturing PaymentIntent p for its amount is Settlement's Capture.
LEMMA CaptureMaps ==
  ASSUME SInv, NEW p \in PIs, NEW pi \in PIRow, NEW pm, NEW customer, NEW log,
         pi.amount \in Amounts, payment_intents[p].status \notin Terminal,
         Capture(p, pi, pm, customer, log)
  PROVE  S!Next /\ Priced'
<1>1. PICK c \in Charges :
        /\ c = NewId(charges) /\ charges[c].status = "absent"
        /\ charges'[c].status = "succeeded"
        /\ charges'[c].payment_intent_id = p
        /\ charges'[c].amount = pi.amount
        /\ charges'[c].amount_refunded = 0
        /\ \A d \in Charges \ {c} : charges'[d] = charges[d]
  <2> DEFINE c == NewId(charges)
  <2>1. c \in Charges /\ charges[c].status = "absent"
    BY NewIdUnused DEF Capture, SInv, Inv, TypeOK
  <2>2. /\ charges'[c].status = "succeeded"
        /\ charges'[c].payment_intent_id = p
        /\ charges'[c].amount = pi.amount
        /\ charges'[c].amount_refunded = 0
        /\ \A d \in Charges \ {c} : charges'[d] = charges[d]
    BY <2>1 DEF Capture, SInv, Inv, TypeOK
  <2> QED BY <2>1, <2>2
<1>2. /\ payment_intents'[p].status = "succeeded"
      /\ payment_intents'[p].latest_charge_id = c
      /\ payment_intents'[p].amount = pi.amount
      /\ \A q \in PIs \ {p} : payment_intents'[q] = payment_intents[q]
  BY <1>1 DEF Capture, SInv, Inv, TypeOK, PIRow
<1>3. PhaseOf(p) \in {"none", "open"} /\ Back(p) = 0
  <2>1. payment_intents[p].status \in Unsettled \cup {"absent"}
    BY Statuses DEF SInv, Inv
  <2>2. payment_intents[p].status # "succeeded"
    BY DEF Terminal
  <2> QED BY <2>1, <2>2, Phases
<1>4. PhaseOf(p)' = "captured" /\ Taken(p)' = pi.amount /\ Back(p)' = 0
  BY <1>1, <1>2, PhasesNext DEF Taken, Back, ChargeOf
<1>5. \A q \in PIs \ {p} : Same(q)
  BY <1>1, <1>2, Unmoved DEF SInv
<1>6. S!Capture(p, pi.amount)
  BY <1>3, <1>4, <1>5, MapCapture
<1>7. Priced'
  BY <1>1, <1>2 DEF SInv, Priced
<1> QED BY <1>6, <1>7 DEF S!Next

\* A declined attempt opens a PaymentIntent at most.
LEMMA DeclineMaps ==
  ASSUME SInv, NEW p \in PIs, NEW pi \in PIRow, NEW pm, NEW log,
         pi.amount \in Amounts, payment_intents[p].status \notin Terminal,
         Decline(p, pi, pm, log)
  PROVE  (S!Next \/ UNCHANGED S!svars) /\ Priced'
<1>1. PICK c \in Charges :
        /\ charges[c].status = "absent" /\ charges'[c].status = "failed"
        /\ \A d \in Charges \ {c} : charges'[d] = charges[d]
  BY DeclineMints DEF SInv, Inv
<1>2. /\ payment_intents'[p].status = "requires_payment_method"
      /\ payment_intents'[p].amount = pi.amount
      /\ \A q \in PIs \ {p} : payment_intents'[q] = payment_intents[q]
  BY DEF Decline, Declined, SInv, Inv, TypeOK, PIRow
<1>3. payment_intents[p].status \in Unsettled \cup {"absent"}
      /\ payment_intents[p].status # "succeeded"
  BY Statuses DEF SInv, Inv, Terminal
<1>4. PhaseOf(p)' = "open" /\ Taken(p)' = 0 /\ Back(p)' = 0
  BY <1>2, PhasesNext DEF Unsettled
<1>5. Taken(p) = 0 /\ Back(p) = 0
  BY <1>3, Phases
<1>6. \A q \in PIs \ {p} : Same(q)
  BY <1>1, <1>2, Unmoved DEF SInv
<1>7. Priced'
  BY <1>1, <1>2 DEF SInv, Priced
<1>8. CASE payment_intents[p].status = "absent"
  <2>1. S!Open(p)
    BY <1>4, <1>5, <1>6, <1>8, Phases, MapOpen
  <2> QED BY <1>7, <2>1 DEF S!Next
<1>9. CASE payment_intents[p].status \in Unsettled
  <2>1. Same(p)
    BY <1>4, <1>5, <1>9, Phases DEF Same
  <2> QED BY <1>6, <1>7, <2>1, MapStutter
<1> QED BY <1>3, <1>8, <1>9

LEMMA AttemptMaps ==
  ASSUME SInv, NEW p \in PIs, NEW pi \in PIRow, NEW pm \in PMs, NEW log,
         pi.amount \in Amounts, payment_intents[p].status \notin Terminal,
         CardAttempt(p, pi, pm, log)
  PROVE  (S!Next \/ UNCHANGED S!svars) /\ Priced'
<1>1. CASE payment_methods[pm].declines
  BY <1>1, DeclineMaps DEF CardAttempt
<1>2. CASE ~payment_methods[pm].declines
  <2> DEFINE row == [pi EXCEPT !.payment_method_id = pm,
                               !.last_payment_error = FALSE]
  <2>1. row \in PIRow /\ row.amount \in Amounts
    BY DEF PIRow
  <2>2. Capture(p, row, pm, pi.customer_id, log)
    BY <1>2 DEF CardAttempt
  <2> HIDE DEF row
  <2> QED BY <2>1, <2>2, CaptureMaps
<1> QED BY <1>1, <1>2

\* A call that touches one PaymentIntent and no charge.
LEMMA OpenMaps ==
  ASSUME SInv, NEW p \in PIs, charges' = charges,
         payment_intents'[p].status \in Unsettled, payment_intents'[p].amount \in Amounts,
         payment_intents[p].status \in Unsettled \cup {"absent"},
         \A q \in PIs \ {p} : payment_intents'[q] = payment_intents[q]
  PROVE  (S!Next \/ UNCHANGED S!svars) /\ Priced'
<1>1. payment_intents[p].status # "succeeded" /\ payment_intents'[p].status # "succeeded"
  BY DEF Unsettled
<1>2. /\ PhaseOf(p)' = "open" /\ Taken(p)' = 0 /\ Back(p)' = 0
      /\ Taken(p) = 0 /\ Back(p) = 0
  BY <1>1, Phases, PhasesNext
<1>3. \A q \in PIs \ {p} : Same(q)
  BY Unmoved DEF SInv
<1>4. Priced'
  BY DEF SInv, Priced
<1>5. CASE payment_intents[p].status = "absent"
  <2>1. S!Open(p)
    BY <1>2, <1>3, <1>5, Phases, MapOpen
  <2> QED BY <1>4, <2>1 DEF S!Next
<1>6. CASE payment_intents[p].status \in Unsettled
  <2>1. Same(p)
    BY <1>2, <1>6, Phases DEF Same
  <2> QED BY <1>3, <1>4, <2>1, MapStutter
<1> QED BY <1>5, <1>6

LEMMA RefundMaps ==
  ASSUME SInv, NEW c \in Charges, NEW requested \in Amounts \cup {KEEP},
         CreateRefund(c, requested)
  PROVE  S!Next /\ Priced'
<1> DEFINE p == charges[c].payment_intent_id
<1>1. charges[c] \in ChargeRow /\ charges[c].status = "succeeded" /\ p \in PIs
  BY DEF SInv, Inv, TypeOK, Priced, CreateRefund
<1>2. charges[c].amount \in Int /\ charges[c].amount_refunded \in Nat
  <2>1. charges[c].amount \in Amounts \cup {0} /\ charges[c].amount_refunded \in Nat
    BY <1>1 DEF ChargeRow
  <2> QED BY <2>1, AmountsAreInt
<1>3. PICK amount \in Int :
        /\ charges' = [charges EXCEPT ![c] = AddRefunded(charges[c], amount)]
        /\ amount > 0 /\ amount <= Refundable(charges[c])
        /\ payment_intents' = payment_intents
  <2> DEFINE amount == Resolve(requested, Refundable(charges[c]))
  <2>1. amount \in Int
    BY <1>2, AmountsAreInt DEF Resolve, Refundable
  <2> QED BY <2>1 DEF CreateRefund
<1>4. /\ charges'[c].amount = charges[c].amount
      /\ charges'[c].amount_refunded = charges[c].amount_refunded + amount
      /\ charges'[c].payment_intent_id = charges[c].payment_intent_id
      /\ \A d \in Charges \ {c} : charges'[d] = charges[d]
  BY <1>1, <1>3 DEF AddRefunded, SInv, Inv, TypeOK, ChargeRow
<1>5. payment_intents[p].status = "succeeded" /\ payment_intents[p].latest_charge_id = c
  <2>1. c \in Captures(p)
    BY <1>1 DEF Captures
  <2> QED BY <1>1, <2>1 DEF SInv, Inv, CapturedOnce
<1>6. PICK q \in PIs : q = p
  BY <1>1
<1>7. /\ Taken(q) = charges[c].amount /\ Back(q) = charges[c].amount_refunded
      /\ Taken(q)' = charges'[c].amount /\ Back(q)' = charges'[c].amount_refunded
      /\ PhaseOf(q) = "captured" /\ PhaseOf(q)' = "captured"
  BY <1>3, <1>5, <1>6, Phases, PhasesNext DEF Taken, Back, ChargeOf
<1>8. ASSUME NEW o \in PIs \ {q} PROVE Same(o)
  <2>1. CASE payment_intents[o].status = "succeeded"
    <3>1. /\ payment_intents[o].latest_charge_id \in Charges
          /\ ChargeOf(o).payment_intent_id = o
      BY <2>1, ChargeOfSucceeded DEF SInv
    <3>2. payment_intents[o].latest_charge_id # c
      BY <1>6, <3>1 DEF ChargeOf
    <3>3. ChargeOf(o)' = ChargeOf(o)
      BY <1>3, <1>4, <3>1, <3>2 DEF ChargeOf
    <3> QED BY <1>3, <2>1, <3>3 DEF Same, PhaseOf, Taken, Back
  <2>2. CASE payment_intents[o].status # "succeeded"
    BY <1>3, <2>2 DEF Same, PhaseOf, Taken, Back
  <2> QED BY <2>1, <2>2
<1>9. Back(q) + amount <= Taken(q) /\ amount \in 1 .. Taken(q)
  BY <1>2, <1>3, <1>7 DEF Refundable
<1>10. S!Refund(q, amount)
  BY <1>4, <1>7, <1>8, <1>9, MapRefund
<1>11. amount \in 1 .. Taken(q) => S!Next
  BY <1>10 DEF S!Next, Taken
<1>12. Priced'
  BY <1>1, <1>3, <1>4 DEF SInv, Priced
<1> QED BY <1>9, <1>11, <1>12

LEMMA SeededPriced ==
  ASSUME NEW table \in SeededPIs, NEW p \in PIs
  PROVE  /\ table[p].status \in Unsettled \cup {"absent"}
         /\ table[p].status # "absent" => table[p].amount \in Amounts
<1>1. table[p] = NoPI \/ \E s \in SeedStatuses, a \in Amounts : table[p] = SeededPI(s, a)
  BY DEF SeededPIs
<1>2. NoPI.status = "absent"
  BY DEF NoPI
<1>3. \A s \in SeedStatuses, a \in Amounts :
        SeededPI(s, a).status = s /\ SeededPI(s, a).amount = a
  BY DEF NoPI, SeededPI
<1> QED BY <1>1, <1>2, <1>3, SeedAssumption

LEMMA InitMaps == Init => S!Init /\ Priced
<1> SUFFICES ASSUME Init PROVE S!Init /\ Priced
  OBVIOUS
<1>1. \A p \in PIs : /\ payment_intents[p].status \in Unsettled \cup {"absent"}
                     /\ payment_intents[p].status # "absent" => payment_intents[p].amount \in Amounts
  BY SeededPriced DEF Init
<1>2. \A p \in PIs : payment_intents[p].status # "succeeded"
  BY <1>1 DEF Unsettled
<1>3. \A p \in PIs : PhaseOf(p) \in {"none", "open"}
  BY <1>1, Phases
<1>4. \A c \in Charges : charges[c].status # "succeeded"
  BY DEF Init, NoCharge
<1> QED BY <1>1, <1>2, <1>3, <1>4 DEF S!Init, S!Blank, Priced

LEMMA NextMaps == SInv /\ [Next]_vars => (S!Next \/ UNCHANGED S!svars) /\ Priced'
<1> SUFFICES ASSUME SInv, [Next]_vars PROVE (S!Next \/ UNCHANGED S!svars) /\ Priced'
  OBVIOUS
<1>0. \A p \in PIs : payment_intents[p] \in PIRow
  BY DEF SInv, Inv, TypeOK
<1>1. ASSUME NEW a \in Amounts, CreateCryptoPI(a)
      PROVE (S!Next \/ UNCHANGED S!svars) /\ Priced'
  <2> DEFINE p == NewId(payment_intents)
  <2>1. p \in PIs /\ payment_intents[p].status = "absent"
    BY <1>1, NewIdUnused DEF CreateCryptoPI, SInv, Inv, TypeOK
  <2>2. /\ charges' = charges
        /\ payment_intents'[p].status \in Unsettled
        /\ payment_intents'[p].amount \in Amounts
        /\ \A q \in PIs \ {p} : payment_intents'[q] = payment_intents[q]
    BY <1>1, <2>1 DEF CreateCryptoPI, SInv, Inv, TypeOK, NoPI, Unsettled
  <2> HIDE DEF p
  <2> QED BY <2>1, <2>2, OpenMaps
<1>2. ASSUME NEW a \in Amounts, NEW customer \in Customers \cup {NULL},
             NEW pm \in PMs \cup {NULL}, NEW confirm \in BOOLEAN,
             CreateCardPI(a, customer, pm, confirm)
      PROVE (S!Next \/ UNCHANGED S!svars) /\ Priced'
  <2> DEFINE p == NewId(payment_intents)
             pi == [NoPI EXCEPT !.amount = a, !.payment_method_id = pm,
                      !.customer_id = customer,
                      !.status = IF pm = NULL THEN "requires_payment_method"
                                              ELSE "requires_confirmation"]
             log == Emit(events, <<"pi", p>>, "payment_intent.created")
  <2>1. p \in PIs /\ payment_intents[p].status = "absent"
    BY <1>2, NewIdUnused DEF CreateCardPI, SInv, Inv, TypeOK
  <2>2. pi \in PIRow /\ pi.status \in Unsettled /\ pi.amount \in Amounts
    BY DEF NoPI, PIRow, Unsettled
  <2>3. CASE confirm
    <3>1. pm \in PMs /\ CardAttempt(p, pi, pm, log)
      BY <1>2, <2>3 DEF CreateCardPI
    <3>2. "absent" \notin Terminal
      BY DEF Terminal
    <3> HIDE DEF p, pi, log
    <3> QED BY <2>1, <2>2, <3>1, <3>2, AttemptMaps
  <2>4. CASE ~confirm
    <3>1. charges' = charges /\ payment_intents' = [payment_intents EXCEPT ![p] = pi]
      BY <1>2, <2>4 DEF CreateCardPI
    <3> HIDE DEF p, pi
    <3>2. /\ payment_intents'[p] = pi
          /\ \A q \in PIs \ {p} : payment_intents'[q] = payment_intents[q]
      BY <2>1, <3>1 DEF SInv, Inv, TypeOK
    <3> QED BY <2>1, <2>2, <3>1, <3>2, OpenMaps
  <2> QED BY <2>3, <2>4
<1>3. ASSUME NEW p \in PIs, NEW requested \in PMs \cup {KEEP},
             ConfirmCardPI(p, requested)
      PROVE (S!Next \/ UNCHANGED S!svars) /\ Priced'
  <2> DEFINE pi == payment_intents[p]
             pm == IF requested = KEEP THEN pi.payment_method_id ELSE requested
  <2>1. /\ pm \in PMs /\ CardAttempt(p, pi, pm, events)
        /\ pi.status \notin Terminal /\ pi.status # "absent"
    BY <1>0, <1>3 DEF ConfirmCardPI, PIRow, Confirmable, Resolve, Terminal
  <2> HIDE DEF pm
  <2>2. pi.amount \in Amounts
    BY <2>1 DEF SInv, Priced
  <2> QED BY <1>0, <2>1, <2>2, AttemptMaps
<1>4. ASSUME NEW p \in PIs, NEW a \in Amounts \cup {KEEP},
             NEW customer \in Customers \cup {NULL, KEEP},
             NEW pm \in PMs \cup {NULL, KEEP},
             UpdateCardPI(p, a, customer, pm)
      PROVE (S!Next \/ UNCHANGED S!svars) /\ Priced'
  <2>1. /\ charges' = charges
        /\ payment_intents[p].status \in Unsettled
        /\ \A q \in PIs \ {p} : payment_intents'[q] = payment_intents[q]
    BY <1>4 DEF UpdateCardPI, SInv, Inv, TypeOK, Updatable, Unsettled
  <2>2. payment_intents'[p].status \in Unsettled
    BY <1>0, <1>4 DEF UpdateCardPI, SInv, Inv, TypeOK, PIRow, Updatable, Unsettled
  <2>3. payment_intents'[p].amount = Resolve(a, payment_intents[p].amount)
    BY <1>0, <1>4 DEF UpdateCardPI, SInv, Inv, TypeOK, PIRow
  <2>4. payment_intents[p].amount \in Amounts
    BY <2>1 DEF SInv, Priced, Unsettled
  <2>5. payment_intents'[p].amount \in Amounts
    BY <2>3, <2>4 DEF Resolve
  <2> QED BY <2>1, <2>2, <2>5, OpenMaps
<1>5. ASSUME NEW p \in PIs, CancelPI(p)
      PROVE (S!Next \/ UNCHANGED S!svars) /\ Priced'
  <2>1. /\ charges' = charges
        /\ payment_intents[p].status \in Unsettled
        /\ payment_intents'[p].status = "canceled"
        /\ payment_intents'[p].amount = payment_intents[p].amount
        /\ \A q \in PIs \ {p} : payment_intents'[q] = payment_intents[q]
    BY <1>0, <1>5 DEF CancelPI, SInv, Inv, TypeOK, PIRow, Cancelable
  <2>2. /\ PhaseOf(p) = "open" /\ PhaseOf(p)' = "void"
        /\ Taken(p)' = Taken(p) /\ Back(p)' = Back(p)
    <3>1. payment_intents[p].status # "succeeded"
      BY <2>1 DEF Unsettled
    <3> QED BY <2>1, <3>1, Phases, PhasesNext
  <2>3. \A q \in PIs \ {p} : Same(q)
    BY <2>1, Unmoved DEF SInv
  <2>4. S!Void(p)
    BY <2>2, <2>3, MapVoid
  <2>5. Priced'
    BY <2>1 DEF SInv, Priced, Unsettled
  <2> QED BY <2>4, <2>5 DEF S!Next
<1>6. ASSUME NEW p \in PIs, SimulateCryptoDeposit(p)
      PROVE (S!Next \/ UNCHANGED S!svars) /\ Priced'
  <2>1. PICK log : Capture(p, payment_intents[p], NULL, NULL, log)
    BY <1>6 DEF SimulateCryptoDeposit
  <2>2. payment_intents[p].status = "requires_action"
    BY <1>6 DEF SimulateCryptoDeposit, Depositable
  <2>3. payment_intents[p].amount \in Amounts /\ payment_intents[p].status \notin Terminal
    BY <2>2 DEF SInv, Priced, Terminal
  <2> QED BY <1>0, <2>1, <2>3, CaptureMaps
<1>7. ASSUME NEW c \in Charges, NEW requested \in Amounts \cup {KEEP},
             CreateRefund(c, requested)
      PROVE (S!Next \/ UNCHANGED S!svars) /\ Priced'
  BY <1>7, RefundMaps
<1>8. ASSUME charges' = charges, payment_intents' = payment_intents
      PROVE (S!Next \/ UNCHANGED S!svars) /\ Priced'
  <2>1. \A q \in PIs : Same(q)
    BY <1>8, Unmoved DEF SInv
  <2> QED BY <1>8, <2>1, MapStutter DEF SInv, Priced
<1>9. ASSUME Reset PROVE (S!Next \/ UNCHANGED S!svars) /\ Priced'
  <2>1. \A p \in PIs :
          /\ payment_intents'[p].status \in Unsettled \cup {"absent"}
          /\ payment_intents'[p].status # "absent" => payment_intents'[p].amount \in Amounts
    BY <1>9, SeededPriced DEF Reset
  <2>2. \A p \in PIs : payment_intents'[p].status # "succeeded"
    BY <2>1 DEF Unsettled
  <2>3. \A p \in PIs : PhaseOf(p)' \in {"none", "open"}
    BY <2>1, PhasesNext
  <2>4. \A c \in Charges : charges'[c].status # "succeeded"
    BY <1>9 DEF Reset, NoCharge
  <2>5. S!Wipe
    BY <2>2, <2>3 DEF S!Wipe
  <2>6. Priced'
    BY <2>1, <2>4 DEF Priced
  <2> QED BY <2>5, <2>6 DEF S!Next
<1> QED
  BY <1>1, <1>2, <1>3, <1>4, <1>5, <1>6, <1>7, <1>8, <1>9
  DEF Next, vars, money, CreateCustomer, UpdateCustomer, DeleteCustomer,
      CreatePM, AttachPM, DetachPM

\* The tables implement Settlement: for any number of PaymentIntents, charges
\* and refunds, each is opened, captured at most once or voided, and gives back
\* no more than it took.
THEOREM SettlesAlways == Spec => Settles
<1>1. Init => S!Init /\ SInv
  BY InitInv, InitMaps DEF SInv
<1>2. SInv /\ [Next]_vars => SInv' /\ [S!Next]_(S!svars)
  BY NextInv, NextMaps DEF SInv
<1> QED BY <1>1, <1>2, PTL DEF Spec, Settles, S!Spec

=============================================================================
