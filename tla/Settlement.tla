----------------------------- MODULE Settlement -----------------------------
(***************************************************************************)
(* What the Stripe twin promises of the money behind each PaymentIntent,   *)
(* with no tables: it is opened, captured at most once or voided, and what *)
(* is given back never exceeds what was taken.  StripeLedger implements it.*)
(***************************************************************************)
EXTENDS Integers

CONSTANTS PIs, Amounts

VARIABLES
  phase,      \* "none", "open", "captured" or "void"
  captured,   \* what was taken
  refunded    \* what was given back

svars == <<phase, captured, refunded>>

Blank ==
  /\ captured = [p \in PIs |-> 0]
  /\ refunded = [p \in PIs |-> 0]

Init == phase \in [PIs -> {"none", "open"}] /\ Blank

Open(p) ==
  /\ phase[p] = "none"
  /\ phase' = [phase EXCEPT ![p] = "open"]
  /\ UNCHANGED <<captured, refunded>>

\* A PaymentIntent may be opened and captured by one call.
Capture(p, a) ==
  /\ phase[p] \in {"none", "open"}
  /\ phase' = [phase EXCEPT ![p] = "captured"]
  /\ captured' = [captured EXCEPT ![p] = a]
  /\ UNCHANGED refunded

Void(p) ==
  /\ phase[p] = "open"
  /\ phase' = [phase EXCEPT ![p] = "void"]
  /\ UNCHANGED <<captured, refunded>>

Refund(p, a) ==
  /\ phase[p] = "captured"
  /\ refunded[p] + a <= captured[p]
  /\ refunded' = [refunded EXCEPT ![p] = @ + a]
  /\ UNCHANGED <<phase, captured>>

Wipe ==
  /\ phase' \in [PIs -> {"none", "open"}]
  /\ captured' = [p \in PIs |-> 0]
  /\ refunded' = [p \in PIs |-> 0]

Next ==
  \/ \E p \in PIs : Open(p) \/ Void(p)
  \/ \E p \in PIs, a \in Amounts : Capture(p, a)
  \/ \E p \in PIs : \E a \in 1 .. captured[p] : Refund(p, a)
  \/ Wipe

Spec == Init /\ [][Next]_svars
=============================================================================
