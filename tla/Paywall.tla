------------------------------- MODULE Paywall -------------------------------
(***************************************************************************)
(* What a paywall promises its owner, with no challenges, caches, clocks,  *)
(* retries or lost answers: a bill is issued once and over one value, it   *)
(* is paid at most once and over that value, a payment to a bill's own     *)
(* account pays that bill, and whoever is let in showed a payment for      *)
(* which there is a receipt over the same value to the same account.       *)
(* X402Gate implements it.                                                 *)
(***************************************************************************)
CONSTANTS Bills, Values, Payments, Guests, NULL

VARIABLES
  owed,    \* what each bill is over, NULL before it is issued
  paidBy,  \* the payment that paid it
  shown    \* the payment each guest was let in with

pvars == <<owed, paidBy, shown>>

Init ==
  /\ owed   = [b \in Bills |-> NULL]
  /\ paidBy = [b \in Bills |-> NULL]
  /\ shown  = [g \in Guests |-> NULL]

Issue(b, v) ==
  /\ owed[b] = NULL
  /\ owed' = [owed EXCEPT ![b] = v]
  /\ UNCHANGED <<paidBy, shown>>

Pay(b, h) ==
  /\ owed[b] = h.value /\ paidBy[b] = NULL
  /\ h.to \in Bills => h.to = b
  /\ paidBy' = [paidBy EXCEPT ![b] = h]
  /\ UNCHANGED owed

\* A receipt for what the guest shows, be it of this very step.
Receipt(h) == \E b \in Bills : /\ paidBy'[b] # NULL
                               /\ paidBy'[b].to = h.to /\ paidBy'[b].value = h.value

LetIn(g, h) ==
  /\ shown[g] = NULL
  /\ Receipt(h)
  /\ shown' = [shown EXCEPT ![g] = h]
  /\ UNCHANGED owed

Next ==
  \/ \E b \in Bills, v \in Values : Issue(b, v)
  \/ \E h \in Payments :
       \/ \E b \in Bills : Pay(b, h) /\ UNCHANGED shown
       \/ \E b \in Bills, g \in Guests : Pay(b, h) /\ LetIn(g, h)
       \/ \E g \in Guests : LetIn(g, h) /\ UNCHANGED paidBy

\* Most steps of an implementation change nothing here and need no look at Next.
Spec == Init /\ [][pvars' # pvars /\ Next]_pvars
=============================================================================
