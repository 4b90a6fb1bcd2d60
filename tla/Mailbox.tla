------------------------------- MODULE Mailbox -------------------------------
(***************************************************************************)
(* What a queue of updates promises the one who posts to it, with no ids,  *)
(* offsets, webhooks, retries or restarts: what is posted stays until      *)
(* somebody had it, asked to be rid of it or let it grow old; once gone it *)
(* is never there again; and nobody has what was never posted.             *)
(* TelegramUpdates implements it.                                          *)
(***************************************************************************)
EXTENDS Integers

CONSTANTS Owners, Age

VARIABLES
  clock,
  posted,   \* how many letters each owner was ever sent
  box,      \* the letters that are there, with their number and their time
  had       \* letters somebody had, or asked to be rid of

mvars == <<clock, posted, box, had>>

Init ==
  /\ clock = 0
  /\ posted = [o \in Owners |-> 0]
  /\ box = [o \in Owners |-> {}]
  /\ had = {}

Post(S) ==
  /\ posted' = [o \in Owners |-> IF o \in S THEN posted[o] + 1 ELSE posted[o]]
  /\ box' = [o \in Owners |-> box[o] \cup
               (IF o \in S THEN {[n |-> posted[o] + 1, at |-> clock]} ELSE {})]
  /\ UNCHANGED <<clock, had>>

Stale(letter) == letter.at <= clock - Age

\* Letters are handed out, again or for the first time, and some are taken away.
Empty ==
  /\ had \subseteq had'
  /\ \A e \in had' \ had : e[1] \in Owners /\ e[2] \in 1 .. posted[e[1]]
  /\ \A o \in Owners :
       /\ box'[o] \subseteq box[o]
       /\ \A x \in box[o] \ box'[o] : <<o, x.n>> \in had' \/ Stale(x)
  /\ UNCHANGED <<clock, posted>>

Pass == clock' = clock + 1 /\ UNCHANGED <<posted, box, had>>

Next == (\E S \in SUBSET Owners : Post(S)) \/ Empty \/ Pass

\* Most steps of an implementation change nothing here and need no look at Next.
Spec == Init /\ [][mvars' # mvars /\ Next]_mvars
=============================================================================
