----------------------------- MODULE DurableLog -----------------------------
(***************************************************************************)
(* What a process that serves twins promises of the events they accept,    *)
(* with no files, hooks, signals or closes: an event becomes durable or    *)
(* fails, a failure is told, and a flush of a twin returns only when every *)
(* event it accepted is durable or was told to have failed.  The end of    *)
(* the process may cost an event that is not durable, never one that is.   *)
(* ServedTape implements it.                                               *)
(***************************************************************************)
CONSTANTS Twins, Requests, TwinOf

VARIABLES
  event,      \* what became of each request's event
  reported,   \* events whose failure somebody was told
  promised,   \* events a flush has returned for
  up          \* the process runs

lvars == <<event, reported, promised, up>>

Init ==
  /\ event = [r \in Requests |-> "none"]
  /\ reported = {} /\ promised = {}
  /\ up = TRUE

Accepted(t) == {r \in Requests : TwinOf[r] = t /\ event[r] # "none"}

Becomes(r, from, to) ==
  /\ up /\ event[r] = from
  /\ event' = [event EXCEPT ![r] = to]
  /\ UNCHANGED <<reported, promised, up>>

Accept(r)  == Becomes(r, "none", "accepted")
Persist(r) == Becomes(r, "accepted", "durable")
Fail(r)    == Becomes(r, "accepted", "failed")

Tell(t) ==
  /\ up
  /\ reported' = reported \cup {r \in Accepted(t) : event[r] = "failed"}
  /\ UNCHANGED <<event, promised, up>>

Return(t) ==
  /\ up
  /\ \A r \in Accepted(t) \ reported : event[r] = "durable"
  /\ promised' = promised \cup (Accepted(t) \ reported)
  /\ UNCHANGED <<event, reported, up>>

End ==
  /\ up
  /\ up' = FALSE
  /\ \E gone \in SUBSET {r \in Requests : event[r] \in {"accepted", "failed"}} :
       event' = [r \in Requests |-> IF r \in gone THEN "lost" ELSE event[r]]
  /\ UNCHANGED <<reported, promised>>

Next ==
  \/ \E r \in Requests : Accept(r) \/ Persist(r) \/ Fail(r)
  \/ \E t \in Twins : Tell(t) \/ Return(t)
  \/ End

Spec == Init /\ [][Next]_lvars
=============================================================================
