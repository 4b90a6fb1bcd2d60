--------------------------- MODULE ServedTapeProofs ---------------------------
(***************************************************************************)
(* Proofs about ServedTape for any number of twins, requests, callers and  *)
(* signals.  Three invariants hold by themselves or on top of one another: *)
(*                                                                         *)
(*   NoSilentLoss  a failure is retained until a flush has thrown it;      *)
(*   Barrier       what a flush returned for is durable, and no line is    *)
(*                 lost while the process runs;                            *)
(*   Drains        a hook past server.close() has a stopped server and no  *)
(*                 pending write behind it, which ExitDrains follows from. *)
(***************************************************************************)
EXTENDS ServedTape, TLAPS

-----------------------------------------------------------------------------
(* Type correctness. *)

LEMMA CallbackTypes ==
  ASSUME TypeOK, TwinAssumption, NEW r \in Requests, Arrive(r) \/ Callback(r)
  PROVE  TypeOK'
  <1>1. TwinOf[r] \in Twins
    BY DEF TwinAssumption
  <1>2. CASE Arrive(r)
    BY <1>2 DEF TypeOK, Arrive, tapes
  <1>3. CASE Finish(r)
    BY <1>3, <1>1 DEF TypeOK, Finish, Failed
  <1>4. CASE WriteDone(r)
    BY <1>4, <1>1 DEF TypeOK, WriteDone, Retained, Failed
  <1>5. CASE SyncDone(r)
    BY <1>5, <1>1 DEF TypeOK, SyncDone, Retained, Failed
  <1> QED
    BY <1>2, <1>3, <1>4, <1>5 DEF Callback

LEMMA CloseTypes ==
  ASSUME TypeOK, NEW x \in Closers, Close(x)
  PROVE  TypeOK'
  <1>1. x[2] \in Twins
    BY DEF Closers
  <1>2. CASE ServerClosed(x)
    BY <1>2, <1>1 DEF TypeOK, ServerClosed, Goto, Closing, tapes
  <1>3. CASE CloseStore(x)
    BY <1>3, <1>1 DEF TypeOK, CloseStore, Goto, Closing, tapes
  <1>4. CASE EndFile(x)
    BY <1>4, <1>1 DEF TypeOK, EndFile, Goto, Closing, tapes
  <1>5. CASE FlushThrows(x)
    BY <1>5, <1>1 DEF TypeOK, FlushThrows, Goto, Closing, FailedOf, Sent
  <1>6. ASSUME NEW from, NEW to \in Closing \cup {"ok"}, FlushReturns(x, from, to)
        PROVE  TypeOK'
    BY <1>6, <1>1 DEF TypeOK, FlushReturns, Goto, Accepted, Sent
  <1> QED
    BY <1>2, <1>3, <1>4, <1>5, <1>6 DEF Close, Closing

LEMMA OtherTypes ==
  ASSUME TypeOK,
         \/ \E c \in Callers, t \in Twins : CallClose(c, t)
         \/ \E s \in Signals : Signal(s) \/ Exit(s)
         \/ Die
  PROVE  TypeOK'
  <1>1. ASSUME NEW c \in Callers, NEW t \in Twins, CallClose(c, t)
        PROVE  TypeOK'
    <2>1. <<c, t>> \in Closers
      BY DEF Closers
    <2> QED
      BY <1>1, <2>1 DEF TypeOK, CallClose, Goto, Closing, tapes
  <1>2. ASSUME NEW s \in Signals, Signal(s)
        PROVE  TypeOK'
    <2>1. handler' \in [Signals -> [at : {"armed", "draining", "exited"},
                                  hooks : SUBSET Twins]]
      BY <1>2 DEF TypeOK, Signal
    <2>2. closer' \in [Closers -> Closing \cup {"idle", "ok", "failed"}]
      BY <1>2 DEF TypeOK, Signal, Closing
    <2>3. served' \in [Twins -> {"up", "closing", "down"}]
      BY <1>2 DEF TypeOK, Signal
    <2> QED
      BY <1>2, <2>1, <2>2, <2>3 DEF TypeOK, Signal, tapes
  <1>3. ASSUME NEW s \in Signals, Exit(s)
        PROVE  TypeOK'
    <2>1. handler' \in [Signals -> [at : {"armed", "draining", "exited"},
                                     hooks : SUBSET Twins]]
      BY <1>3 DEF TypeOK, Exit
    <2> QED
      BY <1>3, <2>1 DEF TypeOK, Exit, Failed
  <1>4. CASE Die
    BY <1>4 DEF TypeOK, Die, Failed
  <1> QED
    BY <1>1, <1>2, <1>3, <1>4

\* Every variable keeps its type.
THEOREM TypeCorrect == Spec => []TypeOK
  <1> USE TwinAssumption
  <1>1. Init => TypeOK
    BY DEF Init, TypeOK
  <1>2. TypeOK /\ [Next]_vars => TypeOK'
    <2> SUFFICES ASSUME TypeOK, [Next]_vars PROVE TypeOK'
      OBVIOUS
    <2>1. CASE UNCHANGED vars
      BY <2>1 DEF TypeOK, vars, tapes
    <2>2. CASE Next
      BY <2>2, CallbackTypes, CloseTypes, OtherTypes DEF Next
    <2> QED
      BY <2>1, <2>2
  <1> QED
    BY <1>1, <1>2, PTL DEF Spec

-----------------------------------------------------------------------------
(* A failure is never silent. *)

LEMMA FailureKept ==
  ASSUME TypeOK, NoSilentLoss, TwinAssumption, NEW r \in Requests,
         WriteDone(r) \/ SyncDone(r), NEW t \in Twins
  PROVE  (FailedOf(t) \subseteq reported \/ failure[t] = "retained")'
  <1>1. reported' = reported
    BY DEF WriteDone, SyncDone
  <1>2. CASE failure' = failure /\ line'[r] \notin Failed
    <2>1. \A q \in Requests : line'[q] \in Failed => line[q] \in Failed
      BY <1>2 DEF WriteDone, SyncDone, TypeOK, Failed
    <2>2. FailedOf(t)' \subseteq FailedOf(t)
      BY <2>1 DEF FailedOf, Sent
    <2> QED
      BY <1>1, <1>2, <2>2 DEF NoSilentLoss
  <1>3. CASE failure' = Retained(TwinOf[r])
    <2>1. TwinOf[r] \in Twins
      BY DEF TwinAssumption
    <2>2. CASE t = TwinOf[r]
      BY <1>3, <2>1, <2>2 DEF Retained, TypeOK
    <2>3. CASE t # TwinOf[r]
      <3>1. \A q \in Sent(t) : line'[q] = line[q]
        BY <2>3 DEF WriteDone, SyncDone, TypeOK, Sent
      <3>2. FailedOf(t)' = FailedOf(t)
        BY <3>1 DEF FailedOf, Sent
      <3>3. failure'[t] = failure[t]
        BY <1>3, <2>3, <2>1 DEF Retained, TypeOK
      <3> QED
        BY <1>1, <3>2, <3>3 DEF NoSilentLoss
    <2> QED
      BY <2>2, <2>3
  <1> QED
    BY <1>2, <1>3 DEF WriteDone, SyncDone, TypeOK, Failed

LEMMA LossReported ==
  ASSUME TypeOK, NoSilentLoss, NEW x \in Closers, FlushThrows(x)
  PROVE  NoSilentLoss'
  <1> SUFFICES ASSUME NEW t \in Twins
               PROVE  (FailedOf(t) \subseteq reported \/ failure[t] = "retained")'
    BY DEF NoSilentLoss
  <1>1. /\ FailedOf(t)' = FailedOf(t)
        /\ reported' = reported \cup FailedOf(x[2])
        /\ failure' = [failure EXCEPT ![x[2]] = "none"]
    BY DEF FlushThrows, FailedOf, Sent
  <1>2. CASE t = x[2]
    BY <1>1, <1>2
  <1>3. CASE t # x[2]
    <2>1. failure'[t] = failure[t]
      BY <1>1, <1>3 DEF TypeOK
    <2> QED
      BY <1>1, <2>1 DEF NoSilentLoss
  <1> QED
    BY <1>2, <1>3

\* A step that fails no further line and takes no failure back is harmless.
LEMMA LossKept ==
  ASSUME NoSilentLoss, failure' = failure, reported' = reported,
         \A q \in Requests : line'[q] \in Failed => line[q] \in Failed
  PROVE  NoSilentLoss'
  <1>1. \A t \in Twins : FailedOf(t)' \subseteq FailedOf(t)
    BY DEF FailedOf, Sent
  <1> QED
    BY <1>1 DEF NoSilentLoss

LEMMA NoSilentLossStep ==
  ASSUME TypeOK, NoSilentLoss, TwinAssumption, [Next]_vars
  PROVE  NoSilentLoss'
  <1>1. ASSUME NEW r \in Requests, Arrive(r) PROVE NoSilentLoss'
    BY <1>1, LossKept DEF Arrive, tapes
  <1>2. ASSUME NEW r \in Requests, Finish(r) PROVE NoSilentLoss'
    <2>1. \A q \in Requests : line'[q] \in Failed => line[q] \in Failed
      BY <1>2 DEF Finish, TypeOK, Failed
    <2> QED
      BY <1>2, <2>1, LossKept DEF Finish
  <1>3. ASSUME NEW r \in Requests, WriteDone(r) \/ SyncDone(r) PROVE NoSilentLoss'
    BY <1>3, FailureKept DEF NoSilentLoss
  <1>4. ASSUME NEW x \in Closers, Close(x) PROVE NoSilentLoss'
    <2>1. CASE FlushThrows(x)
      BY <2>1, LossReported
    <2>2. CASE ~FlushThrows(x)
      <3>1. failure' = failure /\ reported' = reported /\ line' = line
        BY <1>4, <2>2 DEF Close, ServerClosed, FlushReturns, CloseStore, EndFile, tapes
      <3> QED
        BY <3>1, LossKept
    <2> QED
      BY <2>1, <2>2
  <1>5. ASSUME NEW c \in Callers, NEW t \in Twins, CallClose(c, t) PROVE NoSilentLoss'
    BY <1>5, LossKept DEF CallClose, tapes
  <1>6. ASSUME NEW s \in Signals, Signal(s) PROVE NoSilentLoss'
    BY <1>6, LossKept DEF Signal, tapes
  <1>7. ASSUME NEW s \in Signals, Exit(s) PROVE NoSilentLoss'
    <2>1. \A q \in Requests : line'[q] \in Failed => line[q] \in Failed
      BY <1>7 DEF Exit, Failed
    <2> QED
      BY <1>7, <2>1, LossKept DEF Exit
  <1>8. CASE Die
    <2>1. \A q \in Requests : line'[q] \in Failed => line[q] \in Failed
      BY <1>8 DEF Die, Failed
    <2> QED
      BY <1>8, <2>1, LossKept DEF Die
  <1>9. CASE UNCHANGED vars
    BY <1>9, LossKept DEF vars, tapes
  <1> QED
    BY <1>1, <1>2, <1>3, <1>4, <1>5, <1>6, <1>7, <1>8, <1>9 DEF Next, Callback

\* A failed write is reported, or kept for the next flush to report.
THEOREM NoSilentLossAlways == Spec => []NoSilentLoss
  <1> USE TwinAssumption
  <1>1. Init => NoSilentLoss
    BY DEF Init, NoSilentLoss, FailedOf, Sent, Failed
  <1>2. TypeOK /\ NoSilentLoss /\ [Next]_vars => NoSilentLoss'
    BY NoSilentLossStep
  <1> QED
    BY <1>1, <1>2, TypeCorrect, PTL DEF Spec

-----------------------------------------------------------------------------
(* What a flush returned for is durable. *)

\* A request has no event before its handler is done, and none is lost while
\* the process runs.
Unrecorded  == \A r \in Requests : pc[r] \in {"idle", "running"} => line[r] = "none"
NothingLost == process = "running" => \A r \in Requests : line[r] # "lost"

Barrier == DurableBarrier /\ Unrecorded /\ NothingLost

\* A step that promises nothing, records nothing and touches neither what is
\* durable nor what is none keeps the barrier.
LEMMA BarrierKept ==
  ASSUME TypeOK, Barrier, promised' = promised,
         \A q \in Requests : line[q] \in {"durable", "none"} => line'[q] = line[q],
         \A q \in Requests : pc'[q] \in {"idle", "running"}
                               => pc[q] \in {"idle", "running"},
         process' = "running" => \A q \in Requests : line'[q] # "lost"
  PROVE  Barrier'
  <1>1. DurableBarrier'
    BY DEF Barrier, DurableBarrier, TypeOK
  <1>2. Unrecorded'
    BY DEF Barrier, Unrecorded
  <1> QED
    BY <1>1, <1>2 DEF Barrier, NothingLost

\* So does one that leaves the lines alone.
LEMMA BarrierAside ==
  ASSUME TypeOK, Barrier, promised' = promised, line' = line,
         pc' = pc, process' = process
  PROVE  Barrier'
  BY BarrierKept DEF Barrier, NothingLost

LEMMA BarrierFlush ==
  ASSUME TypeOK, NoSilentLoss, Barrier,
         NEW x \in Closers, NEW from, NEW to, FlushReturns(x, from, to)
  PROVE  Barrier'
  <1>1. x[2] \in Twins
    BY DEF Closers
  <1>2. FailedOf(x[2]) \subseteq reported
    BY <1>1 DEF FlushReturns, NoSilentLoss
  <1>3. \A r \in Accepted(x[2]) \ reported : line[r] = "durable"
    BY <1>2 DEF FlushReturns, Barrier, NothingLost, Accepted, FailedOf, Pending,
                Sent, TypeOK, Failed
  <1>4. line' = line /\ process' = process /\ pc' = pc
    BY DEF FlushReturns
  <1>5. DurableBarrier'
    BY <1>3, <1>4 DEF FlushReturns, Barrier, DurableBarrier
  <1> QED
    BY <1>4, <1>5 DEF Barrier, Unrecorded, NothingLost

LEMMA BarrierCallback ==
  ASSUME TypeOK, Barrier, NEW r \in Requests, Arrive(r) \/ Callback(r)
  PROVE  Barrier'
  <1>1. CASE Arrive(r)
    BY <1>1, BarrierKept DEF Arrive, tapes, TypeOK, Barrier, NothingLost
  <1>2. CASE Finish(r)
    <2>1. promised' = promised /\ process' = "running" /\ process = "running"
      BY <1>2 DEF Finish
    <2>2. line[r] = "none"
      BY <1>2 DEF Finish, Barrier, Unrecorded
    <2>3. \A q \in Requests : q # r => line'[q] = line[q] /\ pc'[q] = pc[q]
      BY <1>2 DEF Finish, TypeOK
    <2>4. /\ pc'[r] \notin {"idle", "running"}
          /\ line'[r] \in {"none", "queued"}
      BY <1>2, <2>2 DEF Finish, TypeOK
    <2>5. DurableBarrier'
      BY <2>1, <2>2, <2>3 DEF Barrier, DurableBarrier, TypeOK
    <2>6. Unrecorded'
      BY <2>3, <2>4 DEF Barrier, Unrecorded
    <2>7. NothingLost'
      BY <2>1, <2>3, <2>4 DEF Barrier, NothingLost
    <2> QED
      BY <2>5, <2>6, <2>7 DEF Barrier
  <1>3. CASE WriteDone(r)
    BY <1>3, BarrierKept DEF WriteDone, TypeOK, Barrier, NothingLost
  <1>4. CASE SyncDone(r)
    BY <1>4, BarrierKept DEF SyncDone, TypeOK, Barrier, NothingLost
  <1> QED
    BY <1>1, <1>2, <1>3, <1>4 DEF Callback

LEMMA BarrierStep ==
  ASSUME TypeOK, NoSilentLoss, Barrier, [Next]_vars
  PROVE  Barrier'
  <1>1. ASSUME NEW r \in Requests, Arrive(r) \/ Callback(r) PROVE Barrier'
    BY <1>1, BarrierCallback
  <1>2. ASSUME NEW x \in Closers, Close(x) PROVE Barrier'
    <2>1. CASE ServerClosed(x)
      BY <2>1, BarrierAside DEF ServerClosed, tapes
    <2>2. CASE CloseStore(x)
      BY <2>2, BarrierAside DEF CloseStore, tapes
    <2>3. CASE EndFile(x)
      BY <2>3, BarrierAside DEF EndFile, tapes
    <2>4. CASE FlushThrows(x)
      BY <2>4, BarrierAside DEF FlushThrows
    <2> QED
      BY <1>2, <2>1, <2>2, <2>3, <2>4, BarrierFlush DEF Close
  <1>3. ASSUME NEW c \in Callers, NEW t \in Twins, CallClose(c, t) PROVE Barrier'
    BY <1>3, BarrierAside DEF CallClose, tapes
  <1>4. ASSUME NEW s \in Signals, Signal(s) PROVE Barrier'
    BY <1>4, BarrierAside DEF Signal, tapes
  <1>5. ASSUME NEW s \in Signals, Exit(s) PROVE Barrier'
    BY <1>5, BarrierKept DEF Exit, TypeOK
  <1>6. CASE Die
    BY <1>6, BarrierKept DEF Die, TypeOK
  <1>7. CASE UNCHANGED vars
    BY <1>7, BarrierAside DEF vars, tapes
  <1> QED
    BY <1>1, <1>2, <1>3, <1>4, <1>5, <1>6, <1>7 DEF Next

\* What a flush returned for is on the disk, whatever happens to the process.
THEOREM DurableBarrierAlways == Spec => []DurableBarrier
  <1>1. Init => Barrier
    BY DEF Init, Barrier, DurableBarrier, Unrecorded, NothingLost
  <1>2. TypeOK /\ NoSilentLoss /\ Barrier /\ [Next]_vars => Barrier'
    BY BarrierStep
  <1>3. Barrier => DurableBarrier
    BY DEF Barrier
  <1> QED
    BY <1>1, <1>2, <1>3, TypeCorrect, NoSilentLossAlways, PTL DEF Spec

-----------------------------------------------------------------------------
(* The file is closed with no write under way. *)

Ended ==
  /\ NothingAfterClose
  /\ Unrecorded
  /\ \A x \in Closers :
       /\ closer[x] \in {"closing", "ending"} => store[x[2]] # "open"
       /\ closer[x] = "ending" => Pending(x[2]) = {}

\* A step that records nothing and moves no close() keeps it.
LEMMA EndedKept ==
  ASSUME Ended,
         \A q \in Requests : /\ line'[q] \in {"queued", "written"}
                                  => line[q] \in {"queued", "written"}
                             /\ line[q] = "none" => line'[q] = "none"
                             /\ pc'[q] \in {"idle", "running"}
                                  => pc[q] \in {"idle", "running"},
         store' = store,
         \A x \in Closers : closer'[x] \in {"closing", "ending"} => closer'[x] = closer[x]
  PROVE  Ended'
  <1>1. \A t : Pending(t)' \subseteq Pending(t)
    BY DEF Pending, Sent
  <1>2. NothingAfterClose'
    BY <1>1 DEF Ended, NothingAfterClose
  <1>3. Unrecorded'
    BY DEF Ended, Unrecorded
  <1> QED
    BY <1>1, <1>2, <1>3 DEF Ended

LEMMA EndedFinish ==
  ASSUME TypeOK, Ended, NEW r \in Requests, Finish(r)
  PROVE  Ended'
  <1>1. store' = store /\ closer' = closer
    BY DEF Finish
  <1>2. \A q \in Requests : q # r => line'[q] = line[q] /\ pc'[q] = pc[q]
    BY DEF Finish, TypeOK
  <1>3. pc'[r] \notin {"idle", "running"}
    BY DEF Finish, TypeOK
  <1>4. line[r] = "none"
    BY DEF Finish, Ended, Unrecorded
  <1>5. \A t : store[t] # "open" => Pending(t)' \subseteq Pending(t)
    <2> SUFFICES ASSUME NEW t, store[t] # "open", NEW q \in Sent(t),
                        line'[q] \in {"queued", "written"}
                 PROVE  line[q] \in {"queued", "written"}
      BY DEF Pending, Sent
    <2>1. CASE q # r
      BY <2>1, <1>2 DEF Sent
    <2>2. CASE q = r
      BY <2>2, <1>4 DEF Finish, Recordable, Sent
    <2> QED
      BY <2>1, <2>2
  <1>6. NothingAfterClose'
    BY <1>1, <1>5 DEF Ended, NothingAfterClose
  <1>7. Unrecorded'
    BY <1>2, <1>3 DEF Ended, Unrecorded
  <1> QED
    BY <1>1, <1>5, <1>6, <1>7 DEF Ended

LEMMA EndedClose ==
  ASSUME TypeOK, Ended, NEW x \in Closers, Close(x)
  PROVE  Ended'
  <1> DEFINE t == x[2]
  <1>0. t \in Twins
    BY DEF Closers
  <1>1. line' = line /\ pc' = pc
    BY DEF Close, ServerClosed, FlushReturns, FlushThrows, CloseStore, EndFile, tapes
  <1>2. \A u : Pending(u)' = Pending(u)
    BY <1>1 DEF Pending, Sent
  <1>3. Unrecorded'
    BY <1>1 DEF Ended, Unrecorded
  <1>4. \A y \in Closers : y # x => closer'[y] = closer[y]
    BY DEF Close, ServerClosed, FlushReturns, FlushThrows, CloseStore, EndFile, Goto, TypeOK
  <1>5. \A u \in Twins : store[u] # "open" => store'[u] # "open"
    BY DEF Close, ServerClosed, FlushReturns, FlushThrows, CloseStore, EndFile, TypeOK
  <1>6. closer'[x] \in {"closing", "ending"} => store'[t] # "open"
    BY <1>0 DEF Close, ServerClosed, FlushReturns, FlushThrows, CloseStore, EndFile,
                Goto, TypeOK, Ended
  <1>7. closer'[x] = "ending" => Pending(t) = {}
    BY DEF Close, ServerClosed, FlushReturns, FlushThrows, CloseStore, EndFile,
           Goto, TypeOK
  <1>8. \A u \in Twins : store'[u] = "ended" => store[u] = "ended" \/ Pending(u) = {}
    BY DEF Close, ServerClosed, FlushReturns, FlushThrows, CloseStore, EndFile,
           TypeOK, Ended
  <1>9. NothingAfterClose'
    BY <1>2, <1>8 DEF Ended, NothingAfterClose
  <1>10. ASSUME NEW y \in Closers
         PROVE  /\ closer'[y] \in {"closing", "ending"} => store'[y[2]] # "open"
                /\ closer'[y] = "ending" => Pending(y[2])' = {}
    <2>1. y[2] \in Twins
      BY DEF Closers
    <2>2. CASE y = x
      BY <2>2, <1>2, <1>6, <1>7
    <2>3. CASE y # x
      BY <2>1, <2>3, <1>2, <1>4, <1>5 DEF Ended
    <2> QED
      BY <2>2, <2>3
  <1> QED
    BY <1>3, <1>9, <1>10 DEF Ended

LEMMA EndedStep ==
  ASSUME TypeOK, Ended, [Next]_vars
  PROVE  Ended'
  <1>1. ASSUME NEW r \in Requests, Arrive(r) PROVE Ended'
    BY <1>1, EndedKept DEF Arrive, tapes, TypeOK
  <1>2. ASSUME NEW r \in Requests, WriteDone(r) \/ SyncDone(r) PROVE Ended'
    BY <1>2, EndedKept DEF WriteDone, SyncDone, TypeOK
  <1>3. ASSUME NEW c \in Callers, NEW t \in Twins, CallClose(c, t) PROVE Ended'
    BY <1>3, EndedKept DEF CallClose, tapes, Goto, TypeOK
  <1>4. ASSUME NEW s \in Signals, Signal(s) PROVE Ended'
    BY <1>4, EndedKept DEF Signal, tapes, TypeOK
  <1>5. ASSUME NEW s \in Signals, Exit(s) PROVE Ended'
    BY <1>5, EndedKept DEF Exit, TypeOK
  <1>6. CASE Die
    BY <1>6, EndedKept DEF Die, TypeOK
  <1>7. CASE UNCHANGED vars
    BY <1>7, EndedKept DEF vars, tapes
  <1> QED
    BY <1>1, <1>2, <1>3, <1>4, <1>5, <1>6, <1>7, EndedFinish, EndedClose DEF Next, Callback

\* No write is under way when the file is closed.
THEOREM NothingAfterCloseAlways == Spec => []NothingAfterClose
  <1>1. Init => Ended
    BY DEF Init, Ended, NothingAfterClose, Unrecorded
  <1>2. TypeOK /\ Ended /\ [Next]_vars => Ended'
    BY EndedStep
  <1>3. Ended => NothingAfterClose
    BY DEF Ended
  <1> QED
    BY <1>1, <1>2, <1>3, TypeCorrect, PTL DEF Spec

-----------------------------------------------------------------------------
(* A handler exits with its twins drained. *)

Behind(t) == Pending(t) = {} /\ FailedOf(t) \subseteq reported

Drains ==
  /\ \A t \in Twins, r \in Requests :
       served[t] = "down" /\ TwinOf[r] = t => pc[r] # "running"
  /\ \A t \in hooks : served[t] = "up"
  /\ \A x \in Closers : closer[x] = "stopping" => served[x[2]] # "up"
  /\ \A s \in Signals, t \in Twins :
       /\ closer[<<s, t>>] \notin {"idle", "stopping"} => served[t] = "down"
       /\ closer[<<s, t>>] \notin {"idle", "stopping", "flushing"} => Behind(t)

\* A step that keeps every server, hook and close() where it is, starts nothing
\* on a stopped server and adds no write where there was none.
LEMMA DrainsKept ==
  ASSUME Drains, served' = served, hooks' = hooks, closer' = closer,
         \A r \in Requests : pc'[r] = "running"
             => pc[r] = "running" \/ served[TwinOf[r]] = "up",
         \A t \in Twins : Behind(t) /\ served[t] = "down" => Behind(t)'
  PROVE  Drains'
  BY DEF Drains

LEMMA DrainsCallback ==
  ASSUME TypeOK, Drains, TwinAssumption, NEW r \in Requests, Arrive(r) \/ Callback(r)
  PROVE  Drains'
  <1>1. \A t \in Twins : Behind(t) /\ served[t] = "down" => Behind(t)'
    <2> SUFFICES ASSUME NEW t \in Twins, Behind(t), served[t] = "down"
                 PROVE  Behind(t)'
      OBVIOUS
    <2>1. reported' = reported
      BY DEF Arrive, Callback, Finish, WriteDone, SyncDone, tapes
    <2>2. \A q \in Sent(t) : line'[q] = line[q]
      <3> SUFFICES ASSUME NEW q \in Sent(t), line'[q] # line[q] PROVE FALSE
        OBVIOUS
      <3>1. CASE Arrive(r)
        BY <3>1 DEF Arrive, tapes
      <3>2. CASE Finish(r)
        BY <3>2 DEF Finish, Drains, Sent, TypeOK
      <3>3. CASE WriteDone(r) \/ SyncDone(r)
        <4>1. q = r /\ line[r] \in {"queued", "written"}
          BY <3>3 DEF WriteDone, SyncDone, TypeOK, Sent
        <4>2. r \in Pending(t)
          BY <4>1 DEF Pending, Sent
        <4> QED
          BY <4>2 DEF Behind
      <3> QED
        BY <3>1, <3>2, <3>3 DEF Callback
    <2>3. Pending(t)' = Pending(t) /\ FailedOf(t)' = FailedOf(t)
      BY <2>2 DEF Pending, FailedOf, Sent
    <2> QED
      BY <2>1, <2>3 DEF Behind
  <1>2. /\ served' = served /\ hooks' = hooks /\ closer' = closer
    BY DEF Arrive, Callback, Finish, WriteDone, SyncDone
  <1>3. \A q \in Requests : pc'[q] = "running"
             => pc[q] = "running" \/ served[TwinOf[q]] = "up"
    BY DEF Arrive, Callback, Finish, WriteDone, SyncDone, TypeOK
  <1> QED
    BY <1>1, <1>2, <1>3, DrainsKept

LEMMA DrainsClose ==
  ASSUME TypeOK, NoSilentLoss, Drains, NEW x \in Closers, Close(x)
  PROVE  Drains'
  <1> DEFINE t == x[2]
  <1>0. t \in Twins /\ x = <<x[1], t>>
    BY DEF Closers
  <1>1. line' = line /\ pc' = pc /\ hooks' = hooks
    BY DEF Close, ServerClosed, FlushReturns, FlushThrows, CloseStore, EndFile, tapes
  <1>2. \A u \in Twins :
          (served'[u] # served[u]) => u = t /\ closer[x] = "stopping" /\ served'[u] = "down"
    BY DEF Close, ServerClosed, FlushReturns, FlushThrows, CloseStore, EndFile, TypeOK
  <1>3. \A y \in Closers : y # x => closer'[y] = closer[y]
    BY DEF Close, ServerClosed, FlushReturns, FlushThrows, CloseStore, EndFile, Goto, TypeOK
  <1>4. \A u : Behind(u) => Behind(u)'
    <2>1. reported \subseteq reported'
      BY DEF Close, ServerClosed, FlushReturns, FlushThrows, CloseStore, EndFile, tapes
    <2>2. \A u : Pending(u)' = Pending(u) /\ FailedOf(u)' = FailedOf(u)
      BY <1>1 DEF Pending, FailedOf, Sent
    <2> QED
      BY <2>1, <2>2 DEF Behind
  <1>5. \A u \in Twins, r \in Requests :
          served'[u] = "down" /\ TwinOf[r] = u => pc'[r] # "running"
    BY <1>1 DEF Drains, Close, ServerClosed, FlushReturns, FlushThrows, CloseStore,
                EndFile, TypeOK, Sent
  <1>6. \A u \in hooks' : served'[u] = "up"
    <2>1. hooks \subseteq Twins
      BY DEF TypeOK
    <2>2. \A u \in hooks : closer[x] = "stopping" => u # t
      BY DEF Drains
    <2> QED
      BY <1>1, <1>2, <2>1, <2>2 DEF Drains
  <1>7. \A y \in Closers : closer'[y] = "stopping" => served'[y[2]] # "up"
    <2> SUFFICES ASSUME NEW y \in Closers, closer'[y] = "stopping"
                 PROVE  served'[y[2]] # "up"
      OBVIOUS
    <2>1. y[2] \in Twins
      BY DEF Closers
    <2>2. y # x
      BY DEF Close, ServerClosed, FlushReturns, FlushThrows, CloseStore, EndFile, Goto, TypeOK
    <2> QED
      BY <1>2, <1>3, <2>1, <2>2 DEF Drains
  <1>8. ASSUME NEW s \in Signals, NEW u \in Twins
        PROVE  /\ closer'[<<s, u>>] \notin {"idle", "stopping"} => served'[u] = "down"
               /\ closer'[<<s, u>>] \notin {"idle", "stopping", "flushing"} => Behind(u)'
    <2>1. <<s, u>> \in Closers
      BY DEF Closers
    <2>2. CASE <<s, u>> # x
      BY <1>2, <1>3, <1>4, <2>1, <2>2 DEF Drains
    <2>3. CASE <<s, u>> = x
      <3>1. u = t
        BY <2>3
      <3>2. CASE ServerClosed(x)
        BY <3>1, <3>2, <2>3, <2>1 DEF ServerClosed, Goto, TypeOK
      <3>3. CASE closer[x] \notin {"stopping", "flushing"}
        <4>1. closer[x] # "idle" /\ closer'[x] # "idle"
          BY <3>3 DEF Close, ServerClosed, FlushReturns, FlushThrows, CloseStore, EndFile,
                      Goto, TypeOK
        <4> QED
          BY <4>1, <3>3, <1>2, <1>4, <2>3 DEF Drains
      <3>4. CASE closer[x] = "flushing"
        <4>1. served'[u] = "down"
          BY <3>4, <1>2, <2>3 DEF Drains
        <4>2. CASE FlushThrows(x)
          <5>1. Behind(u)'
            BY <4>2, <3>1 DEF FlushThrows, Behind, Pending, FailedOf, Sent
          <5> QED
            BY <4>1, <5>1
        <4>3. CASE FlushReturns(x, "flushing", "releasing")
          <5>1. FailedOf(u) \subseteq reported
            BY <4>3, <3>1, <1>0 DEF FlushReturns, NoSilentLoss
          <5>2. Behind(u)
            BY <4>3, <3>1, <5>1 DEF FlushReturns, Behind
          <5> QED
            BY <4>1, <5>2, <1>4
        <4> QED
          BY <3>4, <4>2, <4>3 DEF Close, ServerClosed, FlushReturns, CloseStore, EndFile
      <3> QED
        BY <3>2, <3>3, <3>4 DEF Close, FlushReturns, FlushThrows, CloseStore, EndFile
    <2> QED
      BY <2>2, <2>3
  <1> QED
    BY <1>5, <1>6, <1>7, <1>8 DEF Drains

LEMMA DrainsCallClose ==
  ASSUME TypeOK, Drains, ActorAssumption, NEW c \in Callers, NEW t \in Twins,
         CallClose(c, t)
  PROVE  Drains'
  <1>0. <<c, t>> \in Closers
    BY DEF Closers
  <1>1. /\ line' = line /\ pc' = pc /\ reported' = reported
        /\ hooks' \subseteq hooks
    BY DEF CallClose, tapes
  <1>2. \A u : Behind(u)' = Behind(u)
    BY <1>1 DEF Behind, Pending, FailedOf, Sent
  <1>3. \A u \in Twins :
          (served'[u] # served[u]) => u = t /\ served[t] = "up" /\ served'[u] = "closing"
    BY DEF CallClose, TypeOK
  <1>4. \A u \in hooks' : served'[u] = "up"
    BY <1>1, <1>3 DEF CallClose, Drains, TypeOK
  <1>5. \A s \in Signals, u \in Twins : closer'[<<s, u>>] = closer[<<s, u>>]
    BY DEF CallClose, Goto, TypeOK, Closers, ActorAssumption
  <1>6. \A y \in Closers : closer'[y] = "stopping" => served'[y[2]] # "up"
    <2> SUFFICES ASSUME NEW y \in Closers, closer'[y] = "stopping"
                 PROVE  served'[y[2]] # "up"
      OBVIOUS
    <2>1. y[2] \in Twins
      BY DEF Closers
    <2>2. CASE y = <<c, t>>
      BY <2>2, <1>0 DEF CallClose, Goto, TypeOK
    <2>3. CASE y # <<c, t>>
      <3>1. closer'[y] = closer[y]
        BY <2>3 DEF CallClose, Goto, TypeOK
      <3> QED
        BY <3>1, <2>1, <1>3 DEF Drains
    <2> QED
      BY <2>2, <2>3
  <1> QED
    BY <1>1, <1>2, <1>3, <1>4, <1>5, <1>6 DEF Drains

LEMMA DrainsSignal ==
  ASSUME TypeOK, Drains, NEW s \in Signals, Signal(s)
  PROVE  Drains'
  <1>1. line' = line /\ pc' = pc /\ reported' = reported /\ hooks' = {}
    BY DEF Signal, tapes
  <1>2. \A u : Behind(u)' = Behind(u)
    BY <1>1 DEF Behind, Pending, FailedOf, Sent
  <1>3. \A u \in Twins : served'[u] = IF u \in hooks THEN "closing" ELSE served[u]
    BY DEF Signal
  <1>4. \A y \in Closers : closer'[y] = IF y[1] = s /\ y[2] \in hooks
                                          THEN "stopping" ELSE closer[y]
    BY DEF Signal
  <1>5. \A y \in Closers : closer'[y] = "stopping" => served'[y[2]] # "up"
    BY <1>3, <1>4 DEF Drains, Closers
  <1>6. ASSUME NEW z \in Signals, NEW u \in Twins
        PROVE  /\ closer'[<<z, u>>] \notin {"idle", "stopping"} => served'[u] = "down"
               /\ closer'[<<z, u>>] \notin {"idle", "stopping", "flushing"} => Behind(u)'
    <2>1. <<z, u>> \in Closers
      BY DEF Closers
    <2>2. CASE u \in hooks
      <3>1. closer[<<z, u>>] \in {"idle", "stopping"}
        BY <2>2 DEF Drains
      <3> QED
        BY <3>1, <2>1, <1>4
    <2>3. CASE u \notin hooks
      BY <2>1, <2>3, <1>2, <1>3, <1>4 DEF Drains
    <2> QED
      BY <2>2, <2>3
  <1> QED
    BY <1>1, <1>3, <1>5, <1>6 DEF Drains

LEMMA DrainsStep ==
  ASSUME TypeOK, NoSilentLoss, Drains, TwinAssumption, ActorAssumption, [Next]_vars
  PROVE  Drains'
  <1>1. ASSUME NEW s \in Signals, Exit(s) PROVE Drains'
    <2>1. \A t : Behind(t) => Behind(t)'
      BY <1>1 DEF Exit, Behind, Pending, FailedOf, Sent, Failed
    <2> QED
      BY <1>1, <2>1, DrainsKept DEF Exit
  <1>2. CASE Die
    <2>1. \A t : Behind(t) => Behind(t)'
      BY <1>2 DEF Die, Behind, Pending, FailedOf, Sent, Failed
    <2> QED
      BY <1>2, <2>1, DrainsKept DEF Die
  <1>3. CASE UNCHANGED vars
    <2>1. \A t : Behind(t) => Behind(t)'
      BY <1>3 DEF vars, tapes, Behind, Pending, FailedOf, Sent
    <2> QED
      BY <1>3, <2>1, DrainsKept DEF vars
  <1> QED
    BY <1>1, <1>2, <1>3, DrainsCallback, DrainsClose, DrainsCallClose, DrainsSignal
       DEF Next

\* Only a process that has ended has a handler that ended it.
Exiting == process = "running" => \A s \in Signals : handler[s].at # "exited"

LEMMA NoExit ==
  ASSUME TypeOK, Exiting, [Next]_vars, ~UNCHANGED vars, ~(\E s \in Signals : Exit(s))
  PROVE  process = "running" /\ \A s \in Signals : handler'[s].at # "exited"
  <1>1. process = "running"
    BY DEF Next, Arrive, Callback, Finish, WriteDone, SyncDone, Close, ServerClosed,
           FlushReturns, FlushThrows, CloseStore, EndFile, CallClose, Signal, Die
  <1>2. ASSUME NEW s \in Signals, Signal(s)
        PROVE  \A z \in Signals : handler'[z].at # "exited"
    BY <1>1, <1>2 DEF Exiting, Signal, TypeOK
  <1>3. CASE handler' = handler
    BY <1>1, <1>3 DEF Exiting
  <1> QED
    BY <1>1, <1>2, <1>3
    DEF Next, Arrive, Callback, Finish, WriteDone, SyncDone, Close, ServerClosed,
        FlushReturns, FlushThrows, CloseStore, EndFile, CallClose, Die

LEMMA ExitingStep ==
  ASSUME TypeOK, Exiting, [Next]_vars
  PROVE  Exiting'
  <1>1. CASE UNCHANGED vars
    BY <1>1 DEF vars, Exiting
  <1>2. CASE \E s \in Signals : Exit(s)
    BY <1>2 DEF Exit, Exiting
  <1> QED
    BY <1>1, <1>2, NoExit DEF Exiting

\* At the exit itself nothing of a drained twin is queued.
LEMMA ExitDrainsStep ==
  ASSUME TypeOK, Barrier, Drains, Exiting, ExitDrains, [Next]_vars
  PROVE  ExitDrains'
  <1>1. CASE UNCHANGED vars
    BY <1>1 DEF vars, tapes, ExitDrains, Accepted, Sent
  <1>2. ASSUME NEW e \in Signals, Exit(e) PROVE ExitDrains'
    <2> SUFFICES ASSUME NEW s \in Signals, NEW t \in Twins,
                        handler'[s].at = "exited", t \in handler'[s].hooks,
                        NEW r \in Requests, r \in Accepted(t)'
                 PROVE  line'[r] = "durable" \/ r \in reported'
      BY DEF ExitDrains, Accepted, Sent
    <2>1. closer' = closer /\ reported' = reported
      BY <1>2 DEF Exit
    <2>2. s = e /\ t \in handler[s].hooks
      BY <1>2 DEF Exit, Exiting, TypeOK
    <2>3. Behind(t)
      BY <1>2, <2>2 DEF Exit, AllSettled, Settled, Drains
    <2>4. r \in Sent(t) /\ line[r] # "none" /\ line[r] # "lost"
      BY <1>2 DEF Exit, Accepted, Sent, Barrier, NothingLost
    <2>5. line[r] \in Failed \cup {"durable"}
      BY <2>3, <2>4 DEF Behind, Pending, Sent, TypeOK
    <2>6. line'[r] = line[r]
      BY <1>2, <2>5 DEF Exit, Failed
    <2> QED
      BY <2>1, <2>3, <2>4, <2>5, <2>6 DEF Behind, FailedOf, Sent
  <1>3. CASE ~UNCHANGED vars /\ ~(\E e \in Signals : Exit(e))
    <2>1. process = "running" /\ \A s \in Signals : handler'[s].at # "exited"
      BY <1>3, NoExit
    <2> QED
      BY <2>1 DEF ExitDrains
  <1> QED
    BY <1>1, <1>2, <1>3

\* A handler that exits has drained every twin whose hook it took.
THEOREM ExitDrainsAlways == Spec => []ExitDrains
  <1> USE TwinAssumption, ActorAssumption
  <1>1. Init => Barrier /\ Drains /\ Exiting /\ ExitDrains
    <2> SUFFICES ASSUME Init PROVE Barrier /\ Drains /\ Exiting /\ ExitDrains
      OBVIOUS
    <2>1. Barrier
      BY DEF Init, Barrier, DurableBarrier, Unrecorded, NothingLost
    <2>2. \A s \in Signals, t \in Twins : <<s, t>> \in Closers
      BY DEF Closers
    <2>3. Drains
      BY <2>2 DEF Init, Drains
    <2> QED
      BY <2>1, <2>3 DEF Init, Exiting, ExitDrains
  <1>2. TypeOK /\ NoSilentLoss /\ Barrier /\ [Next]_vars => Barrier'
    BY BarrierStep
  <1>3. TypeOK /\ NoSilentLoss /\ Drains /\ [Next]_vars => Drains'
    BY DrainsStep
  <1>4. TypeOK /\ Exiting /\ [Next]_vars => Exiting'
    BY ExitingStep
  <1>5. TypeOK /\ Barrier /\ Drains /\ Exiting /\ ExitDrains /\ [Next]_vars
          => ExitDrains'
    BY ExitDrainsStep
  <1> QED
    BY <1>1, <1>2, <1>3, <1>4, <1>5, TypeCorrect, NoSilentLossAlways, PTL DEF Spec
-----------------------------------------------------------------------------
(* The tapes implement DurableLog. *)

\* The steps of DurableLog, by what they do to the lines.
LEMMA MapStill ==
  ASSUME \A r \in Requests : EventOf(r)' = EventOf(r),
         UNCHANGED <<reported, promised, process>>
  PROVE  UNCHANGED L!lvars
  BY DEF L!lvars

LEMMA MapBecomes ==
  ASSUME NEW r \in Requests, NEW from, NEW to,
         process = "running", EventOf(r) = from, EventOf(r)' = to,
         \A q \in Requests \ {r} : EventOf(q)' = EventOf(q),
         UNCHANGED <<reported, promised, process>>
  PROVE  L!Becomes(r, from, to)
  BY DEF L!Becomes

LEMMA CallbackMaps ==
  ASSUME TypeOK, Barrier, NEW r \in Requests, Arrive(r) \/ Callback(r)
  PROVE  L!Next \/ UNCHANGED L!lvars
  <1>1. CASE Arrive(r)
    BY <1>1, MapStill DEF Arrive, tapes, EventOf
  <1>2. CASE Finish(r) /\ ~Recordable(TwinOf[r])
    BY <1>2, MapStill DEF Finish, EventOf
  <1>3. CASE Finish(r) /\ Recordable(TwinOf[r])
    <2>1. line[r] = "none" /\ line'[r] = "queued"
      BY <1>3 DEF Finish, Barrier, Unrecorded, TypeOK
    <2>2. \A q \in Requests \ {r} : line'[q] = line[q]
      BY <1>3 DEF Finish, TypeOK
    <2>3. L!Becomes(r, "none", "accepted")
      BY <1>3, <2>1, <2>2, MapBecomes DEF Finish, EventOf, Failed
    <2> QED
      BY <2>3 DEF L!Next, L!Accept
  <1>4. CASE WriteDone(r)
    <2>1. line[r] = "queued" /\ line'[r] \in {"written", "failed"}
      BY <1>4 DEF WriteDone, TypeOK
    <2>2. \A q \in Requests \ {r} : line'[q] = line[q]
      BY <1>4 DEF WriteDone, TypeOK
    <2>3. CASE line'[r] = "written"
      BY <1>4, <2>1, <2>2, <2>3, MapStill DEF WriteDone, EventOf, Failed
    <2>4. CASE line'[r] = "failed"
      <3>1. L!Becomes(r, "accepted", "failed")
        BY <1>4, <2>1, <2>2, <2>4, MapBecomes DEF WriteDone, EventOf, Failed
      <3> QED
        BY <3>1 DEF L!Next, L!Fail
    <2> QED
      BY <2>1, <2>3, <2>4
  <1>5. CASE SyncDone(r)
    <2>1. line[r] = "written" /\ line'[r] \in {"durable", "unsynced"}
      BY <1>5 DEF SyncDone, TypeOK
    <2>2. \A q \in Requests \ {r} : line'[q] = line[q]
      BY <1>5 DEF SyncDone, TypeOK
    <2>3. CASE line'[r] = "durable"
      <3>1. L!Becomes(r, "accepted", "durable")
        BY <1>5, <2>1, <2>2, <2>3, MapBecomes DEF SyncDone, EventOf, Failed
      <3> QED
        BY <3>1 DEF L!Next, L!Persist
    <2>4. CASE line'[r] = "unsynced"
      <3>1. L!Becomes(r, "accepted", "failed")
        BY <1>5, <2>1, <2>2, <2>4, MapBecomes DEF SyncDone, EventOf, Failed
      <3> QED
        BY <3>1 DEF L!Next, L!Fail
    <2> QED
      BY <2>1, <2>3, <2>4
  <1> QED
    BY <1>1, <1>2, <1>3, <1>4, <1>5 DEF Callback

\* The abstract log accepts what the tape does.
LEMMA SameAccepted ==
  ASSUME TypeOK, NEW t \in Twins
  PROVE  /\ L!Accepted(t) = Accepted(t)
         /\ \A r \in Accepted(t) : EventOf(r) = "failed" <=> r \in FailedOf(t)
  BY DEF L!Accepted, Accepted, FailedOf, Sent, EventOf, Failed, TypeOK

\* A flush that returns is Return: a failure that nobody was told would be
\* retained, and what is neither failed nor pending is durable.
LEMMA FlushMaps ==
  ASSUME TypeOK, NoSilentLoss, Barrier,
         NEW x \in Closers, NEW from, NEW to, FlushReturns(x, from, to)
  PROVE  L!Return(x[2])
  <1>1. PICK t \in Twins : t = x[2]
    BY DEF Closers
  <1>2. FailedOf(t) \subseteq reported
    BY <1>1 DEF FlushReturns, NoSilentLoss
  <1>3. \A r \in Accepted(t) \ reported : line[r] = "durable"
    BY <1>1, <1>2 DEF FlushReturns, Barrier, NothingLost, Accepted, FailedOf, Pending,
                      Sent, TypeOK, Failed
  <1>4. \A r \in Requests : EventOf(r)' = EventOf(r)
    BY DEF FlushReturns, EventOf
  <1>5. process = "running" /\ process' = process /\ reported' = reported
        /\ promised' = promised \cup (Accepted(t) \ reported)
    BY <1>1 DEF FlushReturns
  <1>6. \A r \in Accepted(t) \ reported : r \in Requests /\ EventOf(r) = "durable"
    BY <1>3 DEF EventOf, Accepted, Sent, Failed
  <1> QED
    BY <1>1, <1>4, <1>5, <1>6, SameAccepted DEF L!Return

LEMMA ThrowMaps ==
  ASSUME TypeOK, NEW x \in Closers, FlushThrows(x)
  PROVE  L!Tell(x[2])
  <1>1. PICK t \in Twins : t = x[2]
    BY DEF Closers
  <1>2. \A r \in Requests : EventOf(r)' = EventOf(r)
    BY DEF FlushThrows, EventOf
  <1>3. process = "running" /\ process' = process /\ promised' = promised
        /\ reported' = reported \cup FailedOf(t)
    BY <1>1 DEF FlushThrows
  <1>4. {r \in L!Accepted(t) : EventOf(r) = "failed"} = FailedOf(t)
    <2>1. FailedOf(t) \subseteq Accepted(t)
      BY DEF FailedOf, Accepted, Sent, Failed
    <2> QED
      BY <2>1, SameAccepted
  <1>5. \A r \in L!Accepted(t) : r \in Requests
    BY DEF L!Accepted
  <1> QED
    BY <1>1, <1>2, <1>3, <1>4, <1>5 DEF L!Tell

\* An exit and a crash are End: only lines that are not durable are lost.
LEMMA EndMaps ==
  ASSUME TypeOK, Die \/ \E s \in Signals : Exit(s)
  PROVE  L!End
  <1> DEFINE gone == {r \in Requests : line[r] # "lost" /\ line'[r] = "lost"}
  <1>1. /\ process = "running" /\ process' # "running"
        /\ reported' = reported /\ promised' = promised
    BY DEF Die, Exit
  <1>2. \A r \in Requests : line'[r] = line[r] \/ line'[r] = "lost"
    BY DEF Die, Exit
  <1>3. \A r \in gone : line[r] \in {"queued", "written", "unsynced"}
    BY DEF Die, Exit
  <1>4. gone \in SUBSET {r \in Requests : EventOf(r) \in {"accepted", "failed"}}
    BY <1>3 DEF EventOf, Failed
  <1>5. \A r \in Requests : EventOf(r)' = IF r \in gone THEN "lost" ELSE EventOf(r)
    BY <1>2 DEF EventOf, Failed
  <1> HIDE DEF gone
  <1> QED
    BY <1>1, <1>4, <1>5 DEF L!End

LEMMA StepMaps ==
  ASSUME TypeOK, NoSilentLoss, Barrier, [Next]_vars
  PROVE  [L!Next]_(L!lvars)
  <1>1. ASSUME NEW r \in Requests, Arrive(r) \/ Callback(r) PROVE [L!Next]_(L!lvars)
    BY <1>1, CallbackMaps
  <1>2. ASSUME NEW x \in Closers, Close(x) PROVE [L!Next]_(L!lvars)
    <2>1. x[2] \in Twins
      BY DEF Closers
    <2>2. CASE ServerClosed(x) \/ CloseStore(x) \/ EndFile(x)
      BY <2>2, MapStill DEF ServerClosed, CloseStore, EndFile, tapes, EventOf
    <2>3. CASE FlushThrows(x)
      BY <2>1, <2>3, ThrowMaps DEF L!Next
    <2>4. ASSUME NEW from, NEW to, FlushReturns(x, from, to) PROVE L!Next
      BY <2>1, <2>4, FlushMaps DEF L!Next
    <2> QED
      BY <1>2, <2>2, <2>3, <2>4 DEF Close
  <1>3. ASSUME NEW c \in Callers, NEW t \in Twins, CallClose(c, t)
        PROVE  [L!Next]_(L!lvars)
    BY <1>3, MapStill DEF CallClose, tapes, EventOf
  <1>4. ASSUME NEW s \in Signals, Signal(s) PROVE [L!Next]_(L!lvars)
    BY <1>4, MapStill DEF Signal, tapes, EventOf
  <1>5. ASSUME Die \/ \E s \in Signals : Exit(s) PROVE [L!Next]_(L!lvars)
    BY <1>5, EndMaps DEF L!Next
  <1>6. CASE UNCHANGED vars
    BY <1>6, MapStill DEF vars, tapes, EventOf
  <1> QED
    BY <1>1, <1>2, <1>3, <1>4, <1>5, <1>6 DEF Next

\* Whatever the twins, requests, callers and signals, and however they overlap, the
\* tapes are durable logs: every step is one of DurableLog or none.
THEOREM LogsAlways == Spec => Logs
  <1>1. Init => L!Init
    BY DEF Init, L!Init, EventOf, Failed
  <1>2. TypeOK /\ NoSilentLoss /\ Barrier /\ [Next]_vars => [L!Next]_(L!lvars)
    BY StepMaps
  <1>3. Init => Barrier
    BY DEF Init, Barrier, DurableBarrier, Unrecorded, NothingLost
  <1>4. TypeOK /\ NoSilentLoss /\ Barrier /\ [Next]_vars => Barrier'
    BY BarrierStep
  <1> QED
    BY <1>1, <1>2, <1>3, <1>4, TypeCorrect, NoSilentLossAlways, PTL DEF Spec, Logs, L!Spec

-----------------------------------------------------------------------------
(* When a signal is graceful: GracefulExit fails because a second handler, or a *)
(* handler beside somebody's close(), finds hooks taken.  With one signal and   *)
(* no other close() it holds.                                                   *)

TakesAll == \A s \in Signals : IF handler[s].at = "armed" THEN hooks = Twins
                                                          ELSE handler[s].hooks = Twins

LEMMA TakesAllStep ==
  ASSUME TypeOK, TakesAll, Callers = {}, \A s, z \in Signals : s = z, [Next]_vars
  PROVE  TakesAll'
  <1>1. ASSUME NEW s \in Signals, Signal(s) PROVE TakesAll'
    <2>1. handler'[s] = [at |-> "draining", hooks |-> hooks] /\ hooks = Twins
      BY <1>1 DEF Signal, TypeOK, TakesAll
    <2> QED
      BY <2>1 DEF TakesAll
  <1>2. CASE handler' = handler /\ hooks' = hooks
    BY <1>2 DEF TakesAll
  <1>3. ~ \E c \in Callers, t \in Twins : CallClose(c, t)
    OBVIOUS
  <1>4. ASSUME NEW s \in Signals, Exit(s) PROVE TakesAll'
    <2>1. \A z \in Signals : /\ handler'[z].at = "armed" <=> handler[z].at = "armed"
                            /\ handler'[z].hooks = handler[z].hooks
      BY <1>4 DEF Exit, TypeOK
    <2> QED
      BY <1>4, <2>1 DEF Exit, TakesAll
  <1> QED
    BY <1>1, <1>2, <1>3, <1>4
    DEF Next, vars, Arrive, Callback, Finish, WriteDone, SyncDone, Close, ServerClosed,
        FlushReturns, FlushThrows, CloseStore, EndFile, Die

LEMMA GracefulStep ==
  ASSUME TypeOK, TwinAssumption, Barrier, Drains, TakesAll, GracefulExit, [Next]_vars
  PROVE  GracefulExit'
  <1>1. ASSUME NEW s \in Signals, Exit(s) PROVE GracefulExit'
    <2> SUFFICES ASSUME NEW r \in Requests PROVE line'[r] # "lost"
      BY DEF GracefulExit
    <2>1. PICK t \in Twins : t = TwinOf[r]
      BY DEF TwinAssumption
    <2>2. Settled(<<s, t>>)
      BY <1>1, <2>1 DEF Exit, AllSettled, TakesAll
    <2>3. r \notin Pending(t)
      BY <2>2 DEF Drains, Settled, Behind
    <2>4. line[r] # "queued" /\ line[r] # "lost"
      BY <1>1, <2>1, <2>3 DEF Pending, Sent, Exit, Barrier, NothingLost
    <2> QED
      BY <1>1, <2>4 DEF Exit
  <1>2. CASE UNCHANGED vars
    BY <1>2 DEF vars, tapes, GracefulExit
  <1>3. CASE ~UNCHANGED vars /\ ~(\E s \in Signals : Exit(s))
    <2>1. process' # "exited"
      BY <1>3 DEF Next, Arrive, Callback, Finish, WriteDone, SyncDone, Close,
                  ServerClosed, FlushReturns, FlushThrows, CloseStore, EndFile,
                  CallClose, Signal, Die
    <2> QED
      BY <2>1 DEF GracefulExit
  <1> QED
    BY <1>1, <1>2, <1>3

\* The sentence that a second signal breaks is true of one signal that nothing
\* overlaps: the process does not exit before every accepted event is written or
\* its failure was reported.
THEOREM OneSignalIsGraceful ==
  ASSUME Callers = {}, \A s, z \in Signals : s = z
  PROVE  Spec => []GracefulExit
  <1> USE TwinAssumption, ActorAssumption
  <1>1. Init => Barrier /\ Drains /\ TakesAll /\ GracefulExit
    <2> SUFFICES ASSUME Init PROVE Barrier /\ Drains /\ TakesAll /\ GracefulExit
      OBVIOUS
    <2>1. Barrier
      BY DEF Init, Barrier, DurableBarrier, Unrecorded, NothingLost
    <2>2. \A s \in Signals, t \in Twins : <<s, t>> \in Closers
      BY DEF Closers
    <2>3. Drains
      BY <2>2 DEF Init, Drains
    <2> QED
      BY <2>1, <2>3 DEF Init, TakesAll, GracefulExit
  <1>2. TypeOK /\ NoSilentLoss /\ Barrier /\ [Next]_vars => Barrier'
    BY BarrierStep
  <1>3. TypeOK /\ NoSilentLoss /\ Drains /\ [Next]_vars => Drains'
    BY DrainsStep
  <1>4. TypeOK /\ TakesAll /\ [Next]_vars => TakesAll'
    BY TakesAllStep
  <1>5. TypeOK /\ Barrier /\ Drains /\ TakesAll /\ GracefulExit /\ [Next]_vars
          => GracefulExit'
    BY GracefulStep
  <1> QED
    BY <1>1, <1>2, <1>3, <1>4, <1>5, TypeCorrect, NoSilentLossAlways, PTL DEF Spec

-----------------------------------------------------------------------------
(***************************************************************************)
(* The safety half of CloseSettles.  A close() may flush twice and wait    *)
(* for writes that other requests go on adding; that all of it comes to an *)
(* end is a count that every step raises.                                  *)
(***************************************************************************)
PcStage(p)   == CASE p = "idle" -> 0 [] p = "running" -> 1 [] OTHER -> 2
LineStage(l) == CASE l = "none" -> 0 [] l = "queued" -> 1 [] l = "written" -> 2
                  [] l = "lost" -> 4 [] OTHER -> 3
CloseStage(c) == CASE c = "idle"      -> 0 [] c = "stopping" -> 1 [] c = "flushing" -> 2
                   [] c = "releasing" -> 3 [] c \in {"closing", "reflushing"} -> 4
                   [] c = "ending"    -> 5 [] OTHER -> 6

\* No request, line, close or handler goes back, and one of them goes forward,
\* or the process ends.
Forward ==
  /\ \A r \in Requests : /\ PcStage(pc[r]) <= PcStage(pc'[r])
                         /\ LineStage(line[r]) <= LineStage(line'[r])
  /\ \A x \in Closers : CloseStage(closer[x]) <= CloseStage(closer'[x])
  /\ \A s \in Signals : handler[s].at # "armed" => handler'[s].at # "armed"
  /\ process = "running"
  /\ \/ \E r \in Requests : \/ PcStage(pc[r]) < PcStage(pc'[r])
                            \/ LineStage(line[r]) < LineStage(line'[r])
     \/ \E x \in Closers : CloseStage(closer[x]) < CloseStage(closer'[x])
     \/ \E s \in Signals : handler[s].at = "armed" /\ handler'[s].at # "armed"
     \/ process' # "running"

\* Every step is one of a bounded number of them.
ShutsDown == [][Forward]_vars

LEMMA Stages ==
  ASSUME NEW v
  PROVE  PcStage(v) \in 0 .. 2 /\ LineStage(v) \in 0 .. 4 /\ CloseStage(v) \in 0 .. 6
  BY DEF PcStage, LineStage, CloseStage

\* A step of one request.
LEMMA RequestForward ==
  ASSUME NEW r \in Requests, UNCHANGED <<closer, handler>>, process = "running",
         \A q \in Requests \ {r} : pc'[q] = pc[q] /\ line'[q] = line[q],
         PcStage(pc[r]) <= PcStage(pc'[r]), LineStage(line[r]) <= LineStage(line'[r]),
         PcStage(pc[r]) < PcStage(pc'[r]) \/ LineStage(line[r]) < LineStage(line'[r])
  PROVE  Forward
  BY Stages DEF Forward

LEMMA CallbackForward ==
  ASSUME TypeOK, Barrier, NEW r \in Requests, Arrive(r) \/ Callback(r)
  PROVE  Forward
  <1>1. UNCHANGED <<closer, handler>> /\ process = "running"
    BY DEF Arrive, Callback, Finish, WriteDone, SyncDone
  <1>2. \A q \in Requests \ {r} : pc'[q] = pc[q] /\ line'[q] = line[q]
    BY DEF Arrive, Callback, Finish, WriteDone, SyncDone, tapes, TypeOK
  <1>3. CASE Arrive(r)
    <2>1. pc[r] = "idle" /\ pc'[r] = "running" /\ line' = line
      BY <1>3 DEF Arrive, tapes, TypeOK
    <2>2. PcStage(pc[r]) < PcStage(pc'[r])
      BY <2>1 DEF PcStage
    <2> QED
      BY <1>1, <1>2, <2>1, <2>2, Stages, RequestForward
  <1>4. CASE Finish(r)
    <2>1. pc[r] = "running" /\ pc'[r] \in {"answered", "refused"}
      BY <1>4 DEF Finish, TypeOK
    <2>2. line[r] = "none"
      BY <2>1 DEF Barrier, Unrecorded
    <2>3. line'[r] \in {"none", "queued"}
      BY <1>4, <2>2 DEF Finish, TypeOK
    <2>4. PcStage(pc[r]) < PcStage(pc'[r])
      BY <2>1 DEF PcStage
    <2>5. LineStage(line[r]) <= LineStage(line'[r])
      BY <2>2, <2>3 DEF LineStage
    <2> QED
      BY <1>1, <1>2, <2>4, <2>5, Stages, RequestForward
  <1>5. CASE WriteDone(r) \/ SyncDone(r)
    <2>1. pc' = pc /\ LineStage(line[r]) < LineStage(line'[r])
      BY <1>5 DEF WriteDone, SyncDone, TypeOK, LineStage
    <2> QED
      BY <1>1, <1>2, <2>1, Stages, RequestForward
  <1> QED
    BY <1>3, <1>4, <1>5 DEF Callback

\* What leaves the requests and lines alone and moves one close.
LEMMA CloserForward ==
  ASSUME TypeOK, NEW x \in Closers, NEW label, Goto(x, label),
         CloseStage(closer[x]) < CloseStage(label),
         UNCHANGED <<pc, line, handler, process>>, process = "running"
  PROVE  Forward
  <1>1. /\ closer'[x] = label
        /\ \A y \in Closers \ {x} : closer'[y] = closer[y]
    BY DEF TypeOK, Goto
  <1> QED
    BY <1>1 DEF Forward, PcStage, LineStage, CloseStage

LEMMA CloseForward ==
  ASSUME TypeOK, NEW x \in Closers, Close(x)
  PROVE  Forward
  <1>1. CASE ServerClosed(x)
    BY <1>1, CloserForward DEF ServerClosed, CloseStage, tapes
  <1>2. ASSUME NEW from, NEW to, FlushReturns(x, from, to),
               <<from, to>> \in {<<"flushing", "releasing">>, <<"closing", "ending">>,
                                 <<"reflushing", "ok">>}
        PROVE  Forward
    BY <1>2, CloserForward DEF FlushReturns, CloseStage
  <1>3. CASE CloseStore(x)
    BY <1>3, CloserForward DEF CloseStore, CloseStage, tapes
  <1>4. CASE FlushThrows(x)
    BY <1>4, CloserForward DEF FlushThrows, CloseStage
  <1>5. CASE EndFile(x)
    BY <1>5, CloserForward DEF EndFile, CloseStage, tapes
  <1> QED
    BY <1>1, <1>2, <1>3, <1>4, <1>5 DEF Close

LEMMA CallForward ==
  ASSUME TypeOK, NEW c \in Callers, NEW t \in Twins, CallClose(c, t)
  PROVE  Forward
  <1>1. <<c, t>> \in Closers
    BY DEF Closers
  <1> QED
    BY <1>1, CloserForward DEF CallClose, CloseStage, tapes

LEMMA SignalForward ==
  ASSUME TypeOK, Drains, NEW s \in Signals, Signal(s)
  PROVE  Forward
  <1>1. ASSUME NEW x \in Closers
        PROVE  CloseStage(closer[x]) <= CloseStage(closer'[x])
    <2>1. CASE x[1] = s /\ x[2] \in hooks
      <3>1. x = <<s, x[2]>> /\ x[2] \in Twins
        BY <2>1 DEF Closers
      <3>2. served[x[2]] = "up"
        BY <2>1 DEF Drains
      <3>3. closer[x] = "idle"
        BY <3>1, <3>2 DEF Drains
      <3>4. closer'[x] = "stopping"
        BY <2>1 DEF Signal
      <3> QED
        BY <3>3, <3>4 DEF CloseStage
    <2>2. CASE ~(x[1] = s /\ x[2] \in hooks)
      BY <2>2 DEF Signal, CloseStage
    <2> QED
      BY <2>1, <2>2
  <1>2. handler[s].at = "armed" /\ handler'[s].at = "draining"
    BY DEF Signal, TypeOK
  <1>3. \A z \in Signals : handler[z].at # "armed" => handler'[z].at # "armed"
    BY DEF Signal, TypeOK
  <1>4. UNCHANGED <<pc, line>> /\ process = "running"
    BY DEF Signal, tapes
  <1> QED
    BY <1>1, <1>2, <1>3, <1>4 DEF Forward, PcStage, LineStage

LEMMA EndForward ==
  ASSUME TypeOK, Die \/ \E s \in Signals : Exit(s)
  PROVE  Forward
  <1>1. /\ UNCHANGED <<pc, closer>>
        /\ process = "running" /\ process' # "running"
        /\ \A r \in Requests : line'[r] \in {line[r], "lost"}
    BY DEF Die, Exit
  <1>2. \A s \in Signals : handler[s].at # "armed" => handler'[s].at # "armed"
    BY DEF TypeOK, Die, Exit
  <1> QED
    BY <1>1, <1>2 DEF Forward, PcStage, LineStage, CloseStage

\* Every step of the requests, callbacks, closes and handlers raises one of a
\* bounded number of bounded counts and lowers none, so that a close() can wait
\* for a second flush, or for writes that arrive while it flushes, only so often.
THEOREM ShutsDownAlways == Spec => ShutsDown
  <1> USE TwinAssumption, ActorAssumption
  <1>1. Init => Barrier /\ Drains
    <2>1. \A s \in Signals, t \in Twins : <<s, t>> \in Closers
      BY DEF Closers
    <2> QED
      BY <2>1 DEF Init, Barrier, DurableBarrier, Unrecorded, NothingLost, Drains
  <1>2. TypeOK /\ NoSilentLoss /\ Barrier /\ [Next]_vars => Barrier'
    BY BarrierStep
  <1>3. TypeOK /\ NoSilentLoss /\ Drains /\ [Next]_vars => Drains'
    BY DrainsStep
  <1>4. TypeOK /\ Barrier /\ Drains /\ [Next]_vars => [Forward]_vars
    BY CallbackForward, CloseForward, CallForward, SignalForward, EndForward DEF Next
  <1> QED
    BY <1>1, <1>2, <1>3, <1>4, TypeCorrect, NoSilentLossAlways, PTL DEF Spec, ShutsDown
=============================================================================
