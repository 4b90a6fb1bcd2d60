------------------------------ MODULE ServedTape ------------------------------
(***************************************************************************)
(* The twins served by one process, and the tape each records to: serve()  *)
(* and its shutdown hooks (packages/sdk/src/server.ts) over the file-backed *)
(* recorder store (recorder.ts).                                           *)
(*                                                                         *)
(* A handler's end, the event it records and its answer are one step, and  *)
(* so is everything between two awaits of a close.  The event's line is    *)
(* written and then fsynced by callbacks that come later, in any order.    *)
(* A request's event is named by the request.  The heap mirror behind      *)
(* GET /_pome/events is left out: it never reads or delays the tape.       *)
(***************************************************************************)
EXTENDS Integers, FiniteSets

CONSTANTS
  Twins, Requests,
  TwinOf,    \* the twin a request is sent to
  Callers,   \* code that calls the close() which serve() returned
  Signals    \* SIGINT and SIGTERM

ASSUME TwinAssumption  == TwinOf \in [Requests -> Twins]
ASSUME ActorAssumption == Callers \cap Signals = {}

\* One run of a twin's close(), by a caller or as the hook of a signal.
Closers == (Callers \cup Signals) \X Twins

VARIABLES
  pc,        \* where each request is
  line,      \* its event: queued, on the file, durable, or failed
  served,    \* the HTTP server of each twin
  store,     \* its recorder store: open, closed, or ended with its file
  failure,   \* writeFailure, the first one not reported yet
  hooks,     \* serveShutdownHooks
  closer,    \* where each run of close() is
  handler,   \* the signal handlers
  process,   \* running, exited by a handler, or dead
  reported,  \* events whose failed write some flush has thrown for
  promised   \* events some flush has returned for

tapes == <<line, failure, reported, promised>>
vars  == <<pc, tapes, served, store, hooks, closer, handler, process>>

\* A line failed to be written, or was written and not synced.
Failed == {"failed", "unsynced"}
Closing == {"stopping", "flushing", "releasing", "closing", "reflushing", "ending"}

TypeOK ==
  /\ pc \in [Requests -> {"idle", "running", "answered", "refused"}]
  /\ line \in [Requests -> Failed \cup {"none", "queued", "written", "durable", "lost"}]
  /\ served \in [Twins -> {"up", "closing", "down"}]
  /\ store \in [Twins -> {"open", "closed", "ended"}]
  /\ failure \in [Twins -> {"none", "retained"}]
  /\ hooks \subseteq Twins
  /\ closer \in [Closers -> Closing \cup {"idle", "ok", "failed"}]
  /\ handler \in [Signals -> [at : {"armed", "draining", "exited"}, hooks : SUBSET Twins]]
  /\ process \in {"running", "exited", "dead"}
  /\ reported \subseteq Requests /\ promised \subseteq Requests

Init ==
  /\ pc = [r \in Requests |-> "idle"]
  /\ line = [r \in Requests |-> "none"]
  /\ served = [t \in Twins |-> "up"]
  /\ store = [t \in Twins |-> "open"]
  /\ failure = [t \in Twins |-> "none"]
  /\ hooks = Twins
  /\ closer = [x \in Closers |-> "idle"]
  /\ handler = [s \in Signals |-> [at |-> "armed", hooks |-> {}]]
  /\ process = "running"
  /\ reported = {} /\ promised = {}

-----------------------------------------------------------------------------
(* Helpers. *)

Sent(t)      == {r \in Requests : TwinOf[r] = t}
Accepted(t)  == {r \in Sent(t) : line[r] # "none"}
FailedOf(t)  == {r \in Sent(t) : line[r] \in Failed}
Goto(x, label) == closer' = [closer EXCEPT ![x] = label]
Settled(x)   == closer[x] \in {"ok", "failed"}

\* The set a flush drains: a write is in it until its fsync has answered.
Unwritten(t)    == {r \in Sent(t) : line[r] = "queued"}
NeverDeleted(t) == {r \in Sent(t) : line[r] \in {"queued", "written"} \cup Failed}
Pending(t)      == {r \in Sent(t) : line[r] \in {"queued", "written"}}

\* record() throws once the store is closed.
Recordable(t)  == store[t] = "open"

\* The first failure is kept for a later flush.
LastError(t) == [failure EXCEPT ![t] = "raised"]
Unretained(t) == failure
Retained(t)  == [failure EXCEPT ![t] = "retained"]

\* A signal's handler waits for all of its hooks, failed ones included.
FirstFailure(s) == \/ \A t \in handler[s].hooks : Settled(<<s, t>>)
                   \/ \E t \in handler[s].hooks : closer[<<s, t>>] = "failed"
AllSettled(s)   == \A t \in handler[s].hooks : Settled(<<s, t>>)

-----------------------------------------------------------------------------
(* Requests and what becomes of their events. *)

Arrive(r) ==
  /\ process = "running" /\ pc[r] = "idle"
  /\ served[TwinOf[r]] = "up"
  /\ pc' = [pc EXCEPT ![r] = "running"]
  /\ UNCHANGED <<tapes, served, store, hooks, closer, handler, process>>

\* The handler is done: its event is accepted and queued, and it answers; with
\* the store closed record() throws and so does the retry in the catch.
Finish(r) ==
  /\ process = "running" /\ pc[r] = "running"
  /\ IF Recordable(TwinOf[r])
       THEN /\ line' = [line EXCEPT ![r] = "queued"]
            /\ pc' = [pc EXCEPT ![r] = "answered"]
       ELSE pc' = [pc EXCEPT ![r] = "refused"] /\ UNCHANGED line
  /\ UNCHANGED <<failure, reported, promised, served, store, hooks, closer,
                 handler, process>>

\* The callbacks of write and fsync, either of which may bring an error.
WriteDone(r) ==
  /\ process = "running" /\ line[r] = "queued"
  /\ \/ line' = [line EXCEPT ![r] = "written"] /\ UNCHANGED failure
     \/ line' = [line EXCEPT ![r] = "failed"] /\ failure' = Retained(TwinOf[r])
  /\ UNCHANGED <<reported, promised, pc, served, store, hooks, closer, handler, process>>

SyncDone(r) ==
  /\ process = "running" /\ line[r] = "written"
  /\ \/ line' = [line EXCEPT ![r] = "durable"] /\ UNCHANGED failure
     \/ line' = [line EXCEPT ![r] = "unsynced"] /\ failure' = Retained(TwinOf[r])
  /\ UNCHANGED <<reported, promised, pc, served, store, hooks, closer, handler, process>>

-----------------------------------------------------------------------------
(* serve().close(): stop the server, then flush and close the store. *)

\* The first call unregisters the hook and stops the server; another call goes
\* straight to the recorder.
CallClose(c, t) ==
  /\ process = "running" /\ closer[<<c, t>>] = "idle"
  /\ IF served[t] = "up"
       THEN /\ served' = [served EXCEPT ![t] = "closing"]
            /\ hooks' = hooks \ {t}
            /\ Goto(<<c, t>>, "stopping")
       ELSE Goto(<<c, t>>, "flushing") /\ UNCHANGED <<served, hooks>>
  /\ UNCHANGED <<pc, tapes, store, handler, process>>

\* server.close() calls back when the last request in flight has ended.
ServerClosed(x) ==
  /\ process = "running" /\ closer[x] = "stopping"
  /\ \A r \in Sent(x[2]) : pc[r] # "running"
  /\ served' = [served EXCEPT ![x[2]] = "down"]
  /\ Goto(x, "flushing")
  /\ UNCHANGED <<pc, tapes, store, hooks, handler, process>>

\* flush() drains the pending writes and throws a failure it finds retained.
FlushReturns(x, from, to) ==
  /\ process = "running" /\ closer[x] = from
  /\ Pending(x[2]) = {}
  /\ failure[x[2]] = "none"
  /\ promised' = promised \cup (Accepted(x[2]) \ reported)
  /\ Goto(x, to)
  /\ UNCHANGED <<line, failure, reported, pc, served, store, hooks, handler, process>>

FlushThrows(x) ==
  /\ process = "running" /\ closer[x] \in {"flushing", "closing", "reflushing"}
  /\ Pending(x[2]) = {}
  /\ failure[x[2]] # "none"
  /\ failure' = [failure EXCEPT ![x[2]] = "none"]
  /\ reported' = reported \cup FailedOf(x[2])
  /\ Goto(x, "failed")
  /\ UNCHANGED <<line, promised, pc, served, store, hooks, handler, process>>

\* The store's close(), whose second call only flushes.
CloseStore(x) ==
  /\ process = "running" /\ closer[x] = "releasing"
  /\ IF store[x[2]] = "open"
       THEN store' = [store EXCEPT ![x[2]] = "closed"] /\ Goto(x, "closing")
       ELSE Goto(x, "reflushing") /\ UNCHANGED store
  /\ UNCHANGED <<pc, tapes, served, hooks, handler, process>>

\* Ending the writer or closing the file may fail; both were tried.
EndFile(x) ==
  /\ process = "running" /\ closer[x] = "ending"
  /\ store' = [store EXCEPT ![x[2]] = "ended"]
  /\ \E result \in {"ok", "failed"} : Goto(x, result)
  /\ UNCHANGED <<pc, tapes, served, hooks, handler, process>>

-----------------------------------------------------------------------------
(* Signals and the end of the process. *)

\* The handler takes the hooks that are registered now and calls each of them.
Signal(s) ==
  /\ process = "running" /\ handler[s].at = "armed"
  /\ handler' = [handler EXCEPT ![s] = [at |-> "draining", hooks |-> hooks]]
  /\ hooks' = {}
  /\ served' = [t \in Twins |-> IF t \in hooks THEN "closing" ELSE served[t]]
  /\ closer' = [x \in Closers |->
                  IF x[1] = s /\ x[2] \in hooks THEN "stopping" ELSE closer[x]]
  /\ UNCHANGED <<pc, tapes, store, process>>

\* process.exit(0): what is still queued is gone.
Exit(s) ==
  /\ process = "running" /\ handler[s].at = "draining"
  /\ AllSettled(s)
  /\ process' = "exited"
  /\ handler' = [handler EXCEPT ![s].at = "exited"]
  /\ line' = [r \in Requests |-> IF line[r] = "queued" THEN "lost" ELSE line[r]]
  /\ UNCHANGED <<failure, reported, promised, pc, served, store, hooks, closer>>

\* kill -9 takes what is queued; a crash of the machine also lines that are not
\* synced.
Die ==
  /\ process = "running"
  /\ process' = "dead"
  /\ \E gone \in {{"queued"}, {"queued", "written", "unsynced"}} :
       line' = [r \in Requests |-> IF line[r] \in gone THEN "lost" ELSE line[r]]
  /\ UNCHANGED <<failure, reported, promised, pc, served, store, hooks, closer, handler>>

Close(x) ==
  \/ ServerClosed(x)
  \/ FlushReturns(x, "flushing", "releasing")
  \/ CloseStore(x)
  \/ FlushReturns(x, "closing", "ending")
  \/ FlushReturns(x, "reflushing", "ok")
  \/ FlushThrows(x)
  \/ EndFile(x)

Callback(r) == Finish(r) \/ WriteDone(r) \/ SyncDone(r)

Next ==
  \/ \E r \in Requests : Arrive(r) \/ Callback(r)
  \/ \E x \in Closers : Close(x)
  \/ \E c \in Callers, t \in Twins : CallClose(c, t)
  \/ \E s \in Signals : Signal(s) \/ Exit(s)
  \/ Die

\* Handlers end, the file system calls back, and the event loop runs what is
\* ready.  Nobody has to call close(), to send a signal or a request.
Fairness ==
  /\ \A r \in Requests : WF_vars(Callback(r))
  /\ \A x \in Closers : WF_vars(Close(x))

Spec == Init /\ [][Next]_vars /\ Fairness

-----------------------------------------------------------------------------
(* Properties. *)

\* "Every accepted write has either landed on disk or surfaced as a flush/close
\* error": a failed one is reported, or kept for the next flush to report, even
\* when two runs of close() flush at once and only one of them gets the error.
NoSilentLoss ==
  \A t \in Twins : FailedOf(t) \subseteq reported \/ failure[t] = "retained"

\* What a flush returned for is on the disk, through an exit, a kill -9 or a
\* crash of the machine.
DurableBarrier == \A r \in promised : line[r] = "durable"

\* No write is under way when the file is closed under it, although a second
\* close() may close the store while requests are still being served.
NothingAfterClose == \A t \in Twins : store[t] = "ended" => Pending(t) = {}

\* A handler that exits has drained every twin whose hook it took, even when a
\* sibling's close failed or somebody else closed that twin's store meanwhile.
ExitDrains ==
  \A s \in Signals, t \in Twins :
    handler[s].at = "exited" /\ t \in handler[s].hooks
    => \A r \in Accepted(t) : line[r] = "durable" \/ r \in reported

\* An event is accepted until its line is synced or fails, whichever callback
\* that takes.
EventOf(r) == CASE line[r] \in {"queued", "written"} -> "accepted"
                [] line[r] \in Failed -> "failed"
                [] OTHER -> line[r]

L == INSTANCE DurableLog WITH
       event <- [r \in Requests |-> EventOf(r)], up <- process = "running"

\* The tapes are durable logs: each step of the callbacks, of overlapping closes,
\* of the signal handlers and of a crash is, for the events, an acceptance, one
\* event's outcome, a report, a return that holds, the end, or nothing.
Logs == L!Spec

\* Every close() returns or throws, whatever fails under it.
CloseSettles ==
  \A x \in Closers : closer[x] \in Closing ~> (Settled(x) \/ process # "running")

\* "Drain the durable recorder on graceful process signals so hosted twins ...
\* do not lose the last accepted events."
GracefulExit ==
  process = "exited" => \A r \in Requests : line[r] # "lost"
=============================================================================
