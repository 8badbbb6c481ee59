--------------------------- MODULE NodeExecution ---------------------------
(***************************************************************************)
(* Running a node (core/node.py): the bounded pool of daemon threads that  *)
(* all synchronous nodes share (_BoundedDaemonExecutor), and the callers   *)
(* that hand a copy of their envelope to it, wait, give up after a timeout *)
(* or are cancelled, and copy the result back.                             *)
(*                                                                         *)
(* Callers, threads and shutdown() interleave freely; what one lock, one   *)
(* Future operation or one stretch without an await makes atomic is one    *)
(* action.  A call is one use of execute_with_timeout or execute_async.    *)
(*                                                                         *)
(* Abstracted: envelopes.  Of an envelope it matters who wrote it last:    *)
(* nobody since the call began ("given"), a node in the middle of its work *)
(* ("dirty"), a node that returned, failed or raised ("recorded"), or the  *)
(* executor's refusal or the timeout.                                      *)
(***************************************************************************)
EXTENDS Integers, Sequences, FiniteSets

CONSTANTS
    Calls,       \* the calls that may be made
    Workloads,   \* the sets of calls that are made together
    Kind,        \* how each call runs its node:
                 \*   "inline"     execute_with_timeout without a timeout
                 \*   "sync"       execute_with_timeout with one
                 \*   "async"      execute_async of a synchronous node
                 \*   "coroutine"  execute_async of an asynchronous node
    Timed,       \* the calls with a timeout
    Stuck,       \* the calls whose node never returns
    Threads,     \* the threads of the executor
    MaxPending   \* max_pending

NoCall == "none"
Exited == "exited"

ASSUME ExecutionAssumption ==
    /\ NoCall \notin Calls /\ Exited \notin Calls
    /\ Workloads \subseteq SUBSET Calls
    /\ Kind \in [Calls -> {"inline", "sync", "async", "coroutine"}]
    /\ Timed \subseteq {c \in Calls : Kind[c] # "inline"}
    /\ {c \in Calls : Kind[c] = "sync"} \subseteq Timed
    /\ Stuck \subseteq {c \in Calls : Kind[c] # "inline"}
    /\ MaxPending \in Nat \ {0}

VARIABLES
    pc,       \* where each caller is
    result,   \* how its call ended
    env,      \* the caller's envelope
    copy,     \* the working envelope
    fut,      \* the future of the submitted work, or the task of the coroutine
    chained,  \* asynchronous callers whose cancel() has yet to reach the future
    queue,    \* _work
    thread,   \* the call each thread has taken from the queue
    gate      \* submissions: "open", "closing" (shutdown has the lock), "closed"

vars == <<pc, result, env, copy, fut, chained, queue, thread, gate>>

Contents == {"given", "dirty", "recorded", "timeout", "capacity"}
Pooled   == {c \in Calls : Kind[c] \in {"sync", "async"}}
Loop     == {c \in Calls : Kind[c] \in {"async", "coroutine"}}

TypeOK ==
    /\ pc \in [Calls -> {"unused", "start", "inline", "waiting", "timeout", "cancelled", "done"}]
    /\ result \in [Calls -> {"none", "result", "timeout", "capacity", "cancelled", "error"}]
    /\ env \in [Calls -> Contents]
    /\ copy \in [Calls -> Contents]
    /\ fut \in [Calls -> {"none", "pending", "running", "finished", "broken", "cancelled"}]
    /\ chained \subseteq Calls
    /\ queue \in Seq(Pooled)
    /\ Len(queue) <= MaxPending
    /\ thread \in [Threads -> Pooled \cup {NoCall, Exited}]
    /\ gate \in {"open", "closing", "closed"}

Init ==
    /\ \E made \in Workloads :
          pc = [c \in Calls |-> IF c \in made THEN "start" ELSE "unused"]
    /\ result = [c \in Calls |-> "none"]
    /\ env = [c \in Calls |-> "given"]
    /\ copy = [c \in Calls |-> "given"]
    /\ fut = [c \in Calls |-> "none"]
    /\ chained = {}
    /\ queue = <<>>
    /\ thread = [t \in Threads |-> NoCall]
    /\ gate = "open"

Goto(c, step) == pc' = [pc EXCEPT ![c] = step]
Return(c, how) == Goto(c, "done") /\ result' = [result EXCEPT ![c] = how]
Resolve(c, how) == fut' = [fut EXCEPT ![c] = how]

\* Future.cancel has an effect only before the work has started.
CancelPending(c) == fut' = [fut EXCEPT ![c] = IF @ = "pending" THEN "cancelled" ELSE @]

\* Mutant of Write: without the copy the node writes to the caller's envelope.
WriteOwn(c, what) ==
    env' = [env EXCEPT ![c] = what] /\ copy' = [copy EXCEPT ![c] = what]

\* The node writes to its working envelope.
Write(c, what) == copy' = [copy EXCEPT ![c] = what] /\ UNCHANGED env

-----------------------------------------------------------------------------
(***************************************************************************)
(* The beginning of a call, and all of one without a timeout.              *)
(***************************************************************************)
\* Mutant of Accepting: submit takes the lock but does not ask for _shutdown.
AcceptingUnlocked == gate # "closing"

\* submit has the lock and finds the executor running.
Accepting == gate = "open"

\* Mutant of Room: off by one.
RoomAndOne == Len(queue) <= MaxPending

\* put_nowait finds a free place in the queue.
Room == Len(queue) < MaxPending

\* Without a timeout the caller runs the node itself, on its own envelope.
StartInline(c) ==
    /\ pc[c] = "start" /\ Kind[c] = "inline"
    /\ env' = [env EXCEPT ![c] = "dirty"]
    /\ Goto(c, "inline")
    /\ UNCHANGED <<result, copy, fut, chained, queue, thread, gate>>

EndInline(c) ==
    /\ pc[c] = "inline"
    /\ env' = [env EXCEPT ![c] = "recorded"]
    /\ Return(c, "result")
    /\ UNCHANGED <<copy, fut, chained, queue, thread, gate>>

\* What is not an Exception goes through to the caller.
BreakInline(c) ==
    /\ pc[c] = "inline"
    /\ Return(c, "error")
    /\ UNCHANGED <<env, copy, fut, chained, queue, thread, gate>>

\* The time is up before anything was done.
TooLate(c) ==
    /\ pc[c] = "start" /\ c \in Timed
    /\ env' = [env EXCEPT ![c] = "timeout"]
    /\ Return(c, "timeout")
    /\ UNCHANGED <<copy, fut, chained, queue, thread, gate>>

Submit(c) ==
    /\ pc[c] = "start" /\ c \in Pooled
    /\ Accepting /\ Room
    /\ queue' = Append(queue, c)
    /\ Resolve(c, "pending")
    /\ Goto(c, "waiting")
    /\ UNCHANGED <<result, env, copy, chained, thread, gate>>

\* NodeExecutionCapacityError, recorded in the envelope.
RejectFull(c) ==
    /\ pc[c] = "start" /\ c \in Pooled
    /\ Accepting /\ ~Room
    /\ env' = [env EXCEPT ![c] = "capacity"]
    /\ Return(c, "capacity")
    /\ UNCHANGED <<copy, fut, chained, queue, thread, gate>>

\* RuntimeError, raised to the caller.
RejectClosed(c) ==
    /\ pc[c] = "start" /\ c \in Pooled
    /\ ~Accepting /\ gate # "closing"
    /\ Return(c, "error")
    /\ UNCHANGED <<env, copy, fut, chained, queue, thread, gate>>

\* An asynchronous node gets a task of its own on the event loop.
Spawn(c) ==
    /\ pc[c] = "start" /\ Kind[c] = "coroutine"
    /\ Write(c, "dirty")
    /\ Resolve(c, "running")
    /\ Goto(c, "waiting")
    /\ UNCHANGED <<result, chained, queue, thread, gate>>

-----------------------------------------------------------------------------
(***************************************************************************)
(* _worker                                                                 *)
(***************************************************************************)
Working(t) == thread[t] \in Calls

Take(t) ==
    /\ thread[t] = NoCall /\ queue # <<>>
    /\ thread' = [thread EXCEPT ![t] = Head(queue)]
    /\ queue' = Tail(queue)
    /\ UNCHANGED <<pc, result, env, copy, fut, chained, gate>>

Leave(t) == thread' = [thread EXCEPT ![t] = IF gate = "open" THEN NoCall ELSE Exited]

\* set_running_or_notify_cancel
Run(t) ==
    LET c == thread[t] IN
    /\ Working(t) /\ gate = "open" /\ fut[c] = "pending"
    /\ Resolve(c, "running")
    /\ Write(c, "dirty")
    /\ UNCHANGED <<pc, result, chained, queue, thread, gate>>

Skip(t) ==
    /\ Working(t) /\ fut[thread[t]] = "cancelled"
    /\ Leave(t)
    /\ UNCHANGED <<pc, result, env, copy, fut, chained, queue, gate>>

\* Mutant of CancelTaken: the work is dropped as it is.
DropTaken(t) ==
    /\ Working(t) /\ gate # "open" /\ fut[thread[t]] = "pending"
    /\ Leave(t)
    /\ UNCHANGED <<pc, result, env, copy, fut, chained, queue, gate>>

\* Shutdown came between taking the work and starting it.
CancelTaken(t) ==
    /\ Working(t) /\ gate # "open" /\ fut[thread[t]] = "pending"
    /\ CancelPending(thread[t])
    /\ Leave(t)
    /\ UNCHANGED <<pc, result, env, copy, chained, queue, gate>>

\* The node returns, successful or not, or raises an Exception, all of which
\* end up in the working envelope.
Finish(t) ==
    LET c == thread[t] IN
    /\ Working(t) /\ fut[c] = "running" /\ c \notin Stuck
    /\ Write(c, "recorded")
    /\ Resolve(c, "finished")
    /\ Leave(t)
    /\ UNCHANGED <<pc, result, chained, queue, gate>>

\* The node raises what is not an Exception.
Break(t) ==
    LET c == thread[t] IN
    /\ Working(t) /\ fut[c] = "running" /\ c \notin Stuck
    /\ Resolve(c, "broken")
    /\ Leave(t)
    /\ UNCHANGED <<pc, result, env, copy, chained, queue, gate>>

Exit(t) ==
    /\ thread[t] = NoCall /\ gate # "open"
    /\ Leave(t)
    /\ UNCHANGED <<pc, result, env, copy, fut, chained, queue, gate>>

-----------------------------------------------------------------------------
(***************************************************************************)
(* shutdown                                                                *)
(***************************************************************************)
Shutdown ==
    /\ gate = "open"
    /\ gate' = "closing"
    /\ UNCHANGED <<pc, result, env, copy, fut, chained, queue, thread>>

Drain ==
    /\ gate = "closing" /\ queue # <<>>
    /\ CancelPending(Head(queue))
    /\ queue' = Tail(queue)
    /\ UNCHANGED <<pc, result, env, copy, chained, thread, gate>>

Drained ==
    /\ gate = "closing" /\ queue = <<>>
    /\ gate' = "closed"
    /\ UNCHANGED <<pc, result, env, copy, fut, chained, queue, thread>>

-----------------------------------------------------------------------------
(***************************************************************************)
(* The end of a call.                                                      *)
(***************************************************************************)
\* _commit_completed_result: the working envelope becomes the caller's.
Commit(c) ==
    /\ pc[c] = "waiting" /\ fut[c] = "finished"
    /\ env' = [env EXCEPT ![c] = copy[c]]
    /\ Return(c, "result")
    /\ UNCHANGED <<copy, fut, chained, queue, thread, gate>>

\* A future that was cancelled by shutdown, or that broke, raises.
Raise(c) ==
    /\ pc[c] = "waiting" /\ fut[c] \in {"cancelled", "broken"}
    /\ Return(c, IF c \in Loop /\ fut[c] = "cancelled" THEN "cancelled" ELSE "error")
    /\ UNCHANGED <<env, copy, fut, chained, queue, thread, gate>>

\* Time is up for a synchronous caller; its thread is not done with it yet.
TimeOutSync(c) ==
    /\ pc[c] = "waiting" /\ Kind[c] = "sync"
    /\ fut[c] \in {"pending", "running"}
    /\ Goto(c, "timeout")
    /\ UNCHANGED <<result, env, copy, fut, chained, queue, thread, gate>>

\* Mutant of GiveUp: the future is not cancelled.
GiveUpOnly(c) ==
    /\ pc[c] = "timeout" /\ Kind[c] = "sync"
    /\ env' = [env EXCEPT ![c] = "timeout"]
    /\ Return(c, "timeout")
    /\ UNCHANGED <<copy, fut, chained, queue, thread, gate>>

GiveUp(c) ==
    /\ pc[c] = "timeout" /\ Kind[c] = "sync"
    /\ CancelPending(c)
    /\ env' = [env EXCEPT ![c] = "timeout"]
    /\ Return(c, "timeout")
    /\ UNCHANGED <<copy, chained, queue, thread, gate>>

\* _abandon_operation: cancelling the asyncio future reaches the executor's
\* only when the event loop runs its callbacks.
TimeOutAsync(c) ==
    /\ pc[c] = "waiting" /\ Kind[c] = "async" /\ c \in Timed
    /\ chained' = chained \cup {c}
    /\ env' = [env EXCEPT ![c] = "timeout"]
    /\ Return(c, "timeout")
    /\ UNCHANGED <<copy, fut, queue, thread, gate>>

CancelAsync(c) ==
    /\ pc[c] = "waiting" /\ Kind[c] = "async"
    /\ chained' = chained \cup {c}
    /\ Return(c, "cancelled")
    /\ UNCHANGED <<env, copy, fut, queue, thread, gate>>

ChainCancel(c) ==
    /\ c \in chained
    /\ chained' = chained \ {c}
    /\ CancelPending(c)
    /\ UNCHANGED <<pc, result, env, copy, queue, thread, gate>>

\* _cancel_async_operation: an asynchronous node is cancelled and waited for,
\* after a timeout or when the caller is cancelled.
StopCoroutine(c) ==
    /\ Kind[c] = "coroutine"
    /\ \/ pc[c] = "waiting" /\ c \in Timed /\ Goto(c, "timeout")
       \/ pc[c] \in {"waiting", "timeout"} /\ Goto(c, "cancelled")
    /\ UNCHANGED <<result, env, copy, fut, chained, queue, thread, gate>>

\* The asynchronous node gets to its end, cancelled in the middle or not.
EndCoroutine(c) ==
    /\ Kind[c] = "coroutine" /\ fut[c] = "running"
    /\ \/ c \notin Stuck /\ Resolve(c, "finished")
          /\ Write(c, "recorded")
       \/ pc[c] \in {"timeout", "cancelled"} /\ Resolve(c, "cancelled")
          /\ UNCHANGED <<env, copy>>
    /\ UNCHANGED <<pc, result, chained, queue, thread, gate>>

Stopped(c) ==
    /\ Kind[c] = "coroutine" /\ pc[c] \in {"timeout", "cancelled"}
    /\ fut[c] # "running"
    /\ env' = [env EXCEPT ![c] = IF pc[c] = "timeout" THEN "timeout" ELSE @]
    /\ Return(c, pc[c])
    /\ UNCHANGED <<copy, fut, chained, queue, thread, gate>>

-----------------------------------------------------------------------------
Begin(c) ==
    \/ StartInline(c) \/ TooLate(c) \/ Submit(c) \/ RejectFull(c)
    \/ RejectClosed(c) \/ Spawn(c)

TimeOut(c) ==
    \/ TimeOutSync(c) \/ TimeOutAsync(c)
    \/ pc[c] = "waiting" /\ c \in Timed /\ StopCoroutine(c)

End(c) ==
    \/ EndInline(c) \/ BreakInline(c) \/ Commit(c) \/ Raise(c) \/ GiveUp(c)
    \/ ChainCancel(c) \/ EndCoroutine(c) \/ Stopped(c)

ThreadStep(t) ==
    \/ Take(t) \/ Run(t) \/ Skip(t) \/ CancelTaken(t)
    \/ Finish(t) \/ Break(t) \/ Exit(t)

Next ==
    \/ \E c \in Calls :
          \/ Begin(c) \/ End(c)
          \/ TimeOutSync(c) \/ TimeOutAsync(c) \/ CancelAsync(c) \/ StopCoroutine(c)
    \/ \E t \in Threads : ThreadStep(t)
    \/ Shutdown \/ Drain \/ Drained

Spec == Init /\ [][Next]_vars

\* Threads and the event loop run, timeouts elapse, nodes that are not stuck
\* get done, and a shutdown that began goes through.
FairSpec ==
    /\ Spec
    /\ \A c \in Calls : WF_vars(Begin(c) \/ TimeOut(c) \/ End(c))
    /\ \A t \in Threads : WF_vars(ThreadStep(t))
    /\ WF_vars(Drain \/ Drained)

-----------------------------------------------------------------------------
(***************************************************************************)
(* Properties.                                                             *)
(***************************************************************************)
\* The working envelope is a copy: while the node runs, in a thread that may
\* outlive the call, the caller's envelope is as it was given, and what it
\* holds in the end is what the call reports.  Only a call that runs the node
\* itself exposes its envelope to it.
Isolated ==
    \A c \in Calls : Kind[c] # "inline" =>
        env[c] = CASE result[c] = "timeout"  -> "timeout"
                   [] result[c] = "capacity" -> "capacity"
                   [] result[c] = "result"   -> copy[c]
                   [] OTHER                  -> "given"

\* "shutdown abandons blocked calls without waiting for them", but no others:
\* work that has not started is in the queue or in the hands of a thread, and
\* when shutdown is over the queue is empty and stays empty.  So no caller
\* waits for work that nobody will start or cancel.
NothingStranded ==
    /\ \A c \in Pooled : fut[c] = "pending" =>
          \/ \E i \in DOMAIN queue : queue[i] = c
          \/ \E t \in Threads : thread[t] = c
    /\ gate = "closed" => queue = <<>>

\* A call that has returned leaves no work behind that could still start: it
\* was cancelled in time, had started already, or its cancellation is on its
\* way from the event loop.
NoLateStart ==
    \A c \in Pooled : pc[c] = "done" /\ fut[c] = "pending" => c \in chained

\* What a caller's place says about its result, its future and its kind.
CallsConsistent ==
    \A c \in Calls :
        /\ pc[c] # "done" => result[c] = "none"
        /\ pc[c] \in {"unused", "start"} => fut[c] = "none"
        /\ pc[c] = "inline" => Kind[c] = "inline"
        /\ result[c] = "result" /\ Kind[c] # "inline" => fut[c] = "finished"

\* The inductive invariant.
IInv == TypeOK /\ CallsConsistent /\ Isolated /\ NothingStranded /\ NoLateStart

Untouched == \A c \in Calls : pc[c] = "done" => env'[c] = env[c]

\* After the call has returned nobody writes to the caller's envelope: a node
\* that ends after its timeout commits nothing.
NeverLate == [][Untouched]_vars

\* A call comes to its end if it has a timeout, whatever its node and all the
\* others do; without one, if its node returns and some thread is not stuck.
EveryCallReturns ==
    \A c \in Calls :
        \/ c \in Timed
        \/ c \notin Stuck /\ Cardinality(Stuck \cap Pooled) < Cardinality(Threads)
        => (pc[c] = "start" ~> pc[c] = "done")
=============================================================================
