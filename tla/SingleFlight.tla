--------------------------- MODULE SingleFlight ---------------------------
(***************************************************************************)
(* How OrganismExecutor.execute (engine/__init__.py) runs one capability   *)
(* on one input for many concurrent requests: the first request of a       *)
(* worker that finds no cached result registers a future in _inflight and  *)
(* computes, the others of that worker await the future; between workers,  *)
(* a Redis lock with an expiry takes the place of the future.              *)
(*                                                                         *)
(* The module follows one lookup key; a task is one request for it.  The   *)
(* code between two awaits of a task is one action.  Of the cache          *)
(* (module ComputationGraph) it keeps whether a result is there.  Nodes    *)
(* are external: they return, fail or raise after any amount of time.      *)
(***************************************************************************)
EXTENDS Naturals, FiniteSets

CONSTANTS
    Workers,
    Tasks,         \* the requests
    WorkerOf,      \* the worker each request is handled by
    Failures       \* which failures happen: "redis", "cancel"

NoTask == "none"

ASSUME FlightAssumption ==
    /\ NoTask \notin Tasks
    /\ WorkerOf \in [Tasks -> Workers]
    /\ Failures \subseteq {"redis", "cancel"}

VARIABLES
    connected, \* the workers whose start found Redis (redis_enabled)
    pc,        \* where each task is in the loop
    future,    \* the future it registered
    awaiting,  \* the task whose future it awaits
    owner,     \* its redis_owner flag
    inflight,  \* _inflight of each worker: the task whose future is registered
    local,     \* the worker's memory has a result
    shared,    \* Redis has a result
    lock,      \* the lock key exists in Redis
    requested  \* tasks somebody asked to cancel

flight == <<future, awaiting, inflight>>
cache  == <<local, shared>>
vars   == <<connected, pc, flight, owner, cache, lock, requested>>

Steps == {"loop", "await", "lock", "poll", "steal", "compute", "release", "done"}

TypeOK ==
    /\ connected \subseteq Workers
    /\ pc \in [Tasks -> Steps]
    /\ future \in [Tasks -> {"none", "pending", "done", "cancelled"}]
    /\ awaiting \in [Tasks -> Tasks \cup {NoTask}]
    /\ owner \in [Tasks -> BOOLEAN]
    /\ inflight \in [Workers -> Tasks \cup {NoTask}]
    /\ local \in [Workers -> BOOLEAN]
    /\ shared \in BOOLEAN
    /\ lock \in BOOLEAN
    /\ requested \subseteq Tasks

\* A worker that does not reach Redis when it starts does without it for good.
Init ==
    /\ connected \in SUBSET Workers
    /\ pc = [t \in Tasks |-> "loop"]
    /\ future = [t \in Tasks |-> "none"]
    /\ awaiting = [t \in Tasks |-> NoTask]
    /\ owner = [t \in Tasks |-> FALSE]
    /\ inflight = [w \in Workers |-> NoTask]
    /\ local = [w \in Workers |-> FALSE]
    /\ shared = FALSE
    /\ lock = FALSE
    /\ requested = {}

Redis(t)       == WorkerOf[t] \in connected
Goto(t, step)  == pc' = [pc EXCEPT ![t] = step]
Mine(t)        == inflight[WorkerOf[t]]
Waiters(t)     == {u \in Tasks : pc[u] = "await" /\ awaiting[u] = t}

-----------------------------------------------------------------------------
(***************************************************************************)
(* The top of the loop: look the result up, else await the registered      *)
(* future or register one.  There is no await in between.                  *)
(***************************************************************************)
\* A result is in memory, or in Redis, from where it is copied into memory.
Found(t) == local[WorkerOf[t]] \/ (shared /\ Redis(t))

Restore(t) ==
    /\ pc[t] = "loop" /\ Found(t)
    /\ local' = [local EXCEPT ![WorkerOf[t]] = TRUE]
    /\ Goto(t, "done")
    /\ UNCHANGED <<flight, owner, shared, lock, requested>>

\* Nothing in memory, nothing (legible) in Redis.
Miss(t) ==
    /\ pc[t] = "loop" /\ ~local[WorkerOf[t]]
    /\ shared /\ Redis(t) => "redis" \in Failures

\* Mutant of Join: it returns the key instead of the future under the key.
JoinKey(t) ==
    /\ Miss(t) /\ Mine(t) # NoTask /\ future[Mine(t)] = "pending"
    /\ awaiting' = [awaiting EXCEPT ![t] = WorkerOf[t]]
    /\ Goto(t, "await")
    /\ UNCHANGED <<future, inflight, owner, cache, lock, requested>>

\* _await_inflight_or_own: not the owner.
Join(t) ==
    /\ Miss(t) /\ Mine(t) # NoTask /\ future[Mine(t)] = "pending"
    /\ awaiting' = [awaiting EXCEPT ![t] = Mine(t)]
    /\ Goto(t, "await")
    /\ UNCHANGED <<future, inflight, owner, cache, lock, requested>>

\* Awaiting a future that was cancelled raises CancelledError at once, which
\* nothing in execute catches.
JoinCancelled(t) ==
    /\ Miss(t) /\ Mine(t) # NoTask /\ future[Mine(t)] # "pending"
    /\ Goto(t, "done")
    /\ UNCHANGED <<flight, owner, cache, lock, requested>>

\* Mutant of Own: _inflight is not looked at.
OwnAlways(t) ==
    /\ Miss(t)
    /\ inflight' = [inflight EXCEPT ![WorkerOf[t]] = t]
    /\ future' = [future EXCEPT ![t] = "pending"]
    /\ owner' = [owner EXCEPT ![t] = TRUE]
    /\ Goto(t, IF Redis(t) THEN "lock" ELSE "compute")
    /\ UNCHANGED <<awaiting, cache, lock, requested>>

\* _await_inflight_or_own: the owner.
Own(t) ==
    /\ Miss(t) /\ Mine(t) = NoTask
    /\ inflight' = [inflight EXCEPT ![WorkerOf[t]] = t]
    /\ future' = [future EXCEPT ![t] = "pending"]
    /\ owner' = [owner EXCEPT ![t] = TRUE]
    /\ Goto(t, IF Redis(t) THEN "lock" ELSE "compute")
    /\ UNCHANGED <<awaiting, cache, lock, requested>>

\* Mutant of FinishInflight: the registration goes, whose ever it is.
FinishInflightAny(t, step) ==
    /\ future' = [future EXCEPT ![t] = IF @ = "pending" THEN "done" ELSE @]
    /\ inflight' = [inflight EXCEPT ![WorkerOf[t]] = NoTask]
    /\ pc' = [u \in Tasks |-> IF u = t THEN step
                              ELSE IF u \in Waiters(t) THEN "loop" ELSE pc[u]]
    /\ UNCHANGED awaiting

\* _finish_inflight: resolve the future, unless it is, wake the waiters, and
\* take it out of _inflight if it is the one registered there.  The task
\* itself goes to step.
FinishInflight(t, step) ==
    /\ future' = [future EXCEPT ![t] = IF @ = "pending" THEN "done" ELSE @]
    /\ inflight' = [inflight EXCEPT ![WorkerOf[t]] = IF @ = t THEN NoTask ELSE @]
    /\ pc' = [u \in Tasks |-> IF u = t THEN step
                              ELSE IF u \in Waiters(t) THEN "loop" ELSE pc[u]]
    /\ UNCHANGED awaiting

-----------------------------------------------------------------------------
(***************************************************************************)
(* Between workers: try_acquire_flight_lock, and waiting for the result of *)
(* the worker that has the lock.                                           *)
(***************************************************************************)
\* SET NX succeeds.
TakeLock ==
    /\ ~lock
    /\ lock' = TRUE

AcquireLock(t) ==
    /\ pc[t] = "lock"
    /\ TakeLock
    /\ Goto(t, "compute")
    /\ UNCHANGED <<flight, owner, cache, requested>>

\* Another worker, or an earlier owner of this one, has the lock.
LockBusy(t) ==
    /\ pc[t] = "lock" /\ lock
    /\ owner' = [owner EXCEPT ![t] = FALSE]
    /\ Goto(t, "poll")
    /\ UNCHANGED <<flight, cache, lock, requested>>

\* The lookup every 20 ms finds a result: release the waiters, start over.
PollHit(t) ==
    /\ pc[t] = "poll" /\ Found(t)
    /\ local' = [local EXCEPT ![WorkerOf[t]] = TRUE]
    /\ FinishInflight(t, "loop")
    /\ UNCHANGED <<owner, shared, lock, requested>>

\* No result in two seconds: release the waiters, go on alone.
PollTimeout(t) ==
    /\ pc[t] = "poll"
    /\ FinishInflight(t, "steal")
    /\ UNCHANGED <<owner, cache, lock, requested>>

\* Compute in any case, with or without the lock.
StealLock(t) ==
    /\ pc[t] = "steal"
    /\ \/ TakeLock /\ owner' = [owner EXCEPT ![t] = TRUE]
       \/ lock /\ UNCHANGED <<owner, lock>>
    /\ Goto(t, "compute")
    /\ UNCHANGED <<flight, cache, requested>>

\* A Redis error counts as success.
AcquireFails(t) ==
    /\ pc[t] \in {"lock", "steal"} /\ "redis" \in Failures
    /\ owner' = [owner EXCEPT ![t] = TRUE]
    /\ Goto(t, "compute")
    /\ UNCHANGED <<flight, cache, lock, requested>>

-----------------------------------------------------------------------------
(***************************************************************************)
(* Running the node, and the finally clause.                               *)
(***************************************************************************)
AfterCompute(t) == IF owner[t] /\ Redis(t) THEN "release" ELSE "done"

\* The node returned: the result is registered, successful or not.
ComputeReturns(t) ==
    /\ pc[t] = "compute"
    /\ local' = [local EXCEPT ![WorkerOf[t]] = TRUE]
    /\ \/ shared' = (shared \/ Redis(t))
       \/ "redis" \in Failures /\ UNCHANGED shared
    /\ FinishInflight(t, AfterCompute(t))
    /\ UNCHANGED <<owner, lock, requested>>

\* Mutant of ComputeRaises: the future is left as it is.
ComputeRaisesOnly(t) ==
    /\ pc[t] = "compute"
    /\ Goto(t, AfterCompute(t))
    /\ UNCHANGED <<flight, owner, cache, lock, requested>>

\* No node for the capability, or an exception out of it: nothing is cached.
ComputeRaises(t) ==
    /\ pc[t] = "compute"
    /\ FinishInflight(t, AfterCompute(t))
    /\ UNCHANGED <<owner, cache, lock, requested>>

\* release_flight_lock deletes the key, whoever made it.
ReleaseLock(t) ==
    /\ pc[t] = "release"
    /\ \/ lock' = FALSE
       \/ "redis" \in Failures /\ UNCHANGED lock
    /\ Goto(t, "done")
    /\ UNCHANGED <<flight, owner, cache, requested>>

-----------------------------------------------------------------------------
(***************************************************************************)
(* Cancellation (a client that disconnects, a server that shuts down)      *)
(* raises CancelledError at the await the task is in.  `except Exception`  *)
(* does not catch it.                                                      *)
(***************************************************************************)
Cancellable(t) ==
    /\ "cancel" \in Failures
    /\ requested' = requested \cup {t}

\* Cancelling a task that awaits a future cancels the future, and with it
\* every other task that awaits it.
CancelWaiter(t) ==
    /\ pc[t] = "await" /\ Cancellable(t)
    /\ future' = [future EXCEPT ![awaiting[t]] = "cancelled"]
    /\ pc' = [u \in Tasks |-> IF u \in Waiters(awaiting[t]) THEN "done" ELSE pc[u]]
    /\ UNCHANGED <<awaiting, inflight, owner, cache, lock>>

\* The thread that talks to Redis is not stopped.
CancelLocking(t) ==
    /\ pc[t] \in {"lock", "steal"} /\ Cancellable(t)
    /\ lock' \in {lock, TRUE}
    /\ Goto(t, "done")
    /\ UNCHANGED <<flight, owner, cache>>

CancelPolling(t) ==
    /\ pc[t] = "poll" /\ Cancellable(t)
    /\ Goto(t, "done")
    /\ UNCHANGED <<flight, owner, cache, lock>>

\* The finally clause still releases the lock.
CancelComputing(t) ==
    /\ pc[t] = "compute" /\ Cancellable(t)
    /\ Goto(t, AfterCompute(t))
    /\ UNCHANGED <<flight, owner, cache, lock>>

\* So does a task that is cancelled in that clause; it ends as cancelled too.
CancelReleasing(t) ==
    /\ pc[t] = "release" /\ Cancellable(t)
    /\ lock' \in {lock, FALSE}
    /\ Goto(t, "done")
    /\ UNCHANGED <<flight, owner, cache>>

-----------------------------------------------------------------------------
\* The lock key lives for five seconds, a result for its time to live.
LockExpires ==
    /\ lock
    /\ lock' = FALSE
    /\ UNCHANGED <<connected, pc, flight, owner, cache, requested>>

ResultExpires ==
    /\ \/ \E w \in Workers : local[w] /\ local' = [local EXCEPT ![w] = FALSE]
                                      /\ UNCHANGED shared
       \/ shared /\ shared' = FALSE /\ UNCHANGED local
    /\ UNCHANGED <<connected, pc, flight, owner, lock, requested>>

TaskStep(t) ==
    /\ UNCHANGED connected
    /\ \/ Restore(t) \/ Join(t) \/ JoinCancelled(t) \/ Own(t)
       \/ AcquireLock(t) \/ LockBusy(t) \/ PollHit(t) \/ PollTimeout(t)
       \/ StealLock(t) \/ AcquireFails(t)
       \/ ComputeReturns(t) \/ ComputeRaises(t) \/ ReleaseLock(t)

CancelStep(t) ==
    /\ UNCHANGED connected
    /\ \/ CancelWaiter(t) \/ CancelLocking(t) \/ CancelPolling(t)
       \/ CancelComputing(t) \/ CancelReleasing(t)

Next ==
    \/ \E t \in Tasks : TaskStep(t) \/ CancelStep(t)
    \/ LockExpires
    \/ ResultExpires

Spec == Init /\ [][Next]_vars

\* The event loop runs every task that is ready, Redis answers or fails, the
\* 100 polls end, a node returns or raises; and Redis expires the lock.
FairSpec ==
    /\ Spec
    /\ \A t \in Tasks : WF_vars(TaskStep(t))
    /\ WF_vars(LockExpires)

-----------------------------------------------------------------------------
(***************************************************************************)
(* Properties.                                                             *)
(***************************************************************************)
\* Nobody waits in vain for a future that is gone: what a task awaits is the
\* future registered in _inflight, not resolved yet, and every future that is
\* not resolved is registered.  Requests that time out waiting for Redis
\* resolve theirs early and compute alongside newer owners without disturbing
\* the newer one's registration.
FlightTable ==
    /\ \A t \in Tasks : pc[t] = "await" =>
          awaiting[t] = Mine(t) /\ awaiting[t] # NoTask /\ future[awaiting[t]] = "pending"
    /\ \A t \in Tasks : future[t] = "pending" => Mine(t) = t

\* "coalesce concurrent identical cold misses onto one node execute": without
\* Redis a worker never runs the node twice at the same time for one key.
OneComputePerWorker ==
    \A t, u \in Tasks :
        /\ pc[t] = "compute" /\ pc[u] = "compute"
        /\ WorkerOf[t] = WorkerOf[u] /\ ~Redis(t)
        => t = u

\* Why: without Redis a task gets to the node only by registering its future,
\* and the future stays registered while the node runs.
LocalComputeIsRegistered ==
    \A t \in Tasks : ~Redis(t) =>
        /\ pc[t] \notin {"lock", "poll", "steal"}
        /\ pc[t] = "compute" => Mine(t) = t

IInv == TypeOK /\ FlightTable /\ LocalComputeIsRegistered

\* "Owner must complete and set_result; waiters await": every request comes to
\* an end, whatever happens to the others.
EveryRequestEnds == \A t \in Tasks : <>(pc[t] = "done")

\* As long as nobody is cancelled, every request comes to an end: there is no
\* cycle of waiting for each other's futures, locks and results, whatever
\* Redis loses, expires or fails to answer.
EndsUnlessCancelled == \A t \in Tasks : <>(pc[t] = "done" \/ requested # {})
=============================================================================
