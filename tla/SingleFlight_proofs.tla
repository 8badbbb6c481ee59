------------------------ MODULE SingleFlight_proofs ------------------------
(***************************************************************************)
(* Proofs about SingleFlight, for any number of workers and requests and   *)
(* for every kind of failure, cancellation included.                       *)
(***************************************************************************)
EXTENDS SingleFlight, TLAPS

\* Every step keeps the variables in their types.
LEMMA StepTypeOK == IInv /\ [Next]_vars => TypeOK'
<1> SUFFICES ASSUME IInv, [Next]_vars PROVE TypeOK'
  OBVIOUS
<1> USE FlightAssumption DEF IInv, TypeOK, Steps
<1>0. connected' = connected
  BY DEF Next, TaskStep, CancelStep, LockExpires, ResultExpires, vars
<1>1. ASSUME NEW t \in Tasks, Restore(t) PROVE TypeOK'
  BY <1>0, <1>1 DEF Restore, Found, Goto, flight
<1>2. ASSUME NEW t \in Tasks, Join(t) PROVE TypeOK'
  BY <1>0, <1>2 DEF Join, Goto, Mine, Miss, cache
<1>3. ASSUME NEW t \in Tasks, JoinCancelled(t) PROVE TypeOK'
  BY <1>0, <1>3 DEF JoinCancelled, Goto, Mine, Miss, flight, cache
<1>4. ASSUME NEW t \in Tasks, Own(t) PROVE TypeOK'
  BY <1>0, <1>4 DEF Own, Redis, Goto, Mine, Miss, cache
<1>5. ASSUME NEW t \in Tasks, AcquireLock(t) PROVE TypeOK'
  BY <1>0, <1>5 DEF AcquireLock, Goto, TakeLock, flight, cache
<1>6. ASSUME NEW t \in Tasks, LockBusy(t) PROVE TypeOK'
  BY <1>0, <1>6 DEF LockBusy, Goto, flight, cache
<1>7. ASSUME NEW t \in Tasks, PollHit(t) PROVE TypeOK'
  BY <1>0, <1>7 DEF PollHit, Found, Waiters, FinishInflight
<1>8. ASSUME NEW t \in Tasks, PollTimeout(t) PROVE TypeOK'
  BY <1>0, <1>8 DEF PollTimeout, Waiters, FinishInflight, cache
<1>9. ASSUME NEW t \in Tasks, StealLock(t) PROVE TypeOK'
  BY <1>0, <1>9 DEF StealLock, Goto, TakeLock, flight, cache
<1>10. ASSUME NEW t \in Tasks, AcquireFails(t) PROVE TypeOK'
  BY <1>0, <1>10 DEF AcquireFails, Goto, flight, cache
<1>11. ASSUME NEW t \in Tasks, ComputeReturns(t) PROVE TypeOK'
  BY <1>0, <1>11 DEF ComputeReturns, Waiters, FinishInflight, AfterCompute, Redis
<1>12. ASSUME NEW t \in Tasks, ComputeRaises(t) PROVE TypeOK'
  BY <1>0, <1>12 DEF ComputeRaises, Waiters, FinishInflight, AfterCompute, Redis, cache
<1>13. ASSUME NEW t \in Tasks, ReleaseLock(t) PROVE TypeOK'
  BY <1>0, <1>13 DEF ReleaseLock, Goto, flight, cache
<1>14. ASSUME NEW t \in Tasks, CancelWaiter(t) PROVE TypeOK'
  BY <1>0, <1>14 DEF CancelWaiter, Waiters, Cancellable, cache
<1>15. ASSUME NEW t \in Tasks, CancelLocking(t) PROVE TypeOK'
  BY <1>0, <1>15 DEF CancelLocking, Goto, Cancellable, flight, cache
<1>16. ASSUME NEW t \in Tasks, CancelPolling(t) PROVE TypeOK'
  BY <1>0, <1>16 DEF CancelPolling, Goto, Cancellable, flight, cache
<1>17. ASSUME NEW t \in Tasks, CancelComputing(t) PROVE TypeOK'
  BY <1>0, <1>17 DEF CancelComputing, Goto, AfterCompute, Redis, Cancellable, flight, cache
<1>18. ASSUME NEW t \in Tasks, CancelReleasing(t) PROVE TypeOK'
  BY <1>0, <1>18 DEF CancelReleasing, Goto, Cancellable, flight, cache
<1>19. CASE LockExpires
  BY <1>0, <1>19 DEF LockExpires, flight, cache
<1>20. CASE ResultExpires
  BY <1>0, <1>20 DEF ResultExpires, flight
<1>21. CASE UNCHANGED vars
  BY <1>0, <1>21 DEF vars, flight, cache
<1> QED
  BY <1>1, <1>2, <1>3, <1>4, <1>5, <1>6, <1>7, <1>8, <1>9, <1>10, <1>11,
     <1>12, <1>13, <1>14, <1>15, <1>16, <1>17, <1>18, <1>19, <1>20, <1>21
     DEF Next, TaskStep, CancelStep

\* Every step keeps _inflight and the futures in agreement.
LEMMA StepFlightTable == IInv /\ [Next]_vars => FlightTable'
<1> SUFFICES ASSUME IInv, [Next]_vars PROVE FlightTable'
  OBVIOUS
<1> USE FlightAssumption DEF IInv, TypeOK, FlightTable, Mine
<1>1. ASSUME NEW t \in Tasks, Restore(t) PROVE FlightTable'
  BY <1>1 DEF Restore, Found, Goto, flight
<1>2. ASSUME NEW t \in Tasks, Join(t) PROVE FlightTable'
  BY <1>2 DEF Join, Goto, Miss, cache
<1>3. ASSUME NEW t \in Tasks, JoinCancelled(t) PROVE FlightTable'
  BY <1>3 DEF JoinCancelled, Goto, Miss, flight, cache
<1>4. ASSUME NEW t \in Tasks, Own(t) PROVE FlightTable'
  BY <1>4 DEF Own, Redis, Goto, Miss, cache
<1>5. ASSUME NEW t \in Tasks, AcquireLock(t) PROVE FlightTable'
  BY <1>5 DEF AcquireLock, Goto, TakeLock, flight, cache
<1>6. ASSUME NEW t \in Tasks, LockBusy(t) PROVE FlightTable'
  BY <1>6 DEF LockBusy, Goto, flight, cache
<1>7. ASSUME NEW t \in Tasks, PollHit(t) PROVE FlightTable'
  BY <1>7 DEF PollHit, Found, Waiters, FinishInflight
<1>8. ASSUME NEW t \in Tasks, PollTimeout(t) PROVE FlightTable'
  BY <1>8 DEF PollTimeout, Waiters, FinishInflight, cache
<1>9. ASSUME NEW t \in Tasks, StealLock(t) PROVE FlightTable'
  BY <1>9 DEF StealLock, Goto, TakeLock, flight, cache
<1>10. ASSUME NEW t \in Tasks, AcquireFails(t) PROVE FlightTable'
  BY <1>10 DEF AcquireFails, Goto, flight, cache
<1>11. ASSUME NEW t \in Tasks, ComputeReturns(t) PROVE FlightTable'
  BY <1>11 DEF ComputeReturns, Waiters, FinishInflight, AfterCompute, Redis
<1>12. ASSUME NEW t \in Tasks, ComputeRaises(t) PROVE FlightTable'
  BY <1>12 DEF ComputeRaises, Waiters, FinishInflight, AfterCompute, Redis, cache
<1>13. ASSUME NEW t \in Tasks, ReleaseLock(t) PROVE FlightTable'
  BY <1>13 DEF ReleaseLock, Goto, flight, cache
<1>14. ASSUME NEW t \in Tasks, CancelWaiter(t) PROVE FlightTable'
  BY <1>14 DEF CancelWaiter, Waiters, Cancellable, cache
<1>15. ASSUME NEW t \in Tasks, CancelLocking(t) PROVE FlightTable'
  BY <1>15 DEF CancelLocking, Goto, Cancellable, flight, cache
<1>16. ASSUME NEW t \in Tasks, CancelPolling(t) PROVE FlightTable'
  BY <1>16 DEF CancelPolling, Goto, Cancellable, flight, cache
<1>17. ASSUME NEW t \in Tasks, CancelComputing(t) PROVE FlightTable'
  BY <1>17 DEF CancelComputing, Goto, AfterCompute, Redis, Cancellable, flight, cache
<1>18. ASSUME NEW t \in Tasks, CancelReleasing(t) PROVE FlightTable'
  BY <1>18 DEF CancelReleasing, Goto, Cancellable, flight, cache
<1>19. CASE LockExpires
  BY <1>19 DEF LockExpires, flight, cache
<1>20. CASE ResultExpires
  BY <1>20 DEF ResultExpires, flight
<1>21. CASE UNCHANGED vars
  BY <1>21 DEF vars, flight, cache
<1> QED
  BY <1>1, <1>2, <1>3, <1>4, <1>5, <1>6, <1>7, <1>8, <1>9, <1>10, <1>11,
     <1>12, <1>13, <1>14, <1>15, <1>16, <1>17, <1>18, <1>19, <1>20, <1>21
     DEF Next, TaskStep, CancelStep

\* Without Redis, a future stays registered while its owner computes.
LEMMA StepLocal == IInv /\ [Next]_vars => LocalComputeIsRegistered'
<1> SUFFICES ASSUME IInv, [Next]_vars PROVE LocalComputeIsRegistered'
  OBVIOUS
<1> USE FlightAssumption DEF IInv, TypeOK, FlightTable, LocalComputeIsRegistered, Mine, Redis
<1>0. connected' = connected
  BY DEF Next, TaskStep, CancelStep, LockExpires, ResultExpires, vars
<1>1. ASSUME NEW t \in Tasks, Restore(t) PROVE LocalComputeIsRegistered'
  BY <1>0, <1>1 DEF Restore, Found, Goto, flight
<1>2. ASSUME NEW t \in Tasks, Join(t) PROVE LocalComputeIsRegistered'
  BY <1>0, <1>2 DEF Join, Goto, Miss, cache
<1>3. ASSUME NEW t \in Tasks, JoinCancelled(t) PROVE LocalComputeIsRegistered'
  BY <1>0, <1>3 DEF JoinCancelled, Goto, Miss, flight, cache
<1>4. ASSUME NEW t \in Tasks, Own(t) PROVE LocalComputeIsRegistered'
  BY <1>0, <1>4 DEF Own, Redis, Goto, Miss, cache
<1>5. ASSUME NEW t \in Tasks, AcquireLock(t) PROVE LocalComputeIsRegistered'
  BY <1>0, <1>5 DEF AcquireLock, Goto, TakeLock, flight, cache
<1>6. ASSUME NEW t \in Tasks, LockBusy(t) PROVE LocalComputeIsRegistered'
  BY <1>0, <1>6 DEF LockBusy, Goto, flight, cache
<1>7. ASSUME NEW t \in Tasks, PollHit(t) PROVE LocalComputeIsRegistered'
  BY <1>0, <1>7 DEF PollHit, Found, Waiters, FinishInflight
<1>8. ASSUME NEW t \in Tasks, PollTimeout(t) PROVE LocalComputeIsRegistered'
  BY <1>0, <1>8 DEF PollTimeout, Waiters, FinishInflight, cache
<1>9. ASSUME NEW t \in Tasks, StealLock(t) PROVE LocalComputeIsRegistered'
  BY <1>0, <1>9 DEF StealLock, Goto, TakeLock, flight, cache
<1>10. ASSUME NEW t \in Tasks, AcquireFails(t) PROVE LocalComputeIsRegistered'
  BY <1>0, <1>10 DEF AcquireFails, Goto, flight, cache
<1>11. ASSUME NEW t \in Tasks, ComputeReturns(t) PROVE LocalComputeIsRegistered'
  BY <1>0, <1>11 DEF ComputeReturns, Waiters, FinishInflight, AfterCompute, Redis
<1>12. ASSUME NEW t \in Tasks, ComputeRaises(t) PROVE LocalComputeIsRegistered'
  BY <1>0, <1>12 DEF ComputeRaises, Waiters, FinishInflight, AfterCompute, Redis, cache
<1>13. ASSUME NEW t \in Tasks, ReleaseLock(t) PROVE LocalComputeIsRegistered'
  BY <1>0, <1>13 DEF ReleaseLock, Goto, flight, cache
<1>14. ASSUME NEW t \in Tasks, CancelWaiter(t) PROVE LocalComputeIsRegistered'
  BY <1>0, <1>14 DEF CancelWaiter, Waiters, Cancellable, cache
<1>15. ASSUME NEW t \in Tasks, CancelLocking(t) PROVE LocalComputeIsRegistered'
  BY <1>0, <1>15 DEF CancelLocking, Goto, Cancellable, flight, cache
<1>16. ASSUME NEW t \in Tasks, CancelPolling(t) PROVE LocalComputeIsRegistered'
  BY <1>0, <1>16 DEF CancelPolling, Goto, Cancellable, flight, cache
<1>17. ASSUME NEW t \in Tasks, CancelComputing(t) PROVE LocalComputeIsRegistered'
  BY <1>0, <1>17 DEF CancelComputing, Goto, AfterCompute, Redis, Cancellable, flight, cache
<1>18. ASSUME NEW t \in Tasks, CancelReleasing(t) PROVE LocalComputeIsRegistered'
  BY <1>0, <1>18 DEF CancelReleasing, Goto, Cancellable, flight, cache
<1>19. CASE LockExpires
  BY <1>0, <1>19 DEF LockExpires, flight, cache
<1>20. CASE ResultExpires
  BY <1>0, <1>20 DEF ResultExpires, flight
<1>21. CASE UNCHANGED vars
  BY <1>0, <1>21 DEF vars, flight, cache
<1> QED
  BY <1>1, <1>2, <1>3, <1>4, <1>5, <1>6, <1>7, <1>8, <1>9, <1>10, <1>11,
     <1>12, <1>13, <1>14, <1>15, <1>16, <1>17, <1>18, <1>19, <1>20, <1>21
     DEF Next, TaskStep, CancelStep

-----------------------------------------------------------------------------
\* The types, the agreement of _inflight with the futures, and the place of a
\* computing owner are one inductive invariant of execute's loop.
THEOREM InductiveInvariant == Spec => []IInv
<1>1. Init => IInv
  BY FlightAssumption DEF Init, IInv, TypeOK, Steps, FlightTable, LocalComputeIsRegistered
<1>2. IInv /\ [Next]_vars => IInv'
  BY StepTypeOK, StepFlightTable, StepLocal DEF IInv
<1> QED
  BY <1>1, <1>2, PTL DEF Spec

\* Every reachable state of the futures, the lock and the cache is well typed.
THEOREM TypeCorrect == Spec => []TypeOK
<1>1. IInv => TypeOK
  BY DEF IInv
<1> QED
  BY <1>1, InductiveInvariant, PTL

\* No request ever waits for a future that has left _inflight or was resolved,
\* whatever times out, fails or is cancelled.
THEOREM NoLostWaiter == Spec => []FlightTable
<1>1. IInv => FlightTable
  BY DEF IInv
<1> QED
  BY <1>1, InductiveInvariant, PTL

\* Without Redis the node runs at most once at a time per worker and key.
THEOREM Coalescing == Spec => []OneComputePerWorker
<1>1. IInv => OneComputePerWorker
  BY FlightAssumption DEF IInv, LocalComputeIsRegistered, OneComputePerWorker, Mine, Redis
<1> QED
  BY <1>1, InductiveInvariant, PTL
=============================================================================
