-------------------------- MODULE MCSingleFlight --------------------------
(***************************************************************************)
(* A small instance: the tasks in LocalTasks are handled by worker w1, the *)
(* others by worker w2.                                                    *)
(***************************************************************************)
EXTENDS SingleFlight, TLC

CONSTANTS w1, w2, LocalTasks

MCWorkerOf == [t \in Tasks |-> IF t \in LocalTasks THEN w1 ELSE w2]
Symmetry   == Permutations(LocalTasks) \cup Permutations(Tasks \ LocalTasks)
=============================================================================
