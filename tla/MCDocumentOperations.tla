---------------------- MODULE MCDocumentOperations ----------------------
(***************************************************************************)
(* A small instance: messages m1 and m2 are the same request sent twice.   *)
(* m4 is that request once more, in a workload of its own, where m3 reuses *)
(* its idempotency key for another request, an invalid one.                *)
(***************************************************************************)
EXTENDS DocumentOperations, TLC

CONSTANTS m1, m2, m3, m4, k1, c1, c3, f1, f3

MCWorkloads     == {{m1, m2}, {m3, m4}}
MCKeyOf         == [m \in Messages |-> k1]
MCConflictKeyOf == [m \in Messages |-> IF m = m3 THEN c3 ELSE c1]
MCFpOf          == [m \in Messages |-> IF m = m3 THEN f3 ELSE f1]

\* Handlers are interchangeable, and so are the two messages of one request.
Symmetry == Permutations(Handlers) \cup Permutations({m1, m2})

\* Two things go wrong at most, claims that overtake a dead letter included.
Mishaps == \A o \in Ops : faults + overtaken[o] <= 2
=============================================================================
