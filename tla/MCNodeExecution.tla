-------------------------- MODULE MCNodeExecution --------------------------
(***************************************************************************)
(* Small instances: a synchronous call with a timeout, an asynchronous one *)
(* with and one without, a coroutine and a call without a timeout.         *)
(***************************************************************************)
EXTENDS NodeExecution

CONSTANTS s1, a1, a2, c1, i1

MCKind == [c \in Calls |-> CASE c = s1         -> "sync"
                             [] c \in {a1, a2} -> "async"
                             [] c = c1         -> "coroutine"
                             [] c = i1         -> "inline"]
=============================================================================
