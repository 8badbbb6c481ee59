-------------------------- MODULE OperationLedger --------------------------
(***************************************************************************)
(* What the document service promises of every operation, without saying   *)
(* how: an operation is settled at most once, with one verdict that never  *)
(* changes, and the only thing ever announced about it is that verdict.    *)
(* Announcing may be repeated (delivery downstream is at least once).      *)
(***************************************************************************)
EXTENDS Integers

CONSTANTS Ops,       \* the operations, one per idempotency key
          Verdicts,  \* what an operation can be settled with
          Open       \* the verdict of an operation that is not settled

VARIABLES verdict,   \* the verdict of each operation
          announced  \* every verdict published so far

vars == <<verdict, announced>>

Init ==
    /\ verdict = [o \in Ops |-> Open]
    /\ announced = {}

\* An open operation gets its verdict.
Settle(o) ==
    /\ verdict[o] = Open
    /\ verdict'[o] \in Verdicts
    /\ verdict' = [verdict EXCEPT ![o] = verdict'[o]]
    /\ UNCHANGED announced

\* The verdict of a settled operation is published, perhaps again.
Announce(o) ==
    /\ verdict[o] # Open
    /\ announced' = announced \cup {verdict[o]}
    /\ UNCHANGED verdict

Next == \E o \in Ops : Settle(o) \/ Announce(o)

Spec == Init /\ [][Next]_vars
=============================================================================
