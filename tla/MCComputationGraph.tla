------------------------ MODULE MCComputationGraph ------------------------
(***************************************************************************)
(* A small instance: the results of key a may be reused for two seconds;   *)
(* those of any other key have a time to live of 0, so Redis never expires *)
(* them and a copy read from Redis stays in memory until it is evicted.    *)
(* Either one worker is asked for all keys or all workers for key a.       *)
(***************************************************************************)
EXTENDS ComputationGraph, TLC

CONSTANT a

MCLoads  ==
    {[maxEntries |-> 2, workers |-> {w}, keys |-> Keys] : w \in Workers}
      \cup {[maxEntries |-> 1, workers |-> Workers, keys |-> {a}]}
MCTtlOf  == [k \in Keys |-> IF k = a THEN 2 ELSE 0]
Symmetry == Permutations(Workers) \cup Permutations(Nodes)
=============================================================================
