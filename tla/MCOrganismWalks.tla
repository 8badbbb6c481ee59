-------------------------- MODULE MCOrganismWalks --------------------------
(***************************************************************************)
(* A small instance: two capabilities a and b; two requests with the same  *)
(* or different inputs, or a request next to a split of two branches or a  *)
(* swarm of two workers, and a swarm by itself.                            *)
(***************************************************************************)
EXTENDS OrganismWalks

CONSTANTS a, b, i1, i2, i3, r1, r2, b1, b2

\* What a and b may do: b also goes round in circles or fails for good.
MCBehaviours ==
    {[c \in {a, b} |-> IF c = a THEN na ELSE nb] :
        na \in [kind : {"ok", "stops", "fails"}, next : {b, Nowhere}, clears : {FALSE}],
        nb \in [kind : {"ok"}, next : {a, Nowhere, Unknown}, clears : BOOLEAN] \cup
               [kind : {"fails"}, next : {a, Nowhere, Unknown}, clears : {FALSE}]}

Swarm(workers, data, capability, custom, partition, failFast) ==
    [workers |-> workers, data |-> data, capability |-> capability,
     custom |-> custom, partition |-> partition, failFast |-> failFast]

Alike == [i \in Inputs |-> 0]
Pairs == [i \in Inputs |-> IF i = i2 THEN 0 ELSE 1]
Each  == [i \in Inputs |-> IF i = i1 THEN 3 ELSE IF i = i2 THEN 1 ELSE 2]

NoSwarm == Swarm(0, <<>>, a, FALSE, Alike, FALSE)

Shared ==
    {Swarm(2, data, a, FALSE, Alike, failFast) :
        data \in {<<i1>>, <<i1, i2, i3>>}, failFast \in BOOLEAN}

Solitary ==
    {Swarm(2, data, a, FALSE, Alike, FALSE) : data \in {<<>>, <<i1, i1>>}} \cup
    {Swarm(2, <<i1, i2, i3>>, a, TRUE, partition, FALSE) : partition \in {Pairs, Each}} \cup
    {Swarm(2, <<i1>>, Unknown, FALSE, Alike, failFast) : failFast \in BOOLEAN}

Work(walks, branches, other, second, swarm_) ==
    [walks |-> walks, branches |-> branches,
     input |-> [o \in Organisms |-> IF o = r2 THEN other ELSE i1],
     first |-> [o \in Organisms |-> IF o \in {r2, b2} THEN second ELSE a],
     swarm |-> swarm_]

MCWorkloads ==
    {Work({r1, r2}, {}, i1, a, NoSwarm), Work({r1, r2}, {}, i2, a, NoSwarm),
     Work({r1}, {b1, b2}, i1, b, NoSwarm)} \cup
    {Work({r1}, {}, i1, a, s) : s \in Shared} \cup
    {Work({}, {}, i1, a, s) : s \in Solitary}
=============================================================================
