-------------------------- MODULE MCEnvelopeLoops --------------------------
(***************************************************************************)
(* Small instances: one envelope in a pipeline under every combination of  *)
(* its options, or two requests to the engine and a replay of the first,   *)
(* or one envelope in two parallel branches.                               *)
(***************************************************************************)
EXTENDS EnvelopeLoops

CONSTANTS a, b, aka, e1, e2, e3

MCAliasOf == [x \in {aka} |-> a]

Node(kinds, nexts) == [kind : kinds, next : nexts]
Nodes(as, bs)      == {[c \in {a, b} |-> IF c = a THEN na ELSE nb] : na \in as, nb \in bs}
All(x)             == [e \in Envelopes |-> x]
Only(x, y)         == [e \in Envelopes |-> IF e = e1 THEN x ELSE y]

Pipelines ==
    [behaviour : Nodes(Node({"ok", "stops", "fails", "raises", "mute"}, {b, Nowhere}),
                       Node({"ok", "stops", "fails"}, {aka, Nowhere})),
     remote : {{}}, loop : {Only("pipeline", "unused")}, hash : {All(<<1, 1>>)},
     first : {All(aka), All(Nowhere)}, past : {All(<<b>>)}, plan : {All(<<>>)},
     branches : {All(<<>>)},
     timed : BOOLEAN, continues : BOOLEAN, resumes : BOOLEAN]

Requests ==
    [behaviour : Nodes(Node({"ok", "fails", "raises"}, {b, Nowhere}),
                       Node({"ok"}, {Nowhere})),
     remote : {{}, {b}},
     loop : {[e \in Envelopes |-> IF e = e3 THEN "replay" ELSE "engine"]},
     hash : {[All(<<1, 1>>) EXCEPT ![e2] = h] : h \in {<<1, 1>>, <<1, 2>>, <<2, 1>>}},
     first : {All(aka)}, past : {All(<<>>)}, plan : {All(<<>>), All(<<b>>)},
     branches : {All(<<>>)},
     timed : {FALSE}, continues : {FALSE}, resumes : {FALSE}]

Parallels ==
    [behaviour : Nodes(Node({"ok", "stops", "fails", "raises", "mute"}, {b, Nowhere}),
                       Node({"ok", "stops", "fails"}, {aka, Nowhere})),
     remote : {{}}, loop : {Only("parallel", "unused")}, hash : {All(<<1, 1>>)},
     first : {All(Nowhere)}, past : {All(<<b>>)}, plan : {All(<<>>)},
     branches : {All(<<aka, b>>)},
     timed : {FALSE}, continues : {FALSE}, resumes : {FALSE}]

MCSetups == Pipelines \cup Requests \cup Parallels
=============================================================================
