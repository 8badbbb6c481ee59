--------------------------- MODULE OrganismWalks ---------------------------
(***************************************************************************)
(* Organisms walking the capability graph (engine/__init__.py): requests   *)
(* in OrganismExecutor.execute, the branches of one time split in          *)
(* TimeSplitter, and one swarm, next to each other over one cache.  A walk *)
(* runs the node of its next capability, or restores what the cache has    *)
(* for the capability in the walk's present state, and goes where the      *)
(* result says; routing may be cyclic, so walks count their hops.          *)
(*                                                                         *)
(* The state of an organism is a set of facts: its input, and the          *)
(* capabilities whose nodes have left their mark.  What nodes do is fixed  *)
(* in behaviour, the same for everybody: a node is a function of what it   *)
(* is given.  Of the cache (module ComputationGraph) only what is stored   *)
(* under a key is kept, an entry may go at any time; of single flight      *)
(* (module SingleFlight) only which keys are registered, cancellation and  *)
(* Redis are its matter.  A list of items is the set of them.  Keys        *)
(* starting with "_" and statistics are left out.                          *)
(***************************************************************************)
EXTENDS Naturals, SequencesExt

CONSTANTS
    Capabilities,  \* those some node is registered for
    Inputs,
    Requests,      \* organisms that may be executed
    Branches,      \* organisms a time split may spawn
    Behaviours,    \* what the nodes may do, of which a run fixes one
    Workloads,     \* who runs in a run, and from where
    MaxHops        \* ORGANISM_MAX_HOPS

Nowhere == "nowhere"  \* no next capability
Unknown == "unknown"  \* a capability no node is registered for

Organisms == Requests \cup Branches
Targets   == Capabilities \cup {Nowhere, Unknown}
States    == SUBSET (Capabilities \cup Inputs)

\* A swarm: its workers, the data they share out, the capability they all have,
\* the partition function if one was set (custom), and fail_fast.
Swarms == [workers : Nat, data : Seq(Inputs), capability : Targets \ {Nowhere},
           custom : BOOLEAN, partition : [Inputs -> Nat], failFast : BOOLEAN]

\* What a node does to the state it is given: it succeeds, it succeeds and
\* terminates the envelope, or it fails; it may drop what others have left.
NodeKinds == [kind : {"ok", "stops", "fails"}, next : Targets, clears : BOOLEAN]

ASSUME WalksAssumption ==
    /\ Behaviours \subseteq [Capabilities -> NodeKinds]
    /\ Workloads \subseteq [walks : SUBSET Requests, branches : SUBSET Branches,
                            input : [Organisms -> Inputs],
                            first : [Organisms -> Targets \ {Nowhere}],
                            swarm : Swarms]
    /\ MaxHops \in Nat \ {0}
    /\ Requests \cap Branches = {}
    /\ Capabilities \cap Inputs = {}  \* a node's mark is not an input

VARIABLES
    behaviour, \* what each node does, in this run
    work,      \* the requests and the branches of this run
    pc,        \* where each organism is
    facts,     \* its state
    next,      \* its _next_capability
    hops,
    status,    \* its OrganismState
    verdict,   \* the last event about it: request.started, .completed, .failed
    cache,     \* what is registered under each key
    inflight,  \* keys with a future in _inflight
    split,     \* the organism whose future the branches explore
    swarm,     \* what execute_swarm has come to
    revived    \* history: the hops for which each restored what a failure had left

run  == <<behaviour, work>>
walk == <<pc, facts, next, hops, status>>
vars == <<run, walk, verdict, cache, inflight, split, swarm, revived>>

Keys    == Capabilities \X States
Entries == [facts : States, next : Targets]
Missing == [next |-> "missing"]

TypeOK ==
    /\ behaviour \in Behaviours /\ work \in Workloads
    /\ pc \in [Organisms -> {"new", "loop", "wait", "run", "end", "done"}]
    /\ facts \in [Organisms -> States]
    /\ next \in [Organisms -> Targets]
    /\ hops \in [Organisms -> 0..(MaxHops + 1)]
    /\ status \in [Organisms -> {"spawned", "exploring", "executing", "learning",
                                 "terminated"}]
    /\ verdict \in [Requests -> {"none", "started", "completed", "failed"}]
    /\ cache \in [Keys -> Entries \cup {Missing}]
    /\ inflight \subseteq (Capabilities \cup {Unknown}) \X States
    /\ split \in [status : {"spawned", "learning", "terminated"}, facts : States]
    /\ swarm \in [status : {"spawned", "reduced", "raised"}, errors : Nat,
                  results : Seq(States)]
    /\ revived \in [Organisms -> SUBSET (1..MaxHops)]

\* TimeSplitter.split copies the state of the organism into its branches.
Init ==
    /\ behaviour \in Behaviours /\ work \in Workloads
    /\ pc = [o \in Organisms |-> "new"]
    /\ facts = [o \in Organisms |-> {work.input[o]}]
    /\ next = work.first
    /\ hops = [o \in Organisms |-> 0]
    /\ status = [o \in Organisms |-> IF o \in Requests THEN "spawned" ELSE "exploring"]
    /\ verdict = [r \in Requests |-> "none"]
    /\ cache = [k \in Keys |-> Missing]
    /\ inflight = {}
    /\ split = [status |-> "spawned", facts |-> {}]
    /\ swarm = [status |-> "spawned", errors |-> 0, results |-> <<>>]
    /\ revived = [o \in Organisms |-> {}]

-----------------------------------------------------------------------------
Terminated(o)  == status[o] = "terminated"
Goto(o, step)  == pc' = [pc EXCEPT ![o] = step]
Terminate(o)   == status' = [status EXCEPT ![o] = "terminated"]

\* What an organism's present step is looked up by; a mutant that leaves out the
\* input.
KeyByState(o) == <<next[o], (facts[o] \ Inputs) \cup {CHOOSE i \in Inputs : TRUE}>>
Key(o)       == <<next[o], facts[o]>>

\* The state a node leaves behind: a failing one leaves it as it is.
Outcome(c, f) ==
    LET node == behaviour[c] IN
    IF node.kind = "fails" THEN f
    ELSE {c} \cup (IF node.clears THEN f \cap Inputs ELSE f)

\* Mutant of Counted: a hop counts when a node is run for it.
CountedCold(o) ==
    \/ /\ pc[o] = "loop" /\ next[o] # Nowhere /\ hops[o] < MaxHops
       /\ hops' = [hops EXCEPT ![o] = IF next[o] = Unknown \/ cache[Key(o)] = Missing
                                      THEN @ + 1 ELSE @]
    \/ /\ pc[o] = "wait" /\ Key(o) \notin inflight
       /\ UNCHANGED hops

\* An organism gets to look its step up at the top of the loop, which counts
\* the hop, and when the future it awaited is resolved.
Counted(o) ==
    \/ /\ pc[o] = "loop" /\ next[o] # Nowhere /\ hops[o] < MaxHops
       /\ hops' = [hops EXCEPT ![o] = @ + 1]
    \/ /\ pc[o] = "wait" /\ Key(o) \notin inflight
       /\ UNCHANGED hops

Hit(o) == next[o] # Unknown /\ cache[Key(o)] # Missing

\* What is restored is added to the state, and the walk goes where the cached
\* one was led, whether the node had succeeded or not: that it had not terminates
\* whoever ran it, but nobody who restores its result.
Restore(o) ==
    /\ Counted(o) /\ Hit(o)
    /\ facts' = [facts EXCEPT ![o] = @ \cup cache[Key(o)].facts]
    /\ next' = [next EXCEPT ![o] = cache[Key(o)].next]
    /\ Goto(o, "loop")
    /\ revived' = [revived EXCEPT ![o] =
          IF behaviour[next[o]].kind = "ok" THEN @ ELSE @ \cup {hops'[o]}]
    /\ UNCHANGED <<run, status, verdict, cache, inflight, split, swarm>>

\* The hop limit terminates the organism before the step is looked at.
Exhaust(o) ==
    /\ pc[o] = "loop" /\ next[o] # Nowhere /\ hops[o] = MaxHops
    /\ hops' = [hops EXCEPT ![o] = @ + 1]
    /\ Terminate(o)
    /\ Goto(o, "end")
    /\ UNCHANGED <<run, facts, next, verdict, cache, inflight, split, swarm, revived>>

\* Mutant of Success: that the node terminated the envelope is not looked at.
SuccessUnlessFailed(c) == behaviour[c].kind # "fails"

\* A step is a success if its node was, and did not terminate the envelope.
Success(c) == behaviour[c].kind = "ok"

\* The node's result becomes the organism's and the cache's, successful or not;
\* a node that fails or terminates the envelope terminates the organism.
RunNode(o) ==
    LET c == next[o] IN
    /\ pc[o] = "run" /\ c \in Capabilities
    /\ facts' = [facts EXCEPT ![o] = Outcome(c, @)]
    /\ next' = [next EXCEPT ![o] = behaviour[c].next]
    /\ cache' = [cache EXCEPT ![Key(o)] =
          [facts |-> Outcome(c, facts[o]), next |-> behaviour[c].next]]
    /\ IF Success(c) THEN Goto(o, "loop") /\ UNCHANGED status
                     ELSE Goto(o, "end") /\ Terminate(o)
    /\ UNCHANGED <<run, hops, verdict, split, swarm, revived>>

\* No node for the capability: the exception ends the walk, nothing is cached.
NotFound(o) ==
    /\ pc[o] = "run" /\ next[o] = Unknown
    /\ Terminate(o)
    /\ Goto(o, "end")
    /\ UNCHANGED <<run, facts, next, hops, verdict, cache, split, swarm, revived>>

-----------------------------------------------------------------------------
(***************************************************************************)
(* OrganismExecutor.execute                                                *)
(***************************************************************************)
Start(r) ==
    /\ pc[r] = "new"
    /\ status' = [status EXCEPT ![r] = "executing"]
    /\ verdict' = [verdict EXCEPT ![r] = "started"]
    /\ Goto(r, "loop")
    /\ UNCHANGED <<run, facts, next, hops, cache, inflight, split, swarm, revived>>

Join(r) ==
    /\ pc[r] = "loop" /\ Counted(r) /\ ~Hit(r) /\ Key(r) \in inflight
    /\ Goto(r, "wait")
    /\ UNCHANGED <<run, facts, next, status, verdict, cache, inflight,
                   split, swarm, revived>>

Own(r) ==
    /\ Counted(r) /\ ~Hit(r) /\ Key(r) \notin inflight
    /\ inflight' = inflight \cup {Key(r)}
    /\ Goto(r, "run")
    /\ UNCHANGED <<run, facts, next, status, verdict, cache, split, swarm, revived>>

Execute(r) ==
    /\ RunNode(r) \/ NotFound(r)
    /\ inflight' = inflight \ {Key(r)}

Complete(r) ==
    /\ pc[r] = "loop" /\ next[r] = Nowhere
    /\ status' = [status EXCEPT ![r] = "learning"]
    /\ verdict' = [verdict EXCEPT ![r] = "completed"]
    /\ Goto(r, "done")
    /\ UNCHANGED <<run, facts, next, hops, cache, inflight, split, swarm, revived>>

Fail(r) ==
    /\ pc[r] = "end"
    /\ verdict' = [verdict EXCEPT ![r] = "failed"]
    /\ Goto(r, "done")
    /\ UNCHANGED <<run, facts, next, hops, status, cache, inflight, split, swarm, revived>>

-----------------------------------------------------------------------------
(***************************************************************************)
(* TimeSplitter: branches do not use single flight.                        *)
(***************************************************************************)
Branch(b) ==
    /\ pc[b] = "new"
    /\ Goto(b, "loop")
    /\ UNCHANGED <<run, facts, next, hops, status, verdict, cache, inflight, split,
                   swarm, revived>>

BranchMiss(b) ==
    /\ Counted(b) /\ ~Hit(b)
    /\ Goto(b, "run")
    /\ UNCHANGED <<run, facts, next, status, verdict, cache, inflight,
                   split, swarm, revived>>

BranchExecute(b) ==
    /\ RunNode(b) \/ NotFound(b)
    /\ UNCHANGED inflight

BranchEnd(b) ==
    /\ \/ pc[b] = "loop" /\ next[b] = Nowhere
          /\ status' = [status EXCEPT ![b] = "learning"]
       \/ pc[b] = "end" /\ UNCHANGED status
    /\ Goto(b, "done")
    /\ UNCHANGED <<run, facts, next, hops, verdict, cache, inflight, split, swarm, revived>>

\* wait_for: the time is up while the node runs, or before the branch began.
BranchTimeout(b) ==
    /\ pc[b] \in {"new", "run"}
    /\ Terminate(b)
    /\ Goto(b, "done")
    /\ UNCHANGED <<run, facts, next, hops, verdict, cache, inflight, split, swarm, revived>>

Open == split.status = "spawned" /\ work.branches # {}

\* Mutant of Win: the others are left running.
WinOnly(b) ==
    /\ Open /\ pc[b] = "done" /\ ~Terminated(b)
    /\ split' = [status |-> "learning", facts |-> facts[b]]
    /\ UNCHANGED <<run, walk, verdict, cache, inflight, swarm, revived>>

\* A branch is done and not terminated: the others are cancelled, which ends
\* them where they are, and the organism takes over the winner's state.
Win(b) ==
    /\ Open /\ pc[b] = "done" /\ ~Terminated(b)
    /\ pc' = [o \in Organisms |-> IF o \in work.branches THEN "done" ELSE pc[o]]
    /\ split' = [status |-> "learning", facts |-> facts[b]]
    /\ UNCHANGED <<run, facts, next, hops, status, verdict, cache, inflight,
                   swarm, revived>>

\* No branch is left.
Lose ==
    /\ Open /\ \A b \in work.branches : pc[b] = "done" /\ Terminated(b)
    /\ split' = [split EXCEPT !.status = "terminated"]
    /\ UNCHANGED <<run, walk, verdict, cache, inflight, swarm, revived>>

-----------------------------------------------------------------------------
(***************************************************************************)
(* SwarmCoordinator: execute_swarm awaits nothing, it is one step.         *)
(***************************************************************************)
\* Mutant of PartitionKey: the items go round one worker more than there is.
PartitionKeyPast(sw, n) ==
    IF sw.custom THEN sw.partition[sw.data[n]] ELSE n % (sw.workers + 1)

\* Where the n-th item goes: round robin, unless there is a function.
PartitionKey(sw, n) ==
    IF sw.custom THEN sw.partition[sw.data[n]] ELSE n % sw.workers

\* The items whose key is seen for the first time, and those with the same key.
Opens(sw) ==
    {n \in DOMAIN sw.data : \A m \in 1..(n - 1) : PartitionKey(sw, m) # PartitionKey(sw, n)}
Sharing(sw, n) ==
    {sw.data[m] : m \in {x \in DOMAIN sw.data : PartitionKey(sw, x) = PartitionKey(sw, n)}}

\* The partitions, in the order in which their keys turn up in the data.
Partitions(sw) ==
    LET opens   == Opens(sw)
        rank(n) == Cardinality({m \in opens : m <= n})
        first(p) == CHOOSE n \in opens : rank(n) = p
    IN IF opens = {} THEN <<{}>>
       ELSE [p \in 1..Cardinality(opens) |-> Sharing(sw, first(p))]

\* With fewer partitions than workers they are given out again; with more, those
\* left over are given to nobody.
PartitionOf(sw, w) ==
    LET parts == Partitions(sw) IN parts[((w - 1) % Len(parts)) + 1]

\* The turn of worker w, after the others left things as in s.  A cached result
\* is the worker's result, even if its node had failed; an error that stops the
\* swarm is counted where it is found and again where it is caught.
Worked(sw, w, s) ==
    LET c    == sw.capability
        part == PartitionOf(sw, w)
        new  == [facts |-> Outcome(c, part), next |-> behaviour[c].next]
        registered == [s EXCEPT !.cache[<<c, part>>] = new]
    IN CASE s.raised -> s
         [] ~s.raised /\ c = Unknown ->
              [s EXCEPT !.errors = @ + 1, !.raised = sw.failFast]
         [] OTHER ->
              IF s.cache[<<c, part>>] # Missing
              THEN [s EXCEPT !.results = Append(@, part \cup s.cache[<<c, part>>].facts)]
              ELSE IF behaviour[c].kind = "fails"
              THEN [registered EXCEPT !.errors = @ + (IF sw.failFast THEN 2 ELSE 1),
                                      !.raised = sw.failFast]
              ELSE [registered EXCEPT !.results = Append(@, new.facts)]

\* All workers, one after the other.
Workers(sw) ==
    LET after[w \in 0..sw.workers] ==
            IF w = 0 THEN [cache |-> cache, errors |-> 0, results |-> <<>>,
                           raised |-> FALSE]
            ELSE Worked(sw, w, after[w - 1])
    IN after

ExecuteSwarm ==
    LET sw  == work.swarm
        end == Workers(sw)[sw.workers]
    IN /\ sw.workers > 0 /\ swarm.status = "spawned"
       /\ cache' = end.cache
       /\ swarm' = [status  |-> IF end.raised THEN "raised" ELSE "reduced",
                    errors  |-> end.errors,
                    results |-> IF end.raised THEN <<>> ELSE end.results]
       /\ UNCHANGED <<run, walk, verdict, inflight, split, revived>>

-----------------------------------------------------------------------------
\* A cached result expires or is evicted.
Expire ==
    /\ \E k \in Keys : cache[k] # Missing /\ cache' = [cache EXCEPT ![k] = Missing]
    /\ UNCHANGED <<run, walk, verdict, inflight, split, swarm, revived>>

RequestStep(r) ==
    \/ Start(r) \/ Restore(r) \/ Exhaust(r) \/ Join(r) \/ Own(r) \/ Execute(r)
    \/ Complete(r) \/ Fail(r)

BranchStep(b) ==
    \/ Branch(b) \/ Restore(b) \/ Exhaust(b) \/ BranchMiss(b) \/ BranchExecute(b)
    \/ BranchEnd(b) \/ BranchTimeout(b)

SplitStep == Lose \/ \E b \in work.branches : Win(b)

Next ==
    \/ \E r \in work.walks : RequestStep(r)
    \/ \E b \in work.branches : BranchStep(b)
    \/ SplitStep
    \/ ExecuteSwarm
    \/ Expire

Spec == Init /\ [][Next]_vars

\* The event loop runs every task that is ready, and nodes return.
FairSpec ==
    /\ Spec
    /\ \A r \in Requests : WF_vars(r \in work.walks /\ RequestStep(r))
    /\ \A b \in Branches : WF_vars(b \in work.branches /\ BranchStep(b))
    /\ WF_vars(SplitStep)

-----------------------------------------------------------------------------
(***************************************************************************)
(* Properties.                                                             *)
(***************************************************************************)
\* What a hop makes of the present state, and where it leads.
Hop(s) ==
    IF s.next \in Capabilities
    THEN [facts |-> Outcome(s.next, s.facts), next |-> behaviour[s.next].next]
    ELSE s

\* Where an organism's own hops lead, one after the other, if the result of a
\* node that fails is followed like any other.
Led(o) ==
    LET at[n \in 0..MaxHops] ==
          IF n = 0 THEN [facts |-> {work.input[o]}, next |-> work.first[o]]
          ELSE Hop(at[n - 1])
    IN at

\* Whether it is there after n hops.  Only keys that a node removed may still be
\* there, because restoring adds to the state.
LedTo(o, n) ==
    LET led == Led(o)[n] IN
    /\ next[o] = led.next
    /\ led.facts \subseteq facts[o]
    /\ (\A c \in Capabilities : ~behaviour[c].clears) => facts[o] = led.facts

\* Alone and without a cache: its n-th hop succeeds; the hop's node fails or
\* terminates the envelope, which stops the walk.
Succeeds(o, n) ==
    LET c == Led(o)[n - 1].next IN c \in Capabilities /\ behaviour[c].kind = "ok"
Stops(o, n) ==
    LET c == Led(o)[n - 1].next IN c \in Capabilities /\ behaviour[c].kind # "ok"

\* It gets past its first n hops: alone, all of them must succeed.
Past(o, n) == \A m \in 1..n : Succeeds(o, m) \/ m \in revived[o]

\* After n hops o is under way, or has ended as it would have done alone: it got
\* through, its own n-th node stopped it, or it could go no further, for want of
\* a node or of hops.  A branch may have run out of time.
Ends(o, n) ==
    CASE status[o] = "learning" -> Past(o, n) /\ Led(o)[n].next = Nowhere
      [] Terminated(o) ->
            \/ n > 0 /\ Past(o, n - 1) /\ Stops(o, n)
            \/ Past(o, n) /\ Led(o)[n].next = Unknown
            \/ Past(o, n) /\ Led(o)[n].next # Nowhere /\ n = MaxHops
            \/ Past(o, n) /\ o \in Branches
      [] OTHER -> Past(o, n)

\* The hops whose results an organism may have: all it has counted, except for
\* the one it is in or was stopped in.
Taken(o) ==
    CASE pc[o] \in {"new", "loop"} -> {hops[o]}
      [] pc[o] \in {"wait", "run"} -> {hops[o] - 1}
      [] OTHER                     -> {hops[o] - 1, hops[o]} \cap 0..MaxHops

\* "identical computations are computed once and reused": whatever an organism
\* computed, waited for or restored, and whoever computed it, failed there or
\* was cancelled, it is where its own hops lead, with the state they leave, and
\* goes on, completes or fails as it would alone and without a cache; its last
\* event says so.  The one exception is what the code does with the result of a
\* node that failed or terminated the envelope: who restores it goes on where
\* alone it would be stopped.  Only such hops are excepted, for that organism.
SharedIsPure ==
    /\ TypeOK
    /\ \A o \in work.walks \cup work.branches : \E n \in Taken(o) :
          LedTo(o, n) /\ Ends(o, n) /\ \A m \in revived[o] : m <= n /\ Stops(o, m)
    /\ \A r \in work.walks :
          /\ verdict[r] = "completed" => status[r] = "learning"
          /\ verdict[r] = "failed" => Terminated(r)

\* "first successful wins": a split is decided by a branch that got through, and
\* then no branch goes on; it is lost only if every branch was terminated.
SplitDecided ==
    /\ split.status = "learning" =>
          /\ \E b \in work.branches : ~Terminated(b) /\ next[b] = Nowhere
                                       /\ split.facts = facts[b]
          /\ \A b \in work.branches : pc[b] = "done"
    /\ split.status = "terminated" =>
          \A b \in work.branches : Terminated(b)

\* "every routing loop needs a bound or a self-routing capability spins a worker
\* forever": every walk ends and says how, and every split is decided, however
\* the nodes route, fail, and share their results.
EveryWalkEnds ==
    /\ \A r \in Requests : <>(r \in work.walks => verdict[r] \in {"completed", "failed"})
    /\ <>(work.branches # {} => split.status # "spawned")

\* "Multiple organisms collaborate on a single problem": what a swarm returns is
\* what its nodes make of the parts they were given and nothing else, and no
\* worker is forgotten.  If all of them have a result then every item is in one
\* of them, unless a partition function makes more parts than there are workers;
\* and in one only, unless there are fewer parts than workers or it is there twice.
SwarmCovers ==
    LET sw     == work.swarm
        result == swarm.results
        items(r) == result[r] \cap Inputs
    IN /\ \A r \in DOMAIN result : result[r] = Outcome(sw.capability, items(r))
       /\ swarm.status = "raised" => sw.failFast
       /\ swarm.status = "reduced" =>
             /\ Len(result) + swarm.errors = sw.workers
             /\ swarm.errors = 0 /\ (sw.custom => Len(Partitions(sw)) <= sw.workers) =>
                   ToSet(sw.data) = UNION {items(r) : r \in DOMAIN result}
             /\ Len(Partitions(sw)) >= sw.workers /\ IsInjective(sw.data) =>
                   \A r, q \in DOMAIN result : r # q => items(r) \cap items(q) = {}
=============================================================================
