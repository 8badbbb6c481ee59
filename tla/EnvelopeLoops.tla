--------------------------- MODULE EnvelopeLoops ---------------------------
(***************************************************************************)
(* The loops that carry a request envelope from node to node: the          *)
(* synchronous Pipeline.execute (core/pipeline.py), with its deadline and  *)
(* iteration limit; PrismEngine.execute (engine/__init__.py), with its     *)
(* semantic cache and neither, for requests, replays and forks; and        *)
(* ParallelExecutor, with nothing.  They look nodes up in one              *)
(* CapabilityRouter (core/router.py) that may change between two hops.     *)
(*                                                                         *)
(* What a node does is fixed in behaviour: where it routes to, and whether *)
(* it succeeds, terminates the envelope, returns a failure, or raises, an  *)
(* exception with a message or one without.  The state of an envelope is   *)
(* left out, its history is the nodes that have run.  The engine's hops    *)
(* interleave as they do when nodes are remote.  Hooks take time, no more. *)
(***************************************************************************)
EXTENDS Naturals, Sequences, FiniteSetsExt

CONSTANTS
    Envelopes,
    Capabilities,   \* those nodes are written for
    AliasOf,        \* the capability each alias name stands for
    Setups,         \* what a run is about, see Setup
    MaxIterations,  \* PipelineConfig.max_iterations
    MaxChanges      \* bound: changes of the router in a run

Nowhere    == "nowhere"
NoEnvelope == "none"
Verdicts   == {"success", "failure", "error", "merged"}
Names      == Capabilities \cup DOMAIN AliasOf
NodeKinds  == [kind : {"ok", "stops", "fails", "raises", "mute"},
               next : Names \cup {Nowhere}]

\* A run: its nodes; the remote ones; what each envelope goes through, its intent
\* (similar intents are one) and input, where it starts, its history, the rest of
\* its plan, and its parallel branches; and the pipeline's options.
Setup == [behaviour : [Capabilities -> NodeKinds],
          remote    : SUBSET Capabilities,
          loop      : [Envelopes -> {"pipeline", "engine", "replay", "parallel", "unused"}],
          hash      : [Envelopes -> Nat \X Nat],
          first     : [Envelopes -> Names \cup {Nowhere}],
          past      : [Envelopes -> Seq(Capabilities)],
          plan      : [Envelopes -> Seq(Names)],
          branches  : [Envelopes -> Seq(Names)],
          timed     : BOOLEAN, continues : BOOLEAN, resumes : BOOLEAN]

ASSUME LoopsAssumption ==
    /\ AliasOf \in [DOMAIN AliasOf -> Capabilities]
    /\ DOMAIN AliasOf \cap Capabilities = {}
    /\ Nowhere \notin Names
    /\ Envelopes \cap ({NoEnvelope} \cup Verdicts) = {}
    /\ \A s \in Setups : s \in Setup
    /\ MaxIterations \in Nat /\ MaxChanges \in Nat

VARIABLES
    setup,       \* what this run is about
    registered,  \* the router's registrations
    aliases,     \* and the aliases in force
    changes,     \* how often they changed
    pc,          \* where each envelope is
    env,         \* its next, terminated, error (whether there is one), history, plan
    iterations,
    late,        \* its deadline has passed
    node,        \* the node it is about to go through
    outcome,     \* how the last one ended
    trouble,     \* everything that has gone wrong with it
    answer,      \* what the caller got: success or failure, or a final envelope
    stored,      \* the envelopes the engine put into the semantic cache, in order
    results      \* what has become of the branches of an envelope

router  == <<registered, aliases, changes>>
vars    == <<setup, router, pc, env, iterations, late, node, outcome, trouble, answer,
             stored, results>>

Troubles   == {"late", "limit", "missing", "failed", "mute", "refused", "stopped"}

Envelope   == [next : Names \cup {Nowhere}, terminated : BOOLEAN, error : BOOLEAN,
               ran : Seq(Capabilities), plan : Seq(Names)]

TypeOK ==
    /\ setup \in Setups
    /\ registered \subseteq Capabilities /\ aliases \subseteq DOMAIN AliasOf
    /\ changes \in 0..MaxChanges
    /\ pc \in [Envelopes -> {"new", "ready", "top", "node", "after", "final", "done"}]
    /\ env \in [Envelopes -> Envelope]
    /\ results \in [Envelopes -> Seq(Envelope)]
    /\ iterations \in [Envelopes -> 0..(MaxIterations + 1)]
    /\ late \in [Envelopes -> BOOLEAN]
    /\ node \in [Envelopes -> Names \cup {Nowhere}]
    /\ outcome \in [Envelopes -> {"ok", "failed", "mute"}]
    /\ trouble \in [Envelopes -> SUBSET Troubles]
    /\ answer \in [Envelopes -> {NoEnvelope} \cup Verdicts \cup Envelopes]
    /\ stored \in Seq(Envelopes)

Init ==
    /\ setup \in Setups
    /\ registered = Capabilities
    /\ aliases = DOMAIN AliasOf
    /\ changes = 0
    /\ pc = [e \in Envelopes |-> "new"]
    /\ env = [e \in Envelopes |->
          [next |-> setup.first[e], terminated |-> FALSE, error |-> FALSE,
           ran |-> setup.past[e], plan |-> setup.plan[e]]]
    /\ iterations = [e \in Envelopes |-> 0]
    /\ late = [e \in Envelopes |-> FALSE]
    /\ node = [e \in Envelopes |-> Nowhere]
    /\ outcome = [e \in Envelopes |-> "ok"]
    /\ trouble = [e \in Envelopes |-> {}]
    /\ answer = [e \in Envelopes |-> NoEnvelope]
    /\ stored = <<>>
    /\ results = [e \in Envelopes |-> <<>>]

-----------------------------------------------------------------------------
(***************************************************************************)
(* CapabilityRouter, and what nodes do to an envelope.                     *)
(***************************************************************************)
Resolve(name)   == IF name \in aliases THEN AliasOf[name] ELSE name
Resolvable(name) == Resolve(name) \in registered

\* register, unregister; an alias needs a registered capability to be made, and
\* is not told when that goes.
ChangeRouter ==
    /\ changes < MaxChanges
    /\ changes' = changes + 1
    /\ \/ \E c \in Capabilities : registered' \in {registered \cup {c}, registered \ {c}}
          /\ UNCHANGED aliases
       \/ \E n \in DOMAIN AliasOf :
             \/ n \in aliases /\ aliases' = aliases \ {n}
             \/ AliasOf[n] \in registered /\ aliases' = aliases \cup {n}
          /\ UNCHANGED registered
    /\ UNCHANGED <<setup, pc, env, iterations, late, node, outcome, trouble, answer,
                   stored, results>>

Goto(e, step)   == pc' = [pc EXCEPT ![e] = step]
Note(e, what)   == trouble' = [trouble EXCEPT ![e] = @ \cup {what}]
InLoop(e)       == env[e].next # Nowhere /\ ~env[e].terminated

\* envelope.terminate(message); without a message the error stays what it was.
Terminated(v)   == [v EXCEPT !.terminated = TRUE, !.error = TRUE]
TerminatedMutely(v) == [v EXCEPT !.terminated = TRUE]

\* Node.execute: the node of capability c has run on envelope v.  A node that
\* raises leaves next alone; its exception may have no message.
AfterNode(v, c) ==
    LET does   == setup.behaviour[c]
        ran    == [v EXCEPT !.ran = Append(@, c)]
        routed == [ran EXCEPT !.next = does.next] IN
    CASE does.kind = "ok"     -> routed
      [] does.kind = "stops"  -> TerminatedMutely(routed)
      [] does.kind = "fails"  -> [routed EXCEPT !.error = TRUE]
      [] does.kind = "raises" -> Terminated(ran)
      [] does.kind = "mute"   -> TerminatedMutely(ran)

OutcomeOf(c) ==
    CASE setup.behaviour[c].kind \in {"ok", "stops"} -> "ok"
      [] setup.behaviour[c].kind = "mute"            -> "mute"
      [] OTHER                                       -> "failed"

NodeTrouble(c) ==
    CASE setup.behaviour[c].kind = "ok"    -> {}
      [] setup.behaviour[c].kind = "stops" -> {"stopped"}
      [] OTHER                             -> {OutcomeOf(c)}

-----------------------------------------------------------------------------
(***************************************************************************)
(* Pipeline.execute.  Between two looks at the clock any time may pass.    *)
(***************************************************************************)
Pipelined(e) == setup.loop[e] = "pipeline"

\* Mutant of Begin: an envelope with a history goes back to its last node.
BeginAgain(e) ==
    /\ Pipelined(e) /\ pc[e] = "new"
    /\ env' = [env EXCEPT ![e].next =
          IF setup.resumes /\ env[e].ran # <<>> THEN env[e].ran[Len(env[e].ran)] ELSE @]
    /\ Goto(e, "top")
    /\ UNCHANGED <<setup, router, iterations, late, node, outcome, trouble, answer,
                   stored, results>>

\* An envelope with a history but nowhere to go runs its last node again.
Begin(e) ==
    /\ Pipelined(e) /\ pc[e] = "new"
    /\ env' = [env EXCEPT ![e].next =
          IF @ = Nowhere /\ setup.resumes /\ env[e].ran # <<>>
          THEN env[e].ran[Len(env[e].ran)] ELSE @]
    /\ Goto(e, "top")
    /\ UNCHANGED <<setup, router, iterations, late, node, outcome, trouble, answer,
                   stored, results>>

DeadlinePasses(e) ==
    /\ Pipelined(e) /\ setup.timed /\ ~late[e] /\ pc[e] \notin {"new", "done"}
    /\ late' = [late EXCEPT ![e] = TRUE]
    /\ UNCHANGED <<setup, router, pc, env, iterations, node, outcome, trouble, answer,
                   stored, results>>

\* _enforce_deadline, wherever the loop calls it.
EnforceDeadline(e) ==
    /\ Pipelined(e) /\ late[e]
    /\ \/ pc[e] \in {"node", "after"}
       \/ pc[e] = "top" /\ InLoop(e)
    /\ env' = [env EXCEPT ![e] = Terminated(@)]
    /\ Note(e, "late")
    /\ Goto(e, "final")
    /\ UNCHANGED <<setup, router, iterations, late, node, outcome, answer, stored,
                   results>>

\* The number of iterations that is one too many; a mutant that never gets there.
NoLimit        == MaxIterations + 2
FirstForbidden == MaxIterations + 1

\* The top of the loop: count, and resolve the capability.
Iterate(e) ==
    LET n == iterations[e] + 1 IN
    /\ Pipelined(e) /\ pc[e] = "top" /\ InLoop(e) /\ ~late[e]
    /\ iterations' = [iterations EXCEPT ![e] = n]
    /\ IF n < FirstForbidden /\ Resolvable(env[e].next)
       THEN /\ node' = [node EXCEPT ![e] = Resolve(env[e].next)]
            /\ Goto(e, "node")
            /\ UNCHANGED <<env, trouble>>
       ELSE /\ env' = [env EXCEPT ![e] = Terminated(@)]
            /\ Note(e, IF n < FirstForbidden THEN "missing" ELSE "limit")
            /\ Goto(e, "final")
            /\ UNCHANGED node
    /\ UNCHANGED <<setup, router, late, outcome, answer, stored, results>>

RunNode(e) ==
    LET c == node[e] IN
    /\ Pipelined(e) /\ pc[e] = "node" /\ ~late[e]
    /\ env' = [env EXCEPT ![e] = AfterNode(@, c)]
    /\ outcome' = [outcome EXCEPT ![e] = OutcomeOf(c)]
    /\ trouble' = [trouble EXCEPT ![e] = @ \cup NodeTrouble(c)]
    /\ Goto(e, "after")
    /\ UNCHANGED <<setup, router, iterations, late, node, answer, stored, results>>

\* The node runs out of time, finds no room in the executor, or none at all any
\* more: module NodeExecution.  Only the last raises out of the loop.
RefuseNode(e) ==
    /\ Pipelined(e) /\ pc[e] = "node" /\ ~late[e]
    /\ env' = [env EXCEPT ![e] = Terminated(@)]
    /\ outcome' = [outcome EXCEPT ![e] = "failed"]
    /\ Note(e, "refused")
    /\ \E step \in {"after", "final"} : Goto(e, step)
    /\ UNCHANGED <<setup, router, iterations, late, node, answer, stored, results>>

\* A failure ends the loop unless it may continue; and so does an envelope that
\* a failing node has terminated.
AfterHook(e) ==
    /\ Pipelined(e) /\ pc[e] = "after" /\ ~late[e]
    /\ IF outcome[e] = "ok" \/ setup.continues
       THEN Goto(e, "top") /\ UNCHANGED env
       ELSE /\ env' = [env EXCEPT ![e] = IF outcome[e] = "mute" THEN TerminatedMutely(@)
                                                                ELSE Terminated(@)]
            /\ Goto(e, "final")
    /\ UNCHANGED <<setup, router, iterations, late, node, outcome, trouble, answer,
                   stored, results>>

LeaveLoop(e) ==
    /\ Pipelined(e) /\ pc[e] = "top" /\ ~InLoop(e)
    /\ Goto(e, "final")
    /\ UNCHANGED <<setup, router, env, iterations, late, node, outcome, trouble, answer,
                   stored, results>>

\* The envelope the verdict is about; a mutant without the last look at the clock.
FinalSoon(e) == env[e]
Final(e)     == IF late[e] THEN Terminated(env[e]) ELSE env[e]

\* success = not terminated or error is None.
Conclude(e) ==
    /\ Pipelined(e) /\ pc[e] = "final"
    /\ env' = [env EXCEPT ![e] = Final(e)]
    /\ answer' = [answer EXCEPT ![e] =
          IF ~Final(e).terminated \/ ~Final(e).error THEN "success" ELSE "failure"]
    /\ trouble' = [trouble EXCEPT ![e] = IF late[e] THEN @ \cup {"late"} ELSE @]
    /\ Goto(e, "done")
    /\ UNCHANGED <<setup, router, iterations, late, node, outcome, stored, results>>

-----------------------------------------------------------------------------
(***************************************************************************)
(* PrismEngine.execute, and ReplayEngine.restore before it.                *)
(***************************************************************************)
SameHash(e, f)   == setup.hash[e] = setup.hash[f]
SameIntent(e, f) == setup.hash[e][1] = setup.hash[f][1]

\* SemanticCache.get: what is stored under the very intent and input, else under
\* the first input of a similar intent.  The latest envelope of an input counts.
Latest(f)  == stored[Max({i \in DOMAIN stored : SameHash(stored[i], f)})]
Similar(e) == {i \in DOMAIN stored : SameIntent(stored[i], e)}
Lookup(e)  ==
    IF \E i \in DOMAIN stored : SameHash(stored[i], e) THEN Latest(e)
    ELSE Latest(stored[Min(Similar(e))])

Entering(e) ==
    \/ setup.loop[e] = "engine" /\ pc[e] = "new"
    \/ pc[e] = "ready"

Answered(e) ==
    /\ Entering(e) /\ Similar(e) # {}
    /\ answer' = [answer EXCEPT ![e] = Lookup(e)]
    /\ Goto(e, "done")
    /\ UNCHANGED <<setup, router, env, iterations, late, node, outcome, trouble, stored,
                   results>>

Walk(e) ==
    /\ Entering(e) /\ Similar(e) = {}
    /\ Goto(e, "top")
    /\ UNCHANGED <<setup, router, env, iterations, late, node, outcome, trouble, answer,
                   stored, results>>

\* ExecutionPlan.next
PlanNext(v) == [v EXCEPT !.next = Head(v.plan), !.plan = Tail(@)]

\* The plan has the next capability when the nodes do not say.
Refill(v) ==
    IF v.next = Nowhere /\ v.plan # <<>>
    THEN PlanNext(v) ELSE v

Hopping(e) == ~Pipelined(e) /\ pc[e] = "top" /\ InLoop(e)
IsRemote(e) == env[e].next \in setup.remote

\* One hop, here or remotely; a failure that does not terminate the envelope is
\* passed over.  (bound: iterations counts the hops that the code does not.)
Hop(e) ==
    LET c == IF IsRemote(e) THEN env[e].next ELSE Resolve(env[e].next) IN
    /\ Hopping(e) /\ (IsRemote(e) \/ Resolvable(env[e].next))
    /\ iterations[e] <= MaxIterations
    /\ iterations' = [iterations EXCEPT ![e] = @ + 1]
    /\ env' = [env EXCEPT ![e] = Refill(AfterNode(@, c))]
    /\ trouble' = [trouble EXCEPT ![e] = @ \cup NodeTrouble(c)]
    /\ UNCHANGED <<setup, router, pc, late, node, outcome, answer, stored, results>>

NotFound(e) ==
    /\ Hopping(e) /\ ~IsRemote(e) /\ ~Resolvable(env[e].next)
    /\ env' = [env EXCEPT ![e] = Terminated(@)]
    /\ Note(e, "missing")
    /\ UNCHANGED <<setup, router, pc, iterations, late, node, outcome, answer, stored,
                   results>>

\* The other side does not answer: the exception is the caller's.
RemoteFails(e) ==
    /\ Hopping(e) /\ IsRemote(e)
    /\ answer' = [answer EXCEPT ![e] = "error"]
    /\ Note(e, "refused")
    /\ Goto(e, "done")
    /\ UNCHANGED <<setup, router, env, iterations, late, node, outcome, stored, results>>

\* Mutant of Finish: a walk that went nowhere is cached too.
FinishAny(e) ==
    /\ ~Pipelined(e) /\ pc[e] = "top" /\ ~InLoop(e)
    /\ stored' = Append(stored, e)
    /\ answer' = [answer EXCEPT ![e] = e]
    /\ Goto(e, "done")
    /\ UNCHANGED <<setup, router, env, iterations, late, node, outcome, trouble, results>>

\* Remembered, and cached if any node has run.
Finish(e) ==
    /\ ~Pipelined(e) /\ pc[e] = "top" /\ ~InLoop(e)
    /\ stored' = IF env[e].ran = <<>> THEN stored ELSE Append(stored, e)
    /\ answer' = [answer EXCEPT ![e] = e]
    /\ Goto(e, "done")
    /\ UNCHANGED <<setup, router, env, iterations, late, node, outcome, trouble, results>>

\* The final snapshot of a request has everything but that it was terminated; so
\* has that of a fork of it.
Snapshot(v) == [v EXCEPT !.terminated = FALSE, !.error = FALSE]

\* replay_from: back to right after capability c ran first, and there to run it
\* again; to the beginning, if it did not run.
ReplayFrom(v, c) ==
    LET runs == {i \in DOMAIN v.ran : v.ran[i] = c} IN
    [v EXCEPT !.next = c, !.ran = IF runs = {} THEN <<>> ELSE SubSeq(@, 1, Min(runs))]

\* A snapshot becomes an envelope again, as it is or from some capability on.
Restore(e) ==
    /\ setup.loop[e] = "replay" /\ pc[e] = "new"
    /\ \E f \in Envelopes \ {e} :
          /\ answer[f] = f /\ SameHash(e, f)
          /\ \E v \in {Snapshot(env[f])} \cup
                   {ReplayFrom(Snapshot(env[f]), c) : c \in Capabilities} :
                env' = [env EXCEPT ![e] = v]
    /\ Goto(e, "ready")
    /\ UNCHANGED <<setup, router, iterations, late, node, outcome, trouble, answer,
                   stored, results>>

-----------------------------------------------------------------------------
(***************************************************************************)
(* ParallelExecutor.execute_parallel: one branch after the other, since no *)
(* branch awaits anything.                                                 *)
(***************************************************************************)
Branching(e) == setup.loop[e] = "parallel" /\ pc[e] = "new"

\* Hop n of a branch: the refused one gets no room or no time for its node.
BranchHop(v, n, refused) ==
    IF v.next = Nowhere \/ v.terminated THEN v
    ELSE IF n = refused \/ ~Resolvable(v.next) THEN Terminated(v)
    ELSE AfterNode(v, Resolve(v.next))

\* A branch from v on, hop by hop, if the hop with the number refused is refused.
Branch(v, refused) ==
    LET at[n \in 0..MaxIterations] ==
          IF n = 0 THEN v ELSE BranchHop(at[n - 1], n, refused)
    IN at

\* A branch goes on in a copy of the envelope until it has ended.  (bound: one of
\* more than MaxIterations hops is not explored; the code has no limit.)
RunBranch(e) ==
    LET i    == Len(results[e]) + 1
        from == [env[e] EXCEPT !.next = setup.branches[e][i]] IN
    /\ Branching(e) /\ i <= Len(setup.branches[e])
    /\ \E refused \in 1..(MaxIterations + 1) :
          LET end == Branch(from, refused)[MaxIterations] IN
          /\ end.next = Nowhere \/ end.terminated
          /\ results' = [results EXCEPT ![e] = Append(@, end)]
    /\ UNCHANGED <<setup, router, pc, env, iterations, late, node, outcome, trouble,
                   answer, stored>>

\* The states of the branches that were not terminated become part of the
\* envelope's; nothing is said of the others.
Merge(e) ==
    /\ Branching(e) /\ Len(results[e]) = Len(setup.branches[e])
    /\ answer' = [answer EXCEPT ![e] = "merged"]
    /\ Goto(e, "done")
    /\ UNCHANGED <<setup, router, env, iterations, late, node, outcome, trouble, stored,
                   results>>

-----------------------------------------------------------------------------
PipelineStep(e) ==
    \/ Begin(e) \/ EnforceDeadline(e) \/ Iterate(e) \/ RunNode(e) \/ RefuseNode(e)
    \/ AfterHook(e) \/ LeaveLoop(e) \/ Conclude(e)

EngineStep(e) ==
    \/ Answered(e) \/ Walk(e) \/ Hop(e) \/ NotFound(e) \/ RemoteFails(e) \/ Finish(e)

Next ==
    \/ \E e \in Envelopes :
          \/ PipelineStep(e) \/ DeadlinePasses(e)
          \/ EngineStep(e) \/ Restore(e)
          \/ RunBranch(e) \/ Merge(e)
    \/ ChangeRouter

Spec == Init /\ [][Next]_vars

-----------------------------------------------------------------------------
(***************************************************************************)
(* Properties.                                                             *)
(***************************************************************************)
\* A pipeline reports success only of a run that was done in time, within the
\* iterations allowed, found and got through all its nodes; failures are passed
\* over only if the pipeline is told to go on, or if the exception that ended it
\* has no message.  And it reports a failure only if there was one.
PipelineVerdict ==
    \A e \in Envelopes :
        /\ answer[e] = "success" =>
              /\ ~late[e]
              /\ trouble[e] \subseteq {"stopped", "mute", "failed"}
              /\ "failed" \in trouble[e] => setup.continues
        /\ answer[e] = "failure" => trouble[e] \ {"stopped", "mute"} # {}

\* What a name stands for.
Target(name) == IF name \in DOMAIN AliasOf THEN AliasOf[name] ELSE name

\* The capability envelope e goes to after r.next, and the rest of its plan.
RouteHop(e, r) ==
    LET v == [r EXCEPT !.next = setup.behaviour[Target(r.next)].next] IN
    IF r.next = Nowhere THEN r
    ELSE IF setup.loop[e] = "engine" THEN Refill(v) ELSE v

\* Where it goes from a capability, hop by hop, if nothing comes in between.
Route(e, start) ==
    LET at[n \in 0..(MaxIterations + 1)] ==
          IF n = 0 THEN [next |-> start, plan |-> setup.plan[e]]
          ELSE RouteHop(e, at[n - 1])
    IN at

Hops(e, v) == Len(v.ran) - Len(setup.past[e])

\* v is e's envelope, and has been where its nodes lead from start, and nowhere else.
Follows(e, v, start) ==
    \A i \in 1..Hops(e, v) : v.ran[Len(setup.past[e]) + i] = Target(Route(e, start)[i - 1].next)

\* Where it starts: a resumed pipeline with nowhere to go, at its last node.
Start(e) ==
    LET was   == setup.past[e]
        again == Pipelined(e) /\ setup.resumes /\ setup.first[e] = Nowhere IN
    IF again /\ was # <<>> THEN was[Len(was)] ELSE setup.first[e]

\* "Routing: Envelope.next determines next capability": the nodes that ran are
\* those the nodes before them (and the plan) lead to, each once for each time
\* they do, whatever clock and router did in between; a pipeline never goes
\* through more of them than it may.  The branches of an envelope do not see each
\* other, and one whose state is merged went to its end with no node stopping it.
FollowsRouting ==
    \A e \in Envelopes :
        /\ setup.loop[e] # "replay" =>
              /\ Follows(e, env[e], Start(e))
              /\ Hops(e, env[e]) <= iterations[e]
              /\ Pipelined(e) => Hops(e, env[e]) <= MaxIterations
        /\ \A i \in DOMAIN results[e] :
              LET v == results[e][i]  from == setup.branches[e][i] IN
              /\ Follows(e, v, from)
              /\ ~v.terminated =>
                    /\ Route(e, from)[Hops(e, v)].next = Nowhere
                    /\ \A j \in 1..Hops(e, v) :
                          setup.behaviour[Target(Route(e, from)[j - 1].next)].kind
                             \in {"ok", "fails"}

\* What answers a request of the engine, a request or a replay of one, is the
\* final envelope of a walk that went through some node and ended, its own or
\* that of a request with a similar intent.
AnswersAreWalks ==
    \A e \in Envelopes : answer[e] \in Envelopes =>
        LET f == answer[e] IN
        /\ answer[f] = f /\ ~InLoop(f) /\ SameIntent(e, f)
        /\ f # e => env[f].ran # <<>>
=============================================================================
