------------------------ MODULE EnvelopeLoops_proofs ------------------------
(***************************************************************************)
(* Proofs about EnvelopeLoops, for any number of envelopes, any nodes,     *)
(* aliases and plans, any limit on the iterations, and a router that       *)
(* changes at any time.                                                    *)
(***************************************************************************)
EXTENDS EnvelopeLoops, SequenceTheorems, WellFoundedInduction, TLAPS

\* Trouble that ends a run, whatever the options of the pipeline.
Fatal == {"late", "limit", "missing", "refused"}

\* What a pipeline has seen go wrong, and what it has made of it.
VerdictKept(e) ==
    /\ answer[e] \in {"success", "failure"} => Pipelined(e)
    /\ pc[e] = "ready" => setup.loop[e] = "replay"
    /\ pc[e] \notin {"new", "done"} => setup.loop[e] \in {"pipeline", "engine", "replay"}
    /\ pc[e] = "done" <=> answer[e] # NoEnvelope
    /\ Pipelined(e) =>
          /\ pc[e] \notin {"final", "done"} => iterations[e] <= MaxIterations
          /\ pc[e] = "node" => node[e] \in Capabilities /\ InLoop(e)
          /\ trouble[e] \cap Fatal # {} => env[e].terminated /\ env[e].error
          /\ "failed" \in trouble[e] /\ ~setup.continues =>
                \/ env[e].terminated /\ env[e].error
                \/ pc[e] = "after" /\ outcome[e] = "failed"
          /\ env[e].error \/ (pc[e] = "after" /\ outcome[e] = "failed") =>
                trouble[e] \ {"stopped", "mute"} # {}
          /\ answer[e] = "success" => ~late[e] /\ ~(env[e].terminated /\ env[e].error)
          /\ answer[e] = "failure" => env[e].error

\* What is in the semantic cache: ended walks that went through some node.
StoredKept ==
    \A i \in DOMAIN stored :
        LET f == stored[i] IN answer[f] = f /\ ~InLoop(f) /\ env[f].ran # <<>>

\* Where an envelope has been, and where it is about to go.
RouteKept(e) ==
    LET done == Hops(e, env[e])  at == Route(e, Start(e)) IN
    setup.loop[e] # "replay" =>
        /\ done \in 0..iterations[e]
        /\ Pipelined(e) => done <= MaxIterations
        /\ pc[e] = "new" =>
              /\ env[e].ran = setup.past[e] /\ env[e].next = setup.first[e]
              /\ env[e].plan = setup.plan[e]
        /\ Follows(e, env[e], Start(e))
        /\ pc[e] # "new" /\ ~env[e].terminated =>
              /\ env[e].next = at[done].next
              /\ setup.loop[e] = "engine" => env[e].plan = at[done].plan
        /\ Pipelined(e) /\ pc[e] = "node" => node[e] = Target(env[e].next) /\ done < iterations[e]

\* Where the branches of an envelope have been.
BranchEnded(e, v, from) ==
    /\ Follows(e, v, from)
    /\ ~v.terminated =>
          /\ Route(e, from)[Hops(e, v)].next = Nowhere
          /\ \A j \in 1..Hops(e, v) :
                setup.behaviour[Target(Route(e, from)[j - 1].next)].kind \in {"ok", "fails"}

BranchesKept(e) ==
    /\ setup.loop[e] # "parallel" => results[e] = <<>>
    /\ Len(results[e]) <= Len(setup.branches[e])
    /\ \A i \in DOMAIN results[e] : BranchEnded(e, results[e][i], setup.branches[e][i])

IInv ==
    /\ TypeOK /\ StoredKept /\ AnswersAreWalks
    /\ \A e \in Envelopes : VerdictKept(e) /\ RouteKept(e) /\ BranchesKept(e)

-----------------------------------------------------------------------------
(***************************************************************************)
(* Natural numbers, and functions defined step by step.                    *)
(***************************************************************************)
LEMMA LeastNumber ==
    ASSUME NEW T, T \subseteq Nat, T # {}
    PROVE  \E m \in T : \A n \in T : m <= n
<1>1. IsWellFoundedOn(OpToRel(<, Nat), Nat)
  BY NatLessThanWellFounded
<1>2. PICK m \in T : \A y \in T : ~(<<y, m>> \in OpToRel(<, Nat))
  BY <1>1, WFMin, Zenon
<1>3. \A i, j \in Nat : i < j => <<i, j>> \in OpToRel(<, Nat)
  BY DEF OpToRel
<1>4. \A n \in T : ~(n < m)
  BY <1>2, <1>3
<1> QED
  BY <1>4

LEMMA MinFacts ==
    ASSUME NEW T, T \subseteq Nat, T # {}
    PROVE  Min(T) \in T /\ \A n \in T : Min(T) <= n
<1>1. \E m \in T : \A n \in T : m <= n
  BY LeastNumber
<1> QED
  BY <1>1 DEF Min

LEMMA MaxFacts ==
    ASSUME NEW N \in Nat, NEW T, T \subseteq 1..N, T # {}
    PROVE  Max(T) \in T /\ \A n \in T : Max(T) >= n
<1> DEFINE U == {N - t : t \in T}
<1>1. U \subseteq Nat /\ U # {}
  <2>1. \A t \in T : N - t \in Nat
    OBVIOUS
  <2> QED
    BY <2>1
<1> HIDE DEF U
<1>2. PICK u \in U : \A x \in U : u <= x
  BY <1>1, LeastNumber
<1>3. PICK m \in T : u = N - m
  BY DEF U
<1>4. \A n \in T : m >= n
  <2> SUFFICES ASSUME NEW n \in T PROVE m >= n
    OBVIOUS
  <2>1. N - n \in U /\ n \in 1..N /\ m \in 1..N
    BY DEF U
  <2> QED
    BY <1>2, <1>3, <2>1
<1> QED
  BY <1>4 DEF Max

\* Step by step, every number of steps can be taken.
LEMMA Stepwise ==
    ASSUME NEW S, NEW x \in S, NEW N \in Nat, NEW step \in [1..N -> [S -> S]]
    PROVE  \E f \in [0..N -> S] : f[0] = x /\ \A n \in 1..N : f[n] = step[n][f[n - 1]]
<1> DEFINE Is(f, m) ==
             f \in [0..m -> S] /\ f[0] = x /\ \A n \in 1..m : f[n] = step[n][f[n - 1]]
           T == {m \in 0..N : ~\E f : Is(f, m)}
<1>1. ASSUME T # {} PROVE FALSE
  <2>1. T \subseteq Nat
    OBVIOUS
  <2> HIDE DEF T
  <2>2. PICK m \in T : \A n \in T : m <= n
    BY <1>1, <2>1, LeastNumber
  <2>3. m \in 0..N /\ ~\E f : Is(f, m)
    BY <2>2 DEF T
  <2>4. m # 0
    <3>1. Is([i \in 0..0 |-> x], 0)
      OBVIOUS
    <3> QED
      BY <2>3, <3>1
  <2>5. \E f : Is(f, m - 1)
    <3> HIDE DEF Is
    <3>1. m - 1 \in 0..N /\ ~(m <= m - 1)
      BY <2>3, <2>4
    <3> QED
      BY <2>2, <3>1 DEF T
  <2>6. PICK f : Is(f, m - 1)
    BY <2>5
  <2> DEFINE g == [i \in 0..m |-> IF i = m THEN step[m][f[m - 1]] ELSE f[i]]
  <2>7. g \in [0..m -> S] /\ g[0] = x
    BY <2>3, <2>4, <2>6
  <2>8. \A n \in 1..m : g[n] = step[n][g[n - 1]]
    BY <2>3, <2>4, <2>6
  <2>9. Is(g, m)
    BY <2>7, <2>8
  <2> QED
    BY <2>3, <2>9
<1>2. \E f : Is(f, N)
  <2> HIDE DEF Is
  <2> QED
    BY <1>1
<1> QED
  BY <1>2

\* What holds at the start and after each step holds all along: the steps at
\* which it does, taken as a set.
LEMMA Throughout ==
    ASSUME NEW N \in Nat, NEW T, 0 \in T, \A n \in 1..N : n - 1 \in T => n \in T
    PROVE  0..N \subseteq T
<1> DEFINE U == {n \in 0..N : n \notin T}
<1>1. ASSUME U # {} PROVE FALSE
  <2>1. PICK m \in U : \A n \in U : m <= n
    <3>1. U \subseteq Nat
      OBVIOUS
    <3> HIDE DEF U
    <3> QED
      BY <1>1, <3>1, LeastNumber
  <2>2. m \in 1..N /\ m - 1 \in 0..N /\ m - 1 \notin U
    BY <2>1
  <2> QED
    BY <2>1, <2>2
<1> QED
  BY <1>1

-----------------------------------------------------------------------------
(***************************************************************************)
(* What a run is about, and what nodes do.                                 *)
(***************************************************************************)
LEMMA SetupFacts ==
    ASSUME setup \in Setups
    PROVE  /\ setup.remote \subseteq Capabilities
           /\ \A c \in Capabilities :
                 /\ setup.behaviour[c].kind \in {"ok", "stops", "fails", "raises", "mute"}
                 /\ setup.behaviour[c].next \in Names \cup {Nowhere}
           /\ \A e \in Envelopes :
                 /\ setup.first[e] \in Names \cup {Nowhere}
                 /\ setup.past[e] \in Seq(Capabilities)
                 /\ setup.plan[e] \in Seq(Names) /\ setup.branches[e] \in Seq(Names)
                 /\ setup.loop[e] \in {"pipeline", "engine", "replay", "parallel", "unused"}
           /\ setup.continues \in BOOLEAN /\ setup.resumes \in BOOLEAN
<1>1. setup \in Setup
  BY LoopsAssumption
<1> QED
  BY <1>1 DEF Setup, NodeKinds

LEMMA NameFacts ==
    /\ Capabilities \subseteq Names /\ Nowhere \notin Names
    /\ \A x \in Names : Target(x) \in Capabilities
    /\ Target(Nowhere) = Nowhere
BY LoopsAssumption DEF Names, Target

\* A name that can be resolved is resolved to what it stands for.
LEMMA ResolveFacts ==
    ASSUME aliases \subseteq DOMAIN AliasOf, registered \subseteq Capabilities,
           NEW x \in Names \cup {Nowhere}, Resolvable(x)
    PROVE  Resolve(x) \in Capabilities /\ Resolve(x) = Target(x)
BY LoopsAssumption DEF Names, Target, Resolvable, Resolve

LEMMA AfterNodeFacts ==
    ASSUME setup \in Setups, NEW v \in Envelope, NEW c \in Capabilities
    PROVE  LET w == AfterNode(v, c)  kind == setup.behaviour[c].kind IN
           /\ w \in Envelope /\ w.ran = Append(v.ran, c) /\ w.plan = v.plan
           /\ kind \in {"ok", "stops", "fails"} => w.next = setup.behaviour[c].next
           /\ w.terminated <=> v.terminated \/ kind \in {"stops", "raises", "mute"}
           /\ w.error <=> v.error \/ kind \in {"fails", "raises"}
<1> DEFINE kind == setup.behaviour[c].kind  next == setup.behaviour[c].next
<1>1. kind \in {"ok", "stops", "fails", "raises", "mute"} /\ next \in Names \cup {Nowhere}
  BY SetupFacts
<1>2. /\ v.ran \in Seq(Capabilities) /\ v.plan \in Seq(Names) /\ v.next \in Names \cup {Nowhere}
      /\ v.terminated \in BOOLEAN /\ v.error \in BOOLEAN
  BY DEF Envelope
<1>3. Append(v.ran, c) \in Seq(Capabilities)
  BY <1>2
<1> DEFINE run == Append(v.ran, c)
           ran == [v EXCEPT !.ran = run]
           routed == [ran EXCEPT !.next = next]
<1>4. AfterNode(v, c) =
         CASE kind = "ok"     -> routed
           [] kind = "stops"  -> TerminatedMutely(routed)
           [] kind = "fails"  -> [routed EXCEPT !.error = TRUE]
           [] kind = "raises" -> Terminated(ran)
           [] kind = "mute"   -> TerminatedMutely(ran)
  BY DEF AfterNode
<1> HIDE DEF kind, next, run
<1>5. CASE kind = "ok"
  BY <1>2, <1>1, <1>3, <1>4, <1>5 DEF Envelope, run, kind, next
<1>6. CASE kind = "stops"
  BY <1>2, <1>1, <1>3, <1>4, <1>6 DEF Envelope, run, kind, next, TerminatedMutely
<1>7. CASE kind = "fails"
  BY <1>2, <1>1, <1>3, <1>4, <1>7 DEF Envelope, run, kind, next
<1>8. CASE kind = "raises"
  BY <1>2, <1>1, <1>3, <1>4, <1>8 DEF Envelope, run, kind, next, Terminated
<1>9. CASE kind = "mute"
  BY <1>2, <1>1, <1>3, <1>4, <1>9 DEF Envelope, run, kind, next, TerminatedMutely
<1> QED
  BY <1>1, <1>5, <1>6, <1>7, <1>8, <1>9

LEMMA TerminatedTyped ==
    ASSUME NEW v \in Envelope
    PROVE  /\ Terminated(v) \in Envelope /\ TerminatedMutely(v) \in Envelope
           /\ Terminated(v).terminated /\ Terminated(v).error /\ TerminatedMutely(v).terminated
           /\ Terminated(v).ran = v.ran /\ TerminatedMutely(v).ran = v.ran
           /\ Terminated(v).next = v.next /\ TerminatedMutely(v).next = v.next
           /\ TerminatedMutely(v).error <=> v.error
BY DEF Envelope, Terminated, TerminatedMutely

LEMMA RefillTyped ==
    ASSUME NEW v \in Envelope
    PROVE  /\ Refill(v) \in Envelope /\ Refill(v).ran = v.ran
           /\ Refill(v).terminated = v.terminated /\ Refill(v).error = v.error
<1>1. v.plan \in Seq(Names)
  BY DEF Envelope
<1>2. CASE v.next = Nowhere /\ v.plan # <<>>
  <2>1. Head(v.plan) \in Names /\ Tail(v.plan) \in Seq(Names)
    BY <1>1, <1>2
  <2> QED
    BY <1>2, <2>1 DEF Envelope, Refill, PlanNext
<1> QED
  BY <1>2 DEF Refill

-----------------------------------------------------------------------------
(***************************************************************************)
(* Routes and branches.                                                    *)
(***************************************************************************)
RouteState == [next : Names \cup {Nowhere}, plan : Seq(Names)]

LEMMA RouteHopTyped ==
    ASSUME setup \in Setups, NEW e \in Envelopes, NEW r \in RouteState
    PROVE  RouteHop(e, r) \in RouteState
<1> DEFINE v == [r EXCEPT !.next = setup.behaviour[Target(r.next)].next]
<1>1. CASE r.next = Nowhere
  BY <1>1 DEF RouteHop
<1>2. CASE r.next # Nowhere
  <2>1. Target(r.next) \in Capabilities
    BY <1>2, NameFacts DEF RouteState
  <2>2. v \in RouteState
    BY <2>1, SetupFacts DEF RouteState
  <2> HIDE DEF v
  <2>3. Refill(v) \in RouteState
    <3>1. CASE v.next = Nowhere /\ v.plan # <<>>
      <4>1. v.plan \in Seq(Names)
        BY <2>2 DEF RouteState
      <4>2. Head(v.plan) \in Names /\ Tail(v.plan) \in Seq(Names)
        BY <3>1, <4>1
      <4> QED
        BY <2>2, <3>1, <4>2 DEF Refill, PlanNext, RouteState
    <3> QED
      BY <2>2, <3>1 DEF Refill
  <2>4. RouteHop(e, r) = IF setup.loop[e] = "engine" THEN Refill(v) ELSE v
    BY <1>2 DEF RouteHop, v
  <2> QED
    BY <2>2, <2>3, <2>4
<1> QED
  BY <1>1, <1>2

\* A route is taken hop by hop.
LEMMA RouteFacts ==
    ASSUME setup \in Setups, NEW e \in Envelopes, NEW start \in Names \cup {Nowhere}
    PROVE  /\ Route(e, start) \in [0..(MaxIterations + 1) -> RouteState]
           /\ Route(e, start)[0] = [next |-> start, plan |-> setup.plan[e]]
           /\ \A n \in 1..(MaxIterations + 1) :
                 Route(e, start)[n] = RouteHop(e, Route(e, start)[n - 1])
<1> DEFINE N     == MaxIterations + 1
           r0    == [next |-> start, plan |-> setup.plan[e]]
           step  == [n \in 1..N |-> [r \in RouteState |-> RouteHop(e, r)]]
           Is(f) == f = [n \in 0..N |-> IF n = 0 THEN r0 ELSE RouteHop(e, f[n - 1])]
<1>1. N \in Nat /\ r0 \in RouteState
  BY SetupFacts, LoopsAssumption DEF RouteState
<1>2. step \in [1..N -> [RouteState -> RouteState]]
  BY RouteHopTyped
<1>3. \A n \in 1..N, r \in RouteState : step[n][r] = RouteHop(e, r)
  OBVIOUS
<1>4. Route(e, start) = CHOOSE f : Is(f)
  BY DEF Route
<1> HIDE DEF N, r0, RouteState, step
<1>5. \E f \in [0..N -> RouteState] : f[0] = r0 /\ \A n \in 1..N : f[n] = step[n][f[n - 1]]
  BY <1>1, <1>2, Stepwise
<1>6. PICK f \in [0..N -> RouteState] : f[0] = r0 /\ \A n \in 1..N : f[n] = step[n][f[n - 1]]
  BY <1>5
<1>7. ASSUME NEW n \in 1..N PROVE f[n] = RouteHop(e, f[n - 1])
  <2>1. f[n - 1] \in RouteState /\ f[n] = step[n][f[n - 1]]
    BY <1>1, <1>6
  <2> QED
    BY <1>3, <2>1
<1>8. Is(f)
  <2>1. \A n \in 0..N : f[n] = IF n = 0 THEN r0 ELSE RouteHop(e, f[n - 1])
    BY <1>1, <1>6, <1>7
  <2> QED
    BY <2>1
<1>9. Is(Route(e, start))
  BY <1>4, <1>8
<1>10. ASSUME NEW g, Is(g)
       PROVE  g[0] = r0 /\ \A n \in 1..N : g[n] = RouteHop(e, g[n - 1])
  BY <1>1, <1>10
<1> DEFINE at == Route(e, start)
<1>11. at[0] = r0 /\ \A n \in 1..N : at[n] = RouteHop(e, at[n - 1])
  BY <1>9, <1>10
<1>12. at \in [0..N -> RouteState]
  <2> DEFINE T == {n \in 0..N : at[n] \in RouteState}
  <2>1. 0 \in T
    BY <1>1, <1>11
  <2>2. \A n \in 1..N : n - 1 \in T => n \in T
    BY <1>1, <1>11, RouteHopTyped
  <2> HIDE DEF T
  <2>3. 0..N \subseteq T
    BY <1>1, <2>1, <2>2, Throughout
  <2>4. \A n \in 0..N : at[n] \in RouteState
    BY <2>3 DEF T
  <2>5. at = [n \in 0..N |-> IF n = 0 THEN r0 ELSE RouteHop(e, at[n - 1])]
    BY <1>9
  <2> HIDE DEF at
  <2> QED
    BY <2>4, <2>5
<1> QED
  BY <1>11, <1>12 DEF N, r0

LEMMA BranchHopTyped ==
    ASSUME setup \in Setups, aliases \subseteq DOMAIN AliasOf, registered \subseteq Capabilities,
           NEW v \in Envelope, NEW n, NEW refused
    PROVE  BranchHop(v, n, refused) \in Envelope
<1>1. v.next \in Names \cup {Nowhere}
  BY DEF Envelope
<1>2. CASE v.next = Nowhere \/ v.terminated
  BY <1>2 DEF BranchHop
<1>3. CASE ~(v.next = Nowhere \/ v.terminated) /\ (n = refused \/ ~Resolvable(v.next))
  <2>1. BranchHop(v, n, refused) = Terminated(v)
    BY <1>3 DEF BranchHop
  <2> QED
    BY <2>1, TerminatedTyped
<1>4. CASE ~(v.next = Nowhere \/ v.terminated) /\ ~(n = refused \/ ~Resolvable(v.next))
  <2>1. BranchHop(v, n, refused) = AfterNode(v, Resolve(v.next)) /\ Resolve(v.next) \in Capabilities
    BY <1>1, <1>4, ResolveFacts DEF BranchHop
  <2> QED
    BY <2>1, AfterNodeFacts
<1> QED
  BY <1>2, <1>3, <1>4

\* So is a branch.
LEMMA BranchFacts ==
    ASSUME setup \in Setups, aliases \subseteq DOMAIN AliasOf, registered \subseteq Capabilities,
           NEW v \in Envelope, NEW refused \in Nat
    PROVE  /\ Branch(v, refused) \in [0..MaxIterations -> Envelope]
           /\ Branch(v, refused)[0] = v
           /\ \A n \in 1..MaxIterations :
                 Branch(v, refused)[n] = BranchHop(Branch(v, refused)[n - 1], n, refused)
<1> DEFINE N     == MaxIterations
           E     == Envelope
           step  == [n \in 1..N |-> [r \in E |-> BranchHop(r, n, refused)]]
           Is(f) == f = [n \in 0..N |-> IF n = 0 THEN v ELSE BranchHop(f[n - 1], n, refused)]
<1>1. N \in Nat /\ v \in E
  BY LoopsAssumption
<1>0. \A n \in 1..N, r \in E : BranchHop(r, n, refused) \in E
  BY BranchHopTyped
<1>2. step \in [1..N -> [E -> E]]
  BY <1>0
<1>3. \A n \in 1..N, r \in E : step[n][r] = BranchHop(r, n, refused)
  OBVIOUS
<1>4. Branch(v, refused) = CHOOSE f : Is(f)
  BY DEF Branch
<1> HIDE DEF N, E, step
<1>5. \E f \in [0..N -> E] : f[0] = v /\ \A n \in 1..N : f[n] = step[n][f[n - 1]]
  BY <1>1, <1>2, Stepwise
<1>6. PICK f \in [0..N -> E] : f[0] = v /\ \A n \in 1..N : f[n] = step[n][f[n - 1]]
  BY <1>5
<1>7. ASSUME NEW n \in 1..N PROVE f[n] = BranchHop(f[n - 1], n, refused)
  <2>1. f[n - 1] \in E /\ f[n] = step[n][f[n - 1]]
    BY <1>1, <1>6
  <2> QED
    BY <1>3, <2>1
<1>8. Is(f)
  <2>1. \A n \in 0..N : f[n] = IF n = 0 THEN v ELSE BranchHop(f[n - 1], n, refused)
    BY <1>1, <1>6, <1>7
  <2> QED
    BY <2>1
<1>9. Is(Branch(v, refused))
  BY <1>4, <1>8
<1>10. ASSUME NEW g, Is(g)
       PROVE  g[0] = v /\ \A n \in 1..N : g[n] = BranchHop(g[n - 1], n, refused)
  BY <1>1, <1>10
<1> DEFINE at == Branch(v, refused)
<1>11. at[0] = v /\ \A n \in 1..N : at[n] = BranchHop(at[n - 1], n, refused)
  BY <1>9, <1>10
<1>12. at \in [0..N -> E]
  <2> DEFINE T == {n \in 0..N : at[n] \in E}
  <2>1. 0 \in T
    BY <1>1, <1>11
  <2>2. \A n \in 1..N : n - 1 \in T => n \in T
    BY <1>0, <1>1, <1>11
  <2> HIDE DEF T
  <2>3. 0..N \subseteq T
    BY <1>1, <2>1, <2>2, Throughout
  <2>4. \A n \in 0..N : at[n] \in E
    BY <2>3 DEF T
  <2>5. at = [n \in 0..N |-> IF n = 0 THEN v ELSE BranchHop(at[n - 1], n, refused)]
    BY <1>9
  <2> HIDE DEF at
  <2> QED
    BY <2>4, <2>5
<1> QED
  BY <1>11, <1>12 DEF N, E

-----------------------------------------------------------------------------
\* What becomes of a snapshot is an envelope.
LEMMA SnapshotTyped ==
    ASSUME NEW v \in Envelope
    PROVE  /\ Snapshot(v) \in Envelope
           /\ \A c \in Capabilities : ReplayFrom(v, c) \in Envelope
<1>1. Snapshot(v) \in Envelope
  BY DEF Snapshot, Envelope
<1> SUFFICES ASSUME NEW c \in Capabilities PROVE ReplayFrom(v, c) \in Envelope
  BY <1>1
<1> DEFINE runs == {i \in DOMAIN v.ran : v.ran[i] = c}
           back == IF runs = {} THEN <<>> ELSE SubSeq(v.ran, 1, Min(runs))
<1>2. v.ran \in Seq(Capabilities)
  BY DEF Envelope
<1>3. back \in Seq(Capabilities)
  <2>1. CASE runs = {}
    BY <2>1
  <2>2. CASE runs # {}
    <3>1. runs \subseteq Nat /\ runs \subseteq 1..Len(v.ran)
      BY <1>2
    <3>2. Min(runs) \in 1..Len(v.ran)
      BY <2>2, <3>1, MinFacts
    <3> HIDE DEF runs
    <3> QED
      BY <1>2, <2>2, <3>2
  <2> QED
    BY <2>1, <2>2
<1>4. ReplayFrom(v, c) = [v EXCEPT !.next = c, !.ran = back]
  BY DEF ReplayFrom
<1> HIDE DEF back
<1>5. ReplayFrom(v, c) \in Envelope
  BY <1>3, <1>4, NameFacts DEF Envelope
<1> QED
  BY <1>1, <1>5

LEMMA NextTyped ==
    ASSUME NEW v \in Envelope, NEW x \in Names \cup {Nowhere}
    PROVE  [v EXCEPT !.next = x] \in Envelope
BY DEF Envelope

\* The last node of a history that is not empty.
LEMMA LastTyped ==
    ASSUME NEW s \in Seq(Capabilities), s # <<>>
    PROVE  s[Len(s)] \in Capabilities
OBVIOUS

\* What a lookup finds is in the cache, under a similar intent.
LEMMA LookupFacts ==
    ASSUME stored \in Seq(Envelopes), NEW e \in Envelopes, Similar(e) # {}
    PROVE  /\ Lookup(e) \in Envelopes /\ SameIntent(e, Lookup(e))
           /\ \E i \in DOMAIN stored : Lookup(e) = stored[i]
<1> DEFINE D == DOMAIN stored  like == {i \in D : SameHash(stored[i], e)}
<1>1. D = 1..Len(stored) /\ Len(stored) \in Nat /\ \A i \in D : stored[i] \in Envelopes
  OBVIOUS
<1>2. ASSUME NEW f, NEW i \in D, SameHash(stored[i], f)
      PROVE  \E j \in D : Latest(f) = stored[j] /\ SameHash(stored[j], f)
  <2> DEFINE S == {j \in D : SameHash(stored[j], f)}
  <2>1. S \subseteq 1..Len(stored) /\ S # {}
    BY <1>1, <1>2
  <2>2. Latest(f) = stored[Max(S)]
    BY DEF Latest
  <2>3. \A j \in S : j \in D /\ SameHash(stored[j], f)
    OBVIOUS
  <2> HIDE DEF S
  <2>4. Max(S) \in S
    BY <1>1, <2>1, MaxFacts
  <2> QED
    BY <2>2, <2>3, <2>4
<1>3. CASE like # {}
  <2>1. PICK j \in D : Latest(e) = stored[j] /\ SameHash(stored[j], e)
    BY <1>2, <1>3
  <2>2. Lookup(e) = Latest(e)
    BY <1>3 DEF Lookup
  <2> QED
    BY <1>1, <2>1, <2>2 DEF SameHash, SameIntent
<1>4. CASE like = {}
  <2> DEFINE g == stored[Min(Similar(e))]
  <2>1. Similar(e) \subseteq D /\ D \subseteq Nat
    BY <1>1 DEF Similar
  <2>2. Min(Similar(e)) \in D /\ Min(Similar(e)) \in Similar(e)
    BY <2>1, MinFacts
  <2>3. SameIntent(g, e) /\ SameHash(g, g)
    BY <2>2 DEF Similar, SameHash
  <2>4. PICK j \in D : Latest(g) = stored[j] /\ SameHash(stored[j], g)
    BY <1>2, <2>2, <2>3
  <2>5. Lookup(e) = Latest(g)
    BY <1>4 DEF Lookup
  <2> HIDE DEF g
  <2> QED
    BY <1>1, <2>3, <2>4, <2>5 DEF SameHash, SameIntent
<1> QED
  BY <1>3, <1>4

LEMMA StepTyped == IInv /\ [Next]_vars => TypeOK'
<1> SUFFICES ASSUME IInv, [Next]_vars PROVE TypeOK'
  OBVIOUS
<1>t. /\ setup \in Setups
      /\ registered \subseteq Capabilities /\ aliases \subseteq DOMAIN AliasOf
      /\ changes \in 0..MaxChanges
      /\ pc \in [Envelopes -> {"new", "ready", "top", "node", "after", "final", "done"}]
      /\ env \in [Envelopes -> Envelope]
      /\ results \in [Envelopes -> Seq(Envelope)]
      /\ iterations \in [Envelopes -> 0..(MaxIterations + 1)]
      /\ late \in [Envelopes -> BOOLEAN]
      /\ node \in [Envelopes -> Names \cup {Nowhere}]
      /\ outcome \in [Envelopes -> {"ok", "failed", "mute"}]
      /\ trouble \in [Envelopes -> SUBSET Troubles]
      /\ answer \in [Envelopes -> {NoEnvelope} \cup Verdicts \cup Envelopes]
      /\ stored \in Seq(Envelopes)
  BY DEF IInv, TypeOK
<1>v. \A e \in Envelopes : VerdictKept(e)
  BY DEF IInv
<1>n. /\ \A e \in Envelopes : env[e].next \in Names \cup {Nowhere}
      /\ \A e \in Envelopes : env[e].ran \in Seq(Capabilities)
      /\ MaxIterations \in Nat /\ MaxChanges \in Nat /\ Capabilities \subseteq Names
      /\ \A e \in Envelopes : Terminated(env[e]) \in Envelope
      /\ \A e \in Envelopes : TerminatedMutely(env[e]) \in Envelope
  BY <1>t, LoopsAssumption, NameFacts, TerminatedTyped DEF Envelope
<1>o. ASSUME NEW c \in Capabilities
      PROVE  OutcomeOf(c) \in {"ok", "failed", "mute"} /\ NodeTrouble(c) \subseteq Troubles
  BY DEF OutcomeOf, NodeTrouble, Troubles
<1>r. ASSUME UNCHANGED router
      PROVE  /\ registered' \subseteq Capabilities /\ aliases' \subseteq DOMAIN AliasOf
             /\ changes' \in 0..MaxChanges
  BY <1>t, <1>r DEF router
<1>1. ASSUME NEW e \in Envelopes, Begin(e) PROVE TypeOK'
  <2> DEFINE x == IF env[e].next = Nowhere /\ setup.resumes /\ env[e].ran # <<>>
                  THEN env[e].ran[Len(env[e].ran)] ELSE env[e].next
             v == [env[e] EXCEPT !.next = x]
  <2>1. v \in Envelope
    <3>1. env[e].ran # <<>> => env[e].ran[Len(env[e].ran)] \in Names
      BY <1>n, LastTyped
    <3>2. x \in Names \cup {Nowhere}
      BY <1>n, <3>1
    <3> QED
      BY <1>t, <3>2, NextTyped
  <2>2. env' = [env EXCEPT ![e] = v]
    BY <1>1 DEF Begin
  <2> HIDE DEF v, Envelope
  <2>3. env' \in [Envelopes -> Envelope]
    BY <1>t, <2>1, <2>2
  <2> QED
    BY <1>t, <1>r, <1>1, <2>3 DEF Begin, Goto, TypeOK
<1> HIDE DEF Envelope
<1>2. ASSUME NEW e \in Envelopes, DeadlinePasses(e) PROVE TypeOK'
  BY <1>t, <1>r, <1>2 DEF DeadlinePasses, TypeOK
<1>3. ASSUME NEW e \in Envelopes, EnforceDeadline(e) PROVE TypeOK'
  BY <1>t, <1>n, <1>r, <1>3 DEF EnforceDeadline, Goto, Note, Troubles, TypeOK
<1>4. ASSUME NEW e \in Envelopes, Iterate(e) PROVE TypeOK'
  <2>1. iterations[e] + 1 \in 0..(MaxIterations + 1)
    <3>1. Pipelined(e) /\ pc[e] = "top"
      BY <1>4 DEF Iterate
    <3>2. iterations[e] <= MaxIterations
      BY <1>v, <3>1 DEF VerdictKept
    <3> QED
      BY <1>t, <1>n, <3>2
  <2>2. Resolvable(env[e].next) => Resolve(env[e].next) \in Names
    BY <1>t, <1>n, ResolveFacts
  <2>3. iterations' \in [Envelopes -> 0..(MaxIterations + 1)]
    BY <1>t, <1>4, <2>1 DEF Iterate
  <2> DEFINE n == iterations[e] + 1
  <2>4. CASE n < FirstForbidden /\ Resolvable(env[e].next)
    <3>1. /\ node' = [node EXCEPT ![e] = Resolve(env[e].next)] /\ Goto(e, "node")
          /\ UNCHANGED <<env, trouble>>
      BY <1>4, <2>4 DEF Iterate
    <3> QED
      BY <1>t, <1>r, <1>4, <2>2, <2>3, <2>4, <3>1 DEF Iterate, Goto, TypeOK
  <2>5. CASE ~(n < FirstForbidden /\ Resolvable(env[e].next))
    <3>1. /\ env' = [env EXCEPT ![e] = Terminated(@)] /\ UNCHANGED node
          /\ Note(e, "missing") \/ Note(e, "limit")
          /\ Goto(e, "final")
      BY <1>4, <2>5 DEF Iterate
    <3>2. env' \in [Envelopes -> Envelope]
      BY <1>t, <1>n, <3>1
    <3>3. trouble' \in [Envelopes -> SUBSET Troubles]
      <4>1. {"missing", "limit"} \subseteq Troubles
        BY DEF Troubles
      <4>2. PICK what \in Troubles : Note(e, what)
        BY <3>1, <4>1
      <4> HIDE DEF Troubles
      <4>3. trouble' = [trouble EXCEPT ![e] = @ \cup {what}]
        BY <4>2 DEF Note
      <4> QED
        BY <1>t, <4>3
    <3> QED
      BY <1>t, <1>r, <1>4, <2>3, <3>1, <3>2, <3>3 DEF Iterate, Goto, TypeOK
  <2> QED
    BY <2>4, <2>5
<1>5. ASSUME NEW e \in Envelopes, RunNode(e) PROVE TypeOK'
  <2>1. node[e] \in Capabilities
    BY <1>v, <1>5 DEF RunNode, VerdictKept
  <2>2. AfterNode(env[e], node[e]) \in Envelope
    BY <1>t, <2>1, AfterNodeFacts
  <2> QED
    BY <1>t, <1>o, <1>r, <1>5, <2>1, <2>2 DEF RunNode, Goto, TypeOK
<1>6. ASSUME NEW e \in Envelopes, RefuseNode(e) PROVE TypeOK'
  BY <1>t, <1>n, <1>r, <1>6 DEF RefuseNode, Goto, Note, Troubles, TypeOK
<1>7. ASSUME NEW e \in Envelopes, AfterHook(e) PROVE TypeOK'
  <2>1. env' \in [Envelopes -> Envelope]
    BY <1>t, <1>n, <1>7 DEF AfterHook
  <2> QED
    BY <1>t, <1>r, <1>7, <2>1 DEF AfterHook, Goto, TypeOK
<1>8. ASSUME NEW e \in Envelopes, LeaveLoop(e) PROVE TypeOK'
  BY <1>t, <1>r, <1>8 DEF LeaveLoop, Goto, TypeOK
<1>9. ASSUME NEW e \in Envelopes, Conclude(e) PROVE TypeOK'
  <2>1. Final(e) \in Envelope
    BY <1>t, <1>n DEF Final
  <2> QED
    BY <1>t, <1>r, <1>9, <2>1 DEF Conclude, Goto, Troubles, Verdicts, TypeOK
<1>10. ASSUME NEW e \in Envelopes, Answered(e) PROVE TypeOK'
  <2>1. Lookup(e) \in Envelopes
    BY <1>t, <1>10, LookupFacts DEF Answered
  <2> QED
    BY <1>t, <1>r, <1>10, <2>1 DEF Answered, Goto, TypeOK
<1>11. ASSUME NEW e \in Envelopes, Walk(e) PROVE TypeOK'
  BY <1>t, <1>r, <1>11 DEF Walk, Goto, TypeOK
<1>12. ASSUME NEW e \in Envelopes, Hop(e) PROVE TypeOK'
  <2> DEFINE c == IF IsRemote(e) THEN env[e].next ELSE Resolve(env[e].next)
  <2>1. c \in Capabilities
    BY <1>t, <1>n, <1>12, SetupFacts, ResolveFacts DEF Hop, IsRemote
  <2>2. Refill(AfterNode(env[e], c)) \in Envelope
    BY <1>t, <2>1, AfterNodeFacts, RefillTyped
  <2>3. /\ env' = [env EXCEPT ![e] = Refill(AfterNode(@, c))]
        /\ trouble' = [trouble EXCEPT ![e] = @ \cup NodeTrouble(c)]
        /\ iterations[e] <= MaxIterations
        /\ iterations' = [iterations EXCEPT ![e] = @ + 1]
    BY <1>12 DEF Hop
  <2> HIDE DEF c
  <2>4. iterations' \in [Envelopes -> 0..(MaxIterations + 1)]
    BY <1>t, <1>n, <2>3
  <2> QED
    BY <1>t, <1>o, <1>r, <1>12, <2>1, <2>2, <2>3, <2>4 DEF Hop, TypeOK
<1>13. ASSUME NEW e \in Envelopes, NotFound(e) PROVE TypeOK'
  BY <1>t, <1>n, <1>r, <1>13 DEF NotFound, Note, Troubles, TypeOK
<1>14. ASSUME NEW e \in Envelopes, RemoteFails(e) PROVE TypeOK'
  BY <1>t, <1>r, <1>14 DEF RemoteFails, Goto, Note, Troubles, Verdicts, TypeOK
<1>15. ASSUME NEW e \in Envelopes, Finish(e) PROVE TypeOK'
  <2>1. stored' \in Seq(Envelopes)
    BY <1>t, <1>15 DEF Finish
  <2> QED
    BY <1>t, <1>r, <1>15, <2>1 DEF Finish, Goto, TypeOK
<1>16. ASSUME NEW e \in Envelopes, Restore(e) PROVE TypeOK'
  <2>1. PICK f \in Envelopes :
           \E v \in {Snapshot(env[f])} \cup
                    {ReplayFrom(Snapshot(env[f]), c) : c \in Capabilities} :
              env' = [env EXCEPT ![e] = v]
    BY <1>16 DEF Restore
  <2>2. PICK v \in {Snapshot(env[f])} \cup
                    {ReplayFrom(Snapshot(env[f]), c) : c \in Capabilities} :
              env' = [env EXCEPT ![e] = v]
    BY <2>1
  <2>3. Snapshot(env[f]) \in Envelope
    BY <1>t, SnapshotTyped
  <2>4. v \in Envelope
    BY <2>2, <2>3, SnapshotTyped
  <2> QED
    BY <1>t, <1>r, <1>16, <2>2, <2>4 DEF Restore, Goto, TypeOK
<1>17. ASSUME NEW e \in Envelopes, RunBranch(e) PROVE TypeOK'
  <2> DEFINE i    == Len(results[e]) + 1
             from == [env[e] EXCEPT !.next = setup.branches[e][i]]
  <2>1. PICK refused \in 1..(MaxIterations + 1) :
           results' = [results EXCEPT ![e] = Append(@, Branch(from, refused)[MaxIterations])]
    BY <1>17 DEF RunBranch
  <2>2. setup.branches[e][i] \in Names
    BY <1>t, <1>17, SetupFacts DEF RunBranch
  <2>3. from \in Envelope
    BY <1>t, <2>2, NextTyped
  <2> HIDE DEF from
  <2>4. Branch(from, refused)[MaxIterations] \in Envelope
    BY <1>t, <1>n, <2>3, BranchFacts
  <2>5. results' \in [Envelopes -> Seq(Envelope)]
    BY <1>t, <2>1, <2>4
  <2> QED
    BY <1>t, <1>r, <1>17, <2>5 DEF RunBranch, TypeOK
<1>18. ASSUME NEW e \in Envelopes, Merge(e) PROVE TypeOK'
  BY <1>t, <1>r, <1>18 DEF Merge, Goto, Verdicts, TypeOK
<1>19. CASE ChangeRouter
  BY <1>t, <1>n, <1>19 DEF ChangeRouter, TypeOK
<1>20. CASE UNCHANGED vars
  BY <1>t, <1>r, <1>20 DEF vars, TypeOK
<1> QED
  BY <1>1, <1>2, <1>3, <1>4, <1>5, <1>6, <1>7, <1>8, <1>9, <1>10, <1>11, <1>12, <1>13,
     <1>14, <1>15, <1>16, <1>17, <1>18, <1>19, <1>20 DEF Next, PipelineStep, EngineStep

-----------------------------------------------------------------------------
(***************************************************************************)
(* A step is taken by one envelope, or it changes the router.              *)
(***************************************************************************)
Acts(e) ==
    \/ PipelineStep(e) \/ DeadlinePasses(e) \/ EngineStep(e) \/ Restore(e)
    \/ RunBranch(e) \/ Merge(e)

Same(e) ==
    /\ pc'[e] = pc[e] /\ env'[e] = env[e] /\ iterations'[e] = iterations[e]
    /\ late'[e] = late[e] /\ node'[e] = node[e] /\ outcome'[e] = outcome[e]
    /\ trouble'[e] = trouble[e] /\ answer'[e] = answer[e] /\ results'[e] = results[e]

LEMMA ActsAlone ==
    ASSUME TypeOK, NEW e \in Envelopes, Acts(e)
    PROVE  setup' = setup /\ \A f \in Envelopes : f # e => Same(f)
<1>t. \A f \in Envelopes : f # e =>
         /\ \A x : [pc EXCEPT ![e] = x][f] = pc[f]
         /\ \A x : [env EXCEPT ![e] = x][f] = env[f]
         /\ \A x : [iterations EXCEPT ![e] = x][f] = iterations[f]
         /\ \A x : [late EXCEPT ![e] = x][f] = late[f]
         /\ \A x : [node EXCEPT ![e] = x][f] = node[f]
         /\ \A x : [outcome EXCEPT ![e] = x][f] = outcome[f]
         /\ \A x : [trouble EXCEPT ![e] = x][f] = trouble[f]
         /\ \A x : [answer EXCEPT ![e] = x][f] = answer[f]
         /\ \A x : [results EXCEPT ![e] = x][f] = results[f]
  BY DEF TypeOK
<1>d. /\ pc \in [Envelopes -> {"new", "ready", "top", "node", "after", "final", "done"}]
      /\ env \in [Envelopes -> Envelope] /\ node \in [Envelopes -> Names \cup {Nowhere}]
      /\ trouble \in [Envelopes -> SUBSET Troubles]
  BY DEF TypeOK
<1>1. CASE Begin(e)
  BY <1>t, <1>1 DEF Begin, Goto, Same
<1>2. CASE DeadlinePasses(e)
  BY <1>t, <1>2 DEF DeadlinePasses, Same
<1>3. CASE EnforceDeadline(e)
  BY <1>t, <1>3 DEF EnforceDeadline, Goto, Note, Same
<1>4. CASE Iterate(e)
  <2> SUFFICES ASSUME NEW f \in Envelopes, f # e PROVE setup' = setup /\ Same(f)
    BY <1>4 DEF Iterate
  <2>1. /\ node'[f] = node[f] /\ env'[f] = env[f] /\ pc'[f] = pc[f]
        /\ trouble'[f] = trouble[f]
    <3>1. CASE iterations[e] + 1 < FirstForbidden /\ Resolvable(env[e].next)
      <4>1. node' = [node EXCEPT ![e] = Resolve(env[e].next)] /\ Goto(e, "node")
            /\ UNCHANGED <<env, trouble>>
        BY <1>4, <3>1 DEF Iterate
      <4> QED
        BY <1>d, <4>1 DEF Goto
    <3>2. CASE ~(iterations[e] + 1 < FirstForbidden /\ Resolvable(env[e].next))
      <4>1. /\ env' = [env EXCEPT ![e] = Terminated(@)] /\ node' = node /\ Goto(e, "final")
            /\ Note(e, IF iterations[e] + 1 < FirstForbidden THEN "missing" ELSE "limit")
        BY <1>4, <3>2 DEF Iterate
      <4> QED
        BY <1>d, <4>1 DEF Goto, Note
    <3> QED
      BY <3>1, <3>2
  <2>2. /\ iterations'[f] = iterations[f]
        /\ UNCHANGED <<setup, router, late, outcome, answer, stored, results>>
    BY <1>t, <1>4 DEF Iterate
  <2> QED
    BY <2>1, <2>2 DEF Same
<1>5. CASE RunNode(e)
  BY <1>t, <1>5 DEF RunNode, Goto, Same
<1>6. CASE RefuseNode(e)
  BY <1>t, <1>6 DEF RefuseNode, Goto, Note, Same
<1>7. CASE AfterHook(e)
  <2> SUFFICES ASSUME NEW f \in Envelopes, f # e PROVE setup' = setup /\ Same(f)
    BY <1>7 DEF AfterHook
  <2>1. env'[f] = env[f] /\ pc'[f] = pc[f]
    <3>1. CASE outcome[e] = "ok" \/ setup.continues
      BY <1>d, <1>7, <3>1 DEF AfterHook, Goto
    <3>2. CASE ~(outcome[e] = "ok" \/ setup.continues)
      <4>1. /\ Goto(e, "final")
            /\ env' = [env EXCEPT ![e] = IF outcome[e] = "mute" THEN TerminatedMutely(@)
                                                               ELSE Terminated(@)]
        BY <1>7, <3>2 DEF AfterHook
      <4> QED
        BY <1>d, <4>1 DEF Goto
    <3> QED
      BY <3>1, <3>2
  <2> QED
    BY <1>7, <2>1 DEF AfterHook, Same
<1>8. CASE LeaveLoop(e)
  BY <1>t, <1>8 DEF LeaveLoop, Goto, Same
<1>9. CASE Conclude(e)
  BY <1>t, <1>9 DEF Conclude, Goto, Same
<1>10. CASE Answered(e)
  BY <1>t, <1>10 DEF Answered, Goto, Same
<1>11. CASE Walk(e)
  BY <1>t, <1>11 DEF Walk, Goto, Same
<1>12. CASE Hop(e)
  BY <1>t, <1>12 DEF Hop, Same
<1>13. CASE NotFound(e)
  BY <1>t, <1>13 DEF NotFound, Note, Same
<1>14. CASE RemoteFails(e)
  BY <1>t, <1>14 DEF RemoteFails, Goto, Note, Same
<1>15. CASE Finish(e)
  BY <1>t, <1>15 DEF Finish, Goto, Same
<1>16. CASE Restore(e)
  BY <1>t, <1>16 DEF Restore, Goto, Same
<1>17. CASE RunBranch(e)
  BY <1>t, <1>17 DEF RunBranch, Same
<1>18. CASE Merge(e)
  BY <1>t, <1>18 DEF Merge, Goto, Same
<1> QED
  BY <1>1, <1>2, <1>3, <1>4, <1>5, <1>6, <1>7, <1>8, <1>9, <1>10, <1>11, <1>12, <1>13,
     <1>14, <1>15, <1>16, <1>17, <1>18 DEF Acts, PipelineStep, EngineStep

\* When nothing of any envelope changes.
LEMMA StaysAlone ==
    ASSUME ChangeRouter \/ UNCHANGED vars
    PROVE  setup' = setup /\ stored' = stored /\ \A f \in Envelopes : Same(f)
BY DEF ChangeRouter, vars, Same

LEMMA SameKept ==
    ASSUME NEW f \in Envelopes, setup' = setup, Same(f)
    PROVE  /\ VerdictKept(f) => VerdictKept(f)'
           /\ RouteKept(f) => RouteKept(f)'
           /\ BranchesKept(f) => BranchesKept(f)'
<1>1. VerdictKept(f) => VerdictKept(f)'
  BY DEF Same, VerdictKept, Pipelined, InLoop
<1>2. \A g, s : Route(g, s)' = Route(g, s)
  BY DEF Route, RouteHop, Refill
<1>3. RouteKept(f) => RouteKept(f)'
  BY <1>2 DEF Same, RouteKept, Pipelined, Hops, Start, Follows
<1>4. BranchesKept(f) => BranchesKept(f)'
  BY <1>2 DEF Same, BranchesKept, BranchEnded, Hops, Follows
<1> QED
  BY <1>1, <1>3, <1>4

-----------------------------------------------------------------------------
(***************************************************************************)
(* Verdicts.                                                               *)
(***************************************************************************)
\* The types of what belongs to one envelope.
LEMMA EnvelopeTyped ==
    ASSUME TypeOK, NEW e \in Envelopes
    PROVE  /\ pc[e] \in {"new", "ready", "top", "node", "after", "final", "done"}
           /\ env[e] \in Envelope /\ env[e].terminated \in BOOLEAN /\ env[e].error \in BOOLEAN
           /\ env[e].ran \in Seq(Capabilities) /\ env[e].next \in Names \cup {Nowhere}
           /\ env[e].plan \in Seq(Names)
           /\ iterations[e] \in 0..(MaxIterations + 1) /\ late[e] \in BOOLEAN
           /\ outcome[e] \in {"ok", "failed", "mute"} /\ trouble[e] \subseteq Troubles
           /\ answer[e] \in {NoEnvelope} \cup Verdicts \cup Envelopes
           /\ results[e] \in Seq(Envelope)
<1>1. env[e] \in Envelope
  BY DEF TypeOK
<1>2. /\ env[e].terminated \in BOOLEAN /\ env[e].error \in BOOLEAN
      /\ env[e].ran \in Seq(Capabilities) /\ env[e].next \in Names \cup {Nowhere}
      /\ env[e].plan \in Seq(Names)
  BY <1>1 DEF Envelope
<1> HIDE DEF Envelope
<1> QED
  BY <1>1, <1>2 DEF TypeOK

\* An envelope is no verdict.
LEMMA AnswersApart ==
    /\ \A f \in Envelopes : f \notin Verdicts /\ f # NoEnvelope
    /\ NoEnvelope \notin Verdicts
    /\ {"success", "failure", "error", "merged"} = Verdicts
BY LoopsAssumption DEF Verdicts, NoEnvelope

\* What a run through a node adds.
LEMMA NodeVerdict ==
    ASSUME setup \in Setups, NEW c \in Capabilities
    PROVE  LET kind == setup.behaviour[c].kind IN
           /\ NodeTrouble(c) \cap Fatal = {}
           /\ "failed" \in NodeTrouble(c) <=> kind \in {"fails", "raises"}
           /\ OutcomeOf(c) = "failed" <=> kind \in {"fails", "raises"}
<1>1. setup.behaviour[c].kind \in {"ok", "stops", "fails", "raises", "mute"}
  BY SetupFacts
<1> QED
  BY <1>1 DEF NodeTrouble, OutcomeOf, Fatal

LEMMA ActsVerdict ==
    ASSUME IInv, NEW e \in Envelopes, Acts(e)
    PROVE  VerdictKept(e)'
<1>t. /\ TypeOK /\ setup \in Setups /\ setup' = setup
      /\ pc \in [Envelopes -> {"new", "ready", "top", "node", "after", "final", "done"}]
      /\ env \in [Envelopes -> Envelope] /\ late \in [Envelopes -> BOOLEAN]
      /\ iterations \in [Envelopes -> 0..(MaxIterations + 1)]
      /\ node \in [Envelopes -> Names \cup {Nowhere}]
      /\ outcome \in [Envelopes -> {"ok", "failed", "mute"}]
      /\ trouble \in [Envelopes -> SUBSET Troubles]
      /\ answer \in [Envelopes -> {NoEnvelope} \cup Verdicts \cup Envelopes]
  BY ActsAlone DEF IInv, TypeOK
<1>v. VerdictKept(e)
  BY DEF IInv
<1>y. MaxIterations \in Nat
  BY LoopsAssumption
<1>e. /\ env[e] \in Envelope /\ env[e].terminated \in BOOLEAN /\ env[e].error \in BOOLEAN
      /\ iterations[e] \in 0..(MaxIterations + 1)
      /\ outcome[e] \in {"ok", "failed", "mute"} /\ trouble[e] \subseteq Troubles
  BY <1>t, EnvelopeTyped
<1>p. ASSUME ~Pipelined(e), answer'[e] \notin {"success", "failure"},
             pc'[e] = "ready" => setup.loop[e] = "replay",
             pc'[e] \notin {"new", "done"} => setup.loop[e] \in {"pipeline", "engine", "replay"},
             pc'[e] = "done" <=> answer'[e] # NoEnvelope
      PROVE  VerdictKept(e)'
  BY <1>t, <1>p DEF VerdictKept, Pipelined
<1> HIDE DEF Envelope
<1>1. CASE Begin(e)
  <2>1. /\ Pipelined(e) /\ pc[e] = "new" /\ pc'[e] = "top"
        /\ iterations' = iterations /\ late' = late /\ trouble' = trouble /\ answer' = answer
    BY <1>t, <1>1 DEF Begin, Goto
  <2>2. env'[e].terminated = env[e].terminated /\ env'[e].error = env[e].error
    BY <1>t, <1>1 DEF Begin, Envelope
  <2> QED
    BY <1>t, <1>v, <2>1, <2>2 DEF VerdictKept, Pipelined, InLoop
<1>2. CASE DeadlinePasses(e)
  <2>1. /\ Pipelined(e) /\ pc[e] # "done"
        /\ UNCHANGED <<pc, env, iterations, node, outcome, trouble, answer>>
    BY <1>2 DEF DeadlinePasses
  <2> QED
    BY <1>t, <1>v, <2>1 DEF VerdictKept, Pipelined, InLoop, NoEnvelope
<1>3. CASE EnforceDeadline(e)
  <2>1. /\ Pipelined(e) /\ pc[e] \notin {"new", "done"} /\ pc'[e] = "final"
        /\ trouble'[e] = trouble[e] \cup {"late"}
        /\ UNCHANGED <<iterations, late, node, outcome, answer>>
    BY <1>t, <1>3 DEF EnforceDeadline, Goto, Note
  <2>2. env'[e] = Terminated(env[e])
    BY <1>t, <1>3 DEF EnforceDeadline
  <2>3. env'[e].terminated /\ env'[e].error
    BY <1>e, <2>2, TerminatedTyped
  <2>4. answer'[e] = NoEnvelope /\ Pipelined(e)'
    BY <1>t, <1>v, <2>1 DEF VerdictKept, Pipelined
  <2>5. trouble'[e] \ {"stopped", "mute"} # {}
    <3>1. "late" \in trouble'[e]
      BY <2>1
    <3> QED
      BY <3>1
  <2> QED
    BY <1>t, <2>1, <2>3, <2>4, <2>5 DEF VerdictKept, Pipelined, NoEnvelope
<1>4. CASE Iterate(e)
  <2> DEFINE n == iterations[e] + 1
  <2>1. /\ Pipelined(e) /\ pc[e] = "top" /\ InLoop(e) /\ iterations'[e] = n
        /\ UNCHANGED <<late, outcome, answer>>
    BY <1>t, <1>4 DEF Iterate
  <2>2. n \in Nat
    BY <1>e, <1>y
  <2>3. CASE n < FirstForbidden /\ Resolvable(env[e].next)
    <3>1. /\ node'[e] = Resolve(env[e].next) /\ pc'[e] = "node" /\ UNCHANGED <<env, trouble>>
      BY <1>t, <1>4, <2>3 DEF Iterate, Goto
    <3>2. node'[e] \in Capabilities
      BY <1>t, <2>3, <3>1, EnvelopeTyped, ResolveFacts DEF TypeOK
    <3>3. n <= MaxIterations
      BY <1>y, <2>2, <2>3 DEF FirstForbidden
    <3> QED
      BY <1>t, <1>v, <2>1, <3>1, <3>2, <3>3 DEF VerdictKept, Pipelined, InLoop, NoEnvelope
  <2>4. CASE ~(n < FirstForbidden /\ Resolvable(env[e].next))
    <3> DEFINE what == IF n < FirstForbidden THEN "missing" ELSE "limit"
    <3>1. /\ env'[e] = Terminated(env[e]) /\ pc'[e] = "final"
          /\ trouble'[e] = trouble[e] \cup {what}
      BY <1>t, <1>4, <2>4 DEF Iterate, Goto, Note
    <3>2. env'[e].terminated /\ env'[e].error
      BY <1>e, <3>1, TerminatedTyped
    <3>3. what \notin {"stopped", "mute"}
      OBVIOUS
    <3> HIDE DEF what
    <3> QED
      BY <1>t, <1>v, <2>1, <3>1, <3>2, <3>3 DEF VerdictKept, Pipelined, NoEnvelope
  <2> QED
    BY <2>3, <2>4
<1>5. CASE RunNode(e)
  <2> DEFINE c == node[e]  kind == setup.behaviour[c].kind
  <2>1. /\ Pipelined(e) /\ pc[e] = "node" /\ pc'[e] = "after"
        /\ env'[e] = AfterNode(env[e], c) /\ outcome'[e] = OutcomeOf(c)
        /\ trouble'[e] = trouble[e] \cup NodeTrouble(c)
        /\ UNCHANGED <<iterations, late, node, answer>>
    BY <1>t, <1>5 DEF RunNode, Goto
  <2>2. c \in Capabilities /\ ~env[e].terminated
    BY <1>v, <2>1 DEF VerdictKept, InLoop
  <2>3. /\ env'[e].error <=> env[e].error \/ kind \in {"fails", "raises"}
    BY <1>t, <1>e, <2>1, <2>2, AfterNodeFacts
  <2>4. /\ NodeTrouble(c) \cap Fatal = {}
        /\ "failed" \in NodeTrouble(c) <=> kind \in {"fails", "raises"}
        /\ OutcomeOf(c) = "failed" <=> kind \in {"fails", "raises"}
    BY <1>t, <2>2, NodeVerdict
  <2> HIDE DEF c, kind
  <2>5. trouble[e] \cap Fatal = {} /\ ("failed" \in trouble[e] => setup.continues)
    BY <1>v, <2>1, <2>2 DEF VerdictKept
  <2> QED
    BY <1>t, <1>v, <2>1, <2>3, <2>4, <2>5 DEF VerdictKept, Pipelined, NoEnvelope
<1>6. CASE RefuseNode(e)
  <2>1. /\ Pipelined(e) /\ pc[e] = "node" /\ pc'[e] \in {"after", "final"}
        /\ env'[e] = Terminated(env[e]) /\ outcome'[e] = "failed"
        /\ trouble'[e] = trouble[e] \cup {"refused"}
        /\ UNCHANGED <<iterations, late, node, answer>>
    BY <1>t, <1>6 DEF RefuseNode, Goto, Note
  <2>2. env'[e].terminated /\ env'[e].error
    BY <1>e, <2>1, TerminatedTyped
  <2>3. answer'[e] = NoEnvelope /\ Pipelined(e)' /\ iterations'[e] <= MaxIterations
    BY <1>t, <1>v, <2>1 DEF VerdictKept, Pipelined
  <2>4. trouble'[e] \ {"stopped", "mute"} # {}
    <3>1. "refused" \in trouble'[e]
      BY <2>1
    <3> QED
      BY <3>1
  <2> QED
    BY <1>t, <2>1, <2>2, <2>3, <2>4 DEF VerdictKept, Pipelined, NoEnvelope
<1>7. CASE AfterHook(e)
  <2>1. /\ Pipelined(e) /\ pc[e] = "after"
        /\ UNCHANGED <<iterations, late, node, outcome, trouble, answer>>
    BY <1>7 DEF AfterHook
  <2>2. CASE outcome[e] = "ok" \/ setup.continues
    <3>1. pc'[e] = "top" /\ env' = env
      BY <1>t, <1>7, <2>2 DEF AfterHook, Goto
    <3> QED
      BY <1>t, <1>v, <2>1, <2>2, <3>1 DEF VerdictKept, Pipelined, NoEnvelope
  <2>3. CASE ~(outcome[e] = "ok" \/ setup.continues)
    <3>1. /\ pc'[e] = "final"
          /\ env'[e] = IF outcome[e] = "mute" THEN TerminatedMutely(env[e])
                                             ELSE Terminated(env[e])
      BY <1>t, <1>7, <2>3 DEF AfterHook, Goto
    <3>2. CASE outcome[e] = "mute"
      <4>1. env'[e].terminated /\ (env'[e].error <=> env[e].error)
        BY <1>e, <3>1, <3>2, TerminatedTyped
      <4> QED
        BY <1>t, <1>v, <2>1, <3>1, <3>2, <4>1 DEF VerdictKept, Pipelined, NoEnvelope
    <3>3. CASE outcome[e] = "failed"
      <4>1. env'[e].terminated /\ env'[e].error
        BY <1>e, <3>1, <3>3, TerminatedTyped
      <4> QED
        BY <1>t, <1>v, <2>1, <3>1, <3>3, <4>1 DEF VerdictKept, Pipelined, NoEnvelope
    <3> QED
      BY <1>e, <2>3, <3>2, <3>3
  <2> QED
    BY <2>2, <2>3
<1>8. CASE LeaveLoop(e)
  <2>1. /\ Pipelined(e) /\ pc[e] = "top" /\ pc'[e] = "final"
        /\ UNCHANGED <<env, iterations, late, node, outcome, trouble, answer>>
    BY <1>t, <1>8 DEF LeaveLoop, Goto
  <2> QED
    BY <1>t, <1>v, <2>1 DEF VerdictKept, Pipelined, NoEnvelope
<1>9. CASE Conclude(e)
  <2> DEFINE v == Final(e)
  <2>1. /\ Pipelined(e) /\ pc[e] = "final" /\ pc'[e] = "done" /\ env'[e] = v
        /\ answer'[e] = IF ~v.terminated \/ ~v.error THEN "success" ELSE "failure"
        /\ trouble'[e] = IF late[e] THEN trouble[e] \cup {"late"} ELSE trouble[e]
        /\ late' = late
    BY <1>t, <1>9 DEF Conclude, Goto
  <2>2. /\ v.terminated \in BOOLEAN /\ v.error \in BOOLEAN
        /\ late[e] => v.terminated /\ v.error
        /\ ~late[e] => v = env[e]
    BY <1>e, TerminatedTyped DEF Final, Envelope
  <2> HIDE DEF v
  <2>3. answer'[e] \in {"success", "failure"} /\ answer'[e] # NoEnvelope
    BY <2>1 DEF NoEnvelope
  <2>4. CASE late[e]
    BY <1>t, <1>v, <2>1, <2>2, <2>3, <2>4 DEF VerdictKept, Pipelined
  <2>5. CASE ~late[e]
    BY <1>t, <1>v, <1>e, <2>1, <2>2, <2>3, <2>5 DEF VerdictKept, Pipelined
  <2> QED
    BY <2>4, <2>5
<1>10. CASE Answered(e)
  <2>1. /\ ~Pipelined(e) /\ pc'[e] = "done" /\ answer'[e] = Lookup(e)
    BY <1>t, <1>v, <1>10 DEF Answered, Entering, Pipelined, Goto, VerdictKept
  <2>2. Lookup(e) \in Envelopes
    BY <1>t, <1>10, LookupFacts DEF Answered, TypeOK
  <2> QED
    BY <1>p, <2>1, <2>2, AnswersApart
<1>11. CASE Walk(e)
  <2>1. /\ ~Pipelined(e) /\ pc'[e] = "top" /\ answer' = answer /\ pc[e] # "done"
        /\ setup.loop[e] \in {"engine", "replay"}
    BY <1>t, <1>v, <1>11 DEF Walk, Entering, Pipelined, Goto, VerdictKept
  <2> QED
    BY <1>p, <1>v, <2>1 DEF VerdictKept, NoEnvelope
<1>12. CASE Hop(e) \/ NotFound(e)
  <2>1. ~Pipelined(e) /\ pc' = pc /\ answer' = answer
    BY <1>12 DEF Hop, NotFound, Hopping
  <2> QED
    BY <1>p, <1>v, <2>1 DEF VerdictKept
<1>13. CASE RemoteFails(e)
  <2>1. ~Pipelined(e) /\ pc'[e] = "done" /\ answer'[e] = "error"
    BY <1>t, <1>13 DEF RemoteFails, Hopping, Goto
  <2> QED
    BY <1>p, <2>1 DEF NoEnvelope
<1>14. CASE Finish(e)
  <2>1. ~Pipelined(e) /\ pc'[e] = "done" /\ answer'[e] = e
    BY <1>t, <1>14 DEF Finish, Goto
  <2> QED
    BY <1>p, <2>1, AnswersApart
<1>15. CASE Restore(e)
  <2>1. /\ ~Pipelined(e) /\ pc[e] = "new" /\ pc'[e] = "ready" /\ answer' = answer
        /\ setup.loop[e] = "replay"
    BY <1>t, <1>15 DEF Restore, Goto, Pipelined
  <2> QED
    BY <1>p, <1>v, <2>1 DEF VerdictKept, NoEnvelope
<1>16. CASE RunBranch(e)
  <2>1. ~Pipelined(e) /\ pc' = pc /\ answer' = answer
    BY <1>16 DEF RunBranch, Branching, Pipelined
  <2> QED
    BY <1>p, <1>v, <2>1 DEF VerdictKept
<1>17. CASE Merge(e)
  <2>1. ~Pipelined(e) /\ pc'[e] = "done" /\ answer'[e] = "merged"
    BY <1>t, <1>17 DEF Merge, Branching, Pipelined, Goto
  <2> QED
    BY <1>p, <2>1 DEF NoEnvelope
<1> QED
  BY <1>1, <1>2, <1>3, <1>4, <1>5, <1>6, <1>7, <1>8, <1>9, <1>10, <1>11, <1>12, <1>13,
     <1>14, <1>15, <1>16, <1>17 DEF Acts, PipelineStep, EngineStep

\* A step is one of some envelope's, or nothing changes of any.
LEMMA StepCases ==
    ASSUME [Next]_vars
    PROVE  (\E e \in Envelopes : Acts(e)) \/ ChangeRouter \/ UNCHANGED vars
BY DEF Next, Acts

LEMMA StepVerdict ==
    ASSUME IInv, [Next]_vars, NEW f \in Envelopes
    PROVE  VerdictKept(f)'
<1>1. TypeOK /\ VerdictKept(f)
  BY DEF IInv
<1>2. ASSUME NEW e \in Envelopes, Acts(e) PROVE VerdictKept(f)'
  <2>1. CASE f = e
    BY <1>2, <2>1, ActsVerdict
  <2>2. CASE f # e
    BY <1>1, <1>2, <2>2, ActsAlone, SameKept
  <2> QED
    BY <2>1, <2>2
<1>3. CASE ChangeRouter \/ UNCHANGED vars
  BY <1>1, <1>3, StaysAlone, SameKept
<1> QED
  BY <1>2, <1>3, StepCases

-----------------------------------------------------------------------------
(***************************************************************************)
(* Answers.                                                                *)
(***************************************************************************)
\* Nothing happens to an envelope any more once it is done.
LEMMA NotDone ==
    ASSUME IInv, NEW e \in Envelopes, Acts(e)
    PROVE  pc[e] # "done" /\ answer[e] = NoEnvelope
<1>1. pc[e] # "done"
  BY DEF Acts, PipelineStep, EngineStep, Begin, DeadlinePasses, EnforceDeadline, Iterate,
         RunNode, RefuseNode, AfterHook, LeaveLoop, Conclude, Entering, Answered, Walk,
         Hopping, Hop, NotFound, RemoteFails, Finish, Restore, Branching, RunBranch, Merge
<1> QED
  BY <1>1 DEF IInv, VerdictKept

LEMMA Settled ==
    ASSUME IInv, [Next]_vars, NEW f \in Envelopes, answer[f] = f
    PROVE  setup' = setup /\ Same(f)
<1>1. TypeOK
  BY DEF IInv
<1>2. ASSUME NEW e \in Envelopes, Acts(e) PROVE setup' = setup /\ Same(f)
  <2>1. f # e
    BY <1>2, NotDone, AnswersApart
  <2> QED
    BY <1>1, <1>2, <2>1, ActsAlone
<1>3. CASE ChangeRouter \/ UNCHANGED vars
  BY <1>3, StaysAlone
<1> QED
  BY <1>2, <1>3, StepCases

\* Only two steps answer with an envelope, and one fills the cache.
LEMMA ActsAnswer ==
    ASSUME IInv, NEW e \in Envelopes, Acts(e)
    PROVE  /\ answer'[e] \notin Envelopes \/ Finish(e) \/ Answered(e)
           /\ stored' = stored \/ Finish(e)
<1>1. answer[e] = NoEnvelope /\ e \in DOMAIN answer
  BY NotDone DEF IInv, TypeOK
<1>2. "success" \notin Envelopes /\ "failure" \notin Envelopes /\ "error" \notin Envelopes
      /\ "merged" \notin Envelopes /\ NoEnvelope \notin Envelopes
  BY AnswersApart
<1>3. CASE Conclude(e)
  <2>1. stored' = stored /\ answer'[e] \in {"success", "failure"}
    BY <1>1, <1>3 DEF Conclude
  <2> QED
    BY <1>2, <2>1
<1>4. CASE RemoteFails(e) \/ Merge(e)
  BY <1>1, <1>2, <1>4 DEF RemoteFails, Merge
<1>5. CASE Answered(e)
  BY <1>5 DEF Answered
<1>6. ASSUME ~(Conclude(e) \/ RemoteFails(e) \/ Merge(e) \/ Answered(e) \/ Finish(e))
      PROVE  stored' = stored /\ answer' = answer
  BY <1>6 DEF Acts, PipelineStep, EngineStep, Begin, DeadlinePasses, EnforceDeadline,
     Iterate, RunNode, RefuseNode, AfterHook, LeaveLoop, Walk, Hop, NotFound, Restore, RunBranch
<1> QED
  BY <1>1, <1>2, <1>3, <1>4, <1>5, <1>6

LEMMA StepAnswers ==
    ASSUME IInv, [Next]_vars
    PROVE  StoredKept' /\ AnswersAreWalks'
<1> DEFINE Ended(v) == v.next = Nowhere \/ v.terminated
<1>t. /\ TypeOK /\ stored \in Seq(Envelopes) /\ StoredKept /\ AnswersAreWalks
      /\ answer \in [Envelopes -> {NoEnvelope} \cup Verdicts \cup Envelopes]
  BY DEF IInv, TypeOK
<1>a. /\ setup' = setup
      /\ \A e \in Envelopes : Same(e) \/ Acts(e)
  <2>1. ASSUME NEW e \in Envelopes, Acts(e)
        PROVE  setup' = setup /\ \A f \in Envelopes : Same(f) \/ Acts(f)
    BY <1>t, <2>1, ActsAlone
  <2> QED
    BY <2>1, StaysAlone, StepCases
<1>s. ASSUME NEW f \in Envelopes, answer[f] = f
      PROVE  answer'[f] = f /\ env'[f] = env[f]
  BY <1>s, Settled DEF Same
<1>w. ASSUME NEW e \in Envelopes, Finish(e)
      PROVE  /\ answer'[e] = e /\ Ended(env[e]) /\ env'[e] = env[e]
             /\ stored' = IF env[e].ran = <<>> THEN stored ELSE Append(stored, e)
  BY <1>t, <1>w DEF Finish, InLoop
<1>o. \A i \in DOMAIN stored :
         /\ stored[i] \in Envelopes /\ answer[stored[i]] = stored[i]
         /\ Ended(env[stored[i]]) /\ env[stored[i]].ran # <<>>
  BY <1>t DEF StoredKept, InLoop
<1>1. StoredKept'
  <2> SUFFICES ASSUME NEW i \in DOMAIN stored'
               PROVE  /\ answer'[stored'[i]] = stored'[i] /\ Ended(env'[stored'[i]])
                      /\ env'[stored'[i]].ran # <<>>
    BY DEF StoredKept, InLoop
  <2>1. (\E j \in DOMAIN stored : stored'[i] = stored[j])
        \/ \E e \in Envelopes : Finish(e) /\ stored'[i] = e /\ env[e].ran # <<>>
    <3>1. CASE stored' = stored
      BY <3>1
    <3>2. ASSUME NEW e \in Envelopes, Finish(e), stored' # stored
          PROVE  (\E j \in DOMAIN stored : stored'[i] = stored[j])
                 \/ (stored'[i] = e /\ env[e].ran # <<>>)
      BY <1>t, <1>w, <3>2
    <3>3. stored' = stored \/ \E e \in Envelopes : Finish(e)
      BY ActsAnswer, StaysAlone, StepCases
    <3> QED
      BY <3>1, <3>2, <3>3
  <2>2. CASE \E j \in DOMAIN stored : stored'[i] = stored[j]
    <3> HIDE DEF Ended
    <3>1. PICK j \in DOMAIN stored : stored'[i] = stored[j]
      BY <2>2
    <3> DEFINE f == stored[j]
    <3>2. f \in Envelopes /\ answer[f] = f /\ Ended(env[f]) /\ env[f].ran # <<>>
      BY <1>o
    <3>3. answer'[f] = f /\ env'[f] = env[f]
      BY <1>s, <3>2
    <3> QED
      BY <3>1, <3>2, <3>3
  <2>3. CASE \E e \in Envelopes : Finish(e) /\ stored'[i] = e /\ env[e].ran # <<>>
    <3> HIDE DEF Ended
    <3>1. PICK e \in Envelopes : Finish(e) /\ stored'[i] = e /\ env[e].ran # <<>>
      BY <2>3
    <3>2. answer'[e] = e /\ Ended(env[e]) /\ env'[e] = env[e]
      BY <1>w, <3>1
    <3> QED
      BY <3>1, <3>2
  <2> QED
    BY <2>1, <2>2, <2>3
<1>2. ASSUME NEW e \in Envelopes, answer'[e] \in Envelopes, NEW f, f = answer'[e]
      PROVE  /\ answer'[f] = f /\ Ended(env'[f]) /\ SameIntent(e, f)
             /\ f # e => env'[f].ran # <<>>
  <2> HIDE DEF Ended
  <2>1. CASE answer'[e] = answer[e]
    <3>1. /\ f \in Envelopes /\ answer[f] = f /\ Ended(env[f]) /\ SameIntent(e, f)
          /\ f # e => env[f].ran # <<>>
      BY <1>2, <1>t, <2>1 DEF AnswersAreWalks, Ended, InLoop
    <3>2. answer'[f] = f /\ env'[f] = env[f]
      BY <1>s, <3>1
    <3> QED
      BY <3>1, <3>2
  <2>2. CASE Finish(e)
    <3>1. answer'[e] = e /\ Ended(env[e]) /\ env'[e] = env[e]
      BY <1>w, <2>2
    <3> QED
      BY <1>2, <3>1 DEF SameIntent
  <2>3. CASE Answered(e)
    <3>1. f = Lookup(e) /\ Similar(e) # {}
      BY <1>2, <1>t, <2>3 DEF Answered
    <3>2. f \in Envelopes /\ SameIntent(e, f) /\ \E i \in DOMAIN stored : f = stored[i]
      BY <1>t, <3>1, LookupFacts
    <3>3. answer[f] = f /\ Ended(env[f]) /\ env[f].ran # <<>>
      BY <1>o, <3>2
    <3>4. answer'[f] = f /\ env'[f] = env[f]
      BY <1>s, <3>2, <3>3
    <3> QED
      BY <3>2, <3>3, <3>4
  <2>4. answer'[e] = answer[e] \/ Acts(e)
    BY <1>a DEF Same
  <2> QED
    BY <1>2, <2>1, <2>2, <2>3, <2>4, ActsAnswer
<1>3. AnswersAreWalks'
  <2> SUFFICES ASSUME NEW e \in Envelopes, answer'[e] \in Envelopes, NEW f, f = answer'[e]
               PROVE  /\ answer'[f] = f /\ ~InLoop(f)' /\ SameIntent(e, f)'
                      /\ f # e => env'[f].ran # <<>>
    BY DEF AnswersAreWalks
  <2>1. /\ answer'[f] = f /\ Ended(env'[f]) /\ SameIntent(e, f)
        /\ f # e => env'[f].ran # <<>>
    BY <1>2
  <2> QED
    BY <1>a, <2>1 DEF InLoop, SameIntent
<1> QED
  BY <1>1, <1>3

-----------------------------------------------------------------------------
(***************************************************************************)
(* Routing.                                                                *)
(***************************************************************************)
\* One hop of a route.
LEMMA RouteNext ==
    ASSUME setup \in Setups, NEW e \in Envelopes, NEW start \in Names \cup {Nowhere},
           NEW h \in 0..MaxIterations
    PROVE  Route(e, start)[h + 1] = RouteHop(e, Route(e, start)[h])
<1>1. h + 1 \in 1..(MaxIterations + 1) /\ (h + 1) - 1 = h
  BY LoopsAssumption
<1> QED
  BY <1>1, RouteFacts

\* One hop of an envelope that follows it.
LEMMA HopFollows ==
    ASSUME setup \in Setups, NEW e \in Envelopes, NEW start \in Names \cup {Nowhere},
           NEW v \in Envelope, NEW w \in Envelope, NEW c \in Capabilities,
           w.ran = Append(v.ran, c), Hops(e, v) \in Nat, Follows(e, v, start),
           c = Target(Route(e, start)[Hops(e, v)].next)
    PROVE  Hops(e, w) = Hops(e, v) + 1 /\ Follows(e, w, start)
<1> DEFINE h == Hops(e, v)  past == setup.past[e]  at == Route(e, start)
<1>1. v.ran \in Seq(Capabilities) /\ past \in Seq(Capabilities)
  BY SetupFacts DEF Envelope
<1> HIDE DEF Envelope
<1>2. Len(v.ran) \in Nat /\ Len(past) \in Nat /\ Len(w.ran) = Len(v.ran) + 1
  BY <1>1
<1>3. h = Len(v.ran) - Len(past) /\ Hops(e, w) = h + 1
  BY <1>2 DEF Hops
<1>4. \A i \in 1..h : v.ran[Len(past) + i] = Target(at[i - 1].next)
  BY DEF Follows
<1> HIDE DEF past, at, h
<1>5. ASSUME NEW i \in 1..(h + 1) PROVE w.ran[Len(past) + i] = Target(at[i - 1].next)
  <2>1. CASE i = h + 1
    <3>1. i - 1 = h /\ Len(past) + i = Len(v.ran) + 1
      BY <1>2, <1>3, <2>1
    <3>2. w.ran[Len(v.ran) + 1] = c
      BY <1>1
    <3> QED
      BY <3>1, <3>2 DEF h, at
  <2>2. CASE i # h + 1
    <3>1. i \in 1..h /\ Len(past) + i \in 1..Len(v.ran)
      BY <1>2, <1>3, <2>2 DEF h
    <3>2. w.ran[Len(past) + i] = v.ran[Len(past) + i]
      BY <1>1, <3>1
    <3> QED
      BY <1>4, <3>1, <3>2
  <2> QED
    BY <2>1, <2>2
<1>6. Follows(e, w, start)
  BY <1>3, <1>5 DEF Follows, past, at, h
<1> QED
  BY <1>3, <1>6 DEF h

\* Only the next capability and the plan count for a refill.
LEMMA RefillAlike ==
    ASSUME NEW v \in Envelope, NEW r \in RouteState, v.next = r.next, v.plan = r.plan
    PROVE  Refill(v).next = Refill(r).next /\ Refill(v).plan = Refill(r).plan
<1>1. DOMAIN v = {"next", "terminated", "error", "ran", "plan"} /\ DOMAIN r = {"next", "plan"}
  BY DEF Envelope, RouteState
<1> QED
  BY <1>1 DEF Refill, PlanNext

\* Where a run starts.
LEMMA StartFacts ==
    ASSUME setup \in Setups, NEW e \in Envelopes
    PROVE  /\ Start(e) \in Names \cup {Nowhere}
           /\ Route(e, Start(e))[0].next = Start(e)
           /\ Route(e, Start(e))[0].plan = setup.plan[e]
           /\ ~Pipelined(e) => Start(e) = setup.first[e]
<1>1. Start(e) \in Names \cup {Nowhere}
  BY SetupFacts, LastTyped, NameFacts DEF Start
<1>2. ~Pipelined(e) => Start(e) = setup.first[e]
  BY DEF Start
<1>3. Route(e, Start(e))[0] = [next |-> Start(e), plan |-> setup.plan[e]]
  BY <1>1, RouteFacts
<1> QED
  BY <1>1, <1>2, <1>3

\* A step that adds nothing to the history, and goes on only where it did.
Stays(e) ==
    /\ env'[e].ran = env[e].ran /\ iterations'[e] \in Nat /\ iterations'[e] >= iterations[e]
    /\ pc[e] # "new" /\ pc'[e] # "new"
    /\ ~env'[e].terminated =>
          ~env[e].terminated /\ env'[e].next = env[e].next /\ env'[e].plan = env[e].plan
    /\ Pipelined(e) /\ pc'[e] = "node" =>
          pc[e] = "node" /\ node'[e] = node[e] /\ env'[e].next = env[e].next

LEMMA StaysRoute ==
    ASSUME IInv, setup' = setup, NEW e \in Envelopes, Stays(e)
    PROVE  RouteKept(e)'
<1> DEFINE done == Hops(e, env[e])  at == Route(e, Start(e))
<1>1. RouteKept(e) /\ iterations[e] \in Nat
  BY DEF IInv, TypeOK
<1>2. \A s : Route(e, s)' = Route(e, s)
  BY DEF Route, RouteHop, Refill
<1>3. /\ Hops(e, env[e])' = done /\ Start(e)' = Start(e)
      /\ Follows(e, env[e], Start(e))' <=> Follows(e, env[e], Start(e))
      /\ Pipelined(e)' <=> Pipelined(e)
  BY <1>2 DEF Stays, Hops, Start, Follows, Pipelined
<1>4. Route(e, Start(e))' = at
  BY <1>2, <1>3
<1> SUFFICES ASSUME setup.loop[e] # "replay" PROVE RouteKept(e)'
  BY DEF RouteKept
<1>5. /\ done \in 0..iterations[e] /\ (Pipelined(e) => done <= MaxIterations)
      /\ Follows(e, env[e], Start(e))
      /\ ~env[e].terminated =>
            /\ env[e].next = at[done].next
            /\ setup.loop[e] = "engine" => env[e].plan = at[done].plan
      /\ Pipelined(e) /\ pc[e] = "node" => node[e] = Target(env[e].next) /\ done < iterations[e]
  BY <1>1 DEF RouteKept, Stays
<1> HIDE DEF done, at
<1>6. done \in 0..iterations'[e]
  BY <1>1, <1>5 DEF Stays
<1>7. ~env'[e].terminated =>
            /\ env'[e].next = at[done].next
            /\ setup.loop[e] = "engine" => env'[e].plan = at[done].plan
  BY <1>5 DEF Stays
<1>8. Pipelined(e) /\ pc'[e] = "node" =>
            node'[e] = Target(env'[e].next) /\ done < iterations'[e]
  BY <1>1, <1>5, <1>6 DEF Stays
<1> QED
  BY <1>3, <1>4, <1>5, <1>6, <1>7, <1>8 DEF RouteKept, Stays, Target

\* A step away from the start.
Begins(e) ==
    /\ pc[e] = "new" /\ pc'[e] \notin {"new", "node"}
    /\ env'[e].ran = env[e].ran /\ env'[e].plan = env[e].plan
    /\ env'[e].next = Start(e) /\ iterations'[e] = iterations[e]

LEMMA BeginsRoute ==
    ASSUME IInv, setup' = setup, NEW e \in Envelopes, Begins(e), setup.loop[e] # "replay"
    PROVE  RouteKept(e)'
<1> DEFINE at == Route(e, Start(e))
<1>1. RouteKept(e) /\ iterations[e] \in Nat /\ setup \in Setups /\ MaxIterations \in Nat
  BY LoopsAssumption DEF IInv, TypeOK
<1>2. \A s : Route(e, s)' = Route(e, s)
  BY DEF Route, RouteHop, Refill
<1>3. Start(e)' = Start(e) /\ Route(e, Start(e))' = at /\ (Pipelined(e)' <=> Pipelined(e))
  BY <1>2 DEF Begins, Start, Pipelined
<1>4. env[e].ran = setup.past[e] /\ env[e].plan = setup.plan[e]
  BY <1>1 DEF RouteKept, Begins
<1>5. Hops(e, env[e])' = 0
  BY <1>1, <1>4, SetupFacts DEF Hops, Begins
<1>6. at[0].next = Start(e) /\ at[0].plan = setup.plan[e]
  BY <1>1, StartFacts
<1>7. Follows(e, env[e], Start(e))'
  BY <1>5 DEF Follows
<1> HIDE DEF at
<1> QED
  BY <1>1, <1>3, <1>4, <1>5, <1>6, <1>7 DEF RouteKept, Begins

\* A step through a node.
LEMMA HopRoute ==
    ASSUME IInv, setup' = setup, NEW e \in Envelopes, NEW c \in Capabilities,
           setup.loop[e] \in {"pipeline", "engine"}, pc[e] # "new", pc'[e] \notin {"new", "node"},
           InLoop(e), c = Target(env[e].next), Hops(e, env[e]) <= MaxIterations,
           Pipelined(e) => Hops(e, env[e]) < MaxIterations,
           Hops(e, env[e]) < iterations'[e], iterations'[e] \in Nat,
           env'[e] = IF setup.loop[e] = "engine" THEN Refill(AfterNode(env[e], c))
                                                 ELSE AfterNode(env[e], c)
    PROVE  RouteKept(e)'
<1> DEFINE at == Route(e, Start(e))  h == Hops(e, env[e])  v == AfterNode(env[e], c)
           w == env'[e]  does == setup.behaviour[c]
<1>1. /\ RouteKept(e) /\ setup \in Setups /\ MaxIterations \in Nat /\ env[e] \in Envelope
      /\ iterations[e] \in Nat
  BY LoopsAssumption DEF IInv, TypeOK
<1>2. \A s, x : Route(e, s)' = Route(e, s) /\ Follows(e, x, s)' = Follows(e, x, s)
  BY DEF Route, RouteHop, Refill, Follows, Hops
<1>3. /\ v \in Envelope /\ v.ran = Append(env[e].ran, c) /\ v.plan = env[e].plan
      /\ does.kind \in {"ok", "stops", "fails"} => v.next = does.next
      /\ v.terminated <=> env[e].terminated \/ does.kind \in {"stops", "raises", "mute"}
      /\ does.kind \in {"ok", "stops", "fails", "raises", "mute"}
  BY <1>1, AfterNodeFacts, SetupFacts
<1>4. /\ h \in Nat /\ h \in 0..MaxIterations /\ Follows(e, env[e], Start(e))
      /\ env[e].next = at[h].next /\ env[e].next # Nowhere /\ ~env[e].terminated
      /\ setup.loop[e] = "engine" => env[e].plan = at[h].plan
  BY <1>1 DEF RouteKept, InLoop
<1>5. Start(e) \in Names \cup {Nowhere} /\ at \in [0..(MaxIterations + 1) -> RouteState]
  BY <1>1, StartFacts, RouteFacts
<1>6. /\ w \in Envelope /\ w.ran = Append(env[e].ran, c) /\ w.terminated = v.terminated
  BY <1>3, RefillTyped
<1>7. Hops(e, w) = h + 1 /\ Follows(e, w, Start(e))
  <2> HIDE DEF w, v, Envelope
  <2>1. c = Target(Route(e, Start(e))[Hops(e, env[e])].next)
    BY <1>4
  <2> QED
    BY <1>1, <1>4, <1>5, <1>6, <2>1, HopFollows
<1> DEFINE r == [at[h] EXCEPT !.next = does.next]
<1>8. at[h + 1] = IF setup.loop[e] = "engine" THEN Refill(r) ELSE r
  <2> HIDE DEF w, v, Envelope, RouteState
  <2>1. Route(e, Start(e))[h].next # Nowhere /\ Target(Route(e, Start(e))[h].next) = c
    BY <1>4
  <2>2. at[h + 1] = RouteHop(e, at[h])
    BY <1>1, <1>4, <1>5, RouteNext
  <2> QED
    BY <2>1, <2>2 DEF RouteHop
<1>9. at[h] \in RouteState /\ r \in RouteState /\ r.next = does.next /\ r.plan = at[h].plan
  <2>1. at[h] \in RouteState
    BY <1>1, <1>4, <1>5
  <2>2. does.next \in Names \cup {Nowhere}
    BY <1>1, SetupFacts
  <2> HIDE DEF at, does
  <2> QED
    BY <2>1, <2>2 DEF RouteState
<1> HIDE DEF at, h, r, does, RouteState, Envelope
<1>10. ASSUME ~w.terminated
       PROVE  /\ w.next = at[h + 1].next
              /\ setup.loop[e] = "engine" => w.plan = at[h + 1].plan
  <2>1. v.next = r.next
    BY <1>3, <1>4, <1>6, <1>9, <1>10
  <2>2. CASE setup.loop[e] = "engine"
    <3>1. v.plan = r.plan
      BY <1>3, <1>4, <1>9, <2>2
    <3>2. w = Refill(v)
      BY <2>2
    <3> HIDE DEF v, w
    <3> QED
      BY <1>3, <1>8, <1>9, <2>1, <2>2, <3>1, <3>2, RefillAlike
  <2>3. CASE setup.loop[e] # "engine"
    BY <1>8, <2>1, <2>3
  <2> QED
    BY <2>2, <2>3
<1>11. Start(e)' = Start(e) /\ Hops(e, env[e])' = h + 1 /\ (Pipelined(e)' <=> Pipelined(e))
  BY <1>7 DEF Start, Hops, Pipelined
<1>12. Route(e, Start(e))' = at
  BY <1>2, <1>11 DEF at
<1>13. Follows(e, env[e], Start(e))'
  BY <1>7, <1>11, <1>12 DEF Follows, at, Target
<1> HIDE DEF w, v
<1> QED
  BY <1>1, <1>4, <1>10, <1>11, <1>12, <1>13 DEF RouteKept, w, h

LEMMA ActsRoute ==
    ASSUME IInv, NEW e \in Envelopes, Acts(e)
    PROVE  RouteKept(e)'
<1>t. /\ TypeOK /\ setup \in Setups /\ setup' = setup /\ MaxIterations \in Nat
      /\ registered \subseteq Capabilities /\ aliases \subseteq DOMAIN AliasOf
      /\ pc \in [Envelopes -> {"new", "ready", "top", "node", "after", "final", "done"}]
      /\ env \in [Envelopes -> Envelope]
      /\ iterations \in [Envelopes -> 0..(MaxIterations + 1)]
      /\ node \in [Envelopes -> Names \cup {Nowhere}]
  BY ActsAlone, LoopsAssumption DEF IInv, TypeOK
<1>e. /\ env[e] \in Envelope /\ iterations[e] \in Nat
      /\ env[e].next \in Names \cup {Nowhere} /\ env[e].terminated \in BOOLEAN
  BY <1>t, EnvelopeTyped
<1>v. VerdictKept(e) /\ RouteKept(e)
  BY DEF IInv
<1>x. /\ Terminated(env[e]).terminated /\ Terminated(env[e]).ran = env[e].ran
      /\ TerminatedMutely(env[e]).terminated /\ TerminatedMutely(env[e]).ran = env[e].ran
  BY <1>e, TerminatedTyped
<1>h. setup.loop[e] # "replay" =>
         Hops(e, env[e]) \in 0..iterations[e] /\ (Pipelined(e) => Hops(e, env[e]) <= MaxIterations)
  BY <1>v DEF RouteKept
<1> HIDE DEF Envelope
<1> SUFFICES ASSUME setup.loop[e] # "replay" PROVE RouteKept(e)'
  BY <1>t DEF RouteKept
<1>f. pc[e] = "new" => env[e].next = setup.first[e]
  BY <1>v DEF RouteKept
<1>1. CASE Begin(e)
  <2>1. /\ Pipelined(e) /\ pc[e] = "new" /\ pc'[e] = "top" /\ iterations' = iterations
        /\ env' = [env EXCEPT ![e].next =
              IF @ = Nowhere /\ setup.resumes /\ env[e].ran # <<>>
              THEN env[e].ran[Len(env[e].ran)] ELSE @]
    BY <1>t, <1>1 DEF Begin, Goto
  <2>2. env'[e].ran = env[e].ran /\ env'[e].plan = env[e].plan
    BY <1>t, <2>1 DEF Envelope
  <2>3. env'[e].next = Start(e)
    <3>1. env[e].ran = setup.past[e] /\ env[e].next = setup.first[e]
      BY <1>v, <2>1 DEF RouteKept
    <3>2. env'[e].next = IF env[e].next = Nowhere /\ setup.resumes /\ env[e].ran # <<>>
                         THEN env[e].ran[Len(env[e].ran)] ELSE env[e].next
      BY <1>t, <2>1 DEF Envelope
    <3> QED
      BY <2>1, <3>1, <3>2 DEF Start
  <2> QED
    BY <1>t, <2>1, <2>2, <2>3, BeginsRoute DEF Begins
<1>2. CASE DeadlinePasses(e) \/ LeaveLoop(e)
  <2>1. /\ pc[e] # "new" /\ pc'[e] # "new" /\ env' = env /\ iterations' = iterations
        /\ node' = node /\ (pc'[e] = "node" => pc[e] = "node")
    BY <1>t, <1>2 DEF DeadlinePasses, LeaveLoop, Goto
  <2> QED
    BY <1>t, <1>e, <2>1, StaysRoute DEF Stays
<1>3. CASE EnforceDeadline(e) \/ RefuseNode(e)
  <2>1. /\ pc[e] # "new" /\ pc'[e] \notin {"new", "node"} /\ env'[e] = Terminated(env[e])
        /\ iterations' = iterations
    BY <1>t, <1>3 DEF EnforceDeadline, RefuseNode, Goto
  <2> QED
    BY <1>t, <1>e, <1>x, <2>1, StaysRoute DEF Stays
<1>4. CASE Iterate(e)
  <2> DEFINE n == iterations[e] + 1
  <2>1. /\ Pipelined(e) /\ pc[e] = "top" /\ InLoop(e) /\ iterations'[e] = n /\ n \in Nat
    BY <1>t, <1>e, <1>4 DEF Iterate
  <2>2. CASE n < FirstForbidden /\ Resolvable(env[e].next)
    <3>1. /\ node'[e] = Resolve(env[e].next) /\ pc'[e] = "node" /\ env' = env
      BY <1>t, <1>4, <2>2 DEF Iterate, Goto
    <3>2. node'[e] = Target(env[e].next)
      BY <1>t, <1>e, <2>2, <3>1, ResolveFacts
    <3>3. \A s : Route(e, s)' = Route(e, s)
      BY <1>t DEF Route, RouteHop, Refill
    <3>4. Start(e)' = Start(e) /\ (Pipelined(e)' <=> Pipelined(e)) /\ Hops(e, env[e])' = Hops(e, env[e])
      BY <1>t, <3>1 DEF Start, Pipelined, Hops
    <3>5. Follows(e, env[e], Start(e))' <=> Follows(e, env[e], Start(e))
      BY <1>t, <3>1, <3>3, <3>4 DEF Follows
    <3>6. Hops(e, env[e]) \in 0..n /\ Hops(e, env[e]) < n
      BY <1>e, <1>h
    <3>7. Target(env[e].next)' = Target(env[e].next)
      BY <3>1 DEF Target
    <3> QED
      BY <1>t, <1>v, <2>1, <3>1, <3>2, <3>3, <3>4, <3>5, <3>6, <3>7 DEF RouteKept
  <2>3. CASE ~(n < FirstForbidden /\ Resolvable(env[e].next))
    <3>1. /\ env'[e] = Terminated(env[e]) /\ pc'[e] = "final"
      BY <1>t, <1>4, <2>3 DEF Iterate, Goto
    <3> QED
      BY <1>t, <1>e, <1>x, <2>1, <3>1, StaysRoute DEF Stays
  <2> QED
    BY <2>2, <2>3
<1>5. CASE RunNode(e)
  <2> DEFINE c == node[e]
  <2>1. /\ Pipelined(e) /\ pc[e] = "node" /\ pc'[e] = "after" /\ iterations' = iterations
        /\ env'[e] = AfterNode(env[e], c)
    BY <1>t, <1>5 DEF RunNode, Goto
  <2>2. /\ c \in Capabilities /\ InLoop(e) /\ c = Target(env[e].next)
        /\ Hops(e, env[e]) < iterations[e] /\ iterations[e] <= MaxIterations
    BY <1>v, <2>1 DEF VerdictKept, RouteKept
  <2>3. Hops(e, env[e]) < MaxIterations
    BY <1>t, <1>e, <1>h, <2>2
  <2>4. setup.loop[e] = "pipeline"
    BY <2>1 DEF Pipelined
  <2> HIDE DEF c
  <2> QED
    BY <1>t, <1>e, <1>h, <2>1, <2>2, <2>3, <2>4, HopRoute
<1>6. CASE AfterHook(e)
  <2>1. /\ Pipelined(e) /\ pc[e] = "after" /\ iterations' = iterations
    BY <1>6 DEF AfterHook
  <2>2. pc'[e] \in {"top", "final"}
        /\ (env'[e] = env[e] \/ env'[e] = Terminated(env[e]) \/ env'[e] = TerminatedMutely(env[e]))
    <3>1. CASE outcome[e] = "ok" \/ setup.continues
      BY <1>t, <1>6, <3>1 DEF AfterHook, Goto
    <3>2. CASE ~(outcome[e] = "ok" \/ setup.continues)
      <4>1. /\ Goto(e, "final")
            /\ env' = [env EXCEPT ![e] = IF outcome[e] = "mute" THEN TerminatedMutely(@)
                                                               ELSE Terminated(@)]
        BY <1>6, <3>2 DEF AfterHook
      <4> QED
        BY <1>t, <4>1 DEF Goto
    <3> QED
      BY <3>1, <3>2
  <2> QED
    BY <1>t, <1>e, <1>x, <2>1, <2>2, StaysRoute DEF Stays
<1>7. CASE Conclude(e)
  <2>1. /\ pc[e] = "final" /\ pc'[e] = "done" /\ iterations' = iterations
        /\ (env'[e] = env[e] \/ env'[e] = Terminated(env[e]))
    BY <1>t, <1>7 DEF Conclude, Final, Goto
  <2> QED
    BY <1>t, <1>e, <1>x, <2>1, StaysRoute DEF Stays
<1>8. CASE Answered(e) \/ Walk(e)
  <2>1. /\ setup.loop[e] = "engine" /\ pc[e] = "new" /\ pc'[e] \notin {"new", "node"}
        /\ env' = env /\ iterations' = iterations
    BY <1>t, <1>v, <1>8 DEF Answered, Walk, Entering, Goto, VerdictKept
  <2>2. ~Pipelined(e)
    BY <2>1 DEF Pipelined
  <2>3. Start(e) = setup.first[e]
    BY <1>t, <2>2, StartFacts
  <2> QED
    BY <1>t, <1>f, <2>1, <2>3, BeginsRoute DEF Begins
<1>9. CASE Hop(e)
  <2> DEFINE c == IF IsRemote(e) THEN env[e].next ELSE Resolve(env[e].next)
  <2>1. /\ ~Pipelined(e) /\ pc[e] = "top" /\ pc' = pc /\ InLoop(e)
        /\ iterations[e] <= MaxIterations /\ iterations'[e] = iterations[e] + 1
        /\ env'[e] = Refill(AfterNode(env[e], c))
        /\ IsRemote(e) \/ Resolvable(env[e].next)
    BY <1>t, <1>9 DEF Hop, Hopping
  <2>2. c \in Capabilities /\ c = Target(env[e].next)
    <3>1. CASE IsRemote(e)
      <4>1. env[e].next \in Capabilities
        BY <1>t, <3>1, SetupFacts DEF IsRemote
      <4> QED
        BY <3>1, <4>1, LoopsAssumption DEF Target
    <3>2. CASE ~IsRemote(e)
      BY <1>t, <1>e, <2>1, <3>2, ResolveFacts
    <3> QED
      BY <3>1, <3>2
  <2>3. setup.loop[e] = "engine"
    BY <1>v, <2>1 DEF VerdictKept, Pipelined
  <2> HIDE DEF c
  <2>4. /\ Hops(e, env[e]) <= MaxIterations /\ Hops(e, env[e]) < iterations'[e]
        /\ iterations'[e] \in Nat
    BY <1>t, <1>e, <1>h, <2>1
  <2> QED
    BY <1>t, <2>1, <2>2, <2>3, <2>4, HopRoute
<1>10. CASE NotFound(e)
  <2>1. /\ ~Pipelined(e) /\ pc[e] = "top" /\ pc' = pc /\ iterations' = iterations
        /\ env'[e] = Terminated(env[e])
    BY <1>t, <1>10 DEF NotFound, Hopping
  <2> QED
    BY <1>t, <1>e, <1>x, <2>1, StaysRoute DEF Stays
<1>11. CASE RemoteFails(e) \/ Finish(e)
  <2>1. /\ ~Pipelined(e) /\ pc[e] = "top" /\ pc'[e] = "done" /\ iterations' = iterations
        /\ env' = env
    BY <1>t, <1>11 DEF RemoteFails, Finish, Hopping, Goto
  <2> QED
    BY <1>t, <1>e, <2>1, StaysRoute DEF Stays
<1>12. CASE Restore(e)
  BY <1>12 DEF Restore
<1>13. CASE RunBranch(e)
  <2>1. /\ pc[e] = "new" /\ setup.loop[e] = "parallel" /\ pc' = pc
        /\ env' = env /\ iterations' = iterations
    BY <1>13 DEF RunBranch, Branching
  <2>2. \A s : Route(e, s)' = Route(e, s)
    BY <1>t DEF Route, RouteHop, Refill
  <2>3. Start(e)' = Start(e) /\ (Pipelined(e)' <=> Pipelined(e)) /\ Hops(e, env[e])' = Hops(e, env[e])
    BY <1>t, <2>1 DEF Start, Pipelined, Hops
  <2>4. Follows(e, env[e], Start(e))' <=> Follows(e, env[e], Start(e))
    BY <1>t, <2>1, <2>2, <2>3 DEF Follows
  <2> QED
    BY <1>t, <1>v, <2>1, <2>3, <2>4 DEF RouteKept
<1>14. CASE Merge(e)
  <2>1. /\ pc[e] = "new" /\ setup.loop[e] = "parallel" /\ pc'[e] = "done"
        /\ env' = env /\ iterations' = iterations
    BY <1>t, <1>14 DEF Merge, Branching, Goto
  <2>2. ~Pipelined(e)
    BY <2>1 DEF Pipelined
  <2>3. Start(e) = setup.first[e]
    BY <1>t, <2>2, StartFacts
  <2> QED
    BY <1>t, <1>f, <2>1, <2>3, BeginsRoute DEF Begins
<1> QED
  BY <1>1, <1>2, <1>3, <1>4, <1>5, <1>6, <1>7, <1>8, <1>9, <1>10, <1>11, <1>12, <1>13,
     <1>14 DEF Acts, PipelineStep, EngineStep

-----------------------------------------------------------------------------
(***************************************************************************)
(* Branches.                                                               *)
(***************************************************************************)
\* A branch that has not ended: it is where its nodes lead, and none stopped it.
BranchKept(e, v, start) ==
    /\ Follows(e, v, start)
    /\ ~v.terminated =>
          /\ v.next = Route(e, start)[Hops(e, v)].next
          /\ \A j \in 1..Hops(e, v) :
                setup.behaviour[Target(Route(e, start)[j - 1].next)].kind \in {"ok", "fails"}

LEMMA BranchHopKept ==
    ASSUME setup \in Setups, aliases \subseteq DOMAIN AliasOf, registered \subseteq Capabilities,
           NEW e \in Envelopes, setup.loop[e] = "parallel", NEW start \in Names \cup {Nowhere},
           NEW n \in 1..MaxIterations, NEW refused \in Nat, NEW v \in Envelope,
           Hops(e, v) \in 0..(n - 1), BranchKept(e, v, start)
    PROVE  LET w == BranchHop(v, n, refused) IN
           w \in Envelope /\ Hops(e, w) \in 0..n /\ BranchKept(e, w, start)
<1> DEFINE w == BranchHop(v, n, refused)  h == Hops(e, v)  at == Route(e, start)
<1>1. w \in Envelope /\ MaxIterations \in Nat
  BY BranchHopTyped, LoopsAssumption
<1>2. v.next \in Names \cup {Nowhere} /\ v.terminated \in BOOLEAN
  BY DEF Envelope
<1> HIDE DEF Envelope
<1>3. CASE v.next = Nowhere \/ v.terminated
  <2>1. w = v
    BY <1>3 DEF BranchHop
  <2> HIDE DEF w
  <2> QED
    BY <1>1, <2>1 DEF w
<1>4. CASE ~(v.next = Nowhere \/ v.terminated) /\ (n = refused \/ ~Resolvable(v.next))
  <2>1. w = Terminated(v)
    BY <1>4 DEF BranchHop
  <2>2. w.terminated /\ w.ran = v.ran
    BY <2>1, TerminatedTyped
  <2> HIDE DEF w
  <2>3. Hops(e, w) = Hops(e, v) /\ Follows(e, w, start)
    BY <2>2 DEF Hops, Follows, BranchKept
  <2> QED
    BY <1>1, <2>2, <2>3 DEF w, BranchKept
<1>5. CASE ~(v.next = Nowhere \/ v.terminated) /\ ~(n = refused \/ ~Resolvable(v.next))
  <2> DEFINE c == Resolve(v.next)  does == setup.behaviour[c]
  <2>1. w = AfterNode(v, c) /\ c \in Capabilities /\ c = Target(v.next)
    BY <1>2, <1>5, ResolveFacts DEF BranchHop
  <2>2. /\ w.ran = Append(v.ran, c)
        /\ does.kind \in {"ok", "stops", "fails"} => w.next = does.next
        /\ w.terminated <=> v.terminated \/ does.kind \in {"stops", "raises", "mute"}
        /\ does.kind \in {"ok", "stops", "fails", "raises", "mute"}
    BY <2>1, AfterNodeFacts, SetupFacts
  <2>3. /\ h \in Nat /\ h \in 0..MaxIterations /\ Follows(e, v, start) /\ v.next = at[h].next
        /\ \A j \in 1..h : setup.behaviour[Target(at[j - 1].next)].kind \in {"ok", "fails"}
    BY <1>1, <1>5 DEF BranchKept
  <2> HIDE DEF w, c
  <2>4. Hops(e, w) = h + 1 /\ Follows(e, w, start)
    <3>1. c = Target(Route(e, start)[Hops(e, v)].next)
      BY <2>1, <2>3
    <3> QED
      BY <1>1, <2>1, <2>2, <2>3, <3>1, HopFollows
  <2>5. at[h + 1] = RouteHop(e, at[h])
    BY <2>3, RouteNext
  <2>6. at[h] \in RouteState
    <3>1. h \in 0..(MaxIterations + 1)
      BY <1>1, <2>3
    <3>2. at \in [0..(MaxIterations + 1) -> RouteState]
      BY RouteFacts
    <3> HIDE DEF at, h
    <3> QED
      BY <3>1, <3>2
  <2>7. at[h + 1].next = does.next
    BY <1>5, <2>1, <2>3, <2>5, <2>6 DEF RouteHop, RouteState
  <2> HIDE DEF h, at, does
  <2>8. ASSUME ~w.terminated
        PROVE  /\ w.next = at[h + 1].next
               /\ \A j \in 1..(h + 1) :
                     setup.behaviour[Target(at[j - 1].next)].kind \in {"ok", "fails"}
    <3>1. does.kind \in {"ok", "fails"}
      BY <2>2, <2>8
    <3>2. ASSUME NEW j \in 1..(h + 1)
          PROVE  setup.behaviour[Target(at[j - 1].next)].kind \in {"ok", "fails"}
      <4>1. CASE j = h + 1
        <5>1. j - 1 = h
          BY <2>3, <4>1
        <5> QED
          BY <2>1, <2>3, <3>1, <5>1 DEF does
      <4>2. CASE j # h + 1
        BY <2>3, <4>2
      <4> QED
        BY <4>1, <4>2
    <3> QED
      BY <2>2, <2>7, <3>1, <3>2
  <2>9. BranchKept(e, w, start)
    BY <2>4, <2>8 DEF BranchKept, at
  <2> QED
    BY <1>1, <2>3, <2>4, <2>9 DEF w, h
<1> QED
  BY <1>3, <1>4, <1>5

\* So is a branch that has.
LEMMA BranchKeptThroughout ==
    ASSUME setup \in Setups, aliases \subseteq DOMAIN AliasOf, registered \subseteq Capabilities,
           NEW e \in Envelopes, setup.loop[e] = "parallel", NEW start \in Names \cup {Nowhere},
           NEW refused \in Nat, NEW v \in Envelope, v.ran = setup.past[e], v.next = start,
           NEW w, w = Branch(v, refused)[MaxIterations], w.next = Nowhere \/ w.terminated
    PROVE  BranchEnded(e, w, start)
<1> DEFINE at == Branch(v, refused)
           T  == {n \in 0..MaxIterations : /\ at[n] \in Envelope /\ Hops(e, at[n]) \in 0..n
                                           /\ BranchKept(e, at[n], start)}
<1>1. MaxIterations \in Nat
  BY LoopsAssumption
<1>2. at[0] = v /\ \A n \in 1..MaxIterations : at[n] = BranchHop(at[n - 1], n, refused)
  BY BranchFacts
<1>3. Hops(e, v) = 0
  BY SetupFacts DEF Hops
<1>4. Route(e, start)[0].next = start
  <2>1. Route(e, start)[0] = [next |-> start, plan |-> setup.plan[e]]
    BY RouteFacts
  <2> QED
    BY <2>1
<1>5. BranchKept(e, v, start)
  BY <1>3, <1>4 DEF BranchKept, Follows
<1> HIDE DEF at
<1>6. 0 \in T
  BY <1>1, <1>2, <1>3, <1>5
<1>7. ASSUME NEW n \in 1..MaxIterations, n - 1 \in T PROVE n \in T
  <2>1. /\ at[n - 1] \in Envelope /\ Hops(e, at[n - 1]) \in 0..(n - 1)
        /\ BranchKept(e, at[n - 1], start)
    BY <1>7
  <2> HIDE DEF Envelope
  <2>2. /\ BranchHop(at[n - 1], n, refused) \in Envelope
        /\ Hops(e, BranchHop(at[n - 1], n, refused)) \in 0..n
        /\ BranchKept(e, BranchHop(at[n - 1], n, refused), start)
    BY <2>1, BranchHopKept
  <2> QED
    BY <1>1, <1>2, <2>2
<1> HIDE DEF T
<1>8. 0..MaxIterations \subseteq T
  BY <1>1, <1>6, <1>7, Throughout
<1>9. w \in Envelope /\ Hops(e, w) \in 0..MaxIterations /\ BranchKept(e, w, start)
  BY <1>1, <1>8 DEF T, at
<1> QED
  BY <1>9 DEF BranchEnded, BranchKept

LEMMA ActsBranch ==
    ASSUME IInv, NEW e \in Envelopes, Acts(e)
    PROVE  BranchesKept(e)'
<1>t. /\ TypeOK /\ setup \in Setups /\ setup' = setup
      /\ registered \subseteq Capabilities /\ aliases \subseteq DOMAIN AliasOf
      /\ env \in [Envelopes -> Envelope] /\ results \in [Envelopes -> Seq(Envelope)]
  BY ActsAlone DEF IInv, TypeOK
<1>b. RouteKept(e) /\ BranchesKept(e)
  BY DEF IInv
<1>r. \A s : Route(e, s)' = Route(e, s)
  BY <1>t DEF Route, RouteHop, Refill
<1>s. ASSUME NEW v, NEW s, BranchEnded(e, v, s) PROVE BranchEnded(e, v, s)'
  <2>1. Hops(e, v)' = Hops(e, v) /\ (Follows(e, v, s)' <=> Follows(e, v, s))
    BY <1>t, <1>r DEF Follows, Hops
  <2> QED
    BY <1>t, <1>r, <1>s, <2>1 DEF BranchEnded
<1> HIDE DEF Envelope
<1>1. CASE RunBranch(e)
  <2> DEFINE s    == results[e]
             all  == setup.branches[e]
             i    == Len(s) + 1
             from == [env[e] EXCEPT !.next = all[i]]
  <2>1. /\ setup.loop[e] = "parallel" /\ pc[e] = "new" /\ i <= Len(all)
        /\ s \in Seq(Envelope) /\ all \in Seq(Names)
    BY <1>t, <1>1, SetupFacts DEF RunBranch, Branching
  <2>2. PICK refused \in 1..(MaxIterations + 1) :
           LET end == Branch(from, refused)[MaxIterations] IN
           /\ end.next = Nowhere \/ end.terminated
           /\ results' = [results EXCEPT ![e] = Append(@, end)]
    BY <1>1 DEF RunBranch
  <2> DEFINE end == Branch(from, refused)[MaxIterations]
  <2>3. all[i] \in Names
    BY <2>1
  <2>4. from \in Envelope
    BY <1>t, <2>3, NextTyped
  <2>5. from.ran = setup.past[e] /\ from.next = all[i]
    BY <1>t, <1>b, <2>1 DEF RouteKept, Envelope
  <2>6. refused \in Nat /\ MaxIterations \in Nat
    BY LoopsAssumption
  <2>7. end.next = Nowhere \/ end.terminated
    BY <2>2
  <2> HIDE DEF from
  <2>8. end \in Envelope
    BY <1>t, <2>4, <2>6, BranchFacts
  <2>9. BranchEnded(e, end, all[i])
    BY <1>t, <2>1, <2>3, <2>4, <2>5, <2>6, <2>7, BranchKeptThroughout
  <2>10. results'[e] = Append(s, end)
    BY <1>t, <2>2
  <2> HIDE DEF end, s, all
  <2>11. Len(results'[e]) <= Len(all)
    BY <2>1, <2>8, <2>10
  <2>12. ASSUME NEW j \in DOMAIN results'[e] PROVE BranchEnded(e, results'[e][j], all[j])
    <3>1. CASE j = i
      <4>1. results'[e][j] = end
        BY <2>1, <2>8, <2>10, <3>1
      <4> QED
        BY <2>9, <3>1, <4>1
    <3>2. CASE j # i
      <4>1. j \in DOMAIN s /\ results'[e][j] = s[j]
        BY <2>1, <2>8, <2>10, <2>12, <3>2
      <4> QED
        BY <1>b, <4>1 DEF BranchesKept, s, all
    <3> QED
      BY <3>1, <3>2
  <2> QED
    BY <1>t, <1>s, <2>1, <2>11, <2>12 DEF BranchesKept, all
<1>2. CASE ~RunBranch(e)
  <2>1. results' = results
    BY <1>2 DEF Acts, PipelineStep, EngineStep, Begin, DeadlinePasses, EnforceDeadline,
       Iterate, RunNode, RefuseNode, AfterHook, LeaveLoop, Conclude, Answered, Walk, Hop,
       NotFound, RemoteFails, Finish, Restore, Merge
  <2> QED
    BY <1>t, <1>b, <1>s, <2>1 DEF BranchesKept
<1> QED
  BY <1>1, <1>2

LEMMA StepRouteAndBranches ==
    ASSUME IInv, [Next]_vars, NEW f \in Envelopes
    PROVE  RouteKept(f)' /\ BranchesKept(f)'
<1>1. TypeOK /\ RouteKept(f) /\ BranchesKept(f)
  BY DEF IInv
<1>2. ASSUME NEW e \in Envelopes, Acts(e) PROVE RouteKept(f)' /\ BranchesKept(f)'
  <2>1. CASE f = e
    BY <1>2, <2>1, ActsRoute, ActsBranch
  <2>2. CASE f # e
    BY <1>1, <1>2, <2>2, ActsAlone, SameKept
  <2> QED
    BY <2>1, <2>2
<1>3. CASE ChangeRouter \/ UNCHANGED vars
  BY <1>1, <1>3, StaysAlone, SameKept
<1> QED
  BY <1>2, <1>3, StepCases

-----------------------------------------------------------------------------
(***************************************************************************)
(* The invariant, and what follows from it.                                *)
(***************************************************************************)
LEMMA InitIInv == Init => IInv
<1> SUFFICES ASSUME Init PROVE IInv
  OBVIOUS
<1>s. /\ setup \in Setups /\ MaxIterations \in Nat /\ MaxChanges \in Nat
      /\ 0 \in 0..(MaxIterations + 1) /\ 0 \in 0..MaxChanges
  BY LoopsAssumption DEF Init
<1>1. \A e \in Envelopes :
         /\ pc[e] = "new" /\ iterations[e] = 0 /\ ~late[e] /\ trouble[e] = {}
         /\ answer[e] = NoEnvelope /\ results[e] = <<>>
         /\ env[e].next = setup.first[e] /\ env[e].ran = setup.past[e]
         /\ env[e].plan = setup.plan[e] /\ ~env[e].terminated /\ ~env[e].error
  BY DEF Init
<1>2. TypeOK
  <2>1. env \in [Envelopes -> Envelope]
    BY <1>s, SetupFacts DEF Init, Envelope
  <2>2. results \in [Envelopes -> Seq(Envelope)]
    BY DEF Init
  <2>3. /\ stored \in Seq(Envelopes) /\ trouble \in [Envelopes -> SUBSET Troubles]
        /\ iterations \in [Envelopes -> 0..(MaxIterations + 1)]
    BY <1>s DEF Init
  <2> QED
    BY <1>s, <2>1, <2>2, <2>3 DEF Init, TypeOK
<1>3. StoredKept /\ AnswersAreWalks
  <2>1. DOMAIN stored = {}
    BY DEF Init
  <2> QED
    BY <1>1, <2>1, AnswersApart DEF StoredKept, AnswersAreWalks
<1> SUFFICES ASSUME NEW e \in Envelopes PROVE VerdictKept(e) /\ RouteKept(e) /\ BranchesKept(e)
  BY <1>2, <1>3 DEF IInv
<1>4. VerdictKept(e)
  BY <1>1, <1>s DEF VerdictKept, NoEnvelope
<1>5. RouteKept(e)
  <2>1. Hops(e, env[e]) = 0
    BY <1>1, <1>s, SetupFacts DEF Hops
  <2> QED
    BY <1>1, <1>s, <2>1 DEF RouteKept, Follows
<1>6. BranchesKept(e)
  <2>1. Len(setup.branches[e]) \in Nat
    BY <1>s, SetupFacts
  <2> QED
    BY <1>1, <2>1 DEF BranchesKept
<1> QED
  BY <1>4, <1>5, <1>6

\* What is known of every envelope wherever the loops are: its type, what has gone
\* wrong with it and what the loop has made of that (Pipeline.execute), where it
\* has been and where it goes next, where its branches have been, and that what is
\* in the semantic cache has ended.
THEOREM InductiveInvariant == Spec => []IInv
<1>1. IInv /\ [Next]_vars => IInv'
  <2> SUFFICES ASSUME IInv, [Next]_vars PROVE IInv'
    OBVIOUS
  <2> QED
    BY StepTyped, StepAnswers, StepVerdict, StepRouteAndBranches DEF IInv
<1> QED
  BY InitIInv, <1>1, PTL DEF Spec

THEOREM Typing == Spec => []TypeOK
<1>1. IInv => TypeOK
  BY DEF IInv
<1> QED
  BY <1>1, InductiveInvariant, PTL

\* Pipeline.execute reports success only of a run that was in time, within the
\* iterations, and got through all its nodes, and a failure only if there was one.
THEOREM Verdict == Spec => []PipelineVerdict
<1>1. IInv => PipelineVerdict
  <2> SUFFICES ASSUME IInv, NEW e \in Envelopes
               PROVE  /\ answer[e] = "success" =>
                            /\ ~late[e]
                            /\ trouble[e] \subseteq {"stopped", "mute", "failed"}
                            /\ "failed" \in trouble[e] => setup.continues
                      /\ answer[e] = "failure" => trouble[e] \ {"stopped", "mute"} # {}
    BY DEF PipelineVerdict
  <2>1. VerdictKept(e) /\ trouble[e] \subseteq Troubles
    BY DEF IInv, TypeOK
  <2>2. CASE answer[e] = "success"
    <3>1. /\ Pipelined(e) /\ pc[e] = "done" /\ ~late[e] /\ ~(env[e].terminated /\ env[e].error)
      BY <2>1, <2>2 DEF VerdictKept, NoEnvelope
    <3>2. trouble[e] \cap Fatal = {} /\ ("failed" \in trouble[e] => setup.continues)
      BY <2>1, <3>1 DEF VerdictKept
    <3> QED
      BY <2>1, <2>2, <3>1, <3>2 DEF Troubles, Fatal
  <2>3. CASE answer[e] = "failure"
    <3>1. Pipelined(e) /\ env[e].error
      BY <2>1, <2>3 DEF VerdictKept
    <3> QED
      BY <2>1, <2>3, <3>1 DEF VerdictKept
  <2> QED
    BY <2>2, <2>3
<1> QED
  BY <1>1, InductiveInvariant, PTL

\* An envelope goes through the nodes that the nodes before them and its plan
\* lead to, whatever the router and the clock do; so do its parallel branches.
THEOREM Routing == Spec => []FollowsRouting
<1>1. IInv => FollowsRouting
  <2> SUFFICES ASSUME IInv, NEW e \in Envelopes
               PROVE  /\ setup.loop[e] # "replay" =>
                            /\ Follows(e, env[e], Start(e))
                            /\ Hops(e, env[e]) <= iterations[e]
                            /\ Pipelined(e) => Hops(e, env[e]) <= MaxIterations
                      /\ \A i \in DOMAIN results[e] :
                            BranchEnded(e, results[e][i], setup.branches[e][i])
    BY DEF FollowsRouting, BranchEnded
  <2>1. RouteKept(e) /\ BranchesKept(e) /\ iterations[e] \in Nat
    BY DEF IInv, TypeOK
  <2> QED
    BY <2>1 DEF RouteKept, BranchesKept
<1> QED
  BY <1>1, InductiveInvariant, PTL

\* PrismEngine.execute answers with the final envelope of a walk that has ended,
\* its own or that of a similar request that went through some node.
THEOREM Answers == Spec => []AnswersAreWalks
<1>1. IInv => AnswersAreWalks
  BY DEF IInv
<1> QED
  BY <1>1, InductiveInvariant, PTL
=============================================================================
