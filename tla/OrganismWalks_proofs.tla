----------------------- MODULE OrganismWalks_proofs -----------------------
(***************************************************************************)
(* Proofs, for any requests, branches and swarm, any nodes and any hop     *)
(* limit: that a time split is decided as it should be, that sharing       *)
(* results over the cache changes nobody's, except for the failures that   *)
(* somebody restores, and that a swarm accounts for all of its items.  The *)
(* last two are about what functions defined step by step (where an        *)
(* organism's hops lead, how the workers' turns leave things) come to      *)
(* after any number of steps; where a proof needs all steps before one, it *)
(* takes the least of those that violate its claim.                        *)
(***************************************************************************)
EXTENDS OrganismWalks, FiniteSetTheorems, SequenceTheorems, WellFoundedInduction, TLAPS

WalksTyped ==
    /\ work.branches \subseteq Branches
    /\ work.walks \subseteq Requests
    /\ pc = [o \in Organisms |-> pc[o]]
    /\ status = [o \in Organisms |-> status[o]]
    /\ next = [o \in Organisms |-> next[o]]
    /\ facts = [o \in Organisms |-> facts[o]]

\* A walk that is at its end because it was stopped has been terminated.
EndsTerminated == \A o \in Organisms : pc[o] = "end" => Terminated(o)

\* Until a split is decided, a branch that is done is there because it was
\* terminated or because it had nowhere to go on to.
DoneIsReached ==
    split.status = "spawned" =>
        \A b \in work.branches : pc[b] = "done" => Terminated(b) \/ next[b] = Nowhere

\* Once it is, no branch is under way.
DecidedIsDone ==
    split.status # "spawned" => \A b \in work.branches : pc[b] = "done"

IInv == WalksTyped /\ EndsTerminated /\ DoneIsReached /\ DecidedIsDone /\ SplitDecided

\* What a step of one organism o may do: o is not done before it, it leaves the
\* other organisms and the split alone, and if it is o's last it has a reason.
Moves(o) ==
    /\ pc[o] # "done"
    /\ UNCHANGED <<work, split>>
    /\ WalksTyped'
    /\ \A q \in Organisms \ {o} : /\ pc'[q] = pc[q] /\ status'[q] = status[q]
                                  /\ next'[q] = next[q] /\ facts'[q] = facts[q]
    /\ pc'[o] = "end" => Terminated(o)'
    /\ pc'[o] = "done" => Terminated(o)' \/ next'[o] = Nowhere \/ o \in Requests

\* Every step an organism takes by itself is such a move.
LEMMA StepMoves ==
    ASSUME IInv, NEW o \in Organisms,
           \/ o \in work.walks /\ RequestStep(o)
           \/ o \in work.branches /\ BranchStep(o)
    PROVE  Moves(o)
<1> USE DEF IInv, WalksTyped, Moves, Terminated, Goto, Terminate, run
<1>1. CASE Restore(o)
  BY <1>1 DEF Restore, Counted
<1>2. CASE Exhaust(o)
  BY <1>2 DEF Exhaust
<1>3. ASSUME RunNode(o) PROVE Moves(o)
  <2>1. CASE behaviour[next[o]].kind = "ok"
    BY <1>3, <2>1 DEF RunNode, Success
  <2>2. CASE behaviour[next[o]].kind # "ok"
    BY <1>3, <2>2 DEF RunNode, Success
  <2> QED
    BY <2>1, <2>2
<1>4. ASSUME NotFound(o) PROVE Moves(o)
  BY <1>4 DEF NotFound
<1>5. CASE Start(o)
  BY <1>5 DEF Start
<1>6. CASE Join(o)
  BY <1>6 DEF Join
<1>7. CASE Own(o)
  BY <1>7 DEF Own, Counted
<1>8. CASE o \in work.walks /\ Complete(o)
  BY <1>8 DEF Complete
<1>9. CASE o \in work.walks /\ Fail(o)
  BY <1>9 DEF Fail
<1>10. CASE Branch(o)
  BY <1>10 DEF Branch
<1>11. CASE BranchMiss(o)
  BY <1>11 DEF BranchMiss, Counted
<1>12. CASE BranchEnd(o)
  <2>1. CASE pc[o] = "loop" /\ next[o] = Nowhere
    BY <1>12, <2>1 DEF BranchEnd
  <2>2. CASE pc[o] = "end"
    <3>1. status[o] = "terminated"
      BY <2>2 DEF EndsTerminated
    <3> QED
      BY <1>12, <2>2, <3>1 DEF BranchEnd
  <2> QED
    BY <1>12, <2>1, <2>2 DEF BranchEnd
<1>13. CASE BranchTimeout(o)
  BY <1>13 DEF BranchTimeout
<1> QED
  BY <1>1, <1>2, <1>3, <1>4, <1>5, <1>6, <1>7, <1>8, <1>9, <1>10, <1>11, <1>12, <1>13
     DEF RequestStep, BranchStep, Execute, BranchExecute

\* A move of an organism that takes part keeps the invariant: before the split
\* is decided its own reason is enough, after it no branch moves at all.
LEMMA MoveKeeps ==
    ASSUME IInv, NEW o \in work.walks \cup work.branches, Moves(o)
    PROVE  IInv'
<1> USE DEF IInv, WalksTyped, Organisms
<1>1. o \in Organisms /\ work' = work /\ split' = split /\ WalksTyped'
  BY DEF Moves
<1>2. EndsTerminated'
  BY <1>1 DEF EndsTerminated, Terminated, Moves
<1>3. DoneIsReached'
  BY <1>1, WalksAssumption DEF DoneIsReached, Terminated, Moves
<1>4. split.status # "spawned" => o \notin work.branches
  BY DEF DecidedIsDone, Moves
<1>5. DecidedIsDone'
  BY <1>1, <1>4 DEF DecidedIsDone, Moves
<1>6. SplitDecided'
  BY <1>1, <1>4 DEF SplitDecided, Terminated, Moves
<1> QED
  BY <1>1, <1>2, <1>3, <1>5, <1>6

\* Deciding a split: the winner was done and not terminated, so it had nowhere
\* to go on to; the losers were terminated.
LEMMA DecisionKeeps == ASSUME IInv, SplitStep PROVE IInv'
<1> USE DEF IInv, WalksTyped, Organisms
<1>1. ASSUME NEW b \in work.branches, Win(b) PROVE IInv'
  <2>1. /\ split'.status = "learning" /\ split'.facts = facts[b]
        /\ UNCHANGED <<work, facts, next, status>>
        /\ pc' = [o \in Organisms |-> IF o \in work.branches THEN "done" ELSE pc[o]]
    BY <1>1 DEF Win, run
  <2>2. pc[b] = "done" /\ ~Terminated(b) /\ next[b] = Nowhere
    BY <1>1 DEF Win, Open, DoneIsReached
  <2>3. WalksTyped' /\ EndsTerminated' /\ DoneIsReached' /\ DecidedIsDone'
    BY <2>1 DEF EndsTerminated, DoneIsReached, DecidedIsDone, Terminated
  <2>4. SplitDecided'
    BY <2>1, <2>2 DEF SplitDecided, Terminated
  <2> QED
    BY <2>3, <2>4
<1>2. CASE Lose
  <2>1. /\ split' = [split EXCEPT !.status = "terminated"]
        /\ UNCHANGED <<work, pc, facts, next, status>>
        /\ \A b \in work.branches : pc[b] = "done" /\ Terminated(b)
    BY <1>2 DEF Lose, run, walk
  <2>2. split'.status # "learning" /\ split'.status # "spawned"
    BY <2>1
  <2> QED
    BY <2>1, <2>2
       DEF EndsTerminated, DoneIsReached, DecidedIsDone, SplitDecided, Terminated
<1> QED
  BY <1>1, <1>2 DEF SplitStep

\* The invariant holds at first: no walk is done or at its end.
LEMMA InitIInv == Init => IInv
<1> SUFFICES ASSUME Init PROVE IInv
  OBVIOUS
<1>1. work.branches \subseteq Branches /\ work.walks \subseteq Requests
  BY WalksAssumption DEF Init
<1>2. next = [o \in Organisms |-> next[o]]
  BY WalksAssumption DEF Init
<1> QED
  BY <1>1, <1>2 DEF Init, IInv, WalksTyped, EndsTerminated, DoneIsReached, DecidedIsDone,
                    SplitDecided, Organisms, Terminated

\* Every step keeps it: moves, decisions, and what leaves walks and split alone.
LEMMA StepIInv == IInv /\ [Next]_vars => IInv'
<1> SUFFICES ASSUME IInv, [Next]_vars PROVE IInv'
  OBVIOUS
<1>1. ASSUME NEW r \in work.walks, RequestStep(r) PROVE IInv'
  BY <1>1, StepMoves, MoveKeeps DEF IInv, WalksTyped, Organisms
<1>2. ASSUME NEW b \in work.branches, BranchStep(b) PROVE IInv'
  BY <1>2, StepMoves, MoveKeeps DEF IInv, WalksTyped, Organisms
<1>3. CASE SplitStep
  BY <1>3, DecisionKeeps
<1>4. ASSUME UNCHANGED <<run, walk, split>> PROVE IInv'
  BY <1>4 DEF IInv, WalksTyped, EndsTerminated, DoneIsReached, DecidedIsDone,
              SplitDecided, Terminated, run, walk
<1>5. CASE ExecuteSwarm
  BY <1>4, <1>5 DEF ExecuteSwarm
<1>6. CASE Expire
  BY <1>4, <1>6 DEF Expire
<1>7. CASE UNCHANGED vars
  BY <1>4, <1>7 DEF vars
<1> QED
  BY <1>1, <1>2, <1>3, <1>5, <1>6, <1>7 DEF Next

\* The inductive invariant holds throughout: a branch that is done has a reason,
\* and no branch goes on in a split that is decided.
THEOREM InductiveInvariant == Spec => []IInv
  BY InitIInv, StepIInv, PTL DEF Spec

\* "first successful wins" (TimeSplitter.execute_time_split), whatever the
\* requests and branches share and in whatever order they get through.
THEOREM FirstSuccessWins == Spec => []SplitDecided
<1>1. IInv => SplitDecided
  BY DEF IInv
<1> QED
  BY <1>1, InductiveInvariant, PTL

-----------------------------------------------------------------------------
(***************************************************************************)
(* Natural numbers, and functions defined step by step.                    *)
(***************************************************************************)
LEMMA LeastNumber ==
    ASSUME NEW T, T \subseteq Nat, T # {}
    PROVE  \E m \in T : \A n \in T : m <= n
<1>1. IsWellFoundedOn(OpToRel(<, Nat), Nat)
  BY NatLessThanWellFounded
<1>2. PICK m \in T : \A y \in T : ~(<<y, m>> \in OpToRel(<, Nat))
  BY <1>1, WFMin, Zenon
<1>3. \A i, j \in Nat : i < j => <<i, j>> \in OpToRel(<, Nat)
  BY DEF OpToRel
<1>4. \A n \in T : ~(n < m)
  BY <1>2, <1>3
<1> QED
  BY <1>4

\* Step by step, every number of steps can be taken.
LEMMA Stepwise ==
    ASSUME NEW S, NEW x \in S, NEW N \in Nat, NEW step \in [1..N -> [S -> S]]
    PROVE  \E f \in [0..N -> S] : f[0] = x /\ \A n \in 1..N : f[n] = step[n][f[n - 1]]
<1> DEFINE Is(f, m) ==
             f \in [0..m -> S] /\ f[0] = x /\ \A n \in 1..m : f[n] = step[n][f[n - 1]]
           T == {m \in 0..N : ~\E f : Is(f, m)}
<1>1. ASSUME T # {} PROVE FALSE
  <2>1. T \subseteq Nat
    OBVIOUS
  <2> HIDE DEF T
  <2>2. PICK m \in T : \A n \in T : m <= n
    BY <1>1, <2>1, LeastNumber
  <2>3. m \in 0..N /\ ~\E f : Is(f, m)
    BY <2>2 DEF T
  <2>4. m # 0
    <3>1. Is([i \in 0..0 |-> x], 0)
      OBVIOUS
    <3> QED
      BY <2>3, <3>1
  <2>5. \E f : Is(f, m - 1)
    <3> HIDE DEF Is
    <3>1. m - 1 \in 0..N /\ ~(m <= m - 1)
      BY <2>3, <2>4
    <3> QED
      BY <2>2, <3>1 DEF T
  <2>6. PICK f : Is(f, m - 1)
    BY <2>5
  <2> DEFINE g == [i \in 0..m |-> IF i = m THEN step[m][f[m - 1]] ELSE f[i]]
  <2>7. g \in [0..m -> S] /\ g[0] = x
    BY <2>3, <2>4, <2>6
  <2>8. \A n \in 1..m : g[n] = step[n][g[n - 1]]
    BY <2>3, <2>4, <2>6
  <2>9. Is(g, m)
    BY <2>7, <2>8
  <2> QED
    BY <2>3, <2>9
<1>2. \E f : Is(f, N)
  <2> HIDE DEF Is
  <2> QED
    BY <1>1
<1> QED
  BY <1>2

\* What holds at the start and after each step holds all along: the steps at
\* which it does, taken as a set.
LEMMA Throughout ==
    ASSUME NEW N \in Nat, NEW T, 0 \in T, \A n \in 1..N : n - 1 \in T => n \in T
    PROVE  0..N \subseteq T
<1> DEFINE U == {n \in 0..N : n \notin T}
<1>1. ASSUME U # {} PROVE FALSE
  <2>1. PICK m \in U : \A n \in U : m <= n
    <3>1. U \subseteq Nat
      OBVIOUS
    <3> HIDE DEF U
    <3> QED
      BY <1>1, <3>1, LeastNumber
  <2>2. m \in 1..N /\ m - 1 \in 0..N /\ m - 1 \notin U
    BY <2>1
  <2> QED
    BY <2>1, <2>2
<1> QED
  BY <1>1

-----------------------------------------------------------------------------
(***************************************************************************)
(* What nodes do, and where the hops of an organism lead.                  *)
(***************************************************************************)
LEMMA Setup ==
    ASSUME behaviour \in Behaviours, work \in Workloads
    PROVE  /\ behaviour \in [Capabilities -> NodeKinds]
           /\ \A c \in Capabilities : behaviour[c].next \in Targets
           /\ work.walks \subseteq Requests /\ work.branches \subseteq Branches
           /\ work.input \in [Organisms -> Inputs]
           /\ work.first \in [Organisms -> Targets \ {Nowhere}]
           /\ work.swarm \in Swarms
           /\ MaxHops \in Nat /\ MaxHops >= 1
<1>1. behaviour \in [Capabilities -> NodeKinds]
  BY WalksAssumption
<1>2. \A c \in Capabilities : behaviour[c] \in NodeKinds
  BY <1>1
<1>3. \A c \in Capabilities : behaviour[c].next \in Targets
  BY <1>2 DEF NodeKinds
<1>4. work \in [walks : SUBSET Requests, branches : SUBSET Branches,
                input : [Organisms -> Inputs], first : [Organisms -> Targets \ {Nowhere}],
                swarm : Swarms]
  BY WalksAssumption
<1> HIDE DEF Swarms
<1>5. /\ work.walks \subseteq Requests /\ work.branches \subseteq Branches
      /\ work.input \in [Organisms -> Inputs]
      /\ work.first \in [Organisms -> Targets \ {Nowhere}] /\ work.swarm \in Swarms
  BY <1>4
<1> QED
  BY <1>1, <1>3, <1>5, WalksAssumption

LEMMA SetupFacts ==
    ASSUME TypeOK
    PROVE  /\ behaviour \in [Capabilities -> NodeKinds]
           /\ \A c \in Capabilities : behaviour[c].next \in Targets
           /\ work.walks \subseteq Requests /\ work.branches \subseteq Branches
           /\ work.input \in [Organisms -> Inputs]
           /\ work.first \in [Organisms -> Targets \ {Nowhere}]
           /\ work.swarm \in Swarms
           /\ MaxHops \in Nat /\ MaxHops >= 1
BY Setup DEF TypeOK

LEMMA OutcomeFacts ==
    ASSUME NEW c \in Capabilities, NEW f \in States, NEW g \in States, f \subseteq g
    PROVE  /\ Outcome(c, f) \in States
           /\ Outcome(c, f) \subseteq Outcome(c, g)
           /\ Outcome(c, f) \subseteq g \cup Outcome(c, g)
           /\ ~behaviour[c].clears => f \subseteq Outcome(c, f)
BY DEF Outcome, States

LEMMA HopTyped ==
    ASSUME TypeOK, NEW s \in Entries
    PROVE  Hop(s) \in Entries
<1>1. s.facts \in States /\ s.next \in Targets
  BY DEF Entries
<1>2. CASE s.next \in Capabilities
  <2>1. Outcome(s.next, s.facts) \in States /\ behaviour[s.next].next \in Targets
    BY <1>1, <1>2, OutcomeFacts, SetupFacts
  <2> QED
    BY <1>2, <2>1 DEF Hop, Entries
<1> QED
  BY <1>2 DEF Hop

\* An organism's hops lead from one to the next.
LEMMA LedFacts ==
    ASSUME TypeOK, NEW o \in Organisms
    PROVE  /\ Led(o) \in [0..MaxHops -> Entries]
           /\ Led(o)[0] = [facts |-> {work.input[o]}, next |-> work.first[o]]
           /\ \A n \in 1..MaxHops : Led(o)[n] = Hop(Led(o)[n - 1])
<1> DEFINE N     == MaxHops
           r0    == [facts |-> {work.input[o]}, next |-> work.first[o]]
           step  == [n \in 1..N |-> [s \in Entries |-> Hop(s)]]
           Is(f) == f = [n \in 0..N |-> IF n = 0 THEN r0 ELSE Hop(f[n - 1])]
<1>1. N \in Nat /\ r0 \in Entries
  <2>1. work.input[o] \in Inputs /\ work.first[o] \in Targets
    BY SetupFacts
  <2> QED
    BY <2>1, SetupFacts DEF Entries, States
<1>2. step \in [1..N -> [Entries -> Entries]]
  BY HopTyped
<1>3. \A n \in 1..N, s \in Entries : step[n][s] = Hop(s)
  OBVIOUS
<1>4. Led(o) = CHOOSE f : Is(f)
  BY DEF Led
<1> HIDE DEF N, r0, Entries, step
<1>5. PICK f \in [0..N -> Entries] : f[0] = r0 /\ \A n \in 1..N : f[n] = step[n][f[n - 1]]
  BY <1>1, <1>2, Stepwise
<1>6. ASSUME NEW n \in 1..N PROVE f[n] = Hop(f[n - 1])
  <2>1. f[n - 1] \in Entries /\ f[n] = step[n][f[n - 1]]
    BY <1>1, <1>5
  <2> QED
    BY <1>3, <2>1
<1>7. Is(f)
  <2>1. \A n \in 0..N : f[n] = IF n = 0 THEN r0 ELSE Hop(f[n - 1])
    BY <1>1, <1>5, <1>6
  <2> QED
    BY <2>1, <1>5
<1>8. Is(Led(o))
  BY <1>4, <1>7
<1>9. ASSUME NEW g, Is(g)
      PROVE  g[0] = r0 /\ \A n \in 1..N : g[n] = Hop(g[n - 1])
  BY <1>1, <1>9
<1> DEFINE at == Led(o)
<1>10. at[0] = r0 /\ \A n \in 1..N : at[n] = Hop(at[n - 1])
  BY <1>8, <1>9
<1>11. at \in [0..N -> Entries]
  <2> DEFINE T == {n \in 0..N : at[n] \in Entries}
  <2>1. 0 \in T
    BY <1>1, <1>10
  <2>2. \A n \in 1..N : n - 1 \in T => n \in T
    BY <1>1, <1>10, HopTyped
  <2> HIDE DEF T
  <2>3. 0..N \subseteq T
    BY <1>1, <2>1, <2>2, Throughout
  <2>4. \A n \in 0..N : at[n] \in Entries
    BY <2>3 DEF T
  <2>5. at = [n \in 0..N |-> IF n = 0 THEN r0 ELSE Hop(at[n - 1])]
    BY <1>8
  <2> HIDE DEF at
  <2> QED
    BY <2>4, <2>5
<1> QED
  BY <1>10, <1>11 DEF N, r0

-----------------------------------------------------------------------------
(***************************************************************************)
(* Sharing.  Whatever is cached is what its node makes of the state it is  *)
(* cached for, and every organism is where its own hops lead, under way or *)
(* at the end it would have come to alone, past the failures it restored.  *)
(***************************************************************************)
Result(c, f) == [facts |-> Outcome(c, f), next |-> behaviour[c].next]

CachePure == \A c \in Capabilities, f \in States :
    cache[<<c, f>>] \in {Missing, Result(c, f)}

\* After n hops o is where they lead, and has revived nothing but failures.
Where(o, n) == LedTo(o, n) /\ \A m \in revived[o] : m <= n /\ Stops(o, m)

\* It is under way, or has come to where it would have come alone.
Under(o, n) == Where(o, n) /\ Past(o, n) /\ status[o] \notin {"learning", "terminated"}
Pure(o, n)  == Where(o, n) /\ Ends(o, n)

Placed(o) ==
    /\ pc[o] \in {"new", "loop"} => hops[o] <= MaxHops /\ Under(o, hops[o])
    /\ pc[o] \in {"wait", "run"} =>
          hops[o] \in 1..MaxHops /\ next[o] # Nowhere /\ Under(o, hops[o] - 1)
    /\ pc[o] = "end" => Terminated(o)
    /\ \E n \in Taken(o) : Pure(o, n)

\* A request's last event tells how it ended.
Told ==
    \A r \in Requests :
        /\ verdict[r] = "completed" => status[r] = "learning"
        /\ verdict[r] = "failed" => Terminated(r)

\* A swarm that has not run has no results.
SwarmKept == (swarm.status = "spawned" => swarm.results = <<>>) /\ SwarmCovers

SInv == TypeOK /\ CachePure /\ (\A o \in Organisms : Placed(o)) /\ Told /\ SwarmKept

LEMMA LedSame ==
    ASSUME UNCHANGED run
    PROVE  /\ \A o : Led(o)' = Led(o)
           /\ \A c, f : Outcome(c, f)' = Outcome(c, f)
           /\ \A c, f : Result(c, f)' = Result(c, f)
           /\ \A o, n : Succeeds(o, n)' <=> Succeeds(o, n)
           /\ \A o, n : Stops(o, n)' <=> Stops(o, n)
<1>1. /\ \A o : Led(o)' = Led(o)
      /\ \A c, f : Outcome(c, f)' = Outcome(c, f)
      /\ \A c, f : Result(c, f)' = Result(c, f)
      /\ behaviour' = behaviour
  BY DEF run, Led, Hop, Outcome, Result
<1> QED
  BY <1>1 DEF Succeeds, Stops

\* An organism that keeps its state and its next capability is where it was.
LEMMA WhereSame ==
    ASSUME UNCHANGED run, NEW o, facts'[o] = facts[o], next'[o] = next[o],
           revived'[o] = revived[o]
    PROVE  /\ \A n : LedTo(o, n)' <=> LedTo(o, n)
           /\ \A n : Where(o, n)' <=> Where(o, n)
           /\ \A n : Past(o, n)' <=> Past(o, n)
<1>1. \A n : LedTo(o, n)' <=> LedTo(o, n)
  BY LedSame DEF LedTo, run
<1>2. \A n : Where(o, n)' <=> Where(o, n)
  BY <1>1, LedSame DEF Where
<1>3. \A n : Past(o, n)' <=> Past(o, n)
  BY LedSame DEF Past
<1> QED
  BY <1>1, <1>2, <1>3

LEMMA PureSame ==
    ASSUME UNCHANGED run, NEW o, facts'[o] = facts[o], next'[o] = next[o],
           revived'[o] = revived[o], status'[o] = status[o]
    PROVE  /\ \A n : Pure(o, n)' <=> Pure(o, n)
           /\ \A n : Under(o, n)' <=> Under(o, n)
<1>1. \A n : Ends(o, n)' <=> Ends(o, n)
  BY WhereSame, LedSame DEF Ends, Terminated
<1> QED
  BY <1>1, WhereSame DEF Pure, Under

LEMMA PlacedSame ==
    ASSUME UNCHANGED run, NEW o, Placed(o), facts'[o] = facts[o], next'[o] = next[o],
           revived'[o] = revived[o], status'[o] = status[o],
           pc'[o] = pc[o], hops'[o] = hops[o]
    PROVE  Placed(o)'
<1>1. /\ \A n : Pure(o, n)' <=> Pure(o, n)
      /\ \A n : Under(o, n)' <=> Under(o, n)
  BY PureSame
<1>2. Taken(o)' = Taken(o) /\ (Terminated(o)' <=> Terminated(o))
  BY DEF Taken, Terminated
<1> QED
  BY <1>1, <1>2 DEF Placed

\* Who is under way has not ended, so it is no wonder that no event says so.
LEMMA UnderPure == ASSUME NEW o, NEW n, Under(o, n) PROVE Pure(o, n)
BY DEF Under, Pure, Ends, Terminated

LEMMA UnderWay ==
    ASSUME SInv, NEW o \in Organisms, pc[o] \in {"new", "loop", "wait", "run"}
    PROVE  /\ status[o] \notin {"learning", "terminated"}
           /\ o \in Requests => verdict[o] \notin {"completed", "failed"}
<1>1. Placed(o) /\ Told
  BY DEF SInv
<1>2. status[o] \notin {"learning", "terminated"}
  BY <1>1 DEF Placed, Under
<1> QED
  BY <1>1, <1>2 DEF Told, Terminated

\* A step that ends an organism under way, or takes none to its end.
LEMMA ToldKeeps ==
    ASSUME SInv, NEW o \in Organisms, UNCHANGED verdict,
           \A q \in Organisms \ {o} : status'[q] = status[q],
           status'[o] = status[o] \/ pc[o] \in {"new", "loop", "wait", "run"}
    PROVE  Told'
<1>1. Told /\ Requests \subseteq Organisms
  BY DEF SInv, Organisms
<1>2. CASE status'[o] = status[o]
  BY <1>1, <1>2 DEF Told, Terminated
<1>3. CASE pc[o] \in {"new", "loop", "wait", "run"}
  BY <1>1, <1>3, UnderWay DEF Told, Terminated
<1> QED
  BY <1>2, <1>3

LEMMA SwarmSame ==
    ASSUME UNCHANGED <<run, swarm>>, SwarmKept
    PROVE  SwarmKept'
<1>1. work' = work /\ swarm' = swarm /\ \A c, f : Outcome(c, f)' = Outcome(c, f)
  BY LedSame DEF run
<1> QED
  BY <1>1 DEF SwarmKept, SwarmCovers, IsInjective

\* A step of one organism.
LEMMA OneKeeps ==
    ASSUME SInv, NEW o \in Organisms, UNCHANGED <<run, swarm>>, TypeOK', CachePure', Placed(o)',
           Told',
           \A q \in Organisms \ {o} : /\ pc'[q] = pc[q] /\ facts'[q] = facts[q]
                                      /\ next'[q] = next[q] /\ hops'[q] = hops[q]
                                      /\ status'[q] = status[q] /\ revived'[q] = revived[q]
    PROVE  SInv'
<1>1. ASSUME NEW q \in Organisms PROVE Placed(q)'
  BY <1>1, PlacedSame DEF SInv
<1> QED
  BY <1>1, SwarmSame DEF SInv

LEMMA CacheSame ==
    ASSUME CachePure, UNCHANGED <<run, cache>>
    PROVE  CachePure'
BY LedSame DEF CachePure

\* What a hop does, restored or run, is what Hop does.
LEMMA HopLeads ==
    ASSUME SInv, UNCHANGED run, NEW o \in Organisms, NEW c \in Capabilities, next[o] = c,
           hops'[o] \in 1..MaxHops, LedTo(o, hops'[o] - 1), next'[o] = behaviour[c].next,
           facts'[o] \in {Outcome(c, facts[o]), facts[o] \cup Outcome(c, facts[o])}
    PROVE  LedTo(o, hops[o])'
<1>1. PICK m \in 1..MaxHops, n \in 0..(MaxHops - 1) : m = hops'[o] /\ n = m - 1
  <2>1. MaxHops \in Nat
    BY SetupFacts DEF SInv
  <2> QED
    BY <2>1
<1> DEFINE a == Led(o)[n]  b == Led(o)[m]
<1>2. MaxHops \in Nat /\ TypeOK /\ facts[o] \in States /\ n \in 0..MaxHops
  BY SetupFacts DEF SInv, TypeOK
<1>3. a \in Entries /\ b = Hop(a)
  BY <1>1, <1>2, LedFacts
<1>4. a.next = c /\ a.facts \subseteq facts[o]
      /\ ((\A x \in Capabilities : ~behaviour[x].clears) => facts[o] = a.facts)
  BY <1>1 DEF LedTo
<1>5. a.facts \in States
  BY <1>3 DEF Entries
<1>6. Led(o)'[hops'[o]] = b /\ behaviour' = behaviour
  BY <1>1, LedSame DEF run
<1> HIDE DEF a, b
<1>7. b.facts = Outcome(c, a.facts) /\ b.next = behaviour[c].next
  BY <1>3, <1>4 DEF Hop
<1>8. /\ Outcome(c, a.facts) \subseteq Outcome(c, facts[o])
      /\ ~behaviour[c].clears => facts[o] \subseteq Outcome(c, facts[o])
  BY <1>2, <1>4, <1>5, OutcomeFacts
<1>9. b.facts \subseteq facts'[o]
  BY <1>7, <1>8
<1>10. (\A x \in Capabilities : ~behaviour[x].clears) => facts'[o] = b.facts
  BY <1>4, <1>7, <1>8
<1> QED
  BY <1>6, <1>7, <1>9, <1>10 DEF LedTo

\* A hop that succeeds, or whose failure is restored, is got past.
LEMMA HopPast ==
    ASSUME UNCHANGED run, NEW o, NEW c \in Capabilities, NEW h \in Nat \ {0},
           next[o] = c, LedTo(o, h - 1), Past(o, h - 1),
           behaviour[c].kind = "ok" \/ h \in revived'[o], revived[o] \subseteq revived'[o]
    PROVE  Past(o, h)'
<1>1. Led(o)[h - 1].next = c
  BY DEF LedTo
<1>2. Succeeds(o, h)' \/ h \in revived'[o]
  BY <1>1, LedSame DEF Succeeds
<1>3. \A m \in 1..(h - 1) : Succeeds(o, m)' \/ m \in revived'[o]
  BY LedSame DEF Past
<1>4. \A m \in 1..h : m \in 1..(h - 1) \/ m = h
  OBVIOUS
<1> QED
  BY <1>2, <1>3, <1>4 DEF Past

LEMMA TypedAt ==
    ASSUME TypeOK, NEW o \in Organisms
    PROVE  /\ pc[o] \in {"new", "loop", "wait", "run", "end", "done"}
           /\ facts[o] \in States /\ next[o] \in Targets /\ hops[o] \in 0..(MaxHops + 1)
           /\ revived[o] \subseteq 1..MaxHops
           /\ next[o] \in Capabilities => Key(o) \in Keys /\ Key(o) = <<next[o], facts[o]>>
BY DEF TypeOK, Key, Keys

LEMMA CountedFacts ==
    ASSUME SInv, NEW o \in Organisms, Counted(o)
    PROVE  /\ pc[o] \in {"loop", "wait"} /\ next[o] \in Capabilities \cup {Unknown}
           /\ next[o] # Nowhere
           /\ hops' \in [Organisms -> 0..(MaxHops + 1)] /\ hops'[o] \in 1..MaxHops
           /\ Under(o, hops'[o] - 1)
           /\ \A q \in Organisms \ {o} : hops'[q] = hops[q]
<1>1. /\ TypeOK /\ Placed(o) /\ MaxHops \in Nat /\ next[o] \in Targets
      /\ hops \in [Organisms -> 0..(MaxHops + 1)]
  BY SetupFacts, TypedAt DEF SInv, TypeOK
<1>2. CASE pc[o] = "loop" /\ next[o] # Nowhere /\ hops[o] < MaxHops
           /\ hops' = [hops EXCEPT ![o] = @ + 1]
  <2>1. hops[o] \in 0..MaxHops /\ hops'[o] = hops[o] + 1 /\ hops'[o] - 1 = hops[o]
    BY <1>1, <1>2
  <2> QED
    BY <1>1, <1>2, <2>1 DEF Placed, Targets
<1>3. CASE pc[o] = "wait" /\ UNCHANGED hops
  BY <1>1, <1>3 DEF Placed, Targets
<1> QED
  BY <1>2, <1>3 DEF Counted

LEMMA RestoreKeeps ==
    ASSUME SInv, NEW o \in Organisms, Restore(o)
    PROVE  SInv'
<1> DEFINE c == next[o]  k == hops'[o]
<1>1. /\ Counted(o) /\ Hit(o)
      /\ facts' = [facts EXCEPT ![o] = @ \cup cache[Key(o)].facts]
      /\ next' = [next EXCEPT ![o] = cache[Key(o)].next]
      /\ pc' = [pc EXCEPT ![o] = "loop"]
      /\ revived' = [revived EXCEPT ![o] =
            IF behaviour[c].kind = "ok" THEN @ ELSE @ \cup {k}]
      /\ UNCHANGED <<run, status, verdict, cache, inflight, split, swarm>>
  BY DEF Restore, Goto
<1>2. /\ TypeOK /\ CachePure /\ MaxHops \in Nat /\ facts[o] \in States
      /\ pc \in [Organisms -> {"new", "loop", "wait", "run", "end", "done"}]
      /\ facts \in [Organisms -> States] /\ next \in [Organisms -> Targets]
      /\ revived \in [Organisms -> SUBSET (1..MaxHops)]
  BY SetupFacts, TypedAt DEF SInv, TypeOK
<1>3. /\ c \in Capabilities /\ k \in 1..MaxHops /\ Under(o, k - 1)
      /\ pc[o] \in {"loop", "wait"}
      /\ hops' \in [Organisms -> 0..(MaxHops + 1)]
      /\ \A q \in Organisms \ {o} : hops'[q] = hops[q]
  BY <1>1, CountedFacts DEF Hit
<1>4. cache[Key(o)] = Result(c, facts[o])
  BY <1>1, <1>2, <1>3 DEF CachePure, Key, Hit
<1>5. /\ cache[Key(o)].facts = Outcome(c, facts[o]) /\ cache[Key(o)].next = behaviour[c].next
      /\ Outcome(c, facts[o]) \in States /\ behaviour[c].next \in Targets
  BY <1>2, <1>3, <1>4, OutcomeFacts, SetupFacts DEF Result
<1> HIDE DEF c, k
<1>6. /\ facts' \in [Organisms -> States] /\ facts'[o] = facts[o] \cup Outcome(c, facts[o])
      /\ next' \in [Organisms -> Targets] /\ next'[o] = behaviour[c].next
      /\ pc' \in [Organisms -> {"new", "loop", "wait", "run", "end", "done"}] /\ pc'[o] = "loop"
      /\ \A q \in Organisms \ {o} :
            pc'[q] = pc[q] /\ facts'[q] = facts[q] /\ next'[q] = next[q]
  <2>1. facts[o] \cup Outcome(c, facts[o]) \in States
    BY <1>2, <1>5 DEF States
  <2> QED
    BY <1>1, <1>2, <1>5, <2>1
<1>7. /\ revived' \in [Organisms -> SUBSET (1..MaxHops)]
      /\ revived'[o] = (IF behaviour[c].kind = "ok" THEN revived[o] ELSE revived[o] \cup {k})
      /\ \A q \in Organisms \ {o} : revived'[q] = revived[q]
  <2>1. (IF behaviour[c].kind = "ok" THEN revived[o] ELSE revived[o] \cup {k})
          \in SUBSET (1..MaxHops)
    BY <1>2, <1>3
  <2> QED
    BY <1>1, <1>2, <2>1
<1>8. TypeOK'
  BY <1>1, <1>2, <1>3, <1>6, <1>7 DEF TypeOK, run
<1>9. Placed(o)'
  <2>1. PICK h \in Nat \ {0} : h = k /\ h \in 1..MaxHops /\ h <= MaxHops
    BY <1>2, <1>3
  <2>2. /\ LedTo(o, h - 1) /\ Past(o, h - 1) /\ status[o] \notin {"learning", "terminated"}
        /\ \A m \in revived[o] : m <= h - 1 /\ Stops(o, m)
    BY <1>3, <2>1 DEF Under, Where
  <2>3. next[o] = c /\ hops'[o] = h
    BY <2>1 DEF c, k
  <2>4. LedTo(o, hops[o])'
    BY <1>1, <1>3, <1>6, <2>1, <2>2, <2>3, HopLeads
  <2>5. revived[o] \subseteq revived'[o] /\ (behaviour[c].kind = "ok" \/ h \in revived'[o])
    BY <1>7, <2>1
  <2>6. Past(o, h)'
    BY <1>1, <1>3, <2>2, <2>3, <2>5, HopPast
  <2>7. ASSUME NEW m \in revived'[o] PROVE m <= h /\ Stops(o, m)'
    <3>1. CASE m \in revived[o]
      <4>1. m \in Nat /\ m <= h - 1 /\ Stops(o, m)
        BY <1>2, <2>2, <3>1
      <4> QED
        BY <1>1, <4>1, LedSame
    <3>2. CASE m = h /\ behaviour[c].kind # "ok"
      <4>1. Led(o)[h - 1].next = c
        BY <2>2, <2>3 DEF LedTo
      <4>2. Stops(o, h)
        BY <1>3, <3>2, <4>1 DEF Stops
      <4> QED
        BY <1>1, <3>2, <4>2, LedSame
    <3> QED
      BY <1>7, <2>1, <3>1, <3>2
  <2>8. Where(o, hops[o])' /\ Past(o, hops[o])' /\ status'[o] \notin {"learning", "terminated"}
    BY <1>1, <2>2, <2>3, <2>4, <2>6, <2>7 DEF Where
  <2>9. Under(o, hops[o])' /\ Pure(o, hops[o])'
    BY <2>8 DEF Under, Pure, Ends, Terminated
  <2> QED
    BY <1>6, <2>1, <2>3, <2>9 DEF Placed, Taken
<1>10. Told'
  BY <1>1, ToldKeeps
<1> QED
  BY <1>1, <1>2, <1>3, <1>6, <1>7, <1>8, <1>9, <1>10, CacheSame, OneKeeps

\* It may be stopped where it is: for good, if it is through, if there is no node
\* for it or if it is a branch, or because its branch was cancelled.
LEMMA StoppedPlaced ==
    ASSUME SInv, UNCHANGED run, NEW o \in Organisms, pc'[o] \in {"end", "done"},
           facts'[o] = facts[o], next'[o] = next[o], hops'[o] = hops[o],
           revived'[o] = revived[o], pc'[o] = "end" => status'[o] = "terminated",
           \/ status'[o] = status[o]
           \/ pc[o] = "loop" /\ next[o] = Nowhere /\ status'[o] = "learning"
           \/ pc[o] = "run" /\ next[o] = Unknown /\ status'[o] = "terminated"
           \/ pc[o] \in {"new", "run"} /\ o \in Branches /\ status'[o] = "terminated"
    PROVE  Placed(o)'
<1>1. /\ Placed(o) /\ MaxHops \in Nat /\ hops[o] \in 0..(MaxHops + 1)
      /\ pc[o] \in {"new", "loop", "wait", "run", "end", "done"}
  BY SetupFacts, TypedAt DEF SInv
<1>2. \A n : n \in Taken(o) => n \in {hops[o] - 1, hops[o]} \cap 0..MaxHops
  <2>1. CASE pc[o] \in {"new", "loop"}
    BY <1>1, <2>1 DEF Taken, Placed
  <2>2. CASE pc[o] \in {"wait", "run"}
    BY <1>1, <2>2 DEF Taken, Placed
  <2>3. CASE pc[o] \in {"end", "done"}
    BY <1>1, <2>3 DEF Taken
  <2> QED
    BY <1>1, <2>1, <2>2, <2>3
<1>3. Taken(o)' = {hops[o] - 1, hops[o]} \cap 0..MaxHops
  BY DEF Taken
<1>4. \E n \in Taken(o) : Pure(o, n)'
  <2>1. CASE status'[o] = status[o]
    BY <1>1, <2>1, PureSame DEF Placed
  <2>2. CASE pc[o] = "loop" /\ next[o] = Nowhere /\ status'[o] = "learning"
    <3>1. PICK n \in Taken(o) : Under(o, n)
      BY <1>1, <2>2 DEF Placed, Taken
    <3>2. Led(o)[n].next = Nowhere
      BY <2>2, <3>1 DEF Under, Where, LedTo
    <3>3. Where(o, n)' /\ Past(o, n)' /\ Led(o)'[n].next = Nowhere
      BY <3>1, <3>2, WhereSame, LedSame DEF Under
    <3>4. Ends(o, n)'
      BY <2>2, <3>3 DEF Ends, Terminated
    <3> QED
      BY <3>1, <3>3, <3>4 DEF Pure
  <2>3. CASE /\ pc[o] \in {"new", "run"} /\ status'[o] = "terminated"
             /\ next[o] = Unknown \/ o \in Branches
    <3>1. PICK n \in Taken(o) : Under(o, n)
      BY <1>1, <2>3 DEF Placed, Taken
    <3>2. next[o] = Led(o)[n].next
      BY <3>1 DEF Under, Where, LedTo
    <3>3. /\ Where(o, n)' /\ Past(o, n)'
          /\ Led(o)'[n].next = Unknown \/ o \in Branches
      BY <2>3, <3>1, <3>2, WhereSame, LedSame DEF Under
    <3>4. Ends(o, n)'
      BY <2>3, <3>3 DEF Ends, Terminated
    <3> QED
      BY <3>1, <3>3, <3>4 DEF Pure
  <2> QED
    BY <2>1, <2>2, <2>3
<1> QED
  BY <1>2, <1>3, <1>4 DEF Placed, Terminated

\* Steps that leave an organism's hops and state alone.
LEMMA StopKeeps ==
    ASSUME SInv, NEW o \in Organisms,
           UNCHANGED <<run, facts, next, hops, cache, split, swarm, revived>>,
           NEW p \in {"loop", "end", "done"}, pc' = [pc EXCEPT ![o] = p],
           NEW t \in {"executing", "learning", "terminated", status[o]},
           status' = [status EXCEPT ![o] = t],
           \/ p = "loop" /\ pc[o] = "new" /\ t \notin {"learning", "terminated"}
           \/ p # "loop" /\ t = status[o] /\ (p = "end" => status[o] = "terminated")
           \/ p # "loop" /\ pc[o] = "loop" /\ next[o] = Nowhere /\ t = "learning" /\ p = "done"
           \/ p # "loop" /\ pc[o] = "run" /\ next[o] = Unknown /\ t = "terminated"
           \/ p # "loop" /\ pc[o] \in {"new", "run"} /\ o \in Branches /\ t = "terminated",
           verdict' \in [Requests -> {"none", "started", "completed", "failed"}],
           Told', inflight' \subseteq inflight
    PROVE  SInv'
<1>1. /\ TypeOK /\ Placed(o) /\ CachePure
      /\ pc \in [Organisms -> {"new", "loop", "wait", "run", "end", "done"}]
      /\ status \in [Organisms -> {"spawned", "exploring", "executing", "learning",
                                   "terminated"}]
  BY DEF SInv, TypeOK
<1>2. /\ pc' \in [Organisms -> {"new", "loop", "wait", "run", "end", "done"}] /\ pc'[o] = p
      /\ status' \in [Organisms -> {"spawned", "exploring", "executing", "learning",
                                    "terminated"}]
      /\ status'[o] = t
      /\ \A q \in Organisms \ {o} : pc'[q] = pc[q] /\ status'[q] = status[q]
  BY <1>1
<1>3. TypeOK'
  BY <1>1, <1>2 DEF TypeOK, run
<1>4. Placed(o)'
  <2>1. CASE p = "loop"
    <3>1. hops[o] <= MaxHops /\ Under(o, hops[o]) /\ t \notin {"learning", "terminated"}
      BY <1>1, <2>1 DEF Placed
    <3>2. Where(o, hops[o])' /\ Past(o, hops[o])'
      BY <3>1, WhereSame DEF Under
    <3>3. Under(o, hops[o])'
      BY <1>2, <3>1, <3>2 DEF Under
    <3>4. Pure(o, hops[o])'
      BY <1>2, <3>1, <3>2 DEF Pure, Ends, Terminated
    <3> QED
      BY <1>2, <2>1, <3>1, <3>3, <3>4 DEF Placed, Taken
  <2>2. CASE p \in {"end", "done"}
    <3>1. \/ status'[o] = status[o]
          \/ pc[o] = "loop" /\ next[o] = Nowhere /\ status'[o] = "learning"
          \/ pc[o] = "run" /\ next[o] = Unknown /\ status'[o] = "terminated"
          \/ pc[o] \in {"new", "run"} /\ o \in Branches /\ status'[o] = "terminated"
      BY <1>2, <2>2
    <3>2. pc'[o] = "end" => status'[o] = "terminated"
      BY <1>2, <2>2
    <3> QED
      BY <1>2, <2>2, <3>1, <3>2, StoppedPlaced
  <2> QED
    BY <2>1, <2>2
<1> QED
  BY <1>1, <1>2, <1>3, <1>4, CacheSame, OneKeeps

\* Looking a step up in vain.
LEMMA MissKeeps ==
    ASSUME SInv, NEW o \in Organisms, Counted(o), NEW p \in {"wait", "run"},
           pc' = [pc EXCEPT ![o] = p], inflight' \subseteq inflight \cup {Key(o)},
           UNCHANGED <<run, facts, next, status, verdict, cache, split, swarm, revived>>
    PROVE  SInv'
<1>1. /\ TypeOK /\ CachePure /\ facts[o] \in States
      /\ pc \in [Organisms -> {"new", "loop", "wait", "run", "end", "done"}]
  BY TypedAt DEF SInv, TypeOK
<1>2. /\ pc' \in [Organisms -> {"new", "loop", "wait", "run", "end", "done"}] /\ pc'[o] = p
      /\ \A q \in Organisms \ {o} : pc'[q] = pc[q]
  BY <1>1
<1>3. /\ next[o] \in Capabilities \cup {Unknown} /\ next[o] # Nowhere
      /\ hops' \in [Organisms -> 0..(MaxHops + 1)] /\ hops'[o] \in 1..MaxHops
      /\ Under(o, hops'[o] - 1)
      /\ \A q \in Organisms \ {o} : hops'[q] = hops[q]
  BY CountedFacts
<1>4. inflight' \subseteq (Capabilities \cup {Unknown}) \X States
  <2>1. Key(o) \in (Capabilities \cup {Unknown}) \X States
    BY <1>1, <1>3 DEF Key
  <2>2. inflight \subseteq (Capabilities \cup {Unknown}) \X States
    BY <1>1 DEF TypeOK
  <2> QED
    BY <2>1, <2>2
<1>5. TypeOK'
  BY <1>1, <1>2, <1>3, <1>4 DEF TypeOK, run
<1>6. Placed(o)'
  <2>1. Under(o, hops[o] - 1)' /\ Pure(o, hops[o] - 1)'
    BY <1>3, PureSame, UnderPure
  <2> QED
    BY <1>2, <1>3, <2>1 DEF Placed, Taken
<1>7. Told'
  BY ToldKeeps
<1> QED
  BY <1>1, <1>2, <1>3, <1>5, <1>6, <1>7, CacheSame, OneKeeps

LEMMA ExhaustKeeps ==
    ASSUME SInv, NEW o \in Organisms, Exhaust(o)
    PROVE  SInv'
<1>1. /\ pc[o] = "loop" /\ hops[o] = MaxHops /\ hops' = [hops EXCEPT ![o] = @ + 1]
      /\ status' = [status EXCEPT ![o] = "terminated"] /\ pc' = [pc EXCEPT ![o] = "end"]
      /\ UNCHANGED <<run, facts, next, verdict, cache, inflight, split, swarm, revived>>
  BY DEF Exhaust, Goto, Terminate
<1>2. /\ TypeOK /\ CachePure /\ Placed(o) /\ MaxHops \in Nat
      /\ hops \in [Organisms -> 0..(MaxHops + 1)]
      /\ pc \in [Organisms -> {"new", "loop", "wait", "run", "end", "done"}]
      /\ status \in [Organisms -> {"spawned", "exploring", "executing", "learning",
                                   "terminated"}]
  BY SetupFacts DEF SInv, TypeOK
<1>3. /\ pc' \in [Organisms -> {"new", "loop", "wait", "run", "end", "done"}] /\ pc'[o] = "end"
      /\ hops' \in [Organisms -> 0..(MaxHops + 1)] /\ hops'[o] = MaxHops + 1
      /\ status' \in [Organisms -> {"spawned", "exploring", "executing", "learning",
                                    "terminated"}]
      /\ status'[o] = "terminated"
      /\ \A q \in Organisms \ {o} :
            pc'[q] = pc[q] /\ hops'[q] = hops[q] /\ status'[q] = status[q]
  BY <1>1, <1>2
<1>4. TypeOK'
  BY <1>1, <1>2, <1>3 DEF TypeOK, run
<1>5. Placed(o)'
  <2>1. Under(o, MaxHops)
    BY <1>1, <1>2 DEF Placed
  <2>2. Led(o)[MaxHops].next # Nowhere
    BY <2>1 DEF Exhaust, Under, Where, LedTo
  <2>3. Where(o, MaxHops)' /\ Past(o, MaxHops)' /\ Led(o)'[MaxHops].next # Nowhere
    BY <1>1, <2>1, <2>2, WhereSame, LedSame DEF Under
  <2>4. Pure(o, MaxHops)'
    BY <1>3, <2>3 DEF Pure, Ends, Terminated
  <2>5. MaxHops \in Taken(o)'
    BY <1>2, <1>3 DEF Taken
  <2> QED
    BY <1>3, <2>4, <2>5 DEF Placed, Terminated
<1>6. Told'
  BY <1>1, <1>3, ToldKeeps
<1> QED
  BY <1>1, <1>2, <1>3, <1>4, <1>5, <1>6, CacheSame, OneKeeps

\* Running a node: what it makes of the state is the organism's and the cache's.
LEMMA RunKeeps ==
    ASSUME SInv, NEW o \in Organisms, RunNode(o), inflight' \subseteq inflight
    PROVE  SInv'
<1>1. PICK c \in Capabilities : c = next[o]
  BY DEF RunNode, Success
<1> DEFINE f == facts[o]  r == Result(c, f)
<1>2. /\ pc[o] = "run"
      /\ facts' = [facts EXCEPT ![o] = Outcome(c, f)]
      /\ next' = [next EXCEPT ![o] = behaviour[c].next]
      /\ cache' = [cache EXCEPT ![<<c, f>>] = r]
      /\ \/ /\ pc' = [pc EXCEPT ![o] = "loop"] /\ UNCHANGED status
            /\ behaviour[c].kind = "ok"
         \/ /\ pc' = [pc EXCEPT ![o] = "end"] /\ status' = [status EXCEPT ![o] = "terminated"]
            /\ behaviour[c].kind # "ok"
      /\ UNCHANGED <<run, hops, verdict, split, swarm, revived>>
  <2>1. /\ pc[o] = "run"
        /\ facts' = [facts EXCEPT ![o] = Outcome(c, @)]
        /\ next' = [next EXCEPT ![o] = behaviour[c].next]
        /\ cache' = [cache EXCEPT ![<<c, f>>] = r]
        /\ UNCHANGED <<run, hops, verdict, split, swarm, revived>>
    BY <1>1 DEF RunNode, Key, Result
  <2>2. \/ Goto(o, "loop") /\ UNCHANGED status /\ behaviour[c].kind = "ok"
        \/ Goto(o, "end") /\ Terminate(o) /\ behaviour[c].kind # "ok"
    BY <1>1 DEF RunNode, Success
  <2> QED
    BY <2>1, <2>2 DEF Goto, Terminate
<1>3. /\ TypeOK /\ CachePure /\ Placed(o) /\ MaxHops \in Nat /\ f \in States
      /\ pc \in [Organisms -> {"new", "loop", "wait", "run", "end", "done"}]
      /\ facts \in [Organisms -> States] /\ next \in [Organisms -> Targets]
      /\ cache \in [Keys -> Entries \cup {Missing}]
      /\ status \in [Organisms -> {"spawned", "exploring", "executing", "learning",
                                   "terminated"}]
      /\ inflight \subseteq (Capabilities \cup {Unknown}) \X States
  BY SetupFacts, TypedAt DEF SInv, TypeOK
<1>4. Outcome(c, f) \in States /\ behaviour[c].next \in Targets
  BY <1>3, OutcomeFacts, SetupFacts
<1>5. r \in Entries /\ <<c, f>> \in Keys
  BY <1>3, <1>4 DEF Result, Entries, Keys
<1>6. hops[o] \in 1..MaxHops /\ Under(o, hops[o] - 1)
  BY <1>2, <1>3 DEF Placed
<1> HIDE DEF r, f, Entries, Keys
<1>7. /\ facts' \in [Organisms -> States] /\ facts'[o] = Outcome(c, f)
      /\ next' \in [Organisms -> Targets] /\ next'[o] = behaviour[c].next
      /\ cache' \in [Keys -> Entries \cup {Missing}]
      /\ cache'[<<c, f>>] = r /\ \A k \in Keys \ {<<c, f>>} : cache'[k] = cache[k]
      /\ pc' \in [Organisms -> {"new", "loop", "wait", "run", "end", "done"}]
      /\ pc'[o] \in {"loop", "end"}
      /\ status' \in [Organisms -> {"spawned", "exploring", "executing", "learning",
                                    "terminated"}]
      /\ \A q \in Organisms \ {o} :
            /\ pc'[q] = pc[q] /\ facts'[q] = facts[q] /\ next'[q] = next[q]
            /\ hops'[q] = hops[q] /\ status'[q] = status[q]
  BY <1>2, <1>3, <1>4, <1>5
<1>8. TypeOK'
  BY <1>2, <1>3, <1>7 DEF TypeOK, run
<1>9. CachePure'
  <2> SUFFICES ASSUME NEW d \in Capabilities, NEW g \in States
               PROVE  cache'[<<d, g>>] \in {Missing, Result(d, g)}
    BY <1>2, LedSame DEF CachePure
  <2>1. CASE d = c /\ g = f
    BY <1>7, <2>1 DEF r
  <2>2. CASE ~(d = c /\ g = f)
    <3>1. <<d, g>> \in Keys \ {<<c, f>>}
      BY <2>2 DEF Keys
    <3> QED
      BY <1>3, <1>7, <3>1 DEF CachePure
  <2> QED
    BY <2>1, <2>2
<1>10. Placed(o)'
  <2>1. PICK h \in Nat \ {0} : h \in 1..MaxHops /\ h <= MaxHops /\ hops[o] = h
    BY <1>3, <1>6
  <2>2. /\ LedTo(o, h - 1) /\ Past(o, h - 1) /\ status[o] \notin {"learning", "terminated"}
        /\ \A m \in revived[o] : m <= h - 1 /\ Stops(o, m)
    BY <1>6, <2>1 DEF Under, Where
  <2>3. hops'[o] = h /\ next[o] = c
    BY <1>1, <1>2, <2>1
  <2>4. LedTo(o, hops[o])'
    BY <1>2, <1>7, <2>1, <2>2, <2>3, HopLeads DEF f
  <2>5. \A m \in revived'[o] : m <= h /\ Stops(o, m)'
    <3>1. revived'[o] = revived[o] /\ revived[o] \subseteq Nat
      BY <1>2, <1>3, TypedAt
    <3> QED
      BY <1>2, <2>2, <3>1, LedSame
  <2>6. Where(o, hops[o])'
    BY <2>3, <2>4, <2>5 DEF Where
  <2>7. h \in Taken(o)'
    BY <1>3, <1>7, <2>1, <2>3 DEF Taken
  <2>8. CASE pc'[o] = "loop" /\ status'[o] = status[o] /\ behaviour[c].kind = "ok"
    <3>1. revived[o] \subseteq revived'[o] /\ UNCHANGED run
      BY <1>2
    <3>2. Past(o, h)'
      BY <2>2, <2>3, <2>8, <3>1, HopPast
    <3>3. Past(o, hops[o])' /\ status'[o] \notin {"learning", "terminated"}
      BY <2>2, <2>3, <2>8, <3>2
    <3>4. Under(o, hops[o])' /\ Pure(o, hops[o])'
      BY <2>6, <3>3 DEF Under, Pure, Ends, Terminated
    <3> QED
      BY <2>1, <2>3, <2>7, <2>8, <3>4 DEF Placed
  <2>9. CASE pc'[o] = "end" /\ status'[o] = "terminated" /\ behaviour[c].kind # "ok"
    <3>1. Led(o)[h - 1].next = c
      BY <2>2, <2>3 DEF LedTo
    <3>2. Stops(o, h)
      BY <2>9, <3>1 DEF Stops
    <3>3. Stops(o, h)' /\ Past(o, h - 1)'
      BY <1>2, <2>2, <3>2, LedSame DEF Past
    <3>4. Ends(o, h)'
      BY <2>1, <2>9, <3>3 DEF Ends, Terminated
    <3>5. Pure(o, h)'
      BY <2>3, <2>6, <3>4 DEF Pure
    <3> QED
      BY <2>7, <2>9, <3>5 DEF Placed, Terminated
  <2>10. \/ pc'[o] = "loop" /\ status'[o] = status[o] /\ behaviour[c].kind = "ok"
         \/ pc'[o] = "end" /\ status'[o] = "terminated" /\ behaviour[c].kind # "ok"
    BY <1>2, <1>3
  <2> QED
    BY <2>8, <2>9, <2>10
<1>11. Told'
  BY <1>2, <1>7, ToldKeeps
<1> QED
  BY <1>2, <1>7, <1>8, <1>9, <1>10, <1>11, OneKeeps

LEMMA NotFoundKeeps ==
    ASSUME SInv, NEW o \in Organisms, NotFound(o), inflight' \subseteq inflight
    PROVE  SInv'
<1>1. /\ pc' = [pc EXCEPT ![o] = "end"] /\ status' = [status EXCEPT ![o] = "terminated"]
      /\ pc[o] = "run" /\ next[o] = Unknown
      /\ UNCHANGED <<run, facts, next, hops, verdict, cache, split, swarm, revived>>
  BY DEF NotFound, Goto, Terminate
<1>2. /\ verdict' \in [Requests -> {"none", "started", "completed", "failed"}]
      /\ \A q \in Organisms \ {o} : status'[q] = status[q]
  BY <1>1 DEF SInv, TypeOK
<1>3. Told'
  BY <1>1, <1>2, ToldKeeps
<1> QED
  BY <1>1, <1>2, <1>3, StopKeeps

LEMMA RequestKeeps ==
    ASSUME SInv, NEW r \in Requests, RequestStep(r)
    PROVE  SInv'
<1>1. /\ r \in Organisms /\ inflight \subseteq inflight /\ Placed(r) /\ Told
      /\ Requests \subseteq Organisms
      /\ status \in [Organisms -> {"spawned", "exploring", "executing", "learning", "terminated"}]
      /\ verdict \in [Requests -> {"none", "started", "completed", "failed"}]
  BY DEF SInv, TypeOK, Organisms
<1>2. CASE Start(r)
  <2>1. /\ pc' = [pc EXCEPT ![r] = "loop"] /\ pc[r] = "new" /\ inflight' \subseteq inflight
        /\ status' = [status EXCEPT ![r] = "executing"]
        /\ verdict' = [verdict EXCEPT ![r] = "started"]
        /\ UNCHANGED <<run, facts, next, hops, cache, split, swarm, revived>>
    BY <1>2 DEF Start, Goto
  <2>2. /\ verdict' \in [Requests -> {"none", "started", "completed", "failed"}]
        /\ Told'
    BY <1>1, <2>1 DEF Told, Terminated
  <2> QED
    BY <1>1, <2>1, <2>2, StopKeeps
<1>3. CASE Join(r)
  <2>1. /\ pc' = [pc EXCEPT ![r] = "wait"] /\ Counted(r) /\ inflight' \subseteq inflight \cup {Key(r)}
        /\ UNCHANGED <<run, facts, next, status, verdict, cache, split, swarm, revived>>
    BY <1>3 DEF Join, Goto
  <2> QED
    BY <1>1, <2>1, MissKeeps
<1>4. CASE Own(r)
  <2>1. /\ pc' = [pc EXCEPT ![r] = "run"] /\ Counted(r) /\ inflight' \subseteq inflight \cup {Key(r)}
        /\ UNCHANGED <<run, facts, next, status, verdict, cache, split, swarm, revived>>
    BY <1>4 DEF Own, Goto
  <2> QED
    BY <1>1, <2>1, MissKeeps
<1>5. CASE Execute(r)
  <2>1. inflight' \subseteq inflight /\ (RunNode(r) \/ NotFound(r))
    BY <1>5 DEF Execute
  <2> QED
    BY <1>1, <2>1, RunKeeps, NotFoundKeeps
<1>6. CASE Complete(r)
  <2>1. /\ pc' = [pc EXCEPT ![r] = "done"] /\ inflight' \subseteq inflight
        /\ pc[r] = "loop" /\ next[r] = Nowhere
        /\ status' = [status EXCEPT ![r] = "learning"]
        /\ verdict' = [verdict EXCEPT ![r] = "completed"]
        /\ UNCHANGED <<run, facts, next, hops, cache, split, swarm, revived>>
    BY <1>6 DEF Complete, Goto
  <2>2. /\ verdict' \in [Requests -> {"none", "started", "completed", "failed"}]
        /\ Told'
    BY <1>1, <2>1 DEF Told, Terminated
  <2> QED
    BY <1>1, <2>1, <2>2, StopKeeps
<1>7. CASE Fail(r)
  <2>1. /\ pc' = [pc EXCEPT ![r] = "done"] /\ inflight' \subseteq inflight /\ pc[r] = "end"
        /\ verdict' = [verdict EXCEPT ![r] = "failed"]
        /\ UNCHANGED <<run, facts, next, hops, status, cache, split, swarm, revived>>
    BY <1>7 DEF Fail, Goto
  <2>2. status[r] = "terminated" /\ status' = [status EXCEPT ![r] = status[r]]
    BY <1>1, <2>1 DEF Placed, Terminated
  <2>3. /\ verdict' \in [Requests -> {"none", "started", "completed", "failed"}]
        /\ Told'
    BY <1>1, <2>1, <2>2 DEF Told, Terminated
  <2> QED
    BY <1>1, <2>1, <2>2, <2>3, StopKeeps
<1> QED
  BY <1>1, <1>2, <1>3, <1>4, <1>5, <1>6, <1>7, RestoreKeeps, ExhaustKeeps DEF RequestStep

LEMMA BranchKeeps ==
    ASSUME SInv, NEW b \in Branches, BranchStep(b)
    PROVE  SInv'
<1>1. /\ b \in Organisms /\ inflight \subseteq inflight
      /\ status \in [Organisms -> {"spawned", "exploring", "executing", "learning", "terminated"}]
      /\ verdict \in [Requests -> {"none", "started", "completed", "failed"}]
  BY DEF SInv, TypeOK, Organisms
<1>2. CASE Branch(b)
  <2>1. /\ pc' = [pc EXCEPT ![b] = "loop"] /\ pc[b] = "new" /\ inflight' \subseteq inflight
        /\ UNCHANGED <<run, facts, next, hops, status, verdict, cache, split, swarm, revived>>
    BY <1>2 DEF Branch, Goto
  <2>2. status' = [status EXCEPT ![b] = status[b]] /\ status[b] \notin {"learning", "terminated"}
    BY <1>1, <2>1, UnderWay
  <2>3. Told'
    BY <1>1, <2>1, ToldKeeps
  <2> QED
    BY <1>1, <2>1, <2>2, <2>3, StopKeeps
<1>3. CASE BranchMiss(b)
  <2>1. /\ pc' = [pc EXCEPT ![b] = "run"] /\ Counted(b) /\ inflight' \subseteq inflight \cup {Key(b)}
        /\ UNCHANGED <<run, facts, next, status, verdict, cache, split, swarm, revived>>
    BY <1>3 DEF BranchMiss, Goto
  <2> QED
    BY <1>1, <2>1, MissKeeps
<1>4. CASE BranchExecute(b)
  <2>1. inflight' \subseteq inflight /\ (RunNode(b) \/ NotFound(b))
    BY <1>4 DEF BranchExecute
  <2> QED
    BY <1>1, <2>1, RunKeeps, NotFoundKeeps
<1>5. CASE BranchEnd(b) \/ BranchTimeout(b)
  <2>1. /\ pc' = [pc EXCEPT ![b] = "done"] /\ inflight' \subseteq inflight
        /\ UNCHANGED <<run, facts, next, hops, verdict, cache, split, swarm, revived>>
    BY <1>5 DEF BranchEnd, BranchTimeout, Goto
  <2>2. PICK t \in {"learning", "terminated", status[b]} :
           /\ status' = [status EXCEPT ![b] = t]
           /\ \/ t = status[b] /\ pc[b] = "end"
              \/ pc[b] = "loop" /\ next[b] = Nowhere /\ t = "learning"
              \/ pc[b] \in {"new", "run"} /\ t = "terminated"
    <3>1. CASE BranchTimeout(b)
      BY <3>1 DEF BranchTimeout, Terminate
    <3>2. CASE BranchEnd(b) /\ pc[b] = "loop"
      BY <3>2 DEF BranchEnd
    <3>3. CASE BranchEnd(b) /\ pc[b] = "end"
      <4>1. status' = status
        BY <3>3 DEF BranchEnd
      <4>2. status' = [status EXCEPT ![b] = status[b]]
        BY <1>1, <4>1
      <4> QED
        BY <3>3, <4>2
    <3> QED
      BY <1>5, <3>1, <3>2, <3>3 DEF BranchEnd
  <2>3. \A q \in Organisms \ {b} : status'[q] = status[q]
    BY <1>1, <2>2
  <2>4. status'[b] = status[b] \/ pc[b] \in {"new", "loop", "wait", "run"}
    BY <1>1, <2>2
  <2>5. Told'
    BY <1>1, <2>1, <2>3, <2>4, ToldKeeps
  <2>6. /\ verdict' \in [Requests -> {"none", "started", "completed", "failed"}]
        /\ t \in {"executing", "learning", "terminated", status[b]}
        /\ \/ t = status[b]
           \/ pc[b] = "loop" /\ next[b] = Nowhere /\ t = "learning"
           \/ pc[b] \in {"new", "run"} /\ b \in Branches /\ t = "terminated"
    BY <1>1, <2>1, <2>2
  <2> QED
    BY <1>1, <2>1, <2>2, <2>5, <2>6, StopKeeps
<1> QED
  BY <1>1, <1>2, <1>3, <1>4, <1>5, RestoreKeeps, ExhaustKeeps DEF BranchStep

LEMMA SplitKeeps ==
    ASSUME SInv, SplitStep
    PROVE  SInv'
<1>1. /\ TypeOK /\ CachePure /\ work.branches \subseteq Organisms
      /\ facts \in [Organisms -> States]
      /\ pc \in [Organisms -> {"new", "loop", "wait", "run", "end", "done"}]
      /\ split \in [status : {"spawned", "learning", "terminated"}, facts : States]
  BY SetupFacts DEF SInv, TypeOK, Organisms
<1>2. UNCHANGED <<run, facts, next, hops, status, verdict, cache, inflight, swarm, revived>>
  BY DEF SplitStep, Win, Lose, walk
<1>3. split' \in [status : {"spawned", "learning", "terminated"}, facts : States]
  <2>1. CASE Lose
    BY <1>1, <2>1 DEF Lose
  <2>2. ASSUME NEW b \in work.branches, Win(b)
        PROVE  split' \in [status : {"spawned", "learning", "terminated"}, facts : States]
    <3>1. facts[b] \in States /\ split' = [status |-> "learning", facts |-> facts[b]]
      BY <1>1, <2>2 DEF Win
    <3> QED
      BY <3>1
  <2> QED
    BY <2>1, <2>2 DEF SplitStep
<1>4. \/ UNCHANGED pc
      \/ pc' = [o \in Organisms |-> IF o \in work.branches THEN "done" ELSE pc[o]]
  BY DEF SplitStep, Win, Lose, walk
<1>5. /\ pc' \in [Organisms -> {"new", "loop", "wait", "run", "end", "done"}]
      /\ \A o \in Organisms : pc'[o] = pc[o] \/ pc'[o] = "done"
  BY <1>1, <1>4
<1>6. TypeOK'
  BY <1>1, <1>2, <1>3, <1>5 DEF TypeOK, run
<1>7. ASSUME NEW o \in Organisms PROVE Placed(o)'
  <2>1. /\ facts'[o] = facts[o] /\ next'[o] = next[o] /\ hops'[o] = hops[o]
        /\ status'[o] = status[o] /\ revived'[o] = revived[o] /\ UNCHANGED run
    BY <1>2
  <2>2. CASE pc'[o] = pc[o]
    BY <2>1, <2>2, PlacedSame DEF SInv
  <2>3. CASE pc'[o] = "done"
    BY <2>1, <2>3, StoppedPlaced
  <2> QED
    BY <1>5, <2>2, <2>3
<1>8. Told'
  BY <1>2 DEF SInv, Told, Terminated
<1> QED
  BY <1>1, <1>2, <1>6, <1>7, <1>8, CacheSame, SwarmSame DEF SInv

LEMMA ExpireKeeps ==
    ASSUME SInv, Expire
    PROVE  SInv'
<1>1. PICK k \in Keys : cache' = [cache EXCEPT ![k] = Missing]
  BY DEF Expire
<1>2. UNCHANGED <<run, walk, verdict, inflight, split, swarm, revived>>
  BY DEF Expire
<1>3. TypeOK /\ CachePure /\ cache \in [Keys -> Entries \cup {Missing}]
  BY DEF SInv, TypeOK
<1>4. /\ cache' \in [Keys -> Entries \cup {Missing}]
      /\ \A l \in Keys : cache'[l] \in {Missing, cache[l]}
  BY <1>1, <1>3
<1>5. TypeOK'
  BY <1>2, <1>3, <1>4 DEF TypeOK, run, walk
<1>6. CachePure'
  <2> SUFFICES ASSUME NEW d \in Capabilities, NEW g \in States
               PROVE  cache'[<<d, g>>] \in {Missing, Result(d, g)}
    BY <1>2, LedSame DEF CachePure
  <2>1. <<d, g>> \in Keys
    BY DEF Keys
  <2> QED
    BY <1>3, <1>4, <2>1 DEF CachePure
<1>7. \A o \in Organisms : Placed(o)'
  BY <1>2, PlacedSame DEF SInv, walk
<1>8. Told'
  BY <1>2 DEF SInv, Told, Terminated, walk
<1> QED
  BY <1>2, <1>5, <1>6, <1>7, <1>8, SwarmSame DEF SInv

-----------------------------------------------------------------------------
(***************************************************************************)
(* The parts a swarm's data falls into.                                    *)
(***************************************************************************)
\* Counting up to each of its elements numbers a finite set of numbers.
LEMMA Numbering ==
    ASSUME NEW S, S \subseteq Nat, IsFiniteSet(S)
    PROVE  LET rank(n) == Cardinality({m \in S : m <= n})
           IN  /\ \A n \in S : rank(n) \in 1..Cardinality(S)
               /\ \A n, m \in S : rank(n) = rank(m) => n = m
               /\ \A p \in 1..Cardinality(S) : \E n \in S : rank(n) = p
<1> DEFINE upto(n) == {m \in S : m <= n}
           rank(n) == Cardinality(upto(n))
           N == Cardinality(S)
<1>1. \A n \in S : upto(n) \in SUBSET S /\ n \in upto(n)
  OBVIOUS
<1>2. ASSUME NEW n \in S, NEW m \in S, n < m
      PROVE  upto(n) \in SUBSET upto(m) /\ m \in upto(m) /\ m \notin upto(n)
  <2>1. n \in Nat /\ m \in Nat /\ m <= m /\ ~(m <= n) /\ \A x \in S : x <= n => x <= m
    BY <1>2
  <2> QED
    BY <2>1
<1>3. \A n \in S : IsFiniteSet(upto(n)) /\ rank(n) <= N /\ rank(n) \in Nat /\ N \in Nat
  <2> HIDE DEF upto
  <2> QED
    BY <1>1, FS_Subset, FS_CardinalityType
<1>4. \A n \in S : rank(n) # 0
  <2> HIDE DEF upto
  <2> QED
    BY <1>1, <1>3, FS_EmptySet
<1>5. ASSUME NEW n \in S, NEW m \in S, n < m
      PROVE  rank(n) # rank(m)
  <2> HIDE DEF upto
  <2>1. upto(n) \in SUBSET upto(m) /\ upto(n) # upto(m) /\ IsFiniteSet(upto(m))
    BY <1>2, <1>3, <1>5
  <2> QED
    BY <2>1, FS_Subset
<1>6. ASSUME NEW n \in S PROVE rank(n) \in 1..N
  <2>1. rank(n) <= N /\ rank(n) \in Nat /\ N \in Nat /\ rank(n) # 0
    BY <1>3, <1>4
  <2> HIDE DEF rank, N
  <2> QED
    BY <2>1
<1>7. \A n, m \in S : rank(n) = rank(m) => n = m
  <2> HIDE DEF rank
  <2> QED
    BY <1>5
<1>8. ASSUME NEW p \in 1..N PROVE \E n \in S : rank(n) = p
  <2> DEFINE f == [n \in S |-> rank(n)]
  <2>1. f \in [S -> 1..N] /\ \A n, m \in DOMAIN f : f[n] = f[m] => n = m
    <3> HIDE DEF rank, N
    <3> QED
      BY <1>6, <1>7
  <2>2. f \in Injection(S, 1..N)
    <3> HIDE DEF f, N
    <3> QED
      BY <2>1 DEF Injection, IsInjective
  <2>3. IsFiniteSet(1..N) /\ Cardinality(1..N) = N
    <3>1. N \in Nat
      BY FS_CardinalityType
    <3> HIDE DEF N
    <3>2. 1 \in Int /\ N \in Int
      BY <3>1
    <3>3. IsFiniteSet(1..N) /\ Cardinality(1..N) = IF 1 > N THEN 0 ELSE N - 1 + 1
      BY <3>2, FS_Interval
    <3> QED
      BY <3>1, <3>3
  <2>4. f \in Surjection(S, 1..N)
    <3> HIDE DEF f
    <3> QED
      BY <2>2, <2>3, FS_Injection
  <2>5. PICK n \in S : f[n] = p
    <3> HIDE DEF f, N
    <3> QED
      BY <2>4 DEF Surjection
  <2> QED
    BY <2>5
<1> QED
  BY <1>6, <1>7, <1>8

LEMMA KeyFacts ==
    ASSUME NEW sw \in Swarms
    PROVE  /\ sw.workers \in Nat /\ sw.data \in Seq(Inputs) /\ Len(sw.data) \in Nat
           /\ DOMAIN sw.data = 1..Len(sw.data)
           /\ \A n \in DOMAIN sw.data : sw.data[n] \in Inputs
           /\ sw.capability \in Capabilities \cup {Unknown}
           /\ \A n \in DOMAIN sw.data :
                 ~sw.custom /\ sw.workers > 0 => PartitionKey(sw, n) \in 0..(sw.workers - 1)
<1>1. /\ sw.workers \in Nat /\ sw.data \in Seq(Inputs) /\ sw.custom \in BOOLEAN
      /\ sw.capability \in Targets \ {Nowhere}
  BY DEF Swarms
<1>2. /\ Len(sw.data) \in Nat /\ DOMAIN sw.data = 1..Len(sw.data)
      /\ \A n \in DOMAIN sw.data : sw.data[n] \in Inputs
  BY <1>1, LenProperties
<1>3. ASSUME NEW n \in DOMAIN sw.data, ~sw.custom, sw.workers > 0
      PROVE  PartitionKey(sw, n) \in 0..(sw.workers - 1)
  <2>1. n \in Nat /\ PartitionKey(sw, n) = n % sw.workers
    BY <1>2, <1>3 DEF PartitionKey
  <2> QED
    BY <1>1, <1>3, <2>1
<1> QED
  BY <1>1, <1>2, <1>3 DEF Targets

\* Every item shares its key with the first one that has it.
LEMMA OpensFacts ==
    ASSUME NEW sw \in Swarms
    PROVE  /\ Opens(sw) \subseteq DOMAIN sw.data /\ Opens(sw) \subseteq Nat
           /\ IsFiniteSet(Opens(sw)) /\ Cardinality(Opens(sw)) \in Nat
           /\ \A n \in DOMAIN sw.data :
                 \E o \in Opens(sw) : PartitionKey(sw, o) = PartitionKey(sw, n)
           /\ \A n, m \in Opens(sw) : PartitionKey(sw, n) = PartitionKey(sw, m) => n = m
           /\ Opens(sw) = {} => sw.data = <<>>
<1> DEFINE N == Len(sw.data)  key(n) == PartitionKey(sw, n)
<1>1. N \in Nat /\ DOMAIN sw.data = 1..N
  BY KeyFacts
<1>2. Opens(sw) = {n \in 1..N : \A m \in 1..(n - 1) : key(m) # key(n)}
  BY <1>1 DEF Opens
<1> HIDE DEF N, key
<1>3. Opens(sw) \subseteq 1..N /\ Opens(sw) \subseteq Nat
  BY <1>1, <1>2
<1>4. IsFiniteSet(Opens(sw)) /\ Cardinality(Opens(sw)) \in Nat
  <2>1. IsFiniteSet(1..N)
    BY <1>1, FS_Interval
  <2> QED
    BY <1>3, <2>1, FS_Subset, FS_CardinalityType
<1>5. ASSUME NEW n \in 1..N PROVE \E o \in Opens(sw) : key(o) = key(n)
  <2> DEFINE T == {m \in 1..N : key(m) = key(n)}
  <2>1. T \subseteq Nat /\ n \in T
    BY <1>1
  <2>2. PICK o \in T : \A m \in T : o <= m
    <3> HIDE DEF T
    <3> QED
      BY <2>1, LeastNumber
  <2>3. \A m \in 1..(o - 1) : m \in 1..N /\ m < o
    BY <1>1, <2>2
  <2>4. \A m \in 1..(o - 1) : key(m) # key(o)
    BY <2>1, <2>2, <2>3
  <2> QED
    BY <1>2, <2>2, <2>4
<1>6. ASSUME NEW n \in Opens(sw), NEW m \in Opens(sw), key(n) = key(m), n < m PROVE FALSE
  BY <1>1, <1>2, <1>6
<1>7. \A n, m \in Opens(sw) : key(n) = key(m) => n = m
  BY <1>3, <1>6
<1>8. Opens(sw) = {} => sw.data = <<>>
  <2> SUFFICES ASSUME Opens(sw) = {} PROVE sw.data = <<>>
    OBVIOUS
  <2>1. N = 0
    <3>1. ASSUME N # 0 PROVE FALSE
      <4>1. 1 \in 1..N
        BY <1>1, <3>1
      <4> QED
        BY <1>5, <4>1
    <3> QED
      BY <3>1
  <2> QED
    BY <2>1, KeyFacts, EmptySeq DEF N
<1> QED
  BY <1>1, <1>3, <1>4, <1>5, <1>7, <1>8 DEF key

\* The parts have the items, each item is in one part if no two are alike, and unless a function
\* makes them there are no more parts than workers.
LEMMA PartitionsFacts ==
    ASSUME NEW sw \in Swarms
    PROVE  LET parts == Partitions(sw)
           IN  /\ parts \in Seq(SUBSET Inputs) /\ Len(parts) \in Nat \ {0}
               /\ ToSet(sw.data) = UNION {parts[p] : p \in 1..Len(parts)}
               /\ IsInjective(sw.data) =>
                     \A p, q \in 1..Len(parts) : p # q => parts[p] \cap parts[q] = {}
               /\ ~sw.custom /\ sw.workers > 0 => Len(parts) <= sw.workers
<1> DEFINE parts   == Partitions(sw)
           opens   == Opens(sw)
           N       == Cardinality(opens)
           rank(n) == Cardinality({m \in opens : m <= n})
           first(p) == CHOOSE n \in opens : rank(n) = p
           key(n)  == PartitionKey(sw, n)
           items   == ToSet(sw.data)
<1>1. /\ opens \subseteq DOMAIN sw.data /\ opens \subseteq Nat /\ IsFiniteSet(opens) /\ N \in Nat
      /\ \A n \in DOMAIN sw.data : \E o \in opens : key(o) = key(n)
      /\ \A n, m \in opens : key(n) = key(m) => n = m
      /\ opens = {} => sw.data = <<>>
  BY OpensFacts
<1>2. /\ sw.workers \in Nat
      /\ \A n \in DOMAIN sw.data : sw.data[n] \in Inputs
      /\ \A n \in DOMAIN sw.data : ~sw.custom /\ sw.workers > 0 => key(n) \in 0..(sw.workers - 1)
  BY KeyFacts
<1>3. CASE opens = {}
  <2>1. parts = <<{}>> /\ sw.data = <<>>
    BY <1>1, <1>3 DEF Partitions
  <2>2. items = {}
    BY <2>1 DEF ToSet
  <2>3. Len(parts) = 1 /\ parts[1] = {} /\ parts \in Seq(SUBSET Inputs)
    BY <2>1
  <2> HIDE DEF parts, items
  <2>4. UNION {parts[p] : p \in 1..Len(parts)} = {}
    BY <2>3
  <2>5. \A p, q \in 1..Len(parts) : p = q
    BY <2>3
  <2> QED
    BY <1>2, <2>2, <2>3, <2>4, <2>5 DEF parts, items
<1>4. CASE opens # {}
  <2>1. parts = [p \in 1..N |-> Sharing(sw, first(p))]
    BY <1>4 DEF Partitions
  <2>2. /\ \A n \in opens : rank(n) \in 1..N
        /\ \A n, m \in opens : rank(n) = rank(m) => n = m
        /\ \A p \in 1..N : \E n \in opens : rank(n) = p
    <3> HIDE DEF opens
    <3> QED
      BY <1>1, Numbering
  <2>3. N # 0
    <3> HIDE DEF opens
    <3> QED
      BY <1>1, <1>4, FS_EmptySet
  <2> HIDE DEF parts, opens, N, rank
  <2>4. ASSUME NEW p \in 1..N PROVE first(p) \in opens /\ rank(first(p)) = p
    BY <2>2
  <2>5. \A p, q \in 1..N : first(p) = first(q) => p = q
    BY <2>4
  <2>6. \A n \in opens : first(rank(n)) = n
    BY <2>2, <2>4
  <2> HIDE DEF first
  <2>7. ASSUME NEW n \in DOMAIN sw.data
        PROVE  Sharing(sw, n) = {sw.data[m] : m \in {x \in DOMAIN sw.data : key(x) = key(n)}}
    BY DEF Sharing
  <2> HIDE DEF key
  <2>8. \A n \in DOMAIN sw.data : Sharing(sw, n) \in SUBSET Inputs
    BY <1>2, <2>7
  <2>9. \A p \in 1..N : Sharing(sw, first(p)) \in SUBSET Inputs
    BY <1>1, <2>4, <2>8
  <2>10. parts \in Seq(SUBSET Inputs) /\ Len(parts) = N /\ \A p \in 1..N : parts[p] = Sharing(sw, first(p))
    <3>1. parts \in Seq(SUBSET Inputs)
      BY <1>1, <2>1, <2>9
    <3>2. Len(parts) = N
      BY <1>1, <2>1, <3>1, LenProperties
    <3> QED
      BY <2>1, <3>1, <3>2
  <2>11. items = UNION {parts[p] : p \in 1..N}
    <3>1. ASSUME NEW n \in DOMAIN sw.data PROVE \E p \in 1..N : sw.data[n] \in parts[p]
      <4>1. PICK o \in opens : key(o) = key(n)
        BY <1>1
      <4>2. rank(o) \in 1..N /\ parts[rank(o)] = Sharing(sw, o)
        BY <2>2, <2>6, <2>10, <4>1
      <4>3. sw.data[n] \in Sharing(sw, o)
        BY <1>1, <2>7, <4>1
      <4> QED
        BY <4>2, <4>3
    <3>2. ASSUME NEW p \in 1..N PROVE parts[p] \subseteq items
      <4>1. parts[p] = Sharing(sw, first(p)) /\ first(p) \in DOMAIN sw.data
        BY <1>1, <2>4, <2>10
      <4> QED
        BY <2>7, <4>1 DEF ToSet
    <3>3. items = {sw.data[n] : n \in DOMAIN sw.data}
      BY DEF ToSet
    <3> HIDE DEF items
    <3> QED
      BY <3>1, <3>2, <3>3
  <2>12. ASSUME IsInjective(sw.data), NEW p \in 1..N, NEW q \in 1..N, p # q
         PROVE  parts[p] \cap parts[q] = {}
    <3> SUFFICES ASSUME NEW x \in parts[p], x \in parts[q] PROVE FALSE
      OBVIOUS
    <3>1. /\ first(p) \in opens /\ first(p) \in DOMAIN sw.data /\ x \in Sharing(sw, first(p))
          /\ first(q) \in opens /\ first(q) \in DOMAIN sw.data /\ x \in Sharing(sw, first(q))
      BY <1>1, <2>4, <2>10
    <3>2. PICK m \in DOMAIN sw.data : x = sw.data[m] /\ key(m) = key(first(p))
      BY <2>7, <3>1
    <3>3. PICK l \in DOMAIN sw.data : x = sw.data[l] /\ key(l) = key(first(q))
      BY <2>7, <3>1
    <3>4. m = l
      BY <2>12, <3>2, <3>3 DEF IsInjective
    <3> QED
      BY <1>1, <2>5, <2>12, <3>1, <3>2, <3>3, <3>4
  <2>13. ASSUME ~sw.custom, sw.workers > 0 PROVE N <= sw.workers
    <3> DEFINE W == sw.workers
               f == [o \in opens |-> key(o)]
    <3>1. f \in [opens -> 0..(W - 1)] /\ \A n, m \in DOMAIN f : f[n] = f[m] => n = m
      BY <1>1, <1>2, <2>13
    <3>2. f \in Injection(opens, 0..(W - 1))
      <4> HIDE DEF f, W
      <4> QED
        BY <3>1 DEF Injection, IsInjective
    <3>3. IsFiniteSet(0..(W - 1)) /\ Cardinality(0..(W - 1)) = W
      <4>1. 0 \in Int /\ W - 1 \in Int /\ ~(0 > W - 1) /\ W - 1 - 0 + 1 = W
        BY <1>2, <2>13
      <4> HIDE DEF W
      <4>2. /\ IsFiniteSet(0..(W - 1))
            /\ Cardinality(0..(W - 1)) = IF 0 > W - 1 THEN 0 ELSE W - 1 - 0 + 1
        BY <4>1, FS_Interval
      <4> QED
        BY <4>1, <4>2
    <3> HIDE DEF f, W
    <3>4. Cardinality(opens) <= Cardinality(0..(W - 1))
      BY <3>2, <3>3, FS_Injection
    <3> QED
      BY <3>3, <3>4 DEF N, W
  <2>14. Len(parts) \in Nat \ {0}
    BY <1>1, <2>3, <2>10
  <2> HIDE DEF items
  <2> QED
    BY <2>10, <2>11, <2>12, <2>13, <2>14 DEF parts, items
<1> QED
  BY <1>3, <1>4

\* What a worker is given.
LEMMA PartitionOfFacts ==
    ASSUME NEW sw \in Swarms
    PROVE  LET L == Len(Partitions(sw))
           IN  /\ \A v \in Nat \ {0} : PartitionOf(sw, v) \in SUBSET Inputs
               /\ L >= sw.workers /\ IsInjective(sw.data) =>
                     \A v, w \in 1..sw.workers :
                        v # w => PartitionOf(sw, v) \cap PartitionOf(sw, w) = {}
               /\ L <= sw.workers =>
                     ToSet(sw.data) = UNION {PartitionOf(sw, v) : v \in 1..sw.workers}
               /\ ~sw.custom /\ sw.workers > 0 => L <= sw.workers
<1> DEFINE parts == Partitions(sw)  L == Len(parts)  W == sw.workers
           turn(v) == ((v - 1) % L) + 1
           items == ToSet(sw.data)
<1>1. /\ parts \in Seq(SUBSET Inputs) /\ L \in Nat \ {0}
      /\ items = UNION {parts[p] : p \in 1..L}
      /\ IsInjective(sw.data) => \A p, q \in 1..L : p # q => parts[p] \cap parts[q] = {}
      /\ ~sw.custom /\ W > 0 => L <= W
  BY PartitionsFacts
<1>2. W \in Nat
  BY KeyFacts
<1>3. \A v : PartitionOf(sw, v) = parts[turn(v)]
  BY DEF PartitionOf
<1> HIDE DEF parts, L, W, items
<1>4. \A v \in Nat \ {0} : turn(v) \in 1..L
  BY <1>1
<1>5. \A v \in 1..L : turn(v) = v
  BY <1>1
<1> HIDE DEF turn
<1>6. ASSUME NEW p \in 1..L PROVE parts[p] \in SUBSET Inputs
  BY <1>1, ElementOfSeq DEF L
<1>7. \A v \in Nat \ {0} : PartitionOf(sw, v) \in SUBSET Inputs
  BY <1>3, <1>4, <1>6
<1>8. ASSUME L >= W, IsInjective(sw.data), NEW v \in 1..W, NEW w \in 1..W, v # w
      PROVE  PartitionOf(sw, v) \cap PartitionOf(sw, w) = {}
  <2>1. v \in 1..L /\ w \in 1..L
    BY <1>1, <1>2, <1>8
  <2> QED
    BY <1>1, <1>3, <1>5, <1>8, <2>1
<1>9. ASSUME L <= W PROVE items = UNION {PartitionOf(sw, v) : v \in 1..W}
  <2>1. \A p \in 1..L : p \in 1..W /\ parts[p] = PartitionOf(sw, p)
    BY <1>1, <1>2, <1>3, <1>5, <1>9
  <2>2. \A v \in 1..W : v \in Nat \ {0}
    BY <1>2
  <2>3. \A v \in 1..W : turn(v) \in 1..L /\ PartitionOf(sw, v) = parts[turn(v)]
    BY <1>3, <1>4, <2>2
  <2> QED
    BY <1>1, <2>1, <2>3
<1> QED
  BY <1>1, <1>7, <1>8, <1>9 DEF L, W, items, parts

-----------------------------------------------------------------------------
(***************************************************************************)
(* The turns of a swarm's workers.                                         *)
(***************************************************************************)
WorkStates == [cache : [Keys -> Entries \cup {Missing}], errors : Nat,
               results : Seq(States), raised : BOOLEAN]

Given(sw, w) == Outcome(sw.capability, PartitionOf(sw, w))

PureIn(stored) == \A c \in Capabilities, f \in States :
    stored[<<c, f>>] \in {Missing, Result(c, f)}

\* After the turns of w workers: where the results come from, that they share no
\* items, and that none is missing if there was no error.
WorkKept(sw, w, s) ==
    /\ s \in WorkStates /\ PureIn(s.cache)
    /\ s.raised => sw.failFast
    /\ ~s.raised => Len(s.results) + s.errors = w
    /\ \A r \in 1..Len(s.results) :
          sw.capability \in Capabilities /\ \E v \in 1..w : s.results[r] = Given(sw, v)
    /\ Len(Partitions(sw)) >= sw.workers /\ IsInjective(sw.data) =>
          \A r, q \in 1..Len(s.results) :
             r # q => (s.results[r] \cap Inputs) \cap (s.results[q] \cap Inputs) = {}
    /\ s.errors = 0 /\ ~s.raised =>
          \A v \in 1..w : \E r \in 1..Len(s.results) : s.results[r] = Given(sw, v)

\* The items a node was given are in what it makes of them.
LEMMA ItemsKept ==
    ASSUME NEW c \in Capabilities, NEW part \in SUBSET Inputs
    PROVE  /\ part \in States /\ Outcome(c, part) \in States
           /\ Outcome(c, part) \cap Inputs = part
           /\ part \cup Outcome(c, part) = Outcome(c, part)
BY WalksAssumption DEF Outcome, States

LEMMA GivenItems ==
    ASSUME NEW sw \in Swarms, sw.capability \in Capabilities
    PROVE  \A v \in Nat \ {0} : /\ Given(sw, v) \in States
                                /\ Given(sw, v) \cap Inputs = PartitionOf(sw, v)
BY PartitionOfFacts, ItemsKept DEF Given

\* A turn leaves things as they are, counts an error or adds a result.
LEMMA WorkedFacts ==
    ASSUME TypeOK, NEW sw \in Swarms, NEW w \in Nat \ {0},
           NEW s \in WorkStates, PureIn(s.cache)
    PROVE  LET t == Worked(sw, w, s)
           IN  /\ t \in WorkStates /\ PureIn(t.cache)
               /\ \/ s.raised /\ t = s
                  \/ ~s.raised /\ /\ t.results = s.results /\ t.raised = sw.failFast
                                  /\ t.errors > s.errors
                                  /\ ~sw.failFast => t.errors = s.errors + 1
                  \/ ~s.raised /\ ~t.raised /\ /\ sw.capability \in Capabilities
                                               /\ t.errors = s.errors
                                               /\ t.results = Append(s.results, Given(sw, w))
<1> DEFINE c    == sw.capability
           part == PartitionOf(sw, w)
           new  == Result(c, part)
           t    == Worked(sw, w, s)
           registered == [s EXCEPT !.cache[<<c, part>>] = new]
<1>1. /\ part \in SUBSET Inputs /\ c \in Capabilities \cup {Unknown} /\ sw.failFast \in BOOLEAN
  BY PartitionOfFacts, KeyFacts DEF Swarms
<1>2. /\ s.cache \in [Keys -> Entries \cup {Missing}] /\ s.errors \in Nat
      /\ s.results \in Seq(States) /\ s.raised \in BOOLEAN
      /\ s = [cache |-> s.cache, errors |-> s.errors, results |-> s.results, raised |-> s.raised]
  BY DEF WorkStates
<1>3. CASE s.raised
  <2>1. t = s
    BY <1>3 DEF Worked
  <2> QED
    BY <1>3, <2>1
<1>4. CASE ~s.raised /\ c = Unknown
  <2>1. t = [s EXCEPT !.errors = @ + 1, !.raised = sw.failFast]
    BY <1>4 DEF Worked
  <2>2. /\ t.cache = s.cache /\ t.results = s.results /\ t.errors = s.errors + 1
        /\ t.raised = sw.failFast
        /\ t = [cache |-> t.cache, errors |-> t.errors, results |-> t.results, raised |-> t.raised]
    BY <1>2, <2>1
  <2> HIDE DEF t
  <2>3. t \in WorkStates
    BY <1>1, <1>2, <2>2 DEF WorkStates
  <2> QED
    BY <1>2, <1>4, <2>2, <2>3 DEF t
<1>5. CASE ~s.raised /\ c # Unknown
  <2>1. c \in Capabilities /\ part \in States /\ Outcome(c, part) \in States
    BY <1>1, <1>5, ItemsKept
  <2>2. new \in Entries /\ new.facts = Outcome(c, part) /\ <<c, part>> \in Keys
    <3>1. behaviour[c].next \in Targets
      BY <2>1, SetupFacts
    <3> QED
      BY <2>1, <3>1 DEF Result, Entries, Keys
  <2>3. Given(sw, w) = Outcome(c, part)
    BY DEF Given
  <2>4. t = IF s.cache[<<c, part>>] # Missing
            THEN [s EXCEPT !.results = Append(@, part \cup s.cache[<<c, part>>].facts)]
            ELSE IF behaviour[c].kind = "fails"
            THEN [registered EXCEPT !.errors = @ + (IF sw.failFast THEN 2 ELSE 1),
                                    !.raised = sw.failFast]
            ELSE [registered EXCEPT !.results = Append(@, new.facts)]
    BY <1>5 DEF Worked, Result
  <2>5. /\ registered.errors = s.errors /\ registered.results = s.results
        /\ registered.raised = s.raised
        /\ registered.cache = [s.cache EXCEPT ![<<c, part>>] = new]
        /\ registered = [cache |-> registered.cache, errors |-> s.errors,
                         results |-> s.results, raised |-> s.raised]
    <3>1. s = [cache |-> s.cache, errors |-> s.errors, results |-> s.results, raised |-> s.raised]
      BY <1>2
    <3> HIDE DEF new
    <3>2. registered = [cache |-> [s.cache EXCEPT ![<<c, part>>] = new], errors |-> s.errors,
                        results |-> s.results, raised |-> s.raised]
      BY <3>1
    <3> HIDE DEF registered
    <3> QED
      BY <3>2
  <2>6. registered.cache \in [Keys -> Entries \cup {Missing}] /\ PureIn(registered.cache)
    <3> HIDE DEF Keys, Entries, registered
    <3>1. /\ registered.cache \in [Keys -> Entries \cup {Missing}]
          /\ \A k \in Keys : registered.cache[k] = IF k = <<c, part>> THEN new ELSE s.cache[k]
      BY <1>2, <2>2, <2>5
    <3> SUFFICES ASSUME NEW d \in Capabilities, NEW g \in States
                 PROVE  registered.cache[<<d, g>>] \in {Missing, Result(d, g)}
      BY <3>1 DEF PureIn
    <3>2. <<d, g>> \in Keys
      BY DEF Keys
    <3>3. CASE d = c /\ g = part
      BY <3>1, <3>2, <3>3
    <3>4. CASE ~(d = c /\ g = part)
      <4>1. <<d, g>> # <<c, part>>
        BY <3>4
      <4> QED
        BY <3>1, <3>2, <4>1 DEF PureIn
    <3> QED
      BY <3>3, <3>4
  <2> HIDE DEF registered, new
  <2>7. CASE s.cache[<<c, part>>] # Missing
    <3>1. s.cache[<<c, part>>].facts = Outcome(c, part)
      BY <2>1, <2>2, <2>7 DEF PureIn, new
    <3>2. t = [s EXCEPT !.results = Append(@, Outcome(c, part))]
      BY <1>1, <2>1, <2>4, <2>7, <3>1, ItemsKept
    <3>3. /\ t.cache = s.cache /\ t.results = Append(s.results, Outcome(c, part))
          /\ t.errors = s.errors /\ t.raised = s.raised
          /\ t = [cache |-> t.cache, errors |-> t.errors, results |-> t.results, raised |-> t.raised]
      BY <1>2, <3>2
    <3> HIDE DEF t
    <3>4. t \in WorkStates
      BY <1>2, <2>1, <3>3 DEF WorkStates
    <3> QED
      BY <1>5, <2>1, <2>3, <3>3, <3>4 DEF t
  <2>8. CASE s.cache[<<c, part>>] = Missing /\ behaviour[c].kind = "fails"
    <3> DEFINE more == IF sw.failFast THEN 2 ELSE 1
    <3>1. t = [registered EXCEPT !.errors = @ + more, !.raised = sw.failFast]
      BY <2>4, <2>8
    <3>2. more \in Nat /\ more > 0 /\ (~sw.failFast => more = 1)
      OBVIOUS
    <3> HIDE DEF more
    <3>3. /\ t.cache = registered.cache /\ t.results = s.results
          /\ t.errors = s.errors + more /\ t.raised = sw.failFast
          /\ t = [cache |-> t.cache, errors |-> t.errors, results |-> t.results, raised |-> t.raised]
      BY <2>5, <3>1
    <3> HIDE DEF t
    <3>4. t.errors \in Nat /\ t.errors > s.errors
      BY <1>2, <3>2, <3>3
    <3>5. t \in WorkStates
      BY <1>1, <1>2, <2>6, <3>3, <3>4 DEF WorkStates
    <3> QED
      BY <1>5, <2>6, <3>2, <3>3, <3>4, <3>5 DEF t
  <2>9. CASE s.cache[<<c, part>>] = Missing /\ behaviour[c].kind # "fails"
    <3>1. t = [registered EXCEPT !.results = Append(@, Outcome(c, part))]
      BY <2>2, <2>4, <2>9
    <3>2. /\ t.cache = registered.cache /\ t.results = Append(s.results, Outcome(c, part))
          /\ t.errors = s.errors /\ t.raised = s.raised
          /\ t = [cache |-> t.cache, errors |-> t.errors, results |-> t.results, raised |-> t.raised]
      BY <2>5, <3>1
    <3> HIDE DEF t
    <3>3. Append(s.results, Outcome(c, part)) \in Seq(States)
      <4> HIDE DEF States
      <4> QED
        BY <1>2, <2>1
    <3>4. t \in WorkStates
      BY <1>2, <2>6, <3>2, <3>3 DEF WorkStates
    <3> QED
      BY <1>5, <2>1, <2>3, <2>6, <3>2, <3>4 DEF t
  <2> QED
    BY <2>7, <2>8, <2>9
<1> QED
  BY <1>2, <1>3, <1>4, <1>5

LEMMA AppendFacts ==
    ASSUME NEW S, NEW s \in Seq(S), NEW x \in S
    PROVE  /\ Append(s, x) \in Seq(S) /\ Len(Append(s, x)) = Len(s) + 1 /\ Len(s) \in Nat
           /\ \A r \in 1..Len(s) : Append(s, x)[r] = s[r]
           /\ Append(s, x)[Len(s) + 1] = x
OBVIOUS

LEMMA WorkedKeeps ==
    ASSUME TypeOK, NEW sw \in Swarms, NEW w \in 1..sw.workers,
           NEW s, WorkKept(sw, w - 1, s)
    PROVE  WorkKept(sw, w, Worked(sw, w, s))
<1> DEFINE t == Worked(sw, w, s)
<1>1. /\ sw.workers \in Nat /\ w \in Nat \ {0} /\ w - 1 \in Nat /\ sw.failFast \in BOOLEAN
      /\ \A v \in 1..(w - 1) : v \in 1..w /\ v \in Nat \ {0} /\ v # w /\ v \in 1..sw.workers
      /\ \A v \in 1..w : v \in 1..(w - 1) \/ v = w
  BY KeyFacts DEF Swarms
<1>2. /\ s \in WorkStates /\ PureIn(s.cache) /\ s.errors \in Nat /\ s.results \in Seq(States)
      /\ s.raised \in BOOLEAN /\ Len(s.results) \in Nat
  BY DEF WorkKept, WorkStates
<1>3. /\ t \in WorkStates /\ PureIn(t.cache)
      /\ \/ s.raised /\ t = s
         \/ ~s.raised /\ /\ t.results = s.results /\ t.raised = sw.failFast
                         /\ t.errors > s.errors
                         /\ ~sw.failFast => t.errors = s.errors + 1
         \/ ~s.raised /\ ~t.raised /\ /\ sw.capability \in Capabilities
                                      /\ t.errors = s.errors
                                      /\ t.results = Append(s.results, Given(sw, w))
  BY <1>1, <1>2, WorkedFacts
<1> HIDE DEF t
<1>4. /\ s.raised => sw.failFast
      /\ ~s.raised => Len(s.results) + s.errors = w - 1
      /\ \A r \in 1..Len(s.results) :
            sw.capability \in Capabilities /\ \E v \in 1..(w - 1) : s.results[r] = Given(sw, v)
      /\ Len(Partitions(sw)) >= sw.workers /\ IsInjective(sw.data) =>
            \A r, q \in 1..Len(s.results) :
               r # q => (s.results[r] \cap Inputs) \cap (s.results[q] \cap Inputs) = {}
      /\ s.errors = 0 /\ ~s.raised =>
            \A v \in 1..(w - 1) : \E r \in 1..Len(s.results) : s.results[r] = Given(sw, v)
  BY DEF WorkKept
<1>5. CASE s.raised /\ t = s
  BY <1>1, <1>3, <1>4, <1>5 DEF WorkKept, t
<1>6. CASE /\ ~s.raised /\ t.results = s.results /\ t.raised = sw.failFast
           /\ t.errors > s.errors /\ (~sw.failFast => t.errors = s.errors + 1)
  <2>1. t.errors # 0
    BY <1>2, <1>6
  <2>2. ~t.raised => Len(t.results) + t.errors = w
    <3> SUFFICES ASSUME ~t.raised PROVE Len(t.results) + t.errors = w
      OBVIOUS
    <3>1. t.errors = s.errors + 1 /\ t.results = s.results
      BY <1>6
    <3>2. Len(s.results) + s.errors = w - 1
      BY <1>4, <1>6
    <3>3. Len(s.results) \in Nat /\ s.errors \in Nat /\ w \in Nat
      BY <1>1, <1>2
    <3> QED
      BY <3>1, <3>2, <3>3
  <2> QED
    BY <1>1, <1>3, <1>4, <1>6, <2>1, <2>2 DEF WorkKept, t
<1>7. CASE /\ ~s.raised /\ ~t.raised /\ sw.capability \in Capabilities
           /\ t.errors = s.errors /\ t.results = Append(s.results, Given(sw, w))
  <2> DEFINE L == Len(s.results)  g(v) == Given(sw, v)  x == g(w)
  <2>1. /\ \A v \in Nat \ {0} : g(v) \in States /\ g(v) \cap Inputs = PartitionOf(sw, v)
    BY <1>7, GivenItems
  <2>2. x \in States
    BY <1>1, <2>1
  <2> HIDE DEF x, States
  <2>3. /\ Len(t.results) = L + 1 /\ t.results[L + 1] = x
        /\ \A r \in 1..L : t.results[r] = s.results[r]
    BY <1>2, <1>7, <2>2, AppendFacts DEF x
  <2> HIDE DEF L, g
  <2>4. /\ L \in Nat /\ L + 1 \in 1..(L + 1) /\ \A r \in 1..(L + 1) : r \in 1..L \/ r = L + 1
        /\ \A r \in 1..L : r \in 1..(L + 1)
    BY <1>2 DEF L
  <2>5. ~t.raised => Len(t.results) + t.errors = w
    <3>1. L + s.errors = w - 1
      BY <1>4, <1>7 DEF L
    <3>2. L \in Nat /\ s.errors \in Nat /\ w \in Nat
      BY <1>1, <1>2, <2>4
    <3>3. Len(t.results) = L + 1 /\ t.errors = s.errors
      BY <1>7, <2>3
    <3> QED
      BY <3>1, <3>2, <3>3
  <2>6. ASSUME NEW r \in 1..L PROVE \E v \in 1..(w - 1) : t.results[r] = g(v)
    BY <1>4, <2>3, <2>6 DEF L, g
  <2>7. ASSUME NEW r \in 1..(L + 1) PROVE \E v \in 1..w : t.results[r] = g(v)
    <3>1. CASE r \in 1..L
      BY <1>1, <2>6, <3>1
    <3>2. CASE r = L + 1
      <4>1. w \in 1..w
        BY <1>1
      <4> QED
        BY <2>3, <3>2, <4>1 DEF x
    <3> QED
      BY <2>4, <3>1, <3>2
  <2>8. ASSUME Len(Partitions(sw)) >= sw.workers, IsInjective(sw.data),
               NEW r \in 1..(L + 1), NEW q \in 1..(L + 1), r # q
        PROVE  (t.results[r] \cap Inputs) \cap (t.results[q] \cap Inputs) = {}
    <3>1. ASSUME NEW p \in 1..L PROVE (t.results[p] \cap Inputs) \cap (x \cap Inputs) = {}
      <4>1. PICK v \in 1..(w - 1) : t.results[p] = g(v)
        BY <2>6
      <4>2. v \in 1..sw.workers /\ w \in 1..sw.workers /\ v # w
        BY <1>1
      <4>3. PartitionOf(sw, v) \cap PartitionOf(sw, w) = {}
        BY <2>8, <4>2, PartitionOfFacts
      <4>4. g(v) \cap Inputs = PartitionOf(sw, v) /\ x \cap Inputs = PartitionOf(sw, w)
        BY <1>1, <2>1 DEF x
      <4> QED
        BY <4>1, <4>3, <4>4
    <3>2. CASE r \in 1..L /\ q \in 1..L
      BY <1>4, <2>3, <2>8, <3>2 DEF L
    <3>3. CASE r \in 1..L /\ q = L + 1
      BY <2>3, <3>1, <3>3
    <3>4. CASE r = L + 1 /\ q \in 1..L
      BY <2>3, <3>1, <3>4
    <3> QED
      BY <2>4, <2>8, <3>2, <3>3, <3>4
  <2>9. ASSUME t.errors = 0, NEW v \in 1..w
        PROVE  \E r \in 1..(L + 1) : t.results[r] = g(v)
    <3>1. CASE v \in 1..(w - 1)
      <4>1. PICK r \in 1..L : s.results[r] = g(v)
        BY <1>4, <1>7, <2>9, <3>1 DEF L, g
      <4> QED
        BY <2>3, <2>4, <4>1
    <3>2. CASE v = w
      BY <2>3, <2>4, <3>2 DEF x
    <3> QED
      BY <1>1, <3>1, <3>2
  <2> QED
    BY <1>3, <1>7, <2>3, <2>5, <2>7, <2>8, <2>9 DEF WorkKept, t, g
<1> QED
  BY <1>3, <1>5, <1>6, <1>7

\* The turns of all workers, as the swarm goes through them.
LEMMA WorkersKept ==
    ASSUME TypeOK, CachePure, NEW sw \in Swarms
    PROVE  WorkKept(sw, sw.workers, Workers(sw)[sw.workers])
<1> DEFINE N     == sw.workers
           s0    == [cache |-> cache, errors |-> 0, results |-> <<>>, raised |-> FALSE]
           kept  == {s \in WorkStates : PureIn(s.cache)}
           step  == [w \in 1..N |-> [s \in kept |-> Worked(sw, w, s)]]
           Is(f) == f = [w \in 0..N |-> IF w = 0 THEN s0 ELSE Worked(sw, w, f[w - 1])]
<1>1. N \in Nat
  BY KeyFacts
<1>2. s0 \in WorkStates /\ PureIn(s0.cache)
  BY DEF WorkStates, TypeOK, CachePure, PureIn
<1>3. ASSUME NEW w \in 1..N, NEW s \in kept PROVE Worked(sw, w, s) \in kept
  <2>1. w \in Nat \ {0} /\ s \in WorkStates /\ PureIn(s.cache)
    BY <1>1
  <2> QED
    BY <2>1, WorkedFacts
<1>4. Workers(sw) = CHOOSE f : Is(f)
  BY DEF Workers
<1>5. s0 \in kept
  BY <1>2
<1>6. WorkKept(sw, 0, s0)
  <2>1. /\ s0.results = <<>> /\ s0.errors = 0 /\ s0.raised = FALSE /\ Len(s0.results) = 0
    OBVIOUS
  <2> HIDE DEF s0
  <2> QED
    BY <1>2, <2>1 DEF WorkKept
<1> HIDE DEF N, s0, kept
<1>7. step \in [1..N -> [kept -> kept]]
  BY <1>3
<1>8. \A w \in 1..N, s \in kept : step[w][s] = Worked(sw, w, s)
  OBVIOUS
<1> HIDE DEF step
<1>9. PICK f \in [0..N -> kept] : f[0] = s0 /\ \A w \in 1..N : f[w] = step[w][f[w - 1]]
  BY <1>1, <1>5, <1>7, Stepwise, SMTT(30)
<1>10. ASSUME NEW w \in 1..N PROVE f[w] = Worked(sw, w, f[w - 1])
  <2>1. f[w - 1] \in kept /\ f[w] = step[w][f[w - 1]]
    BY <1>1, <1>9
  <2> QED
    BY <1>8, <2>1
<1>11. Is(f)
  <2>1. \A w \in 0..N : f[w] = IF w = 0 THEN s0 ELSE Worked(sw, w, f[w - 1])
    BY <1>1, <1>9, <1>10
  <2> QED
    BY <2>1, <1>9
<1>12. Is(Workers(sw))
  BY <1>4, <1>11
<1>13. ASSUME NEW g, Is(g)
       PROVE  g[0] = s0 /\ \A w \in 1..N : g[w] = Worked(sw, w, g[w - 1])
  BY <1>1, <1>13
<1> DEFINE after == Workers(sw)
           T == {w \in 0..N : WorkKept(sw, w, after[w])}
<1>14. after[0] = s0 /\ \A w \in 1..N : after[w] = Worked(sw, w, after[w - 1])
  BY <1>12, <1>13
<1> HIDE DEF after
<1>15. 0 \in T
  BY <1>1, <1>6, <1>14
<1>16. ASSUME NEW w \in 1..N, w - 1 \in T PROVE w \in T
  <2>1. w \in 0..N /\ w \in 1..sw.workers /\ WorkKept(sw, w - 1, after[w - 1])
    BY <1>1, <1>16 DEF N
  <2> QED
    BY <1>14, <2>1, WorkedKeeps
<1> HIDE DEF T
<1>17. 0..N \subseteq T
  BY <1>1, <1>15, <1>16, Throughout
<1> QED
  BY <1>1, <1>17 DEF T, N, after

LEMMA ExecuteKeeps ==
    ASSUME SInv, ExecuteSwarm
    PROVE  SInv'
<1> DEFINE sw == work.swarm  s == Workers(sw)[sw.workers]
           results == IF s.raised THEN <<>> ELSE s.results
<1>1. /\ cache' = s.cache /\ sw.workers > 0
      /\ swarm' = [status  |-> IF s.raised THEN "raised" ELSE "reduced",
                   errors  |-> s.errors, results |-> results]
      /\ UNCHANGED <<run, walk, verdict, inflight, split, revived>>
  BY DEF ExecuteSwarm
<1>2. TypeOK /\ CachePure /\ sw \in Swarms /\ sw.workers \in Nat
  BY SetupFacts, KeyFacts DEF SInv
<1>3. WorkKept(sw, sw.workers, s)
  BY <1>2, WorkersKept
<1> HIDE DEF s
<1>4. /\ s.cache \in [Keys -> Entries \cup {Missing}] /\ s.errors \in Nat
      /\ s.results \in Seq(States) /\ s.raised \in BOOLEAN /\ Len(s.results) \in Nat
  BY <1>3 DEF WorkKept, WorkStates
<1>5. /\ swarm'.status = (IF s.raised THEN "raised" ELSE "reduced")
      /\ swarm'.errors = s.errors /\ swarm'.results = results
      /\ results \in Seq(States)
  BY <1>1, <1>4
<1>6. swarm' \in [status : {"spawned", "reduced", "raised"}, errors : Nat, results : Seq(States)]
  BY <1>1, <1>4, <1>5
<1>7. TypeOK'
  BY <1>1, <1>2, <1>4, <1>6 DEF TypeOK, run, walk
<1>8. CachePure'
  BY <1>1, <1>3, LedSame DEF CachePure, WorkKept, PureIn
<1>9. \A o \in Organisms : Placed(o)'
  BY <1>1, PlacedSame DEF SInv, walk
<1>10. SwarmKept'
  <2> DEFINE c == sw.capability  res == s.results  items(r) == res[r] \cap Inputs
             parts == Partitions(sw)
  <2>1. /\ \A r \in 1..Len(res) : c \in Capabilities /\ \E v \in 1..sw.workers : res[r] = Given(sw, v)
        /\ Len(parts) >= sw.workers /\ IsInjective(sw.data) =>
              \A r, q \in 1..Len(res) : r # q => items(r) \cap items(q) = {}
        /\ s.errors = 0 /\ ~s.raised =>
              \A v \in 1..sw.workers : \E r \in 1..Len(res) : res[r] = Given(sw, v)
        /\ s.raised => sw.failFast
        /\ ~s.raised => Len(res) + s.errors = sw.workers
    BY <1>3 DEF WorkKept
  <2>2. c \in Capabilities => \A v \in 1..sw.workers : Given(sw, v) \cap Inputs = PartitionOf(sw, v)
    BY <1>2, GivenItems
  <2>3. /\ Len(parts) <= sw.workers =>
              ToSet(sw.data) = UNION {PartitionOf(sw, v) : v \in 1..sw.workers}
        /\ ~sw.custom => Len(parts) <= sw.workers
    BY <1>1, <1>2, PartitionOfFacts
  <2>4. \A r \in 1..Len(res) : res[r] = Outcome(c, items(r))
    BY <2>1, <2>2 DEF Given
  <2>5. ASSUME ~s.raised, s.errors = 0, sw.custom => Len(parts) <= sw.workers
        PROVE  ToSet(sw.data) = UNION {items(r) : r \in 1..Len(res)}
    <3>1. ToSet(sw.data) = UNION {PartitionOf(sw, v) : v \in 1..sw.workers}
      BY <2>3, <2>5
    <3>2. \A r \in 1..Len(res) : \E v \in 1..sw.workers : items(r) = PartitionOf(sw, v)
      BY <2>1, <2>2
    <3>3. \A v \in 1..sw.workers : \E r \in 1..Len(res) : items(r) = PartitionOf(sw, v)
      BY <2>1, <2>2, <2>5
    <3> HIDE DEF items, parts, res
    <3> QED
      BY <3>1, <3>2, <3>3
  <2>6. /\ work' = work /\ \A x, f : Outcome(x, f)' = Outcome(x, f)
    BY <1>1, LedSame DEF run
  <2>7. DOMAIN res = 1..Len(res)
    BY <1>4, LenProperties
  <2>8. CASE s.raised
    <3>1. /\ swarm'.status = "raised" /\ swarm'.results = <<>> /\ DOMAIN swarm'.results = {}
      BY <1>5, <2>8
    <3>2. sw.failFast
      BY <2>1, <2>8
    <3> HIDE DEF sw
    <3> QED
      BY <2>6, <3>1, <3>2 DEF SwarmKept, SwarmCovers, sw
  <2>9. CASE ~s.raised
    <3>1. /\ swarm'.status = "reduced" /\ swarm'.results = res /\ swarm'.errors = s.errors
          /\ DOMAIN swarm'.results = 1..Len(res)
      BY <1>5, <2>7, <2>9
    <3> DEFINE out == swarm'.results
    <3>2. \A r \in DOMAIN out : out[r] = Outcome(c, out[r] \cap Inputs)
      BY <2>4, <3>1
    <3>3. Len(out) + swarm'.errors = sw.workers
      BY <2>1, <2>9, <3>1
    <3>4. swarm'.errors = 0 /\ (sw.custom => Len(parts) <= sw.workers) =>
             ToSet(sw.data) = UNION {out[r] \cap Inputs : r \in DOMAIN out}
      BY <2>5, <2>9, <3>1
    <3>5. Len(parts) >= sw.workers /\ IsInjective(sw.data) =>
             \A r, q \in DOMAIN out : r # q => (out[r] \cap Inputs) \cap (out[q] \cap Inputs) = {}
      BY <2>1, <3>1
    <3> HIDE DEF sw, s
    <3> QED
      BY <2>6, <3>1, <3>2, <3>3, <3>4, <3>5 DEF SwarmKept, SwarmCovers, sw
  <2> QED
    BY <2>8, <2>9
<1>11. Told'
  BY <1>1 DEF SInv, Told, Terminated, walk
<1> QED
  BY <1>7, <1>8, <1>9, <1>10, <1>11 DEF SInv

-----------------------------------------------------------------------------
(***************************************************************************)
(* Any number of steps.                                                    *)
(***************************************************************************)
LEMMA SharingInit ==
    ASSUME Init
    PROVE  SInv
<1>1. /\ behaviour \in Behaviours /\ work \in Workloads
      /\ pc = [o \in Organisms |-> "new"] /\ facts = [o \in Organisms |-> {work.input[o]}]
      /\ next = work.first /\ hops = [o \in Organisms |-> 0]
      /\ cache = [k \in Keys |-> Missing]
      /\ swarm = [status |-> "spawned", errors |-> 0, results |-> <<>>]
      /\ status = [o \in Organisms |-> IF o \in Requests THEN "spawned" ELSE "exploring"]
      /\ verdict = [r \in Requests |-> "none"] /\ revived = [o \in Organisms |-> {}]
  BY DEF Init
<1>2. /\ work.input \in [Organisms -> Inputs]
      /\ work.first \in [Organisms -> Targets \ {Nowhere}] /\ MaxHops \in Nat
  BY <1>1, Setup
<1>3. TypeOK
  <2>1. facts \in [Organisms -> States]
    BY <1>1, <1>2 DEF States
  <2>2. next \in [Organisms -> Targets]
    BY <1>1, <1>2
  <2>3. split \in [status : {"spawned", "learning", "terminated"}, facts : States]
    BY DEF Init, States
  <2>4. status \in [Organisms -> {"spawned", "exploring", "executing", "learning",
                                  "terminated"}]
    BY DEF Init
  <2>5. revived \in [Organisms -> SUBSET (1..MaxHops)]
    BY <1>1
  <2> QED
    BY <1>1, <1>2, <2>1, <2>2, <2>3, <2>4, <2>5 DEF TypeOK, Init
<1>4. CachePure
  BY <1>1 DEF CachePure, Keys
<1>5. ASSUME NEW o \in Organisms PROVE Placed(o)
  <2>1. Led(o)[0] = [facts |-> {work.input[o]}, next |-> work.first[o]]
    BY <1>3, LedFacts
  <2>2. LedTo(o, 0)
    BY <1>1, <2>1 DEF LedTo
  <2>3. Under(o, 0)
    BY <1>1, <2>2 DEF Under, Where, Past
  <2>4. Pure(o, 0)
    BY <2>3, UnderPure
  <2> QED
    BY <1>1, <1>2, <2>3, <2>4 DEF Placed, Taken
<1>6. SwarmKept
  BY <1>1 DEF SwarmKept, SwarmCovers
<1>7. Told
  BY <1>1 DEF Told, Terminated
<1> QED
  BY <1>3, <1>4, <1>5, <1>6, <1>7 DEF SInv

LEMMA SharingNext ==
    ASSUME SInv, [Next]_vars
    PROVE  SInv'
<1>1. CASE UNCHANGED vars
  <2>1. /\ UNCHANGED <<run, swarm, cache>>
        /\ \A o \in Organisms : /\ pc'[o] = pc[o] /\ facts'[o] = facts[o]
                                /\ next'[o] = next[o] /\ hops'[o] = hops[o]
                                /\ status'[o] = status[o] /\ revived'[o] = revived[o]
    BY <1>1 DEF vars, walk
  <2>2. TypeOK'
    BY <1>1 DEF SInv, TypeOK, vars, run, walk
  <2>3. Told'
    BY <1>1 DEF SInv, Told, Terminated, vars, walk
  <2> QED
    BY <2>1, <2>2, <2>3, PlacedSame, CacheSame, SwarmSame DEF SInv
<1>2. CASE Next
  <2>1. work.walks \subseteq Requests /\ work.branches \subseteq Branches
    BY SetupFacts DEF SInv
  <2> QED
    BY <1>2, <2>1, RequestKeeps, BranchKeeps, SplitKeeps, ExecuteKeeps, ExpireKeeps DEF Next
<1> QED
  BY <1>1, <1>2

\* The cache holds nothing but what a node makes of the state it is registered
\* for, every organism is where its own hops lead and goes on or has ended as it
\* would alone, but for the failures it restored, its last event says so, and a
\* swarm that has run has what SwarmCovers says: the invariant behind the two
\* theorems below, for any nodes, routing, requests, branches, swarm and expiry.
THEOREM SharingInvariant == Spec => []SInv
<1>1. Init => SInv
  BY SharingInit
<1>2. SInv /\ [Next]_vars => SInv'
  BY SharingNext
<1> QED
  BY <1>1, <1>2, PTL DEF Spec

\* Computing once and reusing changes nobody's result: whatever an organism
\* computed, waited for or restored (execute_organism_stream, single flight and
\* the TimeSplitter's branches), it is where its own hops lead and goes on,
\* completes or fails as it would alone and without a cache.  The hops for which
\* it restored what a node that failed or terminated had left are the exception,
\* and the only one: there it goes on, where alone it would have been stopped.
THEOREM SharedResults == Spec => []SharedIsPure
<1>1. ASSUME SInv PROVE SharedIsPure
  <2>1. work.walks \subseteq Requests /\ work.walks \cup work.branches \subseteq Organisms
    BY <1>1, SetupFacts DEF SInv, Organisms
  <2> QED
    BY <1>1, <2>1 DEF SInv, Placed, Pure, Where, Told, SharedIsPure
<1> QED
  BY <1>1, SharingInvariant, PTL

\* What execute_swarm returns accounts for every worker, and with no error for
\* every item, each once, whatever its number of workers, its data, its partition
\* function and what others have left in the cache.
THEOREM SwarmComplete == Spec => []SwarmCovers
<1>1. SInv => SwarmCovers
  BY DEF SInv, SwarmKept
<1> QED
  BY <1>1, SharingInvariant, PTL
=============================================================================
