----------------------- MODULE OrganismService_proofs -----------------------
(***************************************************************************)
(* Proofs about OrganismService, for any organisms, requests, hibernations *)
(* and backends, pipelines of any length, and restarts at any time.        *)
(***************************************************************************)
EXTENDS OrganismService, FiniteSetTheorems, TLAPS

\* The first n - 1 steps are among these facts.
Filled(n, facts) == 1..(n - 1) \subseteq facts

\* Only what somebody refers to is there.
Alive == \A o \in Instances : Live(o) <=> instance[o] # Nil

\* Nothing a hibernation refers to is older than what was hibernated.
Newer(h, x) ==
    /\ x.id = snapshot[h].id /\ x.next = snapshot[h].next
    /\ snapshot[h].facts \subseteq x.facts

SaveKept(h) ==
    /\ saving[h] = NoSave => persisted[h] = Nil /\ stored[h] = Nil /\ waking[h] = Nil
    /\ saving[h] # NoSave =>
          /\ snapshot[h] # Nil
          /\ persisted[h] # Nil => Newer(h, Contents(h))
          /\ stored[h] # Nil => Newer(h, stored[h])
          /\ waking[h] # Nil => Newer(h, waking[h])
    /\ saving[h].pc = "dump" => persisted[h] # Nil
    /\ saving[h].pc \in {"write", "written"} => saving[h].copy # Nil /\ Newer(h, saving[h].copy)
    /\ saving[h].pc \in {"written", "told"} /\ load.backend # "memory" /\ h \notin expired =>
          stored[h] # Nil

\* Without a race, whoever has got past a step has its result.
Complete ==
    /\ \A o \in Instances : Live(o) => Filled(instance[o].next, Facts(o))
    /\ \A t \in Tasks : Busy(t) =>
          /\ Filled(instance[task[t].on].next, heap[task[t].cell])
          /\ task[t].pc # "pause" => instance[task[t].on].next = task[t].step
          /\ \A u \in Tasks : u # t /\ Busy(u) => task[u].on # task[t].on
    /\ \A h \in Hibernations :
          /\ persisted[h] # Nil => Filled(persisted[h].next, heap[persisted[h].cell])
          /\ \A x \in {stored[h], waking[h]} : x # Nil => Filled(x.next, x.facts)
          /\ saving[h].pc \in {"write", "written"} => Filled(saving[h].copy.next, saving[h].copy.facts)

IInv ==
    /\ TypeOK /\ Alive
    /\ \A h \in Hibernations : SaveKept(h)
    /\ ~raced => Complete

-----------------------------------------------------------------------------
(***************************************************************************)
(* There is always a free dictionary.                                      *)
(***************************************************************************)
\* There are no more values than there are arguments.
LEMMA ValuesBounded ==
    ASSUME NEW S, IsFiniteSet(S), NEW f, DOMAIN f = S
    PROVE  LET T == {f[x] : x \in S} IN
           IsFiniteSet(T) /\ Cardinality(T) \in Nat /\ Cardinality(T) <= Cardinality(S)
<1> DEFINE T == {f[x] : x \in S}
           g == [x \in S |-> f[x]]
<1>1. g \in Surjection(S, T)
  BY DEF Surjection
<1> HIDE DEF T, g
<1>2. IsFiniteSet(T) /\ Cardinality(T) <= Cardinality(S)
  BY <1>1, FS_Surjection
<1>3. Cardinality(T) \in Nat
  BY <1>2, FS_CardinalityType
<1> QED
  BY <1>2, <1>3 DEF T

LEMMA UnionBounded ==
    ASSUME NEW S, IsFiniteSet(S), NEW m \in Nat, Cardinality(S) <= m,
           NEW T, IsFiniteSet(T), NEW n \in Nat, Cardinality(T) <= n,
           NEW k, k = m + n
    PROVE  /\ IsFiniteSet(S \cup T) /\ Cardinality(S \cup T) \in Nat
           /\ Cardinality(S \cup T) <= k /\ k \in Nat
<1>1. /\ IsFiniteSet(S \cup T)
      /\ Cardinality(S \cup T) = Cardinality(S) + Cardinality(T) - Cardinality(S \cap T)
  BY FS_Union
<1>2. IsFiniteSet(S \cap T)
  BY FS_Subset
<1>3. /\ Cardinality(S) \in Nat /\ Cardinality(T) \in Nat /\ Cardinality(S \cap T) \in Nat
      /\ Cardinality(S \cup T) \in Nat
  BY <1>1, <1>2, FS_CardinalityType
<1> QED
  BY <1>1, <1>3

LEMMA FreshCell ==
    ASSUME NEW c
    PROVE  Fresh(UsedCells \cup {c}) \in Cells /\ Fresh(UsedCells \cup {c}) \notin UsedCells \cup {c}
<1> DEFINE I == Cardinality(Instances)  H == Cardinality(Hibernations)  T == Cardinality(Tasks)
           onInstances    == [o \in Instances |-> instance[o].cell]
           onTasks        == [t \in Tasks |-> task[t].cell]
           onHibernations == [h \in Hibernations |-> persisted[h].cell]
           A == {onInstances[o] : o \in Instances}
           B == {onTasks[t] : t \in Tasks}
           C == {onHibernations[h] : h \in Hibernations}
           all == A \cup (B \cup (C \cup {c}))
<1>1. I \in Nat /\ H \in Nat /\ T \in Nat
  BY ServiceAssumption, FS_CardinalityType
<1>2. IsFiniteSet(A) /\ Cardinality(A) <= I
  BY ServiceAssumption, ValuesBounded
<1>3. IsFiniteSet(B) /\ Cardinality(B) <= T
  BY ServiceAssumption, ValuesBounded
<1>4. IsFiniteSet(C) /\ Cardinality(C) <= H
  BY ServiceAssumption, ValuesBounded
<1>5. IsFiniteSet({c}) /\ Cardinality({c}) <= 1 /\ 1 \in Nat
  <2>1. IsFiniteSet({c}) /\ Cardinality({c}) = 1
    BY FS_Singleton, Zenon
  <2> QED
    BY <2>1
<1>6. UsedCells \cup {c} \subseteq all
  BY DEF UsedCells
<1> HIDE DEF A, B, C
<1> HIDE DEF I, H, T
<1>7. IsFiniteSet(all) /\ Cardinality(all) \in Nat /\ Cardinality(all) <= I + (T + (H + 1))
  <2> DEFINE D == C \cup {c}  E == B \cup D  h == H + 1  t == T + h  i == I + t
  <2>1. IsFiniteSet(D) /\ Cardinality(D) <= h /\ h \in Nat
    BY <1>1, <1>4, <1>5, UnionBounded
  <2> HIDE DEF D, h
  <2>2. IsFiniteSet(E) /\ Cardinality(E) <= t /\ t \in Nat
    BY <1>1, <1>3, <2>1, UnionBounded
  <2> HIDE DEF E, t
  <2>3. IsFiniteSet(A \cup E) /\ Cardinality(A \cup E) \in Nat /\ Cardinality(A \cup E) <= i
    BY <1>1, <1>2, <2>2, UnionBounded
  <2> QED
    BY <2>3 DEF D, E, h, t
<1> HIDE DEF all
<1>8. IsFiniteSet(Cells) /\ Cardinality(Cells) = I + H + T + 2
  <2>1. Cells = 1..(I + H + T + 2)
    BY DEF Cells, I, H, T
  <2> QED
    BY <1>1, <2>1, FS_Interval
<1>9. ~(Cells \subseteq all)
  <2>1. Cells \subseteq all => Cardinality(Cells) <= Cardinality(all)
    BY <1>7, FS_Subset
  <2> QED
    BY <1>1, <1>7, <1>8, <2>1
<1>10. \E x \in Cells : x \notin UsedCells \cup {c}
  BY <1>6, <1>9
<1> QED
  BY <1>10 DEF Fresh

LEMMA NewCellFree == NewCell \in Cells /\ NewCell \notin UsedCells
<1>1. Fresh(UsedCells \cup {0}) \in Cells /\ Fresh(UsedCells \cup {0}) \notin UsedCells
  BY FreshCell
<1>2. \E x \in Cells : x \notin UsedCells
  BY <1>1
<1> QED
  BY <1>2 DEF NewCell, Fresh

-----------------------------------------------------------------------------
(***************************************************************************)
(* What is there, and what becomes of it.                                  *)
(***************************************************************************)
LEMMA Numbers ==
    /\ LastStep \in Nat /\ LastStep >= 1 /\ Over = LastStep + 1 /\ Steps = 1..LastStep
    /\ Nexts = 1..(LastStep + 1) /\ Nobody \notin Instances /\ Instances \subseteq Nat
    /\ 1 \in Nexts
BY ServiceAssumption DEF Over, Steps, Nexts, Nobody

\* Nothing is nil, idle and a record at the same time.
LEMMA Apart ==
    /\ Nil \notin Instance /\ Nil \notin Copy /\ Nil \notin Hibernated
    /\ Idle \notin Execution
    /\ NoSave \notin Saving /\ Told \notin Saving /\ Failed \notin Saving
<1>1. 0 \notin Nexts
  BY Numbers
<1>2. Nil \notin Instance /\ Nil \notin Copy /\ Nil \notin Hibernated
  BY <1>1 DEF Nil, Instance, Copy, Hibernated
<1> QED
  BY <1>2 DEF Idle, Execution, NoSave, Told, Failed, Saving

LEMMA InstanceTyped ==
    ASSUME NEW x \in Instance
    PROVE  /\ x.id \in Organisms /\ x.cell \in Cells /\ x.next \in Nexts
           /\ x.status \in {"spawned", "executing", "learning", "terminated", "suspended"}
BY DEF Instance

LEMMA LiveTyped ==
    ASSUME IInv, NEW o \in Instances, Live(o)
    PROVE  /\ instance[o] \in Instance /\ instance[o] # Nil
           /\ instance[o].id \in Organisms /\ instance[o].cell \in Cells
           /\ instance[o].next \in Nexts
           /\ instance[o].status \in {"spawned", "executing", "learning", "terminated", "suspended"}
           /\ Facts(o) = heap[instance[o].cell] /\ Facts(o) \subseteq Steps
           /\ instance[o].cell \in UsedCells
<1>1. instance[o] \in Instance /\ instance[o] # Nil
  BY DEF IInv, TypeOK, Alive
<1>2. instance[o].cell \in UsedCells
  BY DEF UsedCells
<1> QED
  BY <1>1, <1>2, InstanceTyped DEF IInv, TypeOK, Facts

LEMMA BusyTyped ==
    ASSUME IInv, NEW t \in Tasks, Busy(t)
    PROVE  /\ task[t] \in Execution /\ task[t] # Idle
           /\ task[t].on \in Instances /\ task[t].step \in Steps /\ task[t].seen \subseteq Steps
           /\ task[t].cell \in Cells /\ task[t].pc \in {"wait", "lock", "run", "pause"}
           /\ Live(task[t].on) /\ task[t].cell \in UsedCells
           /\ heap[task[t].cell] \subseteq Steps
<1>1. task[t] \in Execution /\ task[t] # Idle
  BY DEF IInv, TypeOK, Busy
<1>2. /\ task[t].on \in Instances /\ task[t].step \in Steps /\ task[t].seen \subseteq Steps
      /\ task[t].cell \in Cells /\ task[t].pc \in {"wait", "lock", "run", "pause"}
  BY <1>1 DEF Execution
<1>3. Live(task[t].on) /\ task[t].cell \in UsedCells
  BY DEF Live, UsedCells
<1> QED
  BY <1>1, <1>2, <1>3 DEF IInv, TypeOK

LEMMA PersistedTyped ==
    ASSUME IInv, NEW h \in Hibernations, persisted[h] # Nil
    PROVE  /\ persisted[h] \in Hibernated /\ persisted[h].id \in Organisms
           /\ persisted[h].cell \in Cells /\ persisted[h].next \in Nexts
           /\ persisted[h].cell \in UsedCells /\ Contents(h) \in Copy
<1>1. persisted[h] \in Hibernated
  BY DEF IInv, TypeOK
<1>2. /\ persisted[h].id \in Organisms /\ persisted[h].cell \in Cells
      /\ persisted[h].next \in Nexts
  BY <1>1 DEF Hibernated
<1>3. persisted[h].cell \in UsedCells
  BY DEF UsedCells
<1>4. heap[persisted[h].cell] \subseteq Steps
  BY <1>2 DEF IInv, TypeOK
<1> QED
  BY <1>1, <1>2, <1>3, <1>4 DEF Contents, Copy

LEMMA SavesTyped ==
    ASSUME IInv, NEW h \in Hibernations
    PROVE  /\ Saves(h) => /\ saving[h] \in Saving /\ saving[h].of \in Instances
                          /\ saving[h].copy \in Copy \cup {Nil} /\ Live(saving[h].of)
           /\ saving[h] = NoSave <=> saving[h].pc = "unused"
           /\ saving[h] = Told <=> saving[h].pc = "told"
           /\ saving[h] \in Saving <=> Saves(h)
           /\ saving[h].pc \in {"unused", "told", "failed", "dump", "write", "written"}
<1>1. saving[h] \in Saving \cup {NoSave, Told, Failed}
  BY DEF IInv, TypeOK
<1>2. NoSave.pc = "unused" /\ Told.pc = "told" /\ Failed.pc = "failed"
  BY DEF NoSave, Told, Failed
<1>3. ASSUME saving[h] \in Saving
      PROVE  /\ saving[h].pc \in {"dump", "write", "written"} /\ saving[h].of \in Instances
             /\ saving[h].copy \in Copy \cup {Nil}
  BY <1>3 DEF Saving
<1>4. Saves(h) => Live(saving[h].of)
  BY DEF Live
<1> HIDE DEF Saving, NoSave, Told, Failed
<1> QED
  BY <1>1, <1>2, <1>3, <1>4 DEF Saves

LEMMA RegisteredTyped ==
    ASSUME IInv, NEW id \in Organisms, registry[id] # Nobody
    PROVE  registry[id] \in Instances /\ Live(registry[id])
BY DEF IInv, TypeOK, Live

\* The dictionaries in use get no smaller.
Grows(h) == h \in [Cells -> SUBSET Steps] /\ \A c \in UsedCells : heap[c] \subseteq h[c]

\* What is referred to afterwards is what f and h say.
Becomes(f, h) ==
    /\ instance' \in [Instances -> Instance \cup {Nil}] /\ heap' \in [Cells -> SUBSET Steps]
    /\ Alive'
    /\ \A o \in Instances : Live(o)' =>
          instance'[o] = f[o] /\ f[o] \in Instance /\ heap'[f[o].cell] = h[f[o].cell]
    /\ \A t \in Tasks : Busy(t)' => heap'[task'[t].cell] = h[task'[t].cell]
    /\ \A x \in Hibernations : persisted'[x] # Nil => heap'[persisted'[x].cell] = h[persisted'[x].cell]

LEMMA NowBecomes ==
    ASSUME NEW f \in [Instances -> Instance \cup {Nil}], NEW h \in [Cells -> SUBSET Steps],
           Now(f, h), \A o \in Instances : Live(o)' => f[o] # Nil,
           \A t \in Tasks : Busy(t)' => task'[t].cell \in Cells,
           \A x \in Hibernations : persisted'[x] # Nil => persisted'[x].cell \in Cells
    PROVE  Becomes(f, h)
<1>1. /\ instance' = [o \in Instances |-> IF Live(o)' THEN f[o] ELSE Nil]
      /\ heap' = [c \in Cells |-> IF c \in UsedCells' THEN h[c] ELSE {}]
  BY DEF Now
<1>2. instance' \in [Instances -> Instance \cup {Nil}]
  BY <1>1
<1>3. heap' \in [Cells -> SUBSET Steps]
  BY <1>1
<1>4. Alive'
  BY <1>1 DEF Alive
<1>5. ASSUME NEW o \in Instances, Live(o)'
      PROVE  instance'[o] = f[o] /\ f[o] \in Instance /\ heap'[f[o].cell] = h[f[o].cell]
  <2>1. instance'[o] = f[o] /\ f[o] \in Instance
    BY <1>1, <1>5
  <2>2. instance'[o].cell \in UsedCells'
    BY <1>5 DEF UsedCells
  <2>3. f[o].cell \in Cells
    BY <2>1, InstanceTyped
  <2> QED
    BY <1>1, <2>1, <2>2, <2>3
<1>6. ASSUME NEW t \in Tasks, Busy(t)' PROVE heap'[task'[t].cell] = h[task'[t].cell]
  <2>1. task'[t].cell \in UsedCells'
    BY <1>6 DEF UsedCells
  <2> QED
    BY <1>1, <1>6, <2>1
<1>7. ASSUME NEW x \in Hibernations, persisted'[x] # Nil
      PROVE  heap'[persisted'[x].cell] = h[persisted'[x].cell]
  <2>1. persisted'[x].cell \in UsedCells'
    BY <1>7 DEF UsedCells
  <2> QED
    BY <1>1, <1>7, <2>1
<1> QED
  BY <1>2, <1>3, <1>4, <1>5, <1>6, <1>7 DEF Becomes

\* Nothing is freed or made, though facts may be added.
LEMMA SameBecomes ==
    ASSUME IInv, instance' = instance, heap' \in [Cells -> SUBSET Steps],
           \A o \in Instances : Live(o)' <=> Live(o)
    PROVE  Becomes(instance, heap')
<1>1. \A o \in Instances : Live(o)' => instance[o] \in Instance
  BY LiveTyped
<1>2. Alive'
  BY DEF IInv, Alive
<1> QED
  BY <1>1, <1>2 DEF Becomes, IInv, TypeOK

LEMMA SaveSame ==
    ASSUME IInv, NEW f, NEW h, Grows(h), Becomes(f, h), NEW x \in Hibernations,
           saving'[x] = saving[x], persisted'[x] = persisted[x], stored'[x] = stored[x],
           waking'[x] = waking[x], snapshot'[x] = snapshot[x], load' = load,
           x \in expired' <=> x \in expired
    PROVE  SaveKept(x)'
<1>1. SaveKept(x)
  BY DEF IInv
<1>2. ASSUME persisted[x] # Nil, Newer(x, Contents(x)) PROVE Newer(x, Contents(x))'
  <2>1. persisted[x].cell \in UsedCells
    BY <1>2, PersistedTyped
  <2>2. heap'[persisted[x].cell] = h[persisted[x].cell]
    BY <1>2 DEF Becomes
  <2>3. heap[persisted[x].cell] \subseteq heap'[persisted[x].cell]
    BY <2>1, <2>2 DEF Grows
  <2> QED
    BY <1>2, <2>3 DEF Newer, Contents
<1> QED
  BY <1>1, <1>2 DEF SaveKept, Newer

\* What is new, or has moved on, has all it needs; the rest is as it was.
InstancesFilled(f, h) ==
    \A o \in Instances : Live(o)' =>
        \/ Live(o) /\ f[o].next = instance[o].next /\ f[o].cell = instance[o].cell
        \/ Filled(f[o].next, h[f[o].cell])

TaskFilled(v, f, h) ==
    /\ v.on \in Instances /\ Filled(f[v.on].next, h[v.cell])
    /\ v.pc # "pause" => f[v.on].next = v.step

TasksFilled(f, h) ==
    /\ \A t \in Tasks : Busy(t)' =>
          \/ TaskFilled(task'[t], f, h)
          \/ Busy(t) /\ task'[t] = task[t] /\ f[task[t].on].next = instance[task[t].on].next
    /\ \A t, u \in Tasks : Busy(t)' /\ Busy(u)' /\ u # t => task'[u].on # task'[t].on

HibernationsFilled(h) ==
    \A x \in Hibernations :
        /\ persisted'[x] = persisted[x] \/ Filled(persisted'[x].next, h[persisted'[x].cell])
        /\ stored'[x] \in {stored[x], Nil} \/ Filled(stored'[x].next, stored'[x].facts)
        /\ waking'[x] \in {waking[x], Nil} \/ Filled(waking'[x].next, waking'[x].facts)
        /\ saving'[x].pc \in {"write", "written"} =>
              \/ saving[x].pc \in {"write", "written"} /\ saving'[x].copy = saving[x].copy
              \/ Filled(saving'[x].copy.next, saving'[x].copy.facts)

LEMMA CompleteStep ==
    ASSUME IInv, ~raced, NEW f, NEW h, Grows(h), Becomes(f, h),
           InstancesFilled(f, h), TasksFilled(f, h), HibernationsFilled(h)
    PROVE  Complete'
<1>c. Complete
  BY DEF IInv
<1>g. ASSUME NEW n, NEW c \in UsedCells, Filled(n, heap[c]) PROVE Filled(n, h[c])
  BY <1>g DEF Grows, Filled
<1>1. ASSUME NEW o \in Instances, Live(o)' PROVE Filled(instance'[o].next, Facts(o)')
  <2>1. instance'[o] = f[o] /\ Facts(o)' = h[f[o].cell]
    BY <1>1 DEF Becomes, Facts
  <2>2. CASE Live(o) /\ f[o].next = instance[o].next /\ f[o].cell = instance[o].cell
    <3>1. Filled(instance[o].next, heap[instance[o].cell]) /\ instance[o].cell \in UsedCells
      BY <1>c, <2>2, LiveTyped DEF Complete, Facts
    <3> QED
      BY <1>g, <2>1, <2>2, <3>1
  <2> QED
    BY <1>1, <2>1, <2>2 DEF InstancesFilled
<1>2. ASSUME NEW t \in Tasks, Busy(t)'
      PROVE  /\ Filled(instance'[task'[t].on].next, heap'[task'[t].cell])
             /\ task'[t].pc # "pause" => instance'[task'[t].on].next = task'[t].step
  <2>1. heap'[task'[t].cell] = h[task'[t].cell]
    BY <1>2 DEF Becomes
  <2>2. ASSUME NEW on \in Instances, on = task'[t].on PROVE instance'[on] = f[on]
    <3>1. Live(on)'
      BY <1>2, <2>2 DEF Live
    <3> QED
      BY <2>2, <3>1 DEF Becomes
  <2>3. CASE TaskFilled(task'[t], f, h)
    BY <2>1, <2>2, <2>3 DEF TaskFilled
  <2>4. CASE Busy(t) /\ task'[t] = task[t] /\ f[task[t].on].next = instance[task[t].on].next
    <3>1. task[t].on \in Instances /\ task[t].cell \in UsedCells
      BY <2>4, BusyTyped
    <3>2. /\ Filled(instance[task[t].on].next, heap[task[t].cell])
          /\ task[t].pc # "pause" => instance[task[t].on].next = task[t].step
      BY <1>c, <2>4 DEF Complete
    <3>3. Filled(instance[task[t].on].next, h[task[t].cell])
      BY <1>g, <3>1, <3>2
    <3> QED
      BY <2>1, <2>2, <2>4, <3>1, <3>2, <3>3
  <2> QED
    BY <1>2, <2>3, <2>4 DEF TasksFilled
<1>3. \A t, u \in Tasks : Busy(t)' /\ Busy(u)' /\ u # t => task'[u].on # task'[t].on
  BY DEF TasksFilled
<1>4. ASSUME NEW x \in Hibernations, persisted'[x] # Nil
      PROVE  Filled(persisted'[x].next, heap'[persisted'[x].cell])
  <2>1. heap'[persisted'[x].cell] = h[persisted'[x].cell]
    BY <1>4 DEF Becomes
  <2>2. CASE persisted'[x] = persisted[x]
    <3>1. persisted[x].cell \in UsedCells /\ Filled(persisted[x].next, heap[persisted[x].cell])
      BY <1>c, <1>4, <2>2, PersistedTyped DEF Complete
    <3> QED
      BY <1>g, <2>1, <2>2, <3>1
  <2> QED
    BY <2>1, <2>2 DEF HibernationsFilled
<1>5. ASSUME NEW x \in Hibernations
      PROVE  /\ \A y \in {stored'[x], waking'[x]} : y # Nil => Filled(y.next, y.facts)
             /\ saving'[x].pc \in {"write", "written"} =>
                   Filled(saving'[x].copy.next, saving'[x].copy.facts)
  <2>1. /\ stored[x] # Nil => Filled(stored[x].next, stored[x].facts)
        /\ waking[x] # Nil => Filled(waking[x].next, waking[x].facts)
        /\ saving[x].pc \in {"write", "written"} =>
              Filled(saving[x].copy.next, saving[x].copy.facts)
    BY <1>c DEF Complete
  <2>2. /\ stored'[x] \in {stored[x], Nil} \/ Filled(stored'[x].next, stored'[x].facts)
        /\ waking'[x] \in {waking[x], Nil} \/ Filled(waking'[x].next, waking'[x].facts)
        /\ saving'[x].pc \in {"write", "written"} =>
              \/ saving[x].pc \in {"write", "written"} /\ saving'[x].copy = saving[x].copy
              \/ Filled(saving'[x].copy.next, saving'[x].copy.facts)
    BY DEF HibernationsFilled
  <2> HIDE DEF Filled
  <2> QED
    BY <2>1, <2>2
<1> QED
  BY <1>1, <1>2, <1>3, <1>4, <1>5 DEF Complete, Filled

\* The frame of the steps that do nothing to hibernations.
LEMMA HibernationsSame ==
    ASSUME UNCHANGED <<persisted, waking, saving, stored>>, NEW h
    PROVE  HibernationsFilled(h)
BY DEF HibernationsFilled

\* The frame of the steps that do nothing to executions.
LEMMA TasksSame ==
    ASSUME IInv, ~raced, task' = task, NEW f, NEW h,
           \A o \in Instances : Live(o) => f[o].next = instance[o].next
    PROVE  TasksFilled(f, h)
<1>1. \A t \in Tasks : Busy(t)' <=> Busy(t)
  BY DEF Busy
<1>2. Complete
  BY DEF IInv
<1> QED
  BY <1>1, <1>2, BusyTyped DEF TasksFilled, Complete

-----------------------------------------------------------------------------
(***************************************************************************)
(* Steps that make and free nothing.                                       *)
(***************************************************************************)
LEMMA LiveSame ==
    ASSUME registry' = registry, instance' = instance, heap' = heap, IInv,
           \A t \in Tasks : Busy(t)' <=> Busy(t),
           \A t \in Tasks : Busy(t) => task'[t].on = task[t].on,
           \A x \in Hibernations : Saves(x)' <=> Saves(x),
           \A x \in Hibernations : Saves(x) => saving'[x].of = saving[x].of
    PROVE  /\ \A o \in Instances : Live(o)' <=> Live(o)
           /\ Grows(heap) /\ Becomes(instance, heap) /\ InstancesFilled(instance, heap)
<1>1. \A o \in Instances : Live(o)' <=> Live(o)
  BY DEF Live
<1>2. heap \in [Cells -> SUBSET Steps] /\ Grows(heap)
  BY DEF IInv, TypeOK, Grows
<1>3. Becomes(instance, heap)
  BY <1>1, <1>2, SameBecomes
<1> QED
  BY <1>1, <1>2, <1>3 DEF InstancesFilled

\* A task that waited for a future or a lock goes on to the lock or the node.
LEMMA ProceedKeeps ==
    ASSUME IInv, NEW t \in Tasks, task[t].pc \in {"wait", "lock"}, raced' = raced,
           \E p \in {"lock", "run"} : task' = [task EXCEPT ![t].pc = p],
           UNCHANGED <<load, heap, instance, registry, persisted, pool, waking,
                       saving, stored, snapshot, expired>>
    PROVE  IInv'
<1>1. PICK p \in {"lock", "run"} : task' = [task EXCEPT ![t].pc = p]
  OBVIOUS
<1>2. /\ task[t].pc \in {"wait", "lock"}
      /\ UNCHANGED <<load, heap, instance, registry, persisted, pool, waking, saving, stored,
                     history>>
  BY DEF history
<1>3. Busy(t) /\ task \in [Tasks -> Execution \cup {Idle}]
  BY <1>2 DEF Busy, Idle, IInv, TypeOK
<1>4. task[t] \in Execution
  BY <1>3, BusyTyped
<1>5. /\ [task[t] EXCEPT !.pc = p] \in Execution
      /\ [task[t] EXCEPT !.pc = p].pc = p
      /\ [task[t] EXCEPT !.pc = p].on = task[t].on
      /\ [task[t] EXCEPT !.pc = p].step = task[t].step
      /\ [task[t] EXCEPT !.pc = p].cell = task[t].cell
  BY <1>4 DEF Execution
<1>6. /\ task' \in [Tasks -> Execution \cup {Idle}]
      /\ task'[t] = [task[t] EXCEPT !.pc = p]
      /\ \A u \in Tasks : u # t => task'[u] = task[u]
  BY <1>1, <1>3, <1>5
<1>7. /\ \A u \in Tasks : Busy(u)' <=> Busy(u)
      /\ \A u \in Tasks : Busy(u) => task'[u].on = task[u].on
  BY <1>3, <1>5, <1>6, Apart DEF Busy
<1>8. \A x \in Hibernations : (Saves(x)' <=> Saves(x)) /\ saving'[x] = saving[x]
  BY <1>2 DEF Saves
<1>9. Grows(heap) /\ Becomes(instance, heap) /\ InstancesFilled(instance, heap)
  BY <1>2, <1>7, <1>8, LiveSame
<1>10. TypeOK'
  BY <1>2, <1>6 DEF IInv, TypeOK, history
<1>11. \A x \in Hibernations : SaveKept(x)'
  BY <1>2, <1>9, SaveSame DEF history
<1>12. ASSUME ~raced PROVE Complete'
  <2>1. Complete
    BY <1>12 DEF IInv
  <2>2. TaskFilled(task'[t], instance, heap)
    <3>1. /\ Filled(instance[task[t].on].next, heap[task[t].cell])
          /\ instance[task[t].on].next = task[t].step /\ task[t].on \in Instances
      BY <1>2, <1>3, <2>1, BusyTyped DEF Complete
    <3> QED
      BY <1>5, <1>6, <3>1 DEF TaskFilled
  <2>3. TasksFilled(instance, heap)
    BY <1>6, <1>7, <2>1, <2>2 DEF TasksFilled, Complete
  <2>4. HibernationsFilled(heap)
    BY <1>2, HibernationsSame
  <2> QED
    BY <1>9, <1>12, <2>3, <2>4, CompleteStep
<1> QED
  BY <1>2, <1>9, <1>10, <1>11, <1>12 DEF IInv, Becomes, history

LEMMA InheritKeeps ==
    ASSUME IInv, NEW id \in Organisms, NEW from \in Organisms, Inherit(id, from)
    PROVE  IInv'
<1> DEFINE o == registry[id]  p == registry[from]  c == instance[o].cell
<1>1. /\ o # Nobody /\ p # Nobody /\ heap' = [heap EXCEPT ![c] = @ \cup Facts(p)]
      /\ UNCHANGED <<load, instance, registry, task, persisted, pool, waking, saving, stored,
                     history>>
  BY DEF Inherit, Similar, InheritFrom
<1>2. /\ o \in Instances /\ p \in Instances /\ Live(o) /\ Live(p)
      /\ heap \in [Cells -> SUBSET Steps]
  BY <1>1, RegisteredTyped DEF IInv, TypeOK
<1>3. c \in Cells /\ Facts(p) \subseteq Steps
  BY <1>2, LiveTyped
<1> HIDE DEF o, p, c
<1>4. heap' \in [Cells -> SUBSET Steps] /\ Grows(heap')
  BY <1>1, <1>2, <1>3 DEF Grows
<1>5. \A x \in Instances : Live(x)' <=> Live(x)
  BY <1>1 DEF Live, Busy, Saves
<1>6. Becomes(instance, heap')
  BY <1>1, <1>4, <1>5, SameBecomes
<1>7. TypeOK'
  BY <1>1, <1>4 DEF IInv, TypeOK, history
<1>8. \A x \in Hibernations : SaveKept(x)'
  BY <1>1, <1>4, <1>6, SaveSame DEF history
<1>9. ASSUME ~raced PROVE Complete'
  <2>1. TasksFilled(instance, heap')
    BY <1>1, <1>9, TasksSame
  <2>2. InstancesFilled(instance, heap')
    BY <1>5 DEF InstancesFilled
  <2>3. HibernationsFilled(heap')
    BY <1>1, HibernationsSame
  <2> QED
    BY <1>4, <1>6, <1>9, <2>1, <2>2, <2>3, CompleteStep
<1> QED
  BY <1>1, <1>6, <1>7, <1>8, <1>9 DEF IInv, Becomes, history

-----------------------------------------------------------------------------
(***************************************************************************)
(* Hibernation.                                                            *)
(***************************************************************************)
\* Whatever becomes of instances but their next step and their dictionary.
LEMMA Quiet ==
    ASSUME IInv, UNCHANGED <<task, raced>>, NEW f, Becomes(f, heap), TypeOK',
           \A o \in Instances : Live(o)' => Live(o),
           \A o \in Instances :
              Live(o) => f[o].next = instance[o].next /\ f[o].cell = instance[o].cell,
           \A x \in Hibernations : SaveKept(x)', ~raced => HibernationsFilled(heap)
    PROVE  IInv'
<1>1. Grows(heap)
  BY DEF Grows, IInv, TypeOK
<1>2. ASSUME ~raced PROVE Complete'
  <2>1. TasksFilled(f, heap)
    BY <1>2, TasksSame
  <2>2. InstancesFilled(f, heap)
    BY DEF InstancesFilled
  <2> QED
    BY <1>1, <1>2, <2>1, <2>2, CompleteStep
<1> QED
  BY <1>2 DEF IInv, Becomes

LEMMA PoolCreatedKeeps ==
    ASSUME IInv, NEW h \in Hibernations, PoolCreated(h) \/ Write(h)
    PROVE  IInv'
<1> DEFINE v == saving[h]
<1>1. /\ v.pc \in {"dump", "write"} /\ raced' = raced
      /\ UNCHANGED <<load, heap, instance, registry, task, persisted, waking, history>>
      /\ pool' \in {pool, TRUE}
  BY DEF PoolCreated, Write, memory, history
<1>2. /\ v \in Saving /\ SaveKept(h) /\ v.of \in Instances
      /\ saving \in [Hibernations -> Saving \cup {NoSave, Told, Failed}]
      /\ stored \in [Hibernations -> Copy \cup {Nil}] /\ v.copy \in Copy \cup {Nil}
  BY <1>1, SavesTyped DEF IInv, TypeOK, Saves
<1>3. ASSUME PoolCreated(h)
      PROVE  /\ saving'[h].pc = "write" /\ saving'[h].copy = Contents(h) /\ stored' = stored
             /\ saving'[h] \in Saving /\ saving'[h].of = v.of
             /\ \A x \in Hibernations : x # h => saving'[x] = saving[x]
             /\ persisted[h] # Nil /\ Contents(h) \in Copy /\ Newer(h, Contents(h))
             /\ saving' \in [Hibernations -> Saving \cup {NoSave, Told, Failed}]
  <2>1. /\ v.pc = "dump" /\ stored' = stored
        /\ saving' = [saving EXCEPT ![h].pc = "write", ![h].copy = Contents(h)]
    BY <1>3 DEF PoolCreated
  <2>2. persisted[h] # Nil /\ v # NoSave
    BY <1>2, <2>1, Apart DEF SaveKept
  <2>3. Contents(h) \in Copy /\ Newer(h, Contents(h))
    BY <1>2, <2>2, PersistedTyped DEF SaveKept
  <2> DEFINE w == [v EXCEPT !.pc = "write", !.copy = Contents(h)]
  <2>4. w \in Saving /\ w.pc = "write" /\ w.copy = Contents(h) /\ w.of = v.of
    <3> HIDE DEF v
    <3> QED
      BY <1>2, <2>3 DEF Saving
  <2>5. saving' = [saving EXCEPT ![h] = w]
    BY <2>1
  <2> HIDE DEF w, Saving
  <2> QED
    BY <1>2, <2>1, <2>2, <2>3, <2>4, <2>5
<1>4. ASSUME Write(h)
      PROVE  /\ saving'[h].pc = "written" /\ saving'[h].copy = v.copy /\ v.pc = "write"
             /\ saving'[h] \in Saving /\ saving'[h].of = v.of
             /\ \A x \in Hibernations : x # h => saving'[x] = saving[x] /\ stored'[x] = stored[x]
             /\ stored'[h] = v.copy /\ v.copy # Nil /\ Newer(h, v.copy)
             /\ saving' \in [Hibernations -> Saving \cup {NoSave, Told, Failed}]
             /\ stored' \in [Hibernations -> Copy \cup {Nil}] /\ pool' = pool
  <2>1. /\ v.pc = "write" /\ stored' = [stored EXCEPT ![h] = v.copy] /\ pool' = pool
        /\ saving' = [saving EXCEPT ![h].pc = "written"]
    BY <1>4 DEF Write, memory
  <2>2. v.copy # Nil /\ Newer(h, v.copy)
    BY <1>2, <2>1 DEF SaveKept
  <2> DEFINE w == [v EXCEPT !.pc = "written"]
  <2>3. w \in Saving /\ w.pc = "written" /\ w.copy = v.copy /\ w.of = v.of
    <3> HIDE DEF v
    <3> QED
      BY <1>2 DEF Saving
  <2>4. saving' = [saving EXCEPT ![h] = w]
    BY <2>1
  <2> HIDE DEF w, Saving
  <2> QED
    BY <1>2, <2>1, <2>2, <2>3, <2>4
<1> HIDE DEF v
<1>5. /\ saving'[h] \in Saving /\ saving'[h].of = saving[h].of
      /\ saving'[h].pc \in {"write", "written"}
      /\ \A x \in Hibernations : x # h => saving'[x] = saving[x] /\ stored'[x] = stored[x]
  BY <1>3, <1>4 DEF v
<1>6. \A x \in Hibernations :
         (Saves(x)' <=> Saves(x)) /\ (Saves(x) => saving'[x].of = saving[x].of)
  BY <1>1, <1>5 DEF Saves, v
<1>7. /\ Grows(heap) /\ Becomes(instance, heap)
      /\ \A o \in Instances : Live(o)' <=> Live(o)
  <2>1. \A t \in Tasks : (Busy(t)' <=> Busy(t)) /\ task'[t] = task[t]
    BY <1>1 DEF Busy
  <2> QED
    BY <1>1, <1>6, <2>1, LiveSame
<1>8. TypeOK'
  BY <1>1, <1>3, <1>4 DEF IInv, TypeOK, history
<1>9. ASSUME NEW x \in Hibernations PROVE SaveKept(x)'
  <2>1. CASE x # h
    BY <1>1, <1>5, <1>7, <2>1, SaveSame DEF history
  <2>2. CASE x = h
    <3>1. /\ Newer(h, Contents(h))' <=> Newer(h, Contents(h))
          /\ \A y : Newer(h, y)' <=> Newer(h, y)
      BY <1>1 DEF Newer, Contents, history
    <3>2. saving[h] # NoSave /\ saving'[h] # NoSave
      BY <1>2, <1>5, Apart DEF v
    <3>3. CASE PoolCreated(h)
      <4>1. Newer(h, saving[h].copy)' <=> Newer(h, Contents(h))
        BY <1>1, <1>3, <3>3 DEF Newer, Contents, history
      <4> QED
        BY <1>1, <1>2, <1>3, <2>2, <3>1, <3>2, <3>3, <4>1, Apart DEF SaveKept, v, history
    <3>4. CASE Write(h)
      BY <1>1, <1>2, <1>4, <2>2, <3>1, <3>2, <3>4, Apart DEF SaveKept, v, history, Newer
    <3> QED
      BY <3>3, <3>4
  <2> QED
    BY <2>1, <2>2
<1>10. ASSUME ~raced PROVE HibernationsFilled(heap)
  <2>1. Complete
    BY <1>10 DEF IInv
  <2> SUFFICES ASSUME NEW x \in Hibernations
               PROVE  /\ stored'[x] = stored[x] \/ Filled(stored'[x].next, stored'[x].facts)
                      /\ saving'[x].pc \in {"write", "written"} =>
                            \/ saving[x].pc \in {"write", "written"} /\ saving'[x].copy = saving[x].copy
                            \/ Filled(saving'[x].copy.next, saving'[x].copy.facts)
    BY <1>1 DEF HibernationsFilled
  <2>2. CASE x # h
    BY <1>5, <2>2
  <2>3. CASE x = h /\ PoolCreated(h)
    <3>1. Filled(persisted[h].next, heap[persisted[h].cell])
      BY <1>3, <2>1, <2>3 DEF Complete
    <3> QED
      BY <1>3, <2>3, <3>1 DEF Contents
  <2>4. CASE x = h /\ Write(h)
    <3>1. Filled(saving[h].copy.next, saving[h].copy.facts)
      BY <1>4, <2>1, <2>4 DEF Complete, v
    <3> QED
      BY <1>4, <2>4, <3>1 DEF v
  <2> QED
    BY <2>2, <2>3, <2>4
<1>11. \A o \in Instances : Live(o)' => Live(o)
  BY <1>7
<1>12. UNCHANGED <<task, raced>>
  BY <1>1
<1> QED
  BY <1>7, <1>8, <1>9, <1>10, <1>11, <1>12, Quiet

LEMMA ReloadKeeps ==
    ASSUME IInv, NEW h \in Hibernations, Reload(h) \/ Expire(h)
    PROVE  IInv'
<1>1. /\ UNCHANGED <<load, heap, instance, registry, task, persisted, pool, saving, snapshot,
                     raced>>
      /\ stored[h] # Nil
      /\ \/ /\ waking' = [waking EXCEPT ![h] = stored[h]]
            /\ stored' = stored /\ expired' = expired
         \/ /\ stored' = [stored EXCEPT ![h] = Nil] /\ expired' = expired \cup {h}
            /\ waking' = waking
  BY DEF Reload, Expire, memory, history
<1>2. /\ stored \in [Hibernations -> Copy \cup {Nil}] /\ waking \in [Hibernations -> Copy \cup {Nil}]
      /\ expired \subseteq Hibernations /\ SaveKept(h)
  BY DEF IInv, TypeOK
<1>3. TypeOK'
  BY <1>1, <1>2 DEF IInv, TypeOK
<1>4. /\ \A t \in Tasks : (Busy(t)' <=> Busy(t)) /\ task'[t] = task[t]
      /\ \A x \in Hibernations : (Saves(x)' <=> Saves(x)) /\ saving'[x] = saving[x]
  BY <1>1 DEF Busy, Saves
<1>5. /\ Grows(heap) /\ Becomes(instance, heap)
      /\ \A o \in Instances : Live(o)' <=> Live(o)
  BY <1>1, <1>4, LiveSame
<1>6. ASSUME NEW x \in Hibernations PROVE SaveKept(x)'
  <2>1. CASE x # h
    <3>1. stored'[x] = stored[x] /\ waking'[x] = waking[x] /\ (x \in expired' <=> x \in expired)
      BY <1>1, <1>2, <2>1
    <3> QED
      BY <1>1, <1>5, <3>1, SaveSame
  <2>2. CASE x = h
    <3>1. /\ Newer(h, Contents(h))' <=> Newer(h, Contents(h))
          /\ \A y : Newer(h, y)' <=> Newer(h, y)
      BY <1>1 DEF Newer, Contents
    <3>2. saving[h] # NoSave /\ saving' = saving /\ persisted' = persisted /\ load' = load
      BY <1>1, <1>2 DEF SaveKept
    <3>3. \/ stored' = stored /\ waking'[h] = stored[h] /\ expired' = expired
          \/ stored'[h] = Nil /\ h \in expired' /\ waking' = waking
      BY <1>1, <1>2
    <3> QED
      BY <1>1, <1>2, <2>2, <3>1, <3>2, <3>3 DEF SaveKept, Newer
  <2> QED
    BY <2>1, <2>2
<1>7. ASSUME ~raced PROVE HibernationsFilled(heap)
  <2>1. Complete
    BY <1>7 DEF IInv
  <2> SUFFICES ASSUME NEW x \in Hibernations
               PROVE  /\ stored'[x] \in {stored[x], Nil}
                      /\ waking'[x] \in {waking[x], Nil} \/ Filled(waking'[x].next, waking'[x].facts)
    BY <1>1 DEF HibernationsFilled
  <2>2. stored[h] # Nil => Filled(stored[h].next, stored[h].facts)
    BY <2>1 DEF Complete
  <2> QED
    BY <1>1, <1>2, <2>2
<1> QED
  BY <1>1, <1>3, <1>5, <1>6, <1>7, Quiet

\* A call of hibernate ends: memory or backend, answer or error.
LEMMA SaveEndsKeeps ==
    ASSUME IInv, NEW h \in Hibernations, SaveReturns(h) \/ SaveFails(h)
    PROVE  IInv'
<1> DEFINE v == saving[h]
           f == IF SaveReturns(h) THEN [instance EXCEPT ![v.of].status = "suspended"] ELSE instance
<1>1. /\ Saves(h) /\ Now(f, heap)
      /\ UNCHANGED <<load, registry, task, persisted, pool, waking, stored, history>>
      /\ \/ saving' = [saving EXCEPT ![h] = Told] /\ v.pc = "written"
         \/ saving' = [saving EXCEPT ![h] = Failed]
  <2>1. CASE SaveReturns(h)
    BY <2>1 DEF SaveReturns, Acknowledged, Suspend, Saves
  <2>2. CASE ~SaveReturns(h)
    BY <2>2 DEF SaveFails
  <2> QED
    BY <2>1, <2>2
<1>2. /\ v \in Saving /\ SaveKept(h) /\ v.of \in Instances /\ Live(v.of)
      /\ saving \in [Hibernations -> Saving \cup {NoSave, Told, Failed}]
      /\ heap \in [Cells -> SUBSET Steps] /\ instance \in [Instances -> Instance \cup {Nil}]
  BY <1>1, SavesTyped DEF IInv, TypeOK
<1>3. /\ saving'[h] \in {Told, Failed} /\ (saving'[h] = Told \/ saving'[h] = Failed)
      /\ saving'[h] = Told => v.pc = "written"
      /\ \A x \in Hibernations : x # h => saving'[x] = saving[x]
      /\ saving' \in [Hibernations -> Saving \cup {NoSave, Told, Failed}]
  <2>1. Told # Failed
    BY DEF Told, Failed
  <2> QED
    BY <1>1, <1>2, <2>1
<1> HIDE DEF v
<1>4. /\ ~Saves(h)' /\ saving'[h] # NoSave
      /\ saving'[h].pc \in {"told", "failed"} /\ (saving'[h].pc = "told" => saving'[h] = Told)
      /\ \A x \in Hibernations : Saves(x)' => Saves(x) /\ saving'[x].of = saving[x].of
  <2>1. /\ Told.pc = "told" /\ Failed.pc = "failed" /\ NoSave.pc = "unused"
    BY DEF Told, Failed, NoSave
  <2>2. ~Saves(h)' /\ saving'[h].pc \in {"told", "failed"} /\ saving'[h] # NoSave
    BY <1>3, <2>1 DEF Saves
  <2>3. \A x \in Hibernations : x # h => (Saves(x)' <=> Saves(x))
    BY <1>3 DEF Saves
  <2> QED
    BY <1>3, <2>1, <2>2, <2>3
<1>5. \A o \in Instances : Live(o)' => Live(o)
  <2>1. \A t \in Tasks : (Busy(t)' <=> Busy(t)) /\ task'[t] = task[t]
    BY <1>1 DEF Busy
  <2> QED
    BY <1>1, <1>4, <2>1 DEF Live
<1>6. /\ f \in [Instances -> Instance \cup {Nil}]
      /\ \A o \in Instances :
            Live(o) => f[o] # Nil /\ f[o].next = instance[o].next /\ f[o].cell = instance[o].cell
  <2>1. CASE SaveReturns(h)
    <3> DEFINE w == [instance[v.of] EXCEPT !.status = "suspended"]
    <3>1. f = [instance EXCEPT ![v.of] = w]
      BY <2>1 DEF v
    <3>2. instance[v.of] \in Instance
      BY <1>2, LiveTyped
    <3>3. w \in Instance /\ w.next = instance[v.of].next /\ w.cell = instance[v.of].cell
      BY <3>2 DEF Instance
    <3> HIDE DEF w, f
    <3>4. /\ f \in [Instances -> Instance \cup {Nil}] /\ f[v.of] = w
          /\ \A o \in Instances : o # v.of => f[o] = instance[o]
      BY <1>2, <3>1, <3>3
    <3> QED
      BY <3>3, <3>4, LiveTyped, Apart
  <2>2. CASE ~SaveReturns(h)
    BY <1>2, <2>2, LiveTyped
  <2> QED
    BY <2>1, <2>2
<1> HIDE DEF f
<1>7. Becomes(f, heap)
  <2>1. \A t \in Tasks : Busy(t)' => task'[t].cell \in Cells
    BY <1>1, BusyTyped DEF Busy
  <2>2. \A x \in Hibernations : persisted'[x] # Nil => persisted'[x].cell \in Cells
    BY <1>1, PersistedTyped
  <2> QED
    BY <1>1, <1>2, <1>5, <1>6, <2>1, <2>2, NowBecomes
<1>8. TypeOK'
  BY <1>1, <1>3, <1>7 DEF IInv, TypeOK, history, Becomes
<1>9. ASSUME NEW x \in Hibernations PROVE SaveKept(x)'
  <2>1. Grows(heap)
    BY <1>2 DEF Grows
  <2>2. CASE x # h
    BY <1>1, <1>3, <1>7, <2>1, <2>2, SaveSame DEF history
  <2>3. CASE x = h
    <3>1. saving[h] # NoSave
      BY <1>2, Apart DEF v
    <3>2. persisted[h] # Nil => Contents(h)' = Contents(h)
      BY <1>1, <1>7 DEF Becomes, Contents
    <3>3. persisted[h] # Nil => (Newer(h, Contents(h))' <=> Newer(h, Contents(h)))
      BY <1>1, <3>2 DEF Newer, history
    <3>4. \A y : Newer(h, y)' <=> Newer(h, y)
      BY <1>1 DEF Newer, history
    <3>5. /\ Newer(h, stored[h])' <=> Newer(h, stored[h])
          /\ Newer(h, waking[h])' <=> Newer(h, waking[h])
      BY <1>1 DEF Newer, history
    <3> QED
      BY <1>1, <1>2, <1>3, <1>4, <2>3, <3>1, <3>3, <3>4, <3>5 DEF SaveKept, v, history
  <2> QED
    BY <2>2, <2>3
<1>10. HibernationsFilled(heap)
  <2> SUFFICES ASSUME NEW x \in Hibernations
               PROVE  saving'[x].pc \in {"write", "written"} =>
                         saving[x].pc \in {"write", "written"} /\ saving'[x].copy = saving[x].copy
    BY <1>1 DEF HibernationsFilled
  <2> QED
    BY <1>3, <1>4
<1> QED
  BY <1>1, <1>5, <1>6, <1>7, <1>8, <1>9, <1>10, Quiet DEF history

LEMMA HibernateKeeps ==
    ASSUME IInv, NEW h \in Hibernations, NEW id \in Organisms, Hibernate(h, id)
    PROVE  IInv'
<1> DEFINE o == registry[id]
           copy == [id |-> id, facts |-> Facts(o), next |-> instance[o].next]
           p == [id |-> id, cell |-> instance[o].cell, next |-> instance[o].next]
           f == IF load.backend = "memory" THEN [instance EXCEPT ![o].status = "suspended"] ELSE instance
           w == [pc |-> "write", of |-> o, copy |-> copy]
           d == [pc |-> "dump", of |-> o, copy |-> Nil]
<1>1. /\ saving[h] = NoSave /\ o # Nobody
      /\ UNCHANGED <<load, registry, task, pool, waking, stored, expired, raced>>
      /\ persisted' = [persisted EXCEPT ![h] = p] /\ snapshot' = [snapshot EXCEPT ![h] = copy]
      /\ \/ /\ load.backend = "memory" /\ saving' = [saving EXCEPT ![h] = Told]
            /\ Now(f, heap)
         \/ /\ load.backend # "memory"
            /\ \/ saving' = [saving EXCEPT ![h] = w]
               \/ saving' = [saving EXCEPT ![h] = d]
            /\ UNCHANGED <<instance, heap>>
  <2> HIDE DEF p, copy, w, d
  <2>1. /\ saving[h] = NoSave /\ o # Nobody
        /\ UNCHANGED <<load, registry, task, pool, waking, stored, expired, raced>>
        /\ persisted' = [persisted EXCEPT ![h] = p] /\ snapshot' = [snapshot EXCEPT ![h] = copy]
    BY DEF Hibernate, p, copy
  <2>2. CASE load.backend = "memory"
    BY <2>1, <2>2 DEF Hibernate, Suspend
  <2>3. CASE load.backend # "memory"
    <3>1. /\ saving' = [saving EXCEPT ![h] = IF load.backend = "redis" \/ pool THEN w ELSE d]
          /\ UNCHANGED <<instance, heap>>
      BY <2>3 DEF Hibernate, w, d, copy
    <3> QED
      BY <2>1, <2>3, <3>1
  <2> QED
    BY <2>2, <2>3, <2>1
<1>2. /\ o \in Instances /\ Live(o) /\ SaveKept(h)
      /\ heap \in [Cells -> SUBSET Steps] /\ instance \in [Instances -> Instance \cup {Nil}]
      /\ saving \in [Hibernations -> Saving \cup {NoSave, Told, Failed}]
      /\ persisted \in [Hibernations -> Hibernated \cup {Nil}]
      /\ snapshot \in [Hibernations -> Copy \cup {Nil}]
  BY <1>1, RegisteredTyped DEF IInv, TypeOK
<1>3. /\ instance[o] \in Instance /\ instance[o].cell \in Cells /\ instance[o].next \in Nexts
      /\ Facts(o) = heap[instance[o].cell] /\ Facts(o) \subseteq Steps
  BY <1>2, LiveTyped
<1> HIDE DEF o
<1>4. /\ copy \in Copy /\ copy # Nil /\ p \in Hibernated /\ p # Nil
      /\ w \in Saving /\ w # NoSave /\ d \in Saving /\ d # NoSave
      /\ copy.id = id /\ copy.facts = heap[instance[o].cell] /\ copy.next = instance[o].next
      /\ p.id = id /\ p.cell = instance[o].cell /\ p.next = instance[o].next
      /\ w.pc = "write" /\ w.of = o /\ w.copy = copy /\ d.pc = "dump" /\ d.of = o
  <2>1. copy \in Copy /\ p \in Hibernated
    BY <1>3 DEF Copy, Hibernated
  <2>2. w \in Saving /\ d \in Saving
    <3> HIDE DEF copy
    <3> QED
      BY <1>2, <2>1 DEF Saving
  <2>3. copy.facts = heap[instance[o].cell]
    BY <1>3
  <2>4. w.copy = copy
    OBVIOUS
  <2> QED
    BY <2>1, <2>2, <2>3, <2>4, Apart
<1> HIDE DEF copy, p, w, d
<1>5. /\ saving' \in [Hibernations -> Saving \cup {NoSave, Told, Failed}]
      /\ persisted' \in [Hibernations -> Hibernated \cup {Nil}] /\ persisted'[h] = p
      /\ snapshot' \in [Hibernations -> Copy \cup {Nil}] /\ snapshot'[h] = copy
      /\ \A x \in Hibernations : x # h => /\ saving'[x] = saving[x] /\ persisted'[x] = persisted[x]
                                          /\ snapshot'[x] = snapshot[x]
      /\ \/ load.backend = "memory" /\ saving'[h] = Told
         \/ load.backend # "memory" /\ saving'[h] \in {w, d}
  BY <1>1, <1>2, <1>4
<1>6. Told.pc = "told" /\ NoSave.pc = "unused" /\ Told # NoSave
  BY DEF Told, NoSave
<1>7. \A y \in Instances : Live(y)' <=> Live(y)
  <2>1. \A t \in Tasks : (Busy(t)' <=> Busy(t)) /\ task'[t] = task[t]
    BY <1>1 DEF Busy
  <2>2. \A x \in Hibernations : x # h => (Saves(x)' <=> Saves(x)) /\ saving'[x].of = saving[x].of
    BY <1>5 DEF Saves
  <2>3. ~Saves(h) /\ (Saves(h)' => saving'[h].of = o)
    BY <1>1, <1>4, <1>5, <1>6 DEF Saves
  <2>4. \E i \in Organisms : registry[i] = o
    BY DEF o
  <2> QED
    BY <1>1, <2>1, <2>2, <2>3, <2>4 DEF Live
<1>8. /\ f \in [Instances -> Instance \cup {Nil}]
      /\ \A y \in Instances :
            Live(y) => f[y] # Nil /\ f[y].next = instance[y].next /\ f[y].cell = instance[y].cell
  <2>1. CASE load.backend = "memory"
    <3> DEFINE s == [instance[o] EXCEPT !.status = "suspended"]
    <3>1. f = [instance EXCEPT ![o] = s]
      BY <2>1
    <3>2. s \in Instance /\ s.next = instance[o].next /\ s.cell = instance[o].cell
      BY <1>3 DEF Instance
    <3> HIDE DEF s, f
    <3>3. /\ f \in [Instances -> Instance \cup {Nil}] /\ f[o] = s
          /\ \A y \in Instances : y # o => f[y] = instance[y]
      BY <1>2, <3>1, <3>2
    <3> QED
      BY <3>2, <3>3, LiveTyped, Apart
  <2>2. CASE load.backend # "memory"
    BY <1>2, <2>2, LiveTyped
  <2> QED
    BY <2>1, <2>2
<1>9. Becomes(f, heap)
  <2>1. CASE Now(f, heap)
    <3> HIDE DEF f
    <3>1. \A t \in Tasks : Busy(t)' => task'[t].cell \in Cells
      BY <1>1, BusyTyped DEF Busy
    <3>2. \A x \in Hibernations : persisted'[x] # Nil => persisted'[x].cell \in Cells
      BY <1>3, <1>4, <1>5, PersistedTyped
    <3> QED
      BY <1>2, <1>7, <1>8, <2>1, <3>1, <3>2, NowBecomes
  <2>2. CASE load.backend # "memory" /\ UNCHANGED <<instance, heap>>
    BY <1>2, <1>7, <2>2, SameBecomes
  <2> QED
    BY <1>1, <2>1, <2>2
<1> HIDE DEF f
<1>10. TypeOK'
  BY <1>1, <1>5, <1>9 DEF IInv, TypeOK, Becomes
<1>11. ASSUME NEW x \in Hibernations PROVE SaveKept(x)'
  <2>1. Grows(heap)
    BY <1>2 DEF Grows
  <2>2. CASE x # h
    BY <1>1, <1>5, <1>9, <2>1, <2>2, SaveSame
  <2>3. CASE x = h
    <3>1. heap'[instance[o].cell] = heap[instance[o].cell]
      <4>1. persisted'[h] # Nil /\ persisted'[h].cell = instance[o].cell
        BY <1>4, <1>5
      <4> QED
        BY <4>1, <1>9 DEF Becomes
    <3>2. Newer(h, Contents(h))'
      BY <1>4, <1>5, <3>1 DEF Newer, Contents
    <3>4. stored'[h] = Nil /\ waking'[h] = Nil
      BY <1>1, <1>2 DEF SaveKept
    <3>5. saving'[h] # NoSave /\ snapshot'[h] # Nil /\ persisted'[h] # Nil
      BY <1>4, <1>5, <1>6
    <3>6. saving'[h].pc \in {"write", "written"} => saving'[h].copy = copy
      BY <1>4, <1>5, <1>6
    <3>7. saving'[h].pc \in {"write", "written"} => saving'[h].copy # Nil /\ Newer(h, saving[h].copy)'
      BY <1>4, <1>5, <3>6 DEF Newer
    <3>8. saving'[h].pc \in {"written", "told"} => load'.backend = "memory"
      BY <1>1, <1>4, <1>5
    <3> QED
      BY <1>1, <2>3, <3>2, <3>4, <3>5, <3>7, <3>8 DEF SaveKept
  <2> QED
    BY <2>2, <2>3
<1>12. ASSUME ~raced PROVE HibernationsFilled(heap)
  <2>1. Complete
    BY <1>12 DEF IInv
  <2>2. Filled(instance[o].next, heap[instance[o].cell])
    BY <1>2, <1>3, <2>1 DEF Complete
  <2>3. Filled(p.next, heap[p.cell]) /\ Filled(copy.next, copy.facts)
    BY <1>4, <2>2
  <2>4. saving'[h].pc \in {"write", "written"} => saving'[h].copy = copy
    BY <1>4, <1>5, <1>6
  <2> SUFFICES ASSUME NEW x \in Hibernations
               PROVE  /\ persisted'[x] = persisted[x] \/ Filled(persisted'[x].next, heap[persisted'[x].cell])
                      /\ saving'[x].pc \in {"write", "written"} =>
                            \/ saving[x].pc \in {"write", "written"} /\ saving'[x].copy = saving[x].copy
                            \/ Filled(saving'[x].copy.next, saving'[x].copy.facts)
    BY <1>1 DEF HibernationsFilled
  <2>5. CASE x # h
    BY <1>5, <2>5
  <2>6. CASE x = h
    BY <1>5, <2>3, <2>4, <2>6
  <2> QED
    BY <2>5, <2>6
<1> QED
  BY <1>1, <1>7, <1>8, <1>9, <1>10, <1>11, <1>12, Quiet

-----------------------------------------------------------------------------
(***************************************************************************)
(* A new instance is registered.                                           *)
(***************************************************************************)
\* What a hibernation refers to is what it was, or what the backend had.
Restored(x, h) ==
    \/ persisted'[x] = persisted[x] /\ waking'[x] = waking[x]
    \/ /\ waking[x] # Nil /\ waking'[x] \in {waking[x], Nil} /\ persisted'[x] # Nil
       /\ persisted'[x].id = waking[x].id /\ persisted'[x].next = waking[x].next
       /\ h[persisted'[x].cell] = waking[x].facts

LEMMA RegisterKeeps ==
    ASSUME IInv, NEW id \in Organisms, NEW o \in Instances, NEW it \in Instance,
           NEW h, Grows(h), Register(id, o, it, h), ~raced => Filled(it.next, h[it.cell]),
           UNCHANGED <<load, task, pool, saving, stored, history>>,
           persisted' \in [Hibernations -> Hibernated \cup {Nil}],
           waking' \in [Hibernations -> Copy \cup {Nil}],
           \A x \in Hibernations : Restored(x, h)
    PROVE  IInv'
<1> DEFINE f == [instance EXCEPT ![o] = it]
<1>1. /\ ~Live(o) /\ registry' = [registry EXCEPT ![id] = o] /\ Now(f, h)
  BY DEF Register, IsNew
<1>2. /\ registry \in [Organisms -> Instances \cup {Nobody}]
      /\ instance \in [Instances -> Instance \cup {Nil}]
      /\ h \in [Cells -> SUBSET Steps] /\ it.next \in Nexts
  BY InstanceTyped DEF IInv, TypeOK, Grows
<1>3. /\ f \in [Instances -> Instance \cup {Nil}] /\ f[o] = it /\ it # Nil
      /\ \A x \in Instances : x # o => f[x] = instance[x]
  BY <1>2, Apart
<1> HIDE DEF f
<1>4. /\ registry' \in [Organisms -> Instances \cup {Nobody}]
      /\ \A i \in Organisms : registry'[i] \in {registry[i], o}
  BY <1>1, <1>2
<1>5. /\ \A t \in Tasks : (Busy(t)' <=> Busy(t)) /\ task'[t] = task[t]
      /\ \A x \in Hibernations : (Saves(x)' <=> Saves(x)) /\ saving'[x] = saving[x]
  BY DEF Busy, Saves
<1>6. \A x \in Instances : Live(x)' => Live(x) \/ x = o
  BY <1>4, <1>5 DEF Live
<1>7. Becomes(f, h)
  <2>1. \A x \in Instances : Live(x)' => f[x] # Nil
    BY <1>3, <1>6, LiveTyped
  <2>2. \A t \in Tasks : Busy(t)' => task'[t].cell \in Cells
    BY <1>5, BusyTyped
  <2>3. \A x \in Hibernations : persisted'[x] # Nil => persisted'[x].cell \in Cells
    BY DEF Hibernated
  <2> QED
    BY <1>1, <1>2, <1>3, <2>1, <2>2, <2>3, NowBecomes
<1>8. TypeOK'
  BY <1>4, <1>7 DEF IInv, TypeOK, Becomes, history
<1>9. ASSUME NEW x \in Hibernations PROVE SaveKept(x)'
  <2>1. CASE persisted'[x] = persisted[x] /\ waking'[x] = waking[x]
    BY <1>7, <2>1, SaveSame DEF history
  <2>2. CASE persisted'[x] # persisted[x] \/ waking'[x] # waking[x]
    <3>1. /\ waking[x] # Nil /\ waking'[x] \in {waking[x], Nil} /\ persisted'[x] # Nil
          /\ persisted'[x].id = waking[x].id /\ persisted'[x].next = waking[x].next
          /\ h[persisted'[x].cell] = waking[x].facts
      BY <2>2 DEF Restored
    <3>2. SaveKept(x) /\ saving[x] # NoSave
      BY <3>1 DEF IInv, SaveKept
    <3>3. heap'[persisted'[x].cell] = waking[x].facts
      BY <1>7, <3>1 DEF Becomes
    <3>4. Newer(x, waking[x])
      BY <3>1, <3>2 DEF SaveKept
    <3>5. Newer(x, Contents(x))'
      BY <3>1, <3>3, <3>4 DEF Newer, Contents, history
    <3>6. waking'[x] # Nil => Newer(x, waking[x])'
      BY <3>1, <3>4 DEF Newer, history
    <3>7. \A y : Newer(x, y)' <=> Newer(x, y)
      BY DEF Newer, history
    <3>8. UNCHANGED <<load, saving, stored, snapshot, expired>>
      BY DEF history
    <3> QED
      BY <3>1, <3>2, <3>5, <3>6, <3>7, <3>8 DEF SaveKept, Newer
  <2> QED
    BY <2>1, <2>2
<1>10. ASSUME ~raced PROVE Complete'
  <2>1. Complete
    BY <1>10 DEF IInv
  <2>2. InstancesFilled(f, h)
    BY <1>3, <1>6, <1>10 DEF InstancesFilled
  <2>3. TasksFilled(f, h)
    <3>1. \A x \in Instances : Live(x) => f[x].next = instance[x].next
      BY <1>1, <1>3
    <3> QED
      BY <1>10, <3>1, TasksSame
  <2>4. HibernationsFilled(h)
    <3> SUFFICES ASSUME NEW x \in Hibernations
                 PROVE  /\ persisted'[x] = persisted[x] \/ Filled(persisted'[x].next, h[persisted'[x].cell])
                        /\ waking'[x] \in {waking[x], Nil}
      BY DEF HibernationsFilled
    <3>1. waking[x] # Nil => Filled(waking[x].next, waking[x].facts)
      BY <2>1 DEF Complete
    <3>2. Restored(x, h)
      OBVIOUS
    <3> QED
      BY <3>1, <3>2 DEF Restored
  <2> QED
    BY <1>7, <1>10, <2>2, <2>3, <2>4, CompleteStep
<1> QED
  BY <1>7, <1>8, <1>9, <1>10 DEF IInv, Becomes, history

\* A dictionary nobody has is another's, or new.
LEMMA NewCellGrows ==
    ASSUME IInv, NEW facts \in SUBSET Steps
    PROVE  /\ NewCell \in Cells
           /\ Grows([heap EXCEPT ![NewCell] = facts])
           /\ [heap EXCEPT ![NewCell] = facts][NewCell] = facts
<1>1. NewCell \in Cells /\ NewCell \notin UsedCells
  BY NewCellFree
<1>2. heap \in [Cells -> SUBSET Steps]
  BY DEF IInv, TypeOK
<1> HIDE DEF Cells
<1> QED
  BY <1>1, <1>2 DEF Grows

LEMMA SpawnKeeps ==
    ASSUME IInv, NEW id \in Organisms, NEW o \in Instances, Spawn(id, o)
    PROVE  IInv'
<1>1. PICK parent \in {Nobody} \cup {i \in Organisms : registry[i] # Nobody} :
         Register(id, o, [id |-> id, cell |-> NewCell, status |-> "spawned",
                          next |-> IF parent = Nobody THEN 1 ELSE instance[registry[parent]].next],
                  [heap EXCEPT ![NewCell] = IF parent = Nobody THEN {} ELSE Facts(registry[parent])])
  BY DEF Spawn
<1> DEFINE p == registry[parent]
           facts == IF parent = Nobody THEN {} ELSE Facts(p)
           n == IF parent = Nobody THEN 1 ELSE instance[p].next
           it == [id |-> id, cell |-> NewCell, status |-> "spawned", next |-> n]
           h == [heap EXCEPT ![NewCell] = facts]
<1>2. UNCHANGED <<load, task, persisted, pool, waking, saving, stored, history>>
  BY DEF Spawn
<1>3. parent # Nobody => p \in Instances /\ Live(p)
  BY RegisteredTyped
<1>4. n \in Nexts /\ facts \in SUBSET Steps /\ (~raced => Filled(n, facts))
  <2>1. CASE parent = Nobody
    BY <2>1, Numbers DEF Filled
  <2>2. CASE parent # Nobody
    <3>1. instance[p].next \in Nexts /\ Facts(p) \subseteq Steps
      BY <1>3, <2>2, LiveTyped
    <3>2. ~raced => Filled(instance[p].next, Facts(p))
      BY <1>3, <2>2 DEF IInv, Complete
    <3> QED
      BY <2>2, <3>1, <3>2
  <2> QED
    BY <2>1, <2>2
<1> HIDE DEF n, facts, p
<1>5. NewCell \in Cells /\ Grows(h) /\ h[NewCell] = facts
  BY <1>4, NewCellGrows
<1>6. it \in Instance /\ it.next = n /\ it.cell = NewCell
  BY <1>4, <1>5 DEF Instance
<1>7. Register(id, o, it, h)
  BY <1>1 DEF n, facts, p
<1> HIDE DEF it, h
<1>8. \A x \in Hibernations : Restored(x, h)
  BY <1>2 DEF Restored
<1>9. ~raced => Filled(it.next, h[it.cell])
  BY <1>4, <1>5, <1>6
<1>10. /\ persisted' \in [Hibernations -> Hibernated \cup {Nil}]
       /\ waking' \in [Hibernations -> Copy \cup {Nil}]
  BY <1>2 DEF IInv, TypeOK
<1> QED
  BY <1>2, <1>5, <1>6, <1>7, <1>8, <1>9, <1>10, RegisterKeeps

LEMMA WakeKeeps ==
    ASSUME IInv, NEW h \in Hibernations, NEW o \in Instances, Wake(h, o)
    PROVE  IInv'
<1> DEFINE data == persisted[h]
           it == [id |-> data.id, cell |-> data.cell, next |-> data.next, status |-> "spawned"]
<1>1. /\ data # Nil /\ Register(data.id, o, it, heap)
      /\ UNCHANGED <<load, task, persisted, pool, waking, saving, stored, history>>
  BY DEF Wake, Woke
<1>2. data.id \in Organisms /\ data.cell \in Cells /\ data.next \in Nexts
  BY <1>1, PersistedTyped
<1>3. it \in Instance /\ it.next = data.next /\ it.cell = data.cell
  BY <1>2 DEF Instance
<1> HIDE DEF it
<1>4. ~raced => Filled(it.next, heap[it.cell])
  BY <1>1, <1>3 DEF IInv, Complete
<1>5. Grows(heap)
  BY DEF IInv, TypeOK, Grows
<1>6. \A x \in Hibernations : Restored(x, heap)
  BY <1>1 DEF Restored
<1>7. /\ persisted' \in [Hibernations -> Hibernated \cup {Nil}]
      /\ waking' \in [Hibernations -> Copy \cup {Nil}]
  BY <1>1 DEF IInv, TypeOK
<1> QED
  BY <1>1, <1>2, <1>3, <1>4, <1>5, <1>6, <1>7, RegisterKeeps

LEMMA LoadedKeeps ==
    ASSUME IInv, NEW h \in Hibernations, NEW o \in Instances, Loaded(h, o)
    PROVE  IInv'
<1> DEFINE w == waking[h]
           data == [id |-> w.id, cell |-> NewCell, next |-> w.next]
           it == [id |-> data.id, cell |-> data.cell, next |-> data.next, status |-> "spawned"]
           hp == [heap EXCEPT ![NewCell] = w.facts]
<1>1. /\ w # Nil /\ waking' \in {waking, [waking EXCEPT ![h] = Nil]}
      /\ persisted' = [persisted EXCEPT ![h] = data] /\ Register(data.id, o, it, hp)
      /\ UNCHANGED <<load, task, pool, saving, stored, history>>
  BY DEF Loaded, Woke
<1>2. /\ w \in Copy /\ waking \in [Hibernations -> Copy \cup {Nil}]
      /\ persisted \in [Hibernations -> Hibernated \cup {Nil}]
  BY <1>1 DEF IInv, TypeOK
<1>3. w.id \in Organisms /\ w.facts \in SUBSET Steps /\ w.next \in Nexts
  BY <1>2 DEF Copy
<1>4. NewCell \in Cells /\ Grows(hp) /\ hp[NewCell] = w.facts
  BY <1>3, NewCellGrows
<1>5. /\ data \in Hibernated /\ data # Nil /\ data.id = w.id /\ data.cell = NewCell
      /\ data.next = w.next
  BY <1>3, <1>4, Apart DEF Hibernated
<1>6. it \in Instance /\ it.next = w.next /\ it.cell = NewCell
  BY <1>3, <1>4 DEF Instance
<1> HIDE DEF w, data, it, hp
<1>7. /\ persisted' \in [Hibernations -> Hibernated \cup {Nil}] /\ persisted'[h] = data
      /\ waking' \in [Hibernations -> Copy \cup {Nil}] /\ waking'[h] \in {w, Nil}
      /\ \A x \in Hibernations : x # h => persisted'[x] = persisted[x] /\ waking'[x] = waking[x]
  BY <1>1, <1>2, <1>5 DEF w
<1>8. \A x \in Hibernations : Restored(x, hp)
  BY <1>1, <1>4, <1>5, <1>7 DEF Restored, w
<1>9. ~raced => Filled(it.next, hp[it.cell])
  <2>1. ~raced => Filled(w.next, w.facts)
    BY <1>1 DEF IInv, Complete, w
  <2> QED
    BY <1>4, <1>6, <2>1
<1>10. data.id \in Organisms
  BY <1>3, <1>5
<1> QED
  BY <1>1, <1>4, <1>6, <1>7, <1>8, <1>9, <1>10, RegisterKeeps

-----------------------------------------------------------------------------
(***************************************************************************)
(* Execution.                                                              *)
(***************************************************************************)
\* What a walk comes to: the organism is at step n, with all its results.
WalkTo(t, o, it, h, c, n, v) ==
    /\ v \in Instance /\ v.next = n /\ v.cell = it.cell
    /\ \/ task' = [task EXCEPT ![t] = Idle]
       \/ \E p \in {"wait", "lock", "run"} :
            /\ n \in Steps
            /\ task' = [task EXCEPT ![t] =
                  [pc |-> p, on |-> o, step |-> n, seen |-> h[it.cell] \cup (it.next..(n - 1)), cell |-> c]]
    /\ Now([instance EXCEPT ![o] = v], [h EXCEPT ![it.cell] = h[it.cell] \cup (it.next..(n - 1))])

LEMMA Walks ==
    ASSUME IInv, NEW t \in Tasks, NEW o \in Instances, NEW it \in Instance, NEW h,
           NEW e, NEW k \in 0..LastStep, Walk(t, o, it, h, e, k)
    PROVE  \E v : WalkTo(t, o, it, h, IF k = 0 THEN e ELSE it.cell, it.next + k, v)
<1> DEFINE n    == it.next + k
           seen == h[it.cell] \cup (it.next..(n - 1))
           c    == IF k = 0 THEN e ELSE it.cell
           step == [pc |-> "wait", on |-> o, step |-> n, seen |-> seen, cell |-> c]
           s    == IF it.status = "terminated" THEN it.status ELSE "learning"
           v    == [it EXCEPT !.next = n, !.status = s]
           w    == [it EXCEPT !.next = n]
<1>1. /\ it.next \in Nexts /\ it.cell \in Cells
      /\ it.status \in {"spawned", "executing", "learning", "terminated", "suspended"}
  BY InstanceTyped
<1>2. n <= Over /\ n \in Nexts
  <2>1. n <= Over
    BY DEF Walk
  <2> QED
    BY <1>1, <2>1, Numbers
<1>3. CASE n = Over \/ it.status = "terminated"
  <2>1. /\ task' = [task EXCEPT ![t] = Idle]
        /\ Now([instance EXCEPT ![o] = [it EXCEPT !.next = n,
                    !.status = IF @ = "terminated" THEN @ ELSE "learning"]],
               [h EXCEPT ![it.cell] = seen])
    BY <1>3 DEF Walk, Through
  <2>2. [it EXCEPT !.next = n, !.status = IF @ = "terminated" THEN @ ELSE "learning"] = v
    OBVIOUS
  <2>3. v \in Instance /\ v.next = n /\ v.cell = it.cell
    BY <1>1, <1>2 DEF Instance
  <2> QED
    BY <2>1, <2>2, <2>3 DEF WalkTo
<1>4. CASE ~(n = Over \/ it.status = "terminated")
  <2>1. /\ task' = [task EXCEPT ![t] = IF Flying(t, it.id, n, seen) THEN step
                    ELSE [step EXCEPT !.pc = IF load.locks THEN "lock" ELSE "run"]]
        /\ Now([instance EXCEPT ![o] = w], [h EXCEPT ![it.cell] = seen])
    BY <1>4 DEF Walk, Through, EnvelopeCell
  <2>2. w \in Instance /\ w.next = n /\ w.cell = it.cell
    BY <1>1, <1>2 DEF Instance
  <2>3. n \in Steps
    BY <1>2, <1>4, Numbers
  <2>4. \E p \in {"wait", "lock", "run"} :
           task' = [task EXCEPT ![t] = [pc |-> p, on |-> o, step |-> n, seen |-> seen, cell |-> c]]
    <3>1. CASE Flying(t, it.id, n, seen)
      BY <2>1, <3>1
    <3>2. CASE ~Flying(t, it.id, n, seen) /\ load.locks
      <4>1. [step EXCEPT !.pc = "lock"] =
               [pc |-> "lock", on |-> o, step |-> n, seen |-> seen, cell |-> c]
        <5> HIDE DEF n, seen, c
        <5> QED
          OBVIOUS
      <4> QED
        BY <2>1, <3>2, <4>1
    <3>3. CASE ~Flying(t, it.id, n, seen) /\ ~load.locks
      <4>1. [step EXCEPT !.pc = "run"] =
               [pc |-> "run", on |-> o, step |-> n, seen |-> seen, cell |-> c]
        <5> HIDE DEF n, seen, c
        <5> QED
          OBVIOUS
      <4> QED
        BY <2>1, <3>3, <4>1
    <3> QED
      BY <3>1, <3>2, <3>3
  <2> QED
    BY <2>1, <2>2, <2>3, <2>4 DEF WalkTo
<1> QED
  BY <1>3, <1>4

\* An execution has advanced its organism to v, with dictionaries h, or is over.
LEMMA AdvanceKeeps ==
    ASSUME IInv, NEW t \in Tasks, NEW o \in Instances, Live(o),
           NEW v \in Instance, NEW h, Grows(h), NEW w, task' = [task EXCEPT ![t] = w],
           w # Idle => w \in Execution /\ w.on = o /\ (w.pc # "pause" => w.step = v.next),
           UNCHANGED <<load, registry, persisted, pool, waking, saving, stored, snapshot,
                       expired>>,
           Now([instance EXCEPT ![o] = v], h), raced' \in BOOLEAN,
           ~raced' => /\ ~raced /\ Filled(v.next, h[v.cell])
                      /\ w # Idle => Filled(v.next, h[w.cell])
                      /\ \A u \in Tasks \ {t} : Busy(u) => task[u].on # o
    PROVE  IInv'
<1> DEFINE f == [instance EXCEPT ![o] = v]
<1>1. /\ h \in [Cells -> SUBSET Steps] /\ instance \in [Instances -> Instance \cup {Nil}]
      /\ task \in [Tasks -> Execution \cup {Idle}]
  BY DEF Grows, IInv, TypeOK
<1>2. /\ f \in [Instances -> Instance \cup {Nil}] /\ f[o] = v /\ v # Nil
      /\ \A x \in Instances : x # o => f[x] = instance[x]
  BY <1>1, Apart
<1>3. Now(f, h)
  OBVIOUS
<1> HIDE DEF f
<1>4. /\ task' \in [Tasks -> Execution \cup {Idle}] /\ task'[t] = w
      /\ \A u \in Tasks : u # t => task'[u] = task[u]
  BY <1>1
<1>5. /\ Busy(t)' <=> w # Idle
      /\ \A u \in Tasks : u # t => (Busy(u)' <=> Busy(u))
  BY <1>4 DEF Busy
<1>6. \A x \in Instances : Live(x)' => Live(x)
  <2> SUFFICES ASSUME NEW x \in Instances, Live(x)', x # o PROVE Live(x)
    OBVIOUS
  <2>1. CASE \E i \in Organisms : registry'[i] = x
    BY <2>1 DEF Live
  <2>2. CASE \E u \in Tasks : Busy(u)' /\ task'[u].on = x
    BY <1>4, <1>5, <2>2 DEF Live
  <2>3. CASE \E y \in Hibernations : Saves(y)' /\ saving'[y].of = x
    BY <2>3 DEF Live, Saves
  <2> QED
    BY <2>1, <2>2, <2>3 DEF Live
<1>7. Becomes(f, h)
  <2>1. \A x \in Instances : Live(x)' => f[x] # Nil
    BY <1>2, <1>6, LiveTyped
  <2>2. \A u \in Tasks : Busy(u)' => task'[u].cell \in Cells
    BY <1>4, <1>5, BusyTyped DEF Execution
  <2>3. \A x \in Hibernations : persisted'[x] # Nil => persisted'[x].cell \in Cells
    BY PersistedTyped
  <2> QED
    BY <1>1, <1>2, <1>3, <2>1, <2>2, <2>3, NowBecomes
<1>8. TypeOK'
  BY <1>4, <1>7 DEF IInv, TypeOK, Becomes
<1>9. \A x \in Hibernations : SaveKept(x)'
  BY <1>7, SaveSame
<1>10. ASSUME ~raced' PROVE Complete'
  <2>1. Complete /\ ~raced
    BY <1>10 DEF IInv
  <2>2. InstancesFilled(f, h)
    BY <1>2, <1>6, <1>10 DEF InstancesFilled
  <2>3. TasksFilled(f, h)
    <3>1. Busy(t)' => TaskFilled(task'[t], f, h)
      BY <1>2, <1>4, <1>5, <1>10 DEF TaskFilled
    <3>2. \A u \in Tasks : u # t /\ Busy(u) => task[u].on # o /\ task[u].on \in Instances
      BY <1>10, BusyTyped
    <3>3. \A u \in Tasks : u # t /\ Busy(u) => f[task[u].on].next = instance[task[u].on].next
      BY <1>2, <3>2
    <3>4. ASSUME NEW x \in Tasks, NEW u \in Tasks, Busy(x)', Busy(u)', u # x
          PROVE  task'[u].on # task'[x].on
      <4>1. CASE x # t /\ u # t
        BY <1>4, <1>5, <2>1, <3>4, <4>1 DEF Complete
      <4>2. CASE x = t
        BY <1>4, <1>5, <3>2, <3>4, <4>2
      <4>3. CASE u = t
        BY <1>4, <1>5, <3>2, <3>4, <4>3
      <4> QED
        BY <4>1, <4>2, <4>3
    <3> QED
      BY <1>4, <1>5, <3>1, <3>3, <3>4 DEF TasksFilled
  <2>4. HibernationsFilled(h)
    BY HibernationsSame
  <2> QED
    BY <1>7, <2>1, <2>2, <2>3, <2>4, CompleteStep
<1> QED
  BY <1>7, <1>8, <1>9, <1>10 DEF IInv, Becomes

LEMMA WalkKeeps ==
    ASSUME IInv, NEW t \in Tasks, NEW o \in Instances, Live(o),
           NEW it \in Instance, NEW h, Grows(h), NEW e \in Cells, NEW k \in 0..LastStep,
           Walk(t, o, it, h, e, k), raced' \in BOOLEAN,
           ~raced' => /\ ~raced /\ Filled(it.next, h[it.cell]) /\ Filled(it.next, h[e])
                      /\ \A u \in Tasks \ {t} : Busy(u) => task[u].on # o
    PROVE  IInv'
<1> DEFINE n    == it.next + k
           seen == h[it.cell] \cup (it.next..(n - 1))
           c    == IF k = 0 THEN e ELSE it.cell
           hh   == [h EXCEPT ![it.cell] = seen]
<1>1. PICK v : WalkTo(t, o, it, h, c, n, v)
  BY Walks
<1>2. UNCHANGED <<load, registry, persisted, pool, waking, saving, stored, snapshot, expired>>
      /\ n <= Over
  BY DEF Walk
<1>3. /\ it.next \in Nexts /\ it.cell \in Cells /\ c \in Cells /\ h \in [Cells -> SUBSET Steps]
  BY InstanceTyped DEF Grows
<1>4. seen \in SUBSET Steps /\ n \in Nat /\ it.next \in Nat
  <2>1. (it.next..(n - 1)) \subseteq Steps /\ n \in Nat /\ it.next \in Nat
    BY <1>2, <1>3, Numbers
  <2> QED
    BY <1>3, <2>1
<1>5. hh \in [Cells -> SUBSET Steps] /\ hh[it.cell] = seen /\ Grows(hh)
      /\ \A x \in Cells : h[x] \subseteq hh[x]
  <2>1. /\ hh \in [Cells -> SUBSET Steps] /\ hh[it.cell] = seen
        /\ \A x \in Cells : x # it.cell => hh[x] = h[x]
    <3> HIDE DEF Cells, Steps, seen
    <3> QED
      BY <1>3, <1>4
  <2>2. h[it.cell] \subseteq seen
    OBVIOUS
  <2> HIDE DEF hh, seen
  <2>3. \A x \in Cells : h[x] \subseteq hh[x]
    BY <2>1, <2>2
  <2>4. UsedCells \subseteq Cells
    BY LiveTyped, BusyTyped, PersistedTyped DEF UsedCells
  <2> QED
    BY <2>1, <2>3, <2>4 DEF Grows
<1>6. /\ v \in Instance /\ v.next = n /\ v.cell = it.cell /\ Now([instance EXCEPT ![o] = v], hh)
      /\ \/ task' = [task EXCEPT ![t] = Idle]
         \/ \E p \in {"wait", "lock", "run"} :
              /\ n \in Steps
              /\ task' = [task EXCEPT ![t] = [pc |-> p, on |-> o, step |-> n, seen |-> seen, cell |-> c]]
  BY <1>1 DEF WalkTo
<1> HIDE DEF hh
<1>7. \E w : /\ task' = [task EXCEPT ![t] = w]
             /\ w # Idle => /\ w \in Execution /\ w.on = o /\ w.step = n /\ w.cell = c
                            /\ w.pc # "pause"
  <2>1. CASE task' = [task EXCEPT ![t] = Idle]
    BY <2>1
  <2>2. CASE task' # [task EXCEPT ![t] = Idle]
    <3>1. PICK p \in {"wait", "lock", "run"} :
              /\ n \in Steps
              /\ task' = [task EXCEPT ![t] = [pc |-> p, on |-> o, step |-> n, seen |-> seen, cell |-> c]]
      BY <1>6, <2>2
    <3> DEFINE w == [pc |-> p, on |-> o, step |-> n, seen |-> seen, cell |-> c]
    <3>2. w \in Execution
      <4> HIDE DEF n, seen, c
      <4> QED
        BY <1>3, <1>4, <3>1 DEF Execution
    <3>3. w.on = o /\ w.step = n /\ w.cell = c /\ w.pc = p /\ p # "pause"
      OBVIOUS
    <3>4. task' = [task EXCEPT ![t] = w]
      BY <3>1
    <3> HIDE DEF w, Execution
    <3> QED
      BY <3>2, <3>3, <3>4
  <2> QED
    BY <2>1, <2>2
<1> HIDE DEF c
<1>8. PICK w : /\ task' = [task EXCEPT ![t] = w]
               /\ w # Idle => /\ w \in Execution /\ w.on = o /\ w.step = n /\ w.cell = c
                              /\ w.pc # "pause"
  BY <1>7
<1>9. ~raced' => Filled(n, hh[it.cell]) /\ Filled(n, hh[c])
  <2> SUFFICES ASSUME ~raced' PROVE Filled(n, hh[it.cell]) /\ Filled(n, hh[c])
    OBVIOUS
  <2>1. Filled(n, seen)
    BY <1>3, <1>4 DEF Filled
  <2>2. CASE k = 0
    BY <1>4, <1>5, <2>1, <2>2 DEF Filled, c
  <2>3. CASE k # 0
    BY <1>5, <2>1, <2>3 DEF c
  <2> QED
    BY <1>5, <2>1, <2>2, <2>3
<1> HIDE DEF n, seen
<1>10. /\ w # Idle => w \in Execution /\ w.on = o /\ (w.pc # "pause" => w.step = v.next)
       /\ ~raced' => /\ ~raced /\ Filled(v.next, hh[v.cell])
                     /\ w # Idle => Filled(v.next, hh[w.cell])
                     /\ \A u \in Tasks \ {t} : Busy(u) => task[u].on # o
  BY <1>6, <1>8, <1>9
<1>11. v \in Instance /\ Now([instance EXCEPT ![o] = v], hh)
  BY <1>6
<1> QED
  BY <1>2, <1>5, <1>8, <1>10, <1>11, AdvanceKeeps

LEMMA StartKeeps ==
    ASSUME IInv, NEW t \in Tasks, NEW id \in Organisms, Start(t, id)
    PROVE  IInv'
<1> DEFINE o  == registry[id]
           it == [instance[o] EXCEPT !.status = "executing"]
           h  == [heap EXCEPT ![NewCell] = Facts(o)]
<1>1. PICK k \in 0..LastStep : Walk(t, o, it, h, NewCell, k)
  BY DEF Start, EnvelopeOf
<1>2. /\ ~Busy(t) /\ o # Nobody
      /\ raced' = (raced \/ \E u \in Tasks : Busy(u) /\ task[u].on = o)
  BY DEF Start
<1>3. o \in Instances /\ Live(o)
  BY <1>2, RegisteredTyped
<1> HIDE DEF o
<1>4. /\ instance[o] \in Instance /\ instance[o].cell \in UsedCells
      /\ Facts(o) = heap[instance[o].cell] /\ Facts(o) \in SUBSET Steps
  BY <1>3, LiveTyped
<1>5. it \in Instance /\ it.next = instance[o].next /\ it.cell = instance[o].cell
  BY <1>4 DEF Instance
<1>6. NewCell \in Cells /\ Grows(h) /\ h[NewCell] = Facts(o)
  BY <1>4, NewCellGrows
<1> HIDE DEF it, h
<1>7. raced' \in BOOLEAN
  <2>1. raced \in BOOLEAN
    BY DEF IInv, TypeOK
  <2> QED
    BY <1>2, <2>1, Zenon
<1>8. ASSUME ~raced'
      PROVE  /\ ~raced /\ Filled(it.next, h[it.cell]) /\ Filled(it.next, h[NewCell])
             /\ \A u \in Tasks \ {t} : Busy(u) => task[u].on # o
  <2>1. ~raced /\ \A u \in Tasks : Busy(u) => task[u].on # o
    BY <1>2, <1>8
  <2>2. Filled(instance[o].next, Facts(o))
    BY <1>3, <2>1 DEF IInv, Complete
  <2>3. Facts(o) \subseteq h[it.cell]
    BY <1>4, <1>5, <1>6 DEF Grows
  <2> QED
    BY <1>5, <1>6, <2>1, <2>2, <2>3 DEF Filled
<1> QED
  BY <1>1, <1>3, <1>5, <1>6, <1>7, <1>8, WalkKeeps

\* What an execution that has an organism to itself may rely on.
LEMMA BusyFilled ==
    ASSUME IInv, NEW t \in Tasks, Busy(t), ~raced
    PROVE  /\ Filled(instance[task[t].on].next, heap[task[t].cell])
           /\ Filled(instance[task[t].on].next, Facts(task[t].on))
           /\ task[t].pc # "pause" => instance[task[t].on].next = task[t].step
           /\ \A u \in Tasks \ {t} : Busy(u) => task[u].on # task[t].on
BY BusyTyped DEF IInv, Complete

LEMMA NotIdle ==
    ASSUME NEW t, task[t].pc \in {"wait", "lock", "run", "pause"}
    PROVE  Busy(t)
BY DEF Busy, Idle

LEMMA RestoresKeeps ==
    ASSUME IInv, NEW t \in Tasks, task[t].pc \in {"wait", "lock"}, raced' = raced, Restores(t)
    PROVE  IInv'
<1> DEFINE o == task[t].on  step == task[t].step  c == instance[o].cell
           it == [instance[o] EXCEPT !.next = step + 1]
           h  == [heap EXCEPT ![c] = @ \cup task[t].seen \cup {step}]
<1>1. task[t].pc \in {"wait", "lock"} /\ raced' = raced /\ Busy(t)
  BY NotIdle
<1>2. CASE \E k \in 0..LastStep : Walk(t, o, it, h, c, k)
  <2>1. PICK k \in 0..LastStep : Walk(t, o, it, h, c, k)
    BY <1>2
  <2>2. o \in Instances /\ step \in Steps /\ task[t].seen \subseteq Steps /\ Live(o)
    BY <1>1, BusyTyped
  <2>3. instance[o] \in Instance /\ c \in Cells /\ Facts(o) = heap[c]
    BY <2>2, LiveTyped
  <2>4. it \in Instance /\ it.next = step + 1 /\ it.cell = c
    <3>1. step + 1 \in Nexts
      BY <2>2, Numbers
    <3> HIDE DEF step
    <3> QED
      BY <2>3, <3>1 DEF Instance
  <2>5. heap \in [Cells -> SUBSET Steps]
    BY DEF IInv, TypeOK
  <2> DEFINE facts == heap[c] \cup task[t].seen \cup {step}
  <2>6. facts \in SUBSET Steps /\ h = [heap EXCEPT ![c] = facts] /\ heap[c] \subseteq facts
    BY <2>2, <2>3, <2>5
  <2>7. step \in facts
    OBVIOUS
  <2> HIDE DEF facts, h, c, Cells, Steps
  <2>8. Grows(h) /\ h[c] = facts
    BY <2>3, <2>5, <2>6 DEF Grows
  <2> HIDE DEF it
  <2>9. ASSUME ~raced'
        PROVE  /\ ~raced /\ Filled(it.next, h[it.cell]) /\ Filled(it.next, h[c])
               /\ \A u \in Tasks \ {t} : Busy(u) => task[u].on # o
    <3>1. /\ Filled(step, heap[c]) /\ ~raced
          /\ \A u \in Tasks \ {t} : Busy(u) => task[u].on # o
      BY <1>1, <2>3, <2>9, BusyFilled
    <3>2. step \in Nat
      BY <2>2, Numbers
    <3>3. Filled(step + 1, facts)
      <4> HIDE DEF step
      <4> QED
        BY <2>6, <2>7, <3>1, <3>2 DEF Filled
    <3> QED
      BY <2>4, <2>8, <3>1, <3>3
  <2>10. raced' \in BOOLEAN
    BY <1>1 DEF IInv, TypeOK
  <2> QED
    BY <2>1, <2>2, <2>3, <2>4, <2>8, <2>9, <2>10, WalkKeeps
<1> QED
  BY <1>2 DEF Restores

\* Who waited for a future or polled for a lock restores the result, or goes on.
LEMMA WaitedKeeps ==
    ASSUME IInv, NEW t \in Tasks, Woken(t) \/ Locked(t)
    PROVE  IInv'
<1>1. task[t].pc \in {"wait", "lock"} /\ raced' = raced
  BY DEF Woken, Locked
<1>2. CASE Restores(t)
  BY <1>1, <1>2, RestoresKeeps
<1>3. CASE ~Restores(t)
  <2>1. /\ \E p \in {"lock", "run"} : task' = [task EXCEPT ![t].pc = p]
        /\ UNCHANGED <<load, heap, instance, registry, persisted, pool, waking,
                       saving, stored, snapshot, expired>>
    BY <1>3 DEF Woken, Locked
  <2> QED
    BY <1>1, <2>1, ProceedKeeps
<1> QED
  BY <1>2, <1>3

LEMMA ReleasedKeeps ==
    ASSUME IInv, NEW t \in Tasks, Released(t)
    PROVE  IInv'
<1> DEFINE o == task[t].on
<1>1. task[t].pc = "pause" /\ raced' = raced /\ Busy(t)
  BY NotIdle DEF Released
<1>2. PICK k \in 0..LastStep : Walk(t, o, instance[o], heap, task[t].cell, k)
  BY DEF Released
<1>3. o \in Instances /\ Live(o) /\ task[t].cell \in Cells
  BY <1>1, BusyTyped
<1>4. instance[o] \in Instance /\ Facts(o) = heap[instance[o].cell]
  BY <1>3, LiveTyped
<1>5. Grows(heap) /\ raced' \in BOOLEAN
  BY <1>1 DEF IInv, TypeOK, Grows
<1>6. ~raced => /\ Filled(instance[o].next, heap[instance[o].cell])
                /\ Filled(instance[o].next, heap[task[t].cell])
                /\ \A u \in Tasks \ {t} : Busy(u) => task[u].on # o
  BY <1>1, <1>4, BusyFilled
<1> QED
  BY <1>1, <1>2, <1>3, <1>4, <1>5, <1>6, WalkKeeps

LEMMA ReturnsKeeps ==
    ASSUME IInv, NEW t \in Tasks, Returns(t)
    PROVE  IInv'
<1> DEFINE o == task[t].on  e == task[t].cell  step == task[t].step
<1>1. task[t].pc = "run" /\ raced' = raced /\ Busy(t)
  BY NotIdle DEF Returns
<1>2. PICK ok \in BOOLEAN, copied \in BOOLEAN :
         LET facts == IF ok THEN heap[e] \cup {step} ELSE heap[e]
             cell  == IF copied /\ e = instance[o].cell THEN NewCell ELSE e
             h     == [heap EXCEPT ![cell] = facts]
             it    == [instance[o] EXCEPT
                          !.cell = Fresh(UsedCells \cup {cell}),
                          !.next = IF ok THEN step + 1 ELSE @,
                          !.status = IF ok THEN @ ELSE "terminated"]
             copy  == [h EXCEPT ![it.cell] = facts]
         IN  IF load.locks
             THEN /\ task' = [task EXCEPT ![t].pc = "pause", ![t].cell = cell]
                  /\ UNCHANGED <<load, registry, persisted, pool, waking, saving, stored,
                                 snapshot, expired>>
                  /\ Now([instance EXCEPT ![o] = it], copy)
             ELSE \E k \in 0..LastStep : Walk(t, o, it, copy, cell, k)
  BY DEF Returns
<1> DEFINE facts == IF ok THEN heap[e] \cup {step} ELSE heap[e]
           cell  == IF copied /\ e = instance[o].cell THEN NewCell ELSE e
           new   == Fresh(UsedCells \cup {cell})
           h     == [heap EXCEPT ![cell] = facts]
           it    == [instance[o] EXCEPT
                        !.cell = new,
                        !.next = IF ok THEN step + 1 ELSE @,
                        !.status = IF ok THEN @ ELSE "terminated"]
           copy  == [h EXCEPT ![it.cell] = facts]
           w     == [task[t] EXCEPT !.pc = "pause", !.cell = cell]
<1>3. \/ /\ task' = [task EXCEPT ![t] = w]
         /\ UNCHANGED <<load, registry, persisted, pool, waking, saving, stored, snapshot, expired>>
         /\ Now([instance EXCEPT ![o] = it], copy)
      \/ \E k \in 0..LastStep : Walk(t, o, it, copy, cell, k)
  <2>1. CASE load.locks
    <3>1. /\ task' = [task EXCEPT ![t].pc = "pause", ![t].cell = cell]
          /\ UNCHANGED <<load, registry, persisted, pool, waking, saving, stored, snapshot, expired>>
          /\ Now([instance EXCEPT ![o] = it], copy)
      BY <1>2, <2>1
    <3>2. [task EXCEPT ![t].pc = "pause", ![t].cell = cell] = [task EXCEPT ![t] = w]
      <4> HIDE DEF cell
      <4> QED
        BY DEF IInv, TypeOK
    <3> QED
      BY <3>1, <3>2
  <2>2. CASE ~load.locks
    BY <1>2, <2>2
  <2> QED
    BY <2>1, <2>2
<1>4. /\ o \in Instances /\ step \in Steps /\ Live(o) /\ e \in Cells /\ e \in UsedCells
      /\ heap[e] \subseteq Steps /\ task[t] \in Execution
  BY <1>1, BusyTyped
<1>5. /\ instance[o] \in Instance /\ heap \in [Cells -> SUBSET Steps]
      /\ task \in [Tasks -> Execution \cup {Idle}]
  BY <1>4, LiveTyped DEF IInv, TypeOK
<1>6. cell \in Cells /\ (cell = e \/ cell \notin UsedCells)
  BY <1>4, NewCellFree
<1>7. /\ facts \in SUBSET Steps /\ heap[e] \subseteq facts /\ (ok => step \in facts)
      /\ (~ok => facts = heap[e])
  BY <1>4
<1> HIDE DEF facts, cell
<1>8. new \in Cells /\ new \notin UsedCells /\ new # cell
  <2>1. new \in Cells /\ new \notin UsedCells \cup {cell}
    BY FreshCell
  <2> QED
    BY <2>1
<1> HIDE DEF new
<1>9. /\ it \in Instance /\ it.cell = new
      /\ it.next = IF ok THEN step + 1 ELSE instance[o].next
  <2> DEFINE n == IF ok THEN step + 1 ELSE instance[o].next
             s == IF ok THEN instance[o].status ELSE "terminated"
  <2>1. step + 1 \in Nexts
    BY <1>4, Numbers
  <2>2. n \in Nexts /\ s \in {"spawned", "executing", "learning", "terminated", "suspended"}
    BY <1>5, <2>1, InstanceTyped
  <2>3. it = [instance[o] EXCEPT !.cell = new, !.next = n, !.status = s]
    OBVIOUS
  <2> HIDE DEF it, n, s
  <2>4. it \in Instance /\ it.cell = new /\ it.next = n
    BY <1>5, <1>8, <2>2, <2>3 DEF Instance
  <2> QED
    BY <2>4 DEF n
<1>10. w \in Execution /\ w.on = o /\ w.pc = "pause" /\ w.cell = cell
  BY <1>4, <1>6 DEF Execution
<1> HIDE DEF it, w
<1>11. Grows(copy) /\ copy[it.cell] = facts /\ copy[cell] = facts
  <2> HIDE DEF Cells, Steps
  <2>1. copy = [h EXCEPT ![new] = facts]
    BY <1>9
  <2>2. /\ h \in [Cells -> SUBSET Steps] /\ h[cell] = facts
        /\ \A x \in Cells : x # cell => h[x] = heap[x]
    BY <1>5, <1>6, <1>7
  <2> HIDE DEF h, copy
  <2>3. /\ copy \in [Cells -> SUBSET Steps] /\ copy[new] = facts
        /\ \A x \in Cells : x # new => copy[x] = h[x]
    BY <1>7, <1>8, <2>1, <2>2
  <2>4. UsedCells \subseteq Cells
    BY LiveTyped, BusyTyped, PersistedTyped DEF UsedCells
  <2> QED
    BY <1>6, <1>7, <1>8, <1>9, <2>2, <2>3, <2>4 DEF Grows
<1> HIDE DEF copy
<1>12. ASSUME ~raced'
       PROVE  /\ ~raced /\ Filled(it.next, facts)
              /\ \A u \in Tasks \ {t} : Busy(u) => task[u].on # o
  <2>1. /\ Filled(instance[o].next, heap[e]) /\ instance[o].next = step /\ ~raced
        /\ \A u \in Tasks \ {t} : Busy(u) => task[u].on # o
    BY <1>1, <1>12, BusyFilled
  <2>2. step \in Nat
    BY <1>4, Numbers
  <2>3. Filled(it.next, facts)
    <3> HIDE DEF step, e, o
    <3> QED
      BY <1>7, <1>9, <2>1, <2>2 DEF Filled
  <2> QED
    BY <2>1, <2>3
<1>13. raced' \in BOOLEAN
  BY <1>1 DEF IInv, TypeOK
<1>14. CASE \E k \in 0..LastStep : Walk(t, o, it, copy, cell, k)
  <2>1. PICK k \in 0..LastStep : Walk(t, o, it, copy, cell, k)
    BY <1>14
  <2> QED
    BY <2>1, <1>4, <1>6, <1>9, <1>11, <1>12, <1>13, WalkKeeps
<1>15. CASE /\ task' = [task EXCEPT ![t] = w]
            /\ UNCHANGED <<load, registry, persisted, pool, waking, saving, stored, snapshot, expired>>
            /\ Now([instance EXCEPT ![o] = it], copy)
  <2>1. w # Idle => w \in Execution /\ w.on = o /\ (w.pc # "pause" => w.step = it.next)
    BY <1>10
  <2>2. ~raced' => /\ ~raced /\ Filled(it.next, copy[it.cell])
                   /\ w # Idle => Filled(it.next, copy[w.cell])
                   /\ \A u \in Tasks \ {t} : Busy(u) => task[u].on # o
    BY <1>10, <1>11, <1>12
  <2> QED
    BY <1>4, <1>9, <1>11, <1>13, <1>15, <2>1, <2>2, AdvanceKeeps
<1> QED
  BY <1>3, <1>14, <1>15

-----------------------------------------------------------------------------
(***************************************************************************)
(* The process ends and another starts.                                    *)
(***************************************************************************)
LEMMA RestartKeeps ==
    ASSUME IInv, Restart
    PROVE  IInv'
<1>1. /\ heap' = [c \in Cells |-> {}] /\ instance' = [o \in Instances |-> Nil]
      /\ registry' = [i \in Organisms |-> Nobody] /\ task' = [t \in Tasks |-> Idle]
      /\ persisted' = [h \in Hibernations |-> Nil] /\ pool' = FALSE
      /\ waking' = [h \in Hibernations |-> Nil]
      /\ saving' = [h \in Hibernations |-> IF Saves(h) THEN Failed ELSE saving[h]]
      /\ UNCHANGED <<load, stored, snapshot, expired, raced>>
  BY DEF Restart, history
<1>2. saving \in [Hibernations -> Saving \cup {NoSave, Told, Failed}]
  BY DEF IInv, TypeOK
<1>3. ASSUME NEW h \in Hibernations
      PROVE  /\ saving'[h] \in {NoSave, Told, Failed} /\ ~Saves(h)'
             /\ saving'[h] = NoSave => saving[h] = NoSave
             /\ saving'[h] # NoSave => saving[h] # NoSave
             /\ saving'[h].pc = "told" => saving[h].pc = "told"
             /\ saving'[h].pc \notin {"dump", "write", "written"}
  <2>1. Failed.pc = "failed" /\ NoSave.pc = "unused" /\ Told.pc = "told"
    BY DEF Failed, NoSave, Told
  <2>2. CASE Saves(h)
    <3>1. saving'[h] = Failed
      BY <1>1, <2>2
    <3>2. saving[h] # NoSave
      BY <2>1, <2>2 DEF Saves
    <3> QED
      BY <2>1, <3>1, <3>2 DEF Saves
  <2>3. CASE ~Saves(h)
    <3>1. saving'[h] = saving[h]
      BY <1>1, <2>3
    <3>2. saving[h] \in {NoSave, Told, Failed}
      BY <1>2, <2>3, SavesTyped
    <3> QED
      BY <2>1, <2>3, <3>1, <3>2 DEF Saves
  <2> QED
    BY <2>2, <2>3
<1>4. saving' \in [Hibernations -> Saving \cup {NoSave, Told, Failed}]
  <2>1. saving' = [h \in Hibernations |-> saving'[h]]
    BY <1>1
  <2> HIDE DEF Saving
  <2> QED
    BY <1>3, <2>1
<1>5. TypeOK'
  BY <1>1, <1>4 DEF IInv, TypeOK
<1>6. \A t \in Tasks : ~Busy(t)'
  BY <1>1 DEF Busy
<1>7. \A o \in Instances : ~Live(o)'
  BY <1>1, <1>3, <1>6, Numbers DEF Live
<1>8. Alive'
  BY <1>1, <1>7 DEF Alive
<1>9. ASSUME NEW x \in Hibernations PROVE SaveKept(x)'
  <2>1. SaveKept(x)
    BY DEF IInv
  <2>2. stored[x] # Nil => (Newer(x, stored[x])' <=> Newer(x, stored[x]))
    BY <1>1 DEF Newer
  <2>3. /\ saving'[x].pc = "told" => saving[x].pc = "told"
        /\ saving'[x].pc \notin {"dump", "write", "written"}
        /\ saving'[x] = NoSave <=> saving[x] = NoSave
        /\ persisted'[x] = Nil /\ waking'[x] = Nil
    BY <1>1, <1>3
  <2> QED
    BY <1>1, <2>1, <2>2, <2>3 DEF SaveKept
<1>10. ASSUME ~raced' PROVE Complete'
  <2>1. Complete
    BY <1>1, <1>10 DEF IInv
  <2>2. ASSUME NEW h \in Hibernations
        PROVE  /\ persisted'[h] = Nil /\ waking'[h] = Nil
               /\ stored'[h] # Nil => Filled(stored'[h].next, stored'[h].facts)
               /\ saving'[h].pc \notin {"write", "written"}
    BY <1>1, <1>3, <2>1 DEF Complete
  <2> QED
    BY <1>6, <1>7, <2>2 DEF Complete, Filled
<1> QED
  BY <1>5, <1>8, <1>9, <1>10 DEF IInv

-----------------------------------------------------------------------------
\* A service that has just started has nothing.
LEMMA InitIInv == Init => IInv
<1> SUFFICES ASSUME Init PROVE IInv
  OBVIOUS
<1>1. NoSave.pc = "unused"
  BY DEF NoSave
<1>2. TypeOK
  BY DEF Init, TypeOK
<1>3. \A t \in Tasks : ~Busy(t)
  BY DEF Init, Busy
<1>4. \A h \in Hibernations : saving[h] = NoSave /\ ~Saves(h)
  BY <1>1 DEF Init, Saves
<1>5. \A o \in Instances : ~Live(o)
  BY <1>3, <1>4, Numbers DEF Init, Live
<1>6. Alive
  BY <1>5 DEF Init, Alive
<1>7. \A h \in Hibernations : SaveKept(h)
  BY <1>1, <1>4 DEF Init, SaveKept
<1>8. Complete
  BY <1>1, <1>3, <1>4, <1>5 DEF Init, Complete
<1> QED
  BY <1>2, <1>6, <1>7, <1>8 DEF IInv

\* The inductive invariant of the service.  An instance or a dictionary is there
\* as long as somebody refers to it (Alive), so that a new one is nobody's; what
\* is persisted, stored, being written or on its way back is never behind what
\* was hibernated (SaveKept); and unless two executions have met in one instance,
\* whatever has got past a step has its result, wherever it is kept (Complete).
THEOREM InductiveInvariant == Spec => []IInv
<1>1. ASSUME IInv, [Next]_vars PROVE IInv'
  <2>1. CASE Next
    <3>1. load.ids \subseteq Organisms /\ load.tasks \subseteq Tasks
          /\ load.hibernations \subseteq Hibernations
      <4>1. load \in Load
        BY <1>1, ServiceAssumption DEF IInv, TypeOK
      <4> QED
        BY <4>1 DEF Load
    <3>2. CASE \E id \in load.ids : \E o \in Instances : Spawn(id, o)
      BY <1>1, <3>1, <3>2, SpawnKeeps
    <3>3. CASE \E id, from \in load.ids : Inherit(id, from)
      BY <1>1, <3>1, <3>3, InheritKeeps
    <3>4. CASE \E id \in load.ids : \E t \in load.tasks : Start(t, id)
      BY <1>1, <3>1, <3>4, StartKeeps
    <3>5. CASE \E id \in load.ids : \E h \in load.hibernations : Hibernate(h, id)
      BY <1>1, <3>1, <3>5, HibernateKeeps
    <3>6. CASE \E t \in load.tasks : TaskStep(t)
      BY <1>1, <3>1, <3>6, WaitedKeeps, ReturnsKeeps, ReleasedKeeps DEF TaskStep
    <3>7. CASE \E h \in load.hibernations : SaveStep(h)
      BY <1>1, <3>1, <3>7, PoolCreatedKeeps, SaveEndsKeeps, ReloadKeeps DEF SaveStep
    <3>8. CASE \E h \in load.hibernations : \E o \in Instances : Wake(h, o) \/ Loaded(h, o)
      BY <1>1, <3>1, <3>8, WakeKeeps, LoadedKeeps
    <3>9. CASE Restart
      BY <1>1, <3>9, RestartKeeps
    <3> QED
      BY <2>1, <3>2, <3>3, <3>4, <3>5, <3>6, <3>7, <3>8, <3>9 DEF Next
  <2>2. CASE UNCHANGED vars
    <3>1. UNCHANGED <<load, heap, instance, registry, task, persisted, saving, stored, waking,
                      pool, snapshot, expired, raced>>
      BY <2>2 DEF vars, memory, history
    <3>2. TypeOK'
      BY <1>1, <3>1 DEF IInv, TypeOK
    <3>3. Alive'
      BY <1>1, <3>1 DEF IInv, Alive, Live, Busy, Saves
    <3>4. \A h \in Hibernations : SaveKept(h)'
      BY <1>1, <3>1 DEF IInv, SaveKept, Newer, Contents
    <3>5. Complete' <=> Complete
      BY <3>1 DEF Complete, Live, Busy, Saves, Facts
    <3> QED
      BY <1>1, <3>1, <3>2, <3>3, <3>4, <3>5 DEF IInv
  <2> QED
    BY <1>1, <2>1, <2>2
<1> QED
  BY <1>1, InitIInv, PTL DEF Spec

\* Every component keeps its type: in particular there is a free dictionary for
\* whatever a request makes, and what is freed is nobody's (organisms, envelopes
\* and hibernations in engine/__init__.py).
THEOREM Typing == Spec => []TypeOK
<1>1. IInv => TypeOK
  BY DEF IInv
<1> QED
  BY <1>1, InductiveInvariant, PTL

\* An organism that has got past a step has the step's result, however it came to
\* its state, as long as no instance was ever in two executions at a time.
THEOREM ResultsKept == Spec => []StepsKept
<1>1. IInv => StepsKept
  BY DEF IInv, Complete, StepsKept, Filled
<1> QED
  BY <1>1, InductiveInvariant, PTL

\* What a caller was told to have been hibernated can be woken as it was, or with
\* more; with a backend also after a restart, until Redis drops it.
THEOREM HibernatedIsKept == Spec => []HibernationKept
<1>1. ASSUME IInv PROVE HibernationKept
  <2> SUFFICES ASSUME NEW h \in Hibernations, saving[h].pc = "told"
               PROVE  /\ persisted[h] # Nil => Newer(h, Contents(h))
                      /\ stored[h] # Nil => Newer(h, stored[h])
                      /\ load.backend # "memory" /\ h \notin expired => stored[h] # Nil
    BY DEF HibernationKept, Newer
  <2>1. SaveKept(h) /\ saving[h] # NoSave
    BY <1>1, SavesTyped DEF IInv
  <2> QED
    BY <2>1 DEF SaveKept
<1> QED
  BY <1>1, InductiveInvariant, PTL
=============================================================================
