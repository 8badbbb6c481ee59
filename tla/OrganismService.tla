-------------------------- MODULE OrganismService --------------------------
(***************************************************************************)
(* Organisms as the service (server.py) keeps them: instances behind a     *)
(* registry that requests spawn, execute, hibernate, wake, and let inherit *)
(* from each other, all on one event loop (PrismEngine, OrganismExecutor,  *)
(* OrganismRegistry, OrganismPersistence in engine/__init__.py).           *)
(*                                                                         *)
(* The state of an organism is a dictionary, and dictionaries are shared:  *)
(* between an organism and the envelope of its execution, and with what    *)
(* was hibernated of it and woken from that.  So instances have cells, and *)
(* a cell has facts.  Every pipeline is the same chain of steps; a fact is *)
(* a step whose result is in the state.  An action is what a request does  *)
(* until it awaits something.  Redis or Postgres keep a copy of what is    *)
(* hibernated; the process may be restarted at any time.                   *)
(*                                                                         *)
(* Abstracted: inputs, history, knowledge, parents, intents (all organisms *)
(* are similar), the hop limit, and the cache: a step may find its result  *)
(* there at any time, and it is right (module OrganismWalks).              *)
(***************************************************************************)
EXTENDS FiniteSets, Integers

CONSTANTS
    Organisms,     \* organism ids
    Instances,     \* Organism objects, numbered
    Tasks,         \* requests to execute an organism
    Hibernations,  \* hibernation ids
    LastStep,      \* the length of the pipeline
    Loads          \* bound: what a run is about, see Load

\* A run: the storage backend; whether the cache has Redis, whose locks are
\* awaited; and the ids, executions and hibernations there may be.
Load == [backend : {"memory", "redis", "postgres"}, locks : BOOLEAN,
         ids : SUBSET Organisms, tasks : SUBSET Tasks, hibernations : SUBSET Hibernations]

Steps  == 1..LastStep
Over   == LastStep + 1   \* next of an organism that is through: None
Nil    == [next |-> 0]
Nobody == 0

ASSUME ServiceAssumption ==
    /\ LastStep \in Nat \ {0}
    /\ Instances \subseteq Nat \ {Nobody}
    /\ Loads \subseteq Load
    /\ IsFiniteSet(Instances) /\ IsFiniteSet(Hibernations) /\ IsFiniteSet(Tasks)

\* Enough for all there may be at a time, and two more while a node returns.
Cells == 1..(Cardinality(Instances) + Cardinality(Hibernations) + Cardinality(Tasks) + 2)

VARIABLES
    load,
    heap,       \* the facts in each dictionary
    instance,   \* each Organism: id, cell, next capability, status
    registry,   \* the instance registered under each id
    task,       \* each execution: its instance, where it is, the step and the
                \* facts it has looked up, the cell of its envelope
    persisted,  \* _persisted
    saving,     \* each call of hibernate: where it is, its instance, what it writes
    stored,     \* what the storage backend has
    waking,     \* what calls of wake have had from the backend
    pool,       \* the Postgres pool exists
    snapshot,   \* what the organism was like when hibernate was called
    expired,    \* hibernations Redis has dropped
    raced       \* some instance has been in two executions at a time

memory  == <<heap, instance, registry, task, persisted, pool, waking>>
history == <<snapshot, expired, raced>>
vars    == <<load, memory, saving, stored, history>>

Nexts      == 1..Over
Instance   == [id : Organisms, cell : Cells, next : Nexts,
               status : {"spawned", "executing", "learning", "terminated", "suspended"}]
Copy       == [id : Organisms, facts : SUBSET Steps, next : Nexts]
Hibernated == [id : Organisms, cell : Cells, next : Nexts]

Idle      == [pc |-> "idle"]
Execution == [pc : {"wait", "lock", "run", "pause"}, on : Instances, step : Steps,
              seen : SUBSET Steps, cell : Cells]

NoSave == [pc |-> "unused"]
Told   == [pc |-> "told"]
Failed == [pc |-> "failed"]
Saving == [pc : {"dump", "write", "written"}, of : Instances, copy : Copy \cup {Nil}]

TypeOK ==
    /\ load \in Loads
    /\ heap \in [Cells -> SUBSET Steps]
    /\ instance \in [Instances -> Instance \cup {Nil}]
    /\ registry \in [Organisms -> Instances \cup {Nobody}]
    /\ task \in [Tasks -> Execution \cup {Idle}]
    /\ persisted \in [Hibernations -> Hibernated \cup {Nil}]
    /\ saving \in [Hibernations -> Saving \cup {NoSave, Told, Failed}]
    /\ stored \in [Hibernations -> Copy \cup {Nil}]
    /\ waking \in [Hibernations -> Copy \cup {Nil}]
    /\ snapshot \in [Hibernations -> Copy \cup {Nil}]
    /\ pool \in BOOLEAN /\ expired \subseteq Hibernations /\ raced \in BOOLEAN

Init ==
    /\ load \in Loads
    /\ heap = [c \in Cells |-> {}]
    /\ instance = [o \in Instances |-> Nil]
    /\ registry = [i \in Organisms |-> Nobody]
    /\ task = [t \in Tasks |-> Idle]
    /\ persisted = [h \in Hibernations |-> Nil]
    /\ pool = FALSE
    /\ saving = [h \in Hibernations |-> NoSave]
    /\ stored = [h \in Hibernations |-> Nil]
    /\ waking = [h \in Hibernations |-> Nil]
    /\ snapshot = [h \in Hibernations |-> Nil]
    /\ expired = {} /\ raced = FALSE

-----------------------------------------------------------------------------
(***************************************************************************)
(* Instances and dictionaries.  What nobody refers to any more is freed.    *)
(***************************************************************************)
Busy(t)  == task[t] # Idle
Saves(h) == saving[h].pc \in {"dump", "write", "written"}
Live(o)  ==
    \/ \E i \in Organisms : registry[i] = o
    \/ \E t \in Tasks : Busy(t) /\ task[t].on = o
    \/ \E h \in Hibernations : Saves(h) /\ saving[h].of = o
UsedCells ==
    {instance[o].cell : o \in {x \in Instances : Live(x)}} \cup
    {task[t].cell : t \in {x \in Tasks : Busy(x)}} \cup
    {persisted[h].cell : h \in {x \in Hibernations : persisted[x] # Nil}}
Fresh(used) == CHOOSE c \in Cells : c \notin used
NewCell  == Fresh(UsedCells)
IsNew(o) == ~Live(o) /\ \A p \in Instances : p < o => Live(p)

\* The instances and the dictionaries are now f and h.  (The last conjunct of an
\* action: what is freed depends on everything else.)
Now(f, h) ==
    /\ instance' = [o \in Instances |-> IF Live(o)' THEN f[o] ELSE Nil]
    /\ heap' = [c \in Cells |-> IF c \in UsedCells' THEN h[c] ELSE {}]

Facts(o) == heap[instance[o].cell]

\* register: requests get the instance that was registered last under an id.
Register(id, o, it, h) ==
    /\ IsNew(o)
    /\ registry' = [registry EXCEPT ![id] = o]
    /\ Now([instance EXCEPT ![o] = it], h)

\* Organism(), and spawn_child, with the state and the next step of the parent.
Spawn(id, o) ==
    /\ registry[id] = Nobody
    /\ UNCHANGED <<load, task, persisted, pool, waking, saving, stored, history>>
    /\ \E parent \in {Nobody} \cup {i \in Organisms : registry[i] # Nobody} : LET
          p  == registry[parent]
          it == [id |-> id, cell |-> NewCell, status |-> "spawned",
                 next |-> IF parent = Nobody THEN 1 ELSE instance[p].next]
          IN Register(id, o, it,
                 [heap EXCEPT ![NewCell] = IF parent = Nobody THEN {} ELSE Facts(p)])

\* find_similar: the others of the same intent, of which it takes the most similar.
Similar(id) == {i \in load.ids \ {id} : registry[i] # Nobody}

\* inherit_from: the other's state is added to the organism's own.
InheritFrom(o, p) == [heap EXCEPT ![instance[o].cell] = @ \cup Facts(p)]

Inherit(id, from) ==
    /\ registry[id] # Nobody /\ from \in Similar(id)
    /\ heap' = InheritFrom(registry[id], registry[from])
    /\ UNCHANGED <<load, instance, registry, task, persisted, pool, waking, saving,
                   stored, history>>

-----------------------------------------------------------------------------
(***************************************************************************)
(* OrganismExecutor.execute, one turn of the event loop at a time.         *)
(***************************************************************************)
Flying(t, id, step, seen) ==
    \E u \in Tasks \ {t} :
        /\ task[u].pc \in {"lock", "run"}
        /\ instance[task[u].on].id = id /\ task[u].step = step /\ task[u].seen = seen

\* Mutant of Through: the end of the pipeline is one step later.
ThroughLate(n) == n > Over
Through(n)     == n = Over

\* Mutant of EnvelopeCell: the envelope stays what it was.
EnvelopeCellOnly(e, k, c) == e
\* A restored step makes the organism's dictionary the envelope's.
EnvelopeCell(e, k, c) == IF k = 0 THEN e ELSE c

\* From the top of the loop, for an organism that is now `it` with dictionaries h,
\* and an envelope in cell e: it restores k steps from the cache, one after the
\* other, and then is done, joins somebody else's flight or begins its own.
Walk(t, o, it, h, e, k) ==
    LET n    == it.next + k
        seen == h[it.cell] \cup (it.next..(n - 1))
        step == [pc |-> "wait", on |-> o, step |-> n, seen |-> seen,
                 cell |-> EnvelopeCell(e, k, it.cell)]
    IN  /\ n <= Over /\ (k > 0 => it.status # "terminated")
        /\ UNCHANGED <<load, registry, persisted, pool, waking, saving, stored,
                       snapshot, expired>>
        /\ IF Through(n) \/ it.status = "terminated"
           THEN /\ task' = [task EXCEPT ![t] = Idle]
                /\ Now([instance EXCEPT ![o] = [it EXCEPT !.next = n,
                            !.status = IF @ = "terminated" THEN @ ELSE "learning"]],
                       [h EXCEPT ![it.cell] = seen])
           ELSE /\ task' = [task EXCEPT ![t] =
                      IF Flying(t, it.id, n, seen) THEN step
                      ELSE [step EXCEPT !.pc = IF load.locks THEN "lock" ELSE "run"]]
                /\ Now([instance EXCEPT ![o] = [it EXCEPT !.next = n]],
                       [h EXCEPT ![it.cell] = seen])

\* The envelope of an organism: RequestEnvelope() copies the dictionary.
EnvelopeOf(o) == Facts(o)

Start(t, id) ==
    LET o == registry[id] IN
    /\ ~Busy(t) /\ o # Nobody
    /\ raced' = (raced \/ \E u \in Tasks : Busy(u) /\ task[u].on = o)
    /\ \E k \in 0..LastStep :
          Walk(t, o, [instance[o] EXCEPT !.status = "executing"],
               [heap EXCEPT ![NewCell] = EnvelopeOf(o)], NewCell, k)

\* The result of the task's step is in the cache by now: it is restored into the
\* organism's dictionary, and the walk goes on from there.
Restores(t) ==
    LET o == task[t].on  step == task[t].step IN
    \E k \in 0..LastStep :
        Walk(t, o, [instance[o] EXCEPT !.next = step + 1],
             [heap EXCEPT ![instance[o].cell] = @ \cup task[t].seen \cup {step}],
             instance[o].cell, k)

\* The awaited future is resolved.  The result is in the cache, where it was
\* looked up; if it is not, the step is the task's own now.
Woken(t) ==
    /\ task[t].pc = "wait"
    /\ ~Flying(t, instance[task[t].on].id, task[t].step, task[t].seen)
    /\ \/ Restores(t)
       \/ /\ task' = [task EXCEPT ![t].pc = IF load.locks THEN "lock" ELSE "run"]
          /\ UNCHANGED <<load, heap, instance, registry, persisted, pool, waking,
                         saving, stored, snapshot, expired>>
    /\ UNCHANGED raced

\* The lock is acquired, or it is not and the time for polling is up: the task
\* runs the node.  Or it finds what another worker has computed meanwhile.  (How
\* long it takes: module SingleFlight.)
Locked(t) ==
    /\ task[t].pc = "lock"
    /\ \/ Restores(t)
       \/ /\ task' = [task EXCEPT ![t].pc = "run"]
          /\ UNCHANGED <<load, heap, instance, registry, persisted, pool, waking,
                         saving, stored, snapshot, expired>>
    /\ UNCHANGED raced

\* The node is through.  It has worked in the envelope's dictionary, or with a
\* timeout in a copy of it; the organism gets a copy of the result, and goes on
\* at once unless there is a lock to release.  A node that fails changes nothing.
Returns(t) ==
    LET o      == task[t].on
        e      == task[t].cell
        result == heap[e] \cup {task[t].step}
    IN  /\ task[t].pc = "run" /\ UNCHANGED raced
        /\ \E ok, copied \in BOOLEAN : LET
             facts == IF ok THEN result ELSE heap[e]
             cell  == IF copied /\ e = instance[o].cell THEN NewCell ELSE e
             h     == [heap EXCEPT ![cell] = facts]
             it    == [instance[o] EXCEPT
                          !.cell = Fresh(UsedCells \cup {cell}),
                          !.next = IF ok THEN task[t].step + 1 ELSE @,
                          !.status = IF ok THEN @ ELSE "terminated"]
             copy  == [h EXCEPT ![it.cell] = facts]
             IN IF load.locks
                THEN /\ task' = [task EXCEPT ![t].pc = "pause", ![t].cell = cell]
                     /\ UNCHANGED <<load, registry, persisted, pool, waking, saving,
                                    stored, snapshot, expired>>
                     /\ Now([instance EXCEPT ![o] = it], copy)
                ELSE \E k \in 0..LastStep : Walk(t, o, it, copy, cell, k)

\* The lock is released.
Released(t) ==
    /\ task[t].pc = "pause" /\ UNCHANGED raced
    /\ LET o == task[t].on IN
       \E k \in 0..LastStep : Walk(t, o, instance[o], heap, task[t].cell, k)

-----------------------------------------------------------------------------
(***************************************************************************)
(* OrganismPersistence and the storage backends.                           *)
(***************************************************************************)
Contents(h) == [id |-> persisted[h].id, facts |-> heap[persisted[h].cell],
                next |-> persisted[h].next]

Suspend(o) == Now([instance EXCEPT ![o].status = "suspended"], heap)

\* _serialize refers to the state dictionary.  MemoryStorage is done at once;
\* Redis and Postgres have to be waited for, and what they write is dumped from
\* the dictionary before that, or once there is a pool.
Hibernate(h, id) ==
    LET o    == registry[id]
        copy == [id |-> id, facts |-> Facts(o), next |-> instance[o].next]
    IN  /\ saving[h] = NoSave /\ o # Nobody
        /\ UNCHANGED <<load, registry, task, pool, waking, stored, expired, raced>>
        /\ persisted' = [persisted EXCEPT ![h] =
              [id |-> id, cell |-> instance[o].cell, next |-> instance[o].next]]
        /\ snapshot' = [snapshot EXCEPT ![h] = copy]
        /\ IF load.backend = "memory" THEN
                /\ saving' = [saving EXCEPT ![h] = Told]
                /\ Suspend(o)
           ELSE /\ saving' = [saving EXCEPT ![h] =
                      IF load.backend = "redis" \/ pool
                      THEN [pc |-> "write", of |-> o, copy |-> copy]
                      ELSE [pc |-> "dump", of |-> o, copy |-> Nil]]
                /\ UNCHANGED <<instance, heap>>

PoolCreated(h) ==
    /\ saving[h].pc = "dump"
    /\ pool' = TRUE
    /\ saving' = [saving EXCEPT ![h].pc = "write", ![h].copy = Contents(h)]
    /\ UNCHANGED <<load, heap, instance, registry, task, persisted, waking, stored,
                   history>>

Write(h) ==
    /\ saving[h].pc = "write"
    /\ stored' = [stored EXCEPT ![h] = saving[h].copy]
    /\ saving' = [saving EXCEPT ![h].pc = "written"]
    /\ UNCHANGED <<load, memory, history>>

\* Mutant of Acknowledged: the caller need not wait for the backend.
AcknowledgedEarly(h) == saving[h].pc \in {"write", "written"}
Acknowledged(h)      == saving[h].pc = "written"

SaveReturns(h) ==
    /\ Acknowledged(h)
    /\ saving' = [saving EXCEPT ![h] = Told]
    /\ UNCHANGED <<load, registry, task, persisted, pool, waking, stored, history>>
    /\ Suspend(saving[h].of)

\* The backend fails, or its answer is lost: the caller gets an error.
SaveFails(h) ==
    /\ Saves(h)
    /\ saving' = [saving EXCEPT ![h] = Failed]
    /\ UNCHANGED <<load, registry, task, persisted, pool, waking, stored, history>>
    /\ Now(instance, heap)

\* wake: what _persisted has, else what the backend has, which has to be waited
\* for, by one call or by several.  The new instance and _persisted have one
\* dictionary from then on.
Woke(data, o, hp) ==
    Register(data.id, o, [id |-> data.id, cell |-> data.cell, next |-> data.next,
                          status |-> "spawned"], hp)

Wake(h, o) ==
    /\ persisted[h] # Nil
    /\ UNCHANGED <<load, task, persisted, pool, waking, saving, stored, history>>
    /\ Woke(persisted[h], o, heap)

Reload(h) ==
    /\ persisted[h] = Nil /\ stored[h] # Nil /\ waking[h] = Nil
    /\ waking' = [waking EXCEPT ![h] = stored[h]]
    /\ UNCHANGED <<load, heap, instance, registry, task, persisted, pool, saving,
                   stored, history>>

Loaded(h, o) ==
    LET data == [id |-> waking[h].id, cell |-> NewCell, next |-> waking[h].next] IN
    /\ waking[h] # Nil
    /\ waking' \in {waking, [waking EXCEPT ![h] = Nil]}
    /\ persisted' = [persisted EXCEPT ![h] = data]
    /\ UNCHANGED <<load, task, pool, saving, stored, history>>
    /\ Woke(data, o, [heap EXCEPT ![NewCell] = waking[h].facts])

Expire(h) ==
    /\ load.backend = "redis" /\ stored[h] # Nil
    /\ stored' = [stored EXCEPT ![h] = Nil]
    /\ expired' = expired \cup {h}
    /\ UNCHANGED <<load, memory, saving, snapshot, raced>>

\* The process ends, and all it had in memory; a new one starts.
Restart ==
    /\ heap' = [c \in Cells |-> {}]
    /\ instance' = [o \in Instances |-> Nil]
    /\ registry' = [i \in Organisms |-> Nobody]
    /\ task' = [t \in Tasks |-> Idle]
    /\ persisted' = [h \in Hibernations |-> Nil]
    /\ pool' = FALSE
    /\ waking' = [h \in Hibernations |-> Nil]
    /\ saving' = [h \in Hibernations |-> IF Saves(h) THEN Failed ELSE saving[h]]
    /\ UNCHANGED <<load, stored, history>>

-----------------------------------------------------------------------------
TaskStep(t) == Woken(t) \/ Locked(t) \/ Returns(t) \/ Released(t)

SaveStep(h) ==
    PoolCreated(h) \/ Write(h) \/ SaveReturns(h) \/ SaveFails(h) \/ Reload(h) \/ Expire(h)

Next ==
    \/ \E id \in load.ids :
          \/ \E o \in Instances : Spawn(id, o)
          \/ \E from \in load.ids : Inherit(id, from)
          \/ \E t \in load.tasks : Start(t, id)
          \/ \E h \in load.hibernations : Hibernate(h, id)
    \/ \E t \in load.tasks : TaskStep(t)
    \/ \E h \in load.hibernations :
          \/ SaveStep(h)
          \/ \E o \in Instances : Wake(h, o) \/ Loaded(h, o)
    \/ Restart

Spec == Init /\ [][Next]_vars

-----------------------------------------------------------------------------
(***************************************************************************)
(* Properties.                                                             *)
(***************************************************************************)
\* An organism that has got past a step has that step's result, wherever it was
\* computed, restored, inherited, hibernated or woken, and whatever dictionaries
\* are shared with others on the way.  Two executions of one instance at a time
\* (nothing excludes them) break this: one runs a node on an envelope that lacks
\* the other's step, and its result replaces the state.
StepsKept ==
    ~raced => \A o \in Instances : Live(o) => 1..(instance[o].next - 1) \subseteq Facts(o)

\* "Persist organisms to storage - they can be hibernated and resumed": what a
\* caller was told to have been hibernated can be woken where it was, with all
\* it had, also after a restart if there is a backend, until Redis drops it.
\* It may have more by then, because the dictionary is shared.
HibernationKept ==
    \A h \in Hibernations : saving[h].pc = "told" =>
        LET Kept(data) == data.id = snapshot[h].id /\ data.next = snapshot[h].next
                          /\ snapshot[h].facts \subseteq data.facts IN
        /\ persisted[h] # Nil => Kept(Contents(h))
        /\ stored[h] # Nil => Kept(stored[h])
        /\ load.backend # "memory" /\ h \notin expired => stored[h] # Nil
=============================================================================
