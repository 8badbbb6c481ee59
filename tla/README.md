# PrismPipe in TLA+

PrismPipe is a Python service in three layers. A *document service* takes
`document.vectorize` messages from a stream, works on each under a durable claim and
publishes one outcome. A *computation engine* executes requests ("organisms") capability by
capability and shares the results of deterministic nodes through a cache, in memory and in
Redis. A *core pipeline* runs nodes over an envelope with deadlines and hooks. Around them
are a server, storage, tenancy, resilience helpers and analysis tools.

This directory models the parts in which the order of events decides about correctness, checks
them with TLC on small instances, and proves the most important results with TLAPS for
every value of the constants. Paths are relative to the repository; `engine` is
`src/prismpipe/engine/__init__.py`.

- [Inventory](#inventory)
- [Modules](#modules)
- [Runs](#runs)
- [Fairness](#fairness)
- [Proofs](#proofs)
- [Where the code departs from what it says](#where-the-code-departs-from-what-it-says)
- [Not modelled](#not-modelled)
- [Plan](#plan)

## Inventory

| Component | State | Operations | Hard because | Correct when |
|---|---|---|---|---|
| Document operation store (`document/operations.py`) | one SQLite row per idempotency key: status, fingerprint, attempt count, claim token, lease, outbox | claim, finish, record_retryable_failure, mark_published, increment_publication_attempt, pending_publications | several processes, leases that run out under a live owner, crashes between transactions | one owner per claim; a settled row never changes; every outcome gets published |
| Document processor (`document/processing.py`) | the claim it holds | process, _record_conflict, _settled_duplicate, the validation failure, the three ways a claim ends, cancellation | duplicates that wait for an owner who may be dead; records that are stale when used | no write without the claim; no outcome for another request |
| Document consumer (`document/processing.py`) | handler tasks, semaphore, recovery task | _consume, process_message, _publish_record, drain_pending_publications, start, stop | publication that fails after it arrived, retries, acknowledging, death in between | acknowledged implies durable; everything settles; the outbox drains |
| Redis Streams transport (`redis_streams_transport.py`) | consumer group, `_known_groups`, `_entry_ids` | publish, start, stop, _ensure_group, consume, acknowledge, retry | a group created after the first publication; acknowledgement by message id while a retry of the same id is under way; pending entries of dead consumers | at-least-once |
| Deepiri bus (`deepiri_bus.py`) | in-memory queues, lists for tests to look at | send, publish, consume, acknowledge, retry | the contract of a transport | a retry counts one delivery more |
| Computation graph (`engine`, `ComputationGraph`) | `_nodes`, `_hash_to_node`, `_outputs`, Redis keys with expiry | get_cached_result_by_key, _hydrate_from_redis, register_computation, _store_output, flight lock | three dictionaries kept in step by hand, LRU eviction, two clocks of expiry | dictionaries agree and are bounded; nothing is served past its time to live |
| Organism executor (`engine`, `OrganismExecutor`) | `_inflight` futures, the organism, its envelope | execute: lookup, coalesce, lock, compute, register, walk to the next capability | concurrent cold misses, a cross-worker lock with an expiry, cancellation | one computation per key, no lost waiter, every request ends |
| Nodes and the bounded executor (`core/node.py`) | worker threads, bounded queue, working copy of the envelope | submit, shutdown, execute_with_timeout, execute_async, commit_envelope | timeouts that race completion, abandoned threads, shutdown racing submit | a late result never reaches the envelope; every future is resolved |
| Pipeline (`core/pipeline.py`, `core/envelope.py`) | envelope, iteration count, deadline | register_node, hook, execute | deadline between every two calls, failures passed over, resuming from history | ends in bounded steps; success means it got through in time |
| Capability router (`core/router.py`) | registrations, aliases | register, unregister, alias, resolve | changes between the hops of a walk; aliases of what was unregistered | every hop runs the node the router names then |
| Time splitter (`engine`, `TimeSplitter`) | branch tasks | split, execute_branch, execute_time_split | first success wins, timeouts, cancelling losers, a cache shared with requests | the winner got through; no branch goes on after it |
| Swarm coordinator (`engine`, `swarm.py`) | worker organisms, results, error count | create_swarm, set_partition_fn, execute_swarm | more or fewer partitions than workers, fail-fast, cached failures | every item is in a result, and no worker is forgotten |
| Registry and lineage (`engine`) | organisms by id, intent and lineage | register, find_similar, spawn_child, inherit_from, get_lineage | dictionaries shared between organisms and envelopes; parents that form a cycle | an organism has the results of the steps it is past |
| Persistence (`engine`, `OrganismPersistence`) | `_persisted`, a storage backend | hibernate, wake | a backend that fails or dumps later, restarts, data shared with the live organism, expiry | what was acknowledged can be woken where it was |
| Prism engine (`engine`) | the components above | execute, execute_organism | walks that interleave when nodes are remote, a cache that answers other inputs | an answer is the end of a walk |
| Replay, parallel executor, semantic cache (`engine`) | snapshots, branches, envelopes by intent | snapshot, restore, fork, replay_from, execute_parallel, get, set | branches on copies of one envelope, merging of failures | branches do not see each other; cached envelopes are final |
| Diff, gravity, capability graph, ancestry tree, memory, cost, intent planning (`engine`, `memory_graph.py`, `intent.py`) | dictionaries | record and query | little: sequential | bookkeeping is right |
| Resilience (`resilience.py`) | breaker state, token buckets | call, record_success, record_failure, acquire, with_retry, run_with_timeout | half-open state, waiting, concurrent calls | the breaker opens and closes as stated; the bucket limits |
| Tenancy (`tenancy.py`) | usage per tenant, a context variable | check_quota, record_usage, TenantContext | check and record are two calls; nested contexts | quota respected |
| Event bus (`events.py`) | subscribers | subscribe, publish | handlers that raise | each subscriber is called |
| Storage (`storage*.py`) | files, Redis, Postgres | save, load, delete, list | partial writes | a reader never sees half a value |
| Cyrex stage store (`cyrex_stage_store.py`) | connection pool, counters | lookup, record | a writer that fails half way | no input row without its outputs |
| Document contract, vectorizer adapter (`document/vectorize.py`, `document/cyrex_vectorizer.py`) | the child organism of a call | from_payload, to_payload, execute_document_vectorize, the node, one HTTP call | one request parsed three times; results left in shared state; answers that do not fit the question | what was accepted means the same everywhere; a success is its own answer |
| Organic package, computation, dna, partial, sdk | an older form of the engine | - | - | - |
| Deepiri and benchmark nodes | none | HTTP probes, arithmetic | - | - |
| Server, configuration, logging (`server.py`) | - | routes, start-up | - | - |

How they interact. The server creates the consumer on the Redis Streams transport when
`REDIS_URL` is set (`server.py`); the consumer reads the transport, hands each message to the
processor in a task of its own, and the processor talks to the store in threads, one SQLite
transaction per call. Handlers and the recovery task of every consumer process share nothing
but the store and the streams. On the engine's side every request is a task of one event loop;
tasks of one worker share `_inflight` and the computation graph, workers share Redis.

The hazards, each with the line where it bites and the properties that would catch it, are
listed in `PROJECT.json`.

## Modules

| Module | Models |
|---|---|
| `OperationLedger` | the abstract promise of the document service: settle once, announce only the verdict |
| `DocumentOperations` | store, processor and consumer together, over a broker that redelivers what was not acknowledged |
| `RedisStreamsTransport` | the transport, the consumer group behind it, and the consumers that start, read and stop it |
| `RedisStreamsTransport_proofs` | its theorems |
| `ComputationGraph` | the cache of each worker and the Redis keys they share |
| `ComputationGraph_proofs` | its theorems |
| `SingleFlight` | the cold-miss loop of `OrganismExecutor.execute` for one lookup key |
| `SingleFlight_proofs` | its theorems |
| `NodeExecution` | the bounded executor of `core/node.py` and the calls that use it |
| `NodeExecution_proofs` | its theorems |
| `OrganismWalks` | requests, time splits and swarms walking the capability graph over one cache |
| `OrganismWalks_proofs` | its theorems |
| `EnvelopeLoops` | `Pipeline.execute`, `PrismEngine.execute`, replay, semantic cache and `ParallelExecutor` over one router |
| `EnvelopeLoops_proofs` | its theorems |
| `OrganismService` | instances, their dictionaries, the registry, and hibernation over a storage backend |
| `OrganismService_proofs` | its theorems |
| `DocumentVectorize` | one attempt at a `document.vectorize` request: contract, node, child organism, backend |
| `DocumentService_proofs` | the theorems of `DocumentOperations` and `DocumentVectorize` |
| `MC...` | small instances: which message has which key, which task is in which worker |

The modules divide the system by the question asked, and each takes from its neighbours only
what its own question needs. `DocumentOperations` lets a claim end with any outcome, and
`DocumentVectorize` says which outcome a payload gets; `RedisStreamsTransport` lets a handler end
in any way, and `DocumentOperations` says in which. `OrganismWalks` takes of the cache what is stored under a key
(`ComputationGraph` has how it gets there and away) and of single flight that a key is taken
(`SingleFlight` has Redis and cancellation); `OrganismService` takes from `OrganismWalks` that
what a step finds in the cache is right. `EnvelopeLoops` takes from `NodeExecution` the ways a
node's run can end, refusals and timeouts among them.

Operators whose comment begins with "Mutant of", or says "a mutant", are plausible mistakes in
the operator below them. Nothing uses them; they show that the properties can tell the
difference.

### DocumentOperations

The columns of `document_operations` that decisions read are functions from the idempotency
keys (`Ops`): `status` (with "absent" for no row), `fp` for the request fingerprint,
`attempts`, `token` for `claim_token`, `lease` ("live" until `lease_expires_at`),
`publication`, `pubAttempts`, `outbound`. A claim token, a fresh uuid4 in the code, is the
number of the attempt that took it. A store method is one `BEGIN IMMEDIATE` transaction,
so it is one action. `_claim_sync` has one action per outcome (`ClaimNew`,
`ClaimConflict`, `ClaimSettled`, `ClaimBusy`, `ClaimTakeover`); `_finish_sync` is `Finish`
under the three guards of its callers, `_record_retryable_sync` is `RecordRetryable`.

A handler (`_handle_and_release`) is a small state machine `pc`: claim, wait for a duplicate's
owner, work, dead-letter, publish, mark, count a failed publication, retry, acknowledge. What
it carries from one transaction to the next (`delivery`, `op`, `held`, `out`) is local and may
be out of date, as in the code. The decision of `process_message` about a retryable record is
`AfterRetryable`. A drainer is a recovery task (or the drain in `start`).

Vectorizing and resolving chunks are free choices of outcome: success, terminal failure,
retryable failure. A message is valid, invalid, or invalid without a canonical JSON form
(`Unserializable`: it raises out of the processor). Reusing a key for another request goes on
under `ConflictKeyOf`.

The broker is external: `Redeliver` delivers again what is unacknowledged. The code counts
on this ("A broker may redeliver it after the durable claim lease expires."), but neither
transport in the repository does it: the in-memory one is for tests, and that the Redis one
does not is the finding of `streams_crash`. `EventuallyAcked` is therefore a statement about a
broker as the consumer expects it; the safety properties do not depend on it. Nor does it cover two
messages of one request that keep overtaking each other's dead letter (below): the run has one
valid message, and `MaxOvertaken` is a bound.

`MaxFaults` bounds crashes, cancellations, failing publications, owners slower than their
lease, and redelivery of a message in hand.

Between the record of the last attempt's failure and the dead letter (`processing.py` lines
537-548) any other delivery of the request may claim the row, which reads like any failed
attempt, and start one more. Nothing has to fail for that: two messages with one request
can do so to each other. The variable `overtaken` counts these claims per operation, apart from
the faults (`Overtakes`), and `MaxOvertaken` bounds them only to keep runs finite: in the code they
have no bound.

`OperationLedger` is implemented with `verdict <- outbound` and `announced <- published`.

### RedisStreamsTransport

`stream`, `delivered` and `pel` are the stream, the group's last-delivered id and its pending
entries list; `group` says whether the group exists, `entryIds` is `_entry_ids`. `EnsureGroup`
is `_ensure_group` (`XGROUP CREATE` from the beginning of the stream; one that exists stays as
it is), `Publish` may happen at any time. `Read` is XREADGROUP with ">", `Dispatch` is the
dispatcher of `_consume` handing the message to a task and asking the generator for more (only
then does `consume` note the entry id, because it yields first). `RetryPublish` and
`RetryAcknowledge` are the two halves of `retry` with its await in between. `Stop` ends the
dispatcher where it is, with a message in hand or without, handlers may finish, and `Stopped`
closes the connection. What a handler does is `DocumentOperations`; here it acknowledges, retries, or dies.

There are two reasons to retry (`Retries`). Work that failed or waits for its owner is retried as
long as the delivery has attempts left. A result that could not be published is retried
whatever the delivery's attempt; only the row's `publication_attempts` (`failures`) ends that,
and the recovery task counts there too (`PublicationFails`). So a stream can carry attempts above
`max_attempts`: `TypeOK` bounds them by that and the failed publications (`Attempts`).

### ComputationGraph

`nodes`, `index` and `outputs` are `_nodes`, `_hash_to_node` and `_outputs` of each worker;
`outputs` is a sequence from least to most recently used. `StoreOutput` is `_store_output`
with its eviction. A call that reaches Redis is two actions with the rest of the world in
between, up to `MaxDelay` seconds; the worker itself is blocked (`wire`). `Hydrate` inherits
the remaining time to live of the Redis key. A result is known by when it was computed
(`born`) and whether it succeeded. A node id is a fresh uuid4 in the code, so it is one that
nobody knows; `Without` takes the entry of a node out of the dictionary by its position.
`persist_computation_to_redis` and `persist_redis=False`
have no caller.

### SingleFlight

One lookup key, many requests in several workers. `pc` follows the loop: look up ("loop"), await
another task's future ("await"), try the Redis lock ("lock"), poll for the lock owner's result
("poll"), go on after two seconds ("steal"), run the node ("compute"), release the lock
("release"). There is no await between the lookup and the registration of the future, so
these are one action; every await is a boundary. `CancelWaiter` is what asyncio does to a
future that is awaited without `shield`: it is cancelled, and with it all that await it.

### NodeExecution

A call is one use of `execute_with_timeout` or `execute_async`; `pc` is its caller, `fut` its
`Future` (or task), `queue` is `_work`, `thread` the item each thread has taken, `gate` what
`_submit_lock` and `_shutdown` let through. `Shutdown`, `Drain`, `Drained` are the three parts of
`shutdown`, because threads take work while it empties the queue. `env` and `copy` are the
caller's envelope and the deep copy the node works on, reduced to who wrote them last.
Cancelling the asyncio future of pooled work takes a turn of the event loop to reach the
executor (`chained`, `ChainCancel`). `Workloads` says which calls are made together.

### OrganismWalks

`behaviour` fixes what the nodes do, the same for everybody; `facts`, `next`, `hops` and
`status` are an organism's state, `_next_capability`, the local `hops` and `_state`. `Restore`,
`Exhaust`, `RunNode` and `NotFound` are the turns of the loop that `OrganismExecutor.execute` and
`TimeSplitter.execute_branch` have in common; `revived` is history: the hops for which an organism
restored what a node that failed or terminated had left. Requests register their key in `inflight` (`Own`,
`Join`), branches do not. `Win`, `Lose` and `BranchTimeout` are `execute_time_split`, where
winning ends the other branches in the same step, because cancellation reaches them before
anything else runs. `ExecuteSwarm` is one step, because `execute_swarm` awaits nothing; in it
`Workers` goes from worker to worker with the cache, the results and the error count. `Opens` are
the items that make a new partition (a new key of `defaultdict`), `Sharing` is what gets into the
same one, and `Partitions` has them in that order. A list of items is the set of them.

### EnvelopeLoops

One envelope per loop: `setup.loop` says whether it goes through the pipeline, the engine, a
replay (`replay_from`, `fork`) or parallel branches. The pipeline's loop has an action for each
look at the clock (`Iterate`, `RunNode`, `AfterHook`, `LeaveLoop`, `Conclude`), with
`DeadlinePasses` between any two; `RefuseNode` is an answer of the executor without a run. The
engine's hops are actions of their own, because remote nodes are awaited. `ChangeRouter` is
`register`, `unregister` and `alias`. `trouble` and `late` are history: what has gone wrong.
A parallel branch is one step; where it is after each of its hops is the function `Branch`, one
`BranchHop` after the other. `Route` is where nodes and plan lead, hop by hop, without a loop
around them: what `FollowsRouting` compares with.

### OrganismService

Dictionaries are shared in this code, on purpose and otherwise: by an organism and the envelope
of its execution, by an organism and what was hibernated of it, by that and what is woken from
it. `heap` holds dictionaries, reduced to the steps whose results are in them, and every
instance, execution and hibernation refers to a cell of it. There are two more cells than there
can be references, so a new dictionary is always one nobody refers to. An action goes from one await
to the next. `Hibernate` takes the data, `Write` dumps it (for Postgres after waiting for the
pool, which two first users create twice), `SaveReturns` and `SaveFails` answer. `Restart` loses
what is in memory. `raced` is history: one instance has been in two executions.

### DocumentVectorize

A field of a payload is one of few values: missing, null, wrong, or good. `Valid` is
`from_payload` and its checks, `RequestOf` the request it makes, `ToPayload` the canonical
payload, `Acceptable` the node's check of the backend's answer, `OutputOf` the output. The
processor's way in loads stored chunks first (`Load`); `execute_document_vectorize` runs the same
node in a child organism, which starts from its parent's state (`ParentState`) and may find an earlier
result in the computation graph (`Again`, `Restored`). `Payloads`, `Chunks`, `Artifacts` and so on are
the shapes of what may come in, valid or not, over `Strings`, the values of a field that is no
number. The names of state and steps differ from those of `DocumentOperations` (`AttemptInit`,
`step`, ...) so that one module can prove about both.

## Runs

| Run | Instance | Shows |
|---|---|---|
| `documents` | one request delivered as two messages, or two requests (one invalid) under one key; two handlers, one recovery task, two attempts, up to two faults, or one and a claim that overtakes a dead letter | types, `AckedIsDurable`, `PublishedIsTheOutcome`, `OneOwner`, `AttemptBudget`, `OutcomeIsFinal`, refinement of `OperationLedger` |
| `documents_liveness` | a message that can never be recorded next to a valid one, one fault, one overtaking claim | `EventuallyAcked`, `OutboxDrains` |
| `streams_delivery` | one message, two consumers with two slots, three attempts at the work and three at the publication, three stops or failures | the bound on attempts (`TypeOK`), `NothingVanishes`, `HandedOutOnce`, `SettledOrStranded` |
| `streams_crash` | one message, two consumers, one fault | violated: `EveryMessageSettles` |
| `cache` | one worker with two keys and two entries, or two workers with one key and one entry; four node ids, three seconds | `CacheConsistent`, `NeverStale`, `LeavesTogether` |
| `flight` | three requests in two workers, each with or without Redis; Redis errors, expiry, cancellation | `FlightTable`, `OneComputePerWorker`, `EndsUnlessCancelled` |
| `flight_stranded` | two requests in one worker, cancellation | violated: `EveryRequestEnds` |
| `node_execution` | pairs of a synchronous, two asynchronous calls (one without a timeout), and a coroutine with an inline call; two threads, one place in the queue, one node that never returns, shutdown at any moment | `Isolated`, `NothingStranded`, `NoLateStart`, `NeverLate`, `EveryCallReturns` |
| `walks` | two capabilities with every behaviour (circles, failures, unknown targets), three hops; two requests with one input or two, a request next to a split of two branches or next to a swarm of two workers, and swarms by themselves | `SharedIsPure`, `SplitDecided`, `SwarmCovers`, `EveryWalkEnds` |
| `envelopes` | two capabilities and an alias, three iterations, two changes of the router; one envelope in the pipeline under every combination of options, two engine requests and a replay, or two parallel branches | `PipelineVerdict`, `FollowsRouting`, `AnswersAreWalks` |
| `service` | two steps, three instances; hibernation in memory, over Redis and over Postgres, two executions at a time, inheritance and spawning, restarts | `StepsKept`, `HibernationKept` |
| `vectorize` | a good payload and what differs from it in one group of fields; eight vectors by dimensions and finiteness of answers; five kinds of stored chunk | `AttemptVerdict`, `NormalFormKept`, `AnswersRequest` |

What some properties mean. `AttemptBudget`: an attempt beyond `max_attempts` takes a failure or a
claim that overtook the dead letter, and as long as nothing has failed the latter takes a second
message with the same request; so a request sent once keeps `max_attempts` while nothing
fails. `SharedIsPure`: whatever an organism computed, waited for or restored, it is where its own hops
lead, with the state they leave (keys a node deletes stay, because restoring only adds), and it goes
on, completes or fails as it would alone and without a cache. Alone a node that fails or
terminates the envelope stops the walk (`Stops`). The code restores what such a node left like any
other result, and the property excepts exactly these hops, by name (`revived`), for the organism that
restored them: its remaining hops, and its end, must still be its own. `PipelineVerdict`: success means done in time, within the
iterations, through nodes that exist and did not fail, with the exceptions the code makes (an
exception without a message; `continue_on_error`). `FollowsRouting`: the nodes that ran are
those that the nodes before them lead to, once each. `StepsKept`: an organism that is past a
step has its result in the dictionary it goes on with, unless one instance was in two
executions, which nothing in the code prevents and which does lose results. `HibernationKept`:
what a caller was told to be hibernated can be woken, from memory or storage, until Redis
drops it. `NormalFormKept`: what is recorded, claimed and sent on is the request that was accepted.

Why the bounds are enough. *Documents*: two handlers are an owner and a rival, and a third
agent, the recovery task, competes for the outbox; two attempts are the smallest budget in
which a retry and its exhaustion both happen; two faults cover a failure during the recovery
from another (an owner outlives its lease and the one who took over dies; two failed
publications use up `max_attempts`); one overtaking claim is the shortest way past the budget, with nothing failing or
with one failure before or after it (`Mishaps`). The safety properties are proved without any bound, so
this run is the sanity check of the proofs. *Streams*: two slots of one consumer are needed
for a retry to be read back while its predecessor is still being acknowledged, two consumers
for one to die and one to go on, or for one to find the group the other made; with three
attempts the work can use some and the publication go on beyond `max_attempts`. The deliveries of
one message already contend for slots and for the one entry id noted for it, and the safety
properties are proved for any number of messages. *Cache*: two
entries and two keys make every eviction a choice between keys, and expiry with late Redis
answers produces two nodes under one key; two workers are enough for a copy of a copy of a
copy, since the copies alternate. *Flight*: a lock owner, a waiter in its worker and a
competitor in the other. *Nodes*: one place in the queue makes it full with two calls, two
threads are a stuck one and one that goes on; the safety properties are proved without a
bound. *Walks*: three hops let a circle of two capabilities close before the limit; a winner and
a loser are two branches; three items and two workers give parts that are too many, too few and
uneven; they are proved for any number. *Envelopes*: a node can route
to itself by its alias and be renamed in between; in three iterations a walk over two
capabilities returns to where it was before the limit stops it. *Service*: three
instances are an organism, one woken from it and a parent. *Vectorize*: the checks of the
fields are independent of each other but for those named in one group, and the groups are
enumerated in full; the properties are proved for payloads of any length.

Deadlock checking is off where the system may come to rest: all messages settled, all
requests done. The cache runs until the bound on time, where a worker can still look things up.

## Fairness

- `DocumentOperations!Fairness`: weak fairness of every handler and drainer step, because the
  event loop runs every ready task, store calls return or raise, the wait for a duplicate's
  owner has a deadline and the recovery task is a loop with a sleep. Strong fairness of
  delivery per message, because the stream is read in order: a message that comes back for
  ever cannot overtake another one for ever. Weak fairness of lease expiry only when the owner
  is not at work (time goes on; an owner slower than its lease is a fault). Weak fairness of
  redelivery of what nobody has in hand, the assumption about the broker. No fault is fair,
  and none is assumed to happen.
- `RedisStreamsTransport!FairSpec`: the dispatcher reads and dispatches, handlers get done.
- `SingleFlight!FairSpec`: every task takes its next step (Redis answers or fails, at most 100
  polls, a node returns or raises) and the lock key expires. Nothing is assumed of results
  expiring or of cancellation.
- `NodeExecution!FairSpec`: callers and threads run, timeouts elapse, nodes not in `Stuck`
  return, a shutdown that began goes through. Shutdown and cancellation need never happen.
- `OrganismWalks!FairSpec`: every task of the event loop takes its next step (nodes return or
  raise), and a split takes notice of branches that are done. Expiry and time-outs need never
  happen. `EnvelopeLoops`, `OrganismService` and `DocumentVectorize` are checked for safety only.

## Proofs

Checked by TLAPS for every value of the constants under the assumptions named in the modules.

**DocumentService_proofs**, first part, from `ConstantsAssumption`: a conflict key is no request key and
determines the fingerprint (its hash is part of the key), handlers are not drainers, the
limits are positive. `InductiveInvariant`: `Spec => []IInv`, by one lemma per conjunct and in
it one step per action. The safety properties are not inductive by themselves:

- `AckedIsDurable` needs to know what a handler in its "ack" step knows: its row is settled and
  stands for its request (`HandlerKnows`). That stays true while others run because rows are
  never deleted and never change their request, and because settled rows stay settled;
- that settled rows stay settled needs `RowConsistent`: a settled row has no token, so no late
  owner passes the fence of `_finish_sync`;
- `OneOwner` needs `TokensAreAttempts` and the bound on tokens in hand: a new token is larger
  than every token a handler still has;
- `PublishedIsTheOutcome` needs `OutboundIsOutcome`: whatever a handler or drainer carries is
  still what the row holds when it publishes it;
- `AttemptBudget` needs `BudgetIsHeld`: an operation whose budget is used up is in the hands
  of its owner or of a handler that will dead-letter it; the first is lost by a fault only, the
  second by a fault or an overtaking claim. That the latter takes a second message needs
  `OneDelivery`: unless something has failed a message waits or is in one handler's hands, so who
  overtakes has another message than who is overtaken, and both are of the request the row
  records (`OvertakenIsClaimed`, and rows never change their request).

From `IInv` follow `TypeCorrect`, `AckSafety`, `PublicationSafety`, `Fencing` and
`BoundedAttempts`; `Finality` (an action property) and `Refinement` (every step of the service
settles, announces or stutters in `OperationLedger`) are proved under it.

Second part, from `VectorizeAssumption` (the requests, replies and stored contents a run may have
are of the shapes named in the module, and a call of the processor has no parent state and no
sharing): `AttemptVerdictHolds`, `NormalFormHolds` and `AnswersRequestHolds`, for payloads with any
number of chunks, artifacts and storage references, any backend and any stored content.

- The core is the round trip (`RoundTrip`). `Normalized(p, texts)` is what a valid payload `p` is read
  as once `texts` are in its chunks, and `Plain(p, texts)` is that request written again. `PlainStable`:
  reading `Plain` gives the request it was written of. `PlainValid`: it passes every check of
  `from_payload` again, the relations among chunks, aliases and artifacts included, as long as no
  loaded text is blank; that condition is the one departure the run found, and the proof shows that it is
  the only one. `IdentityKept`: the idempotency key is the same whichever message brings it, because
  a valid payload has a route.
- `AttemptInv` is what makes the properties inductive. `RequestKept`: the request is the
  one of the payload but for texts that were loaded, so what the node reads for the second time
  is `Plain` of what the processor read. `EntryKept`: until an attempt ends, the envelope holds what
  it started with, so whatever interrupts the node leaves only that. `SharedKept`: unless
  the parent came with an output, what is in the computation graph is an answer to this call
  or a failure.
- `ReturnsKeep` treats the ways an attempt may end in the node once (`MayReturn`); each action
  that ends one shows that its way is one of them. `AcceptableAnswers`: an answer that passes
  `_validate_backend_result` answers the payload, not only the request made of it.

**RedisStreamsTransport_proofs** from `TransportAssumption` (finitely many messages; slots and
attempts are positive): `TypeCorrect`, `NothingLost` (`NothingVanishes`) and `NoDoubleHandling`
(`HandedOutOnce`), for any number of messages, consumers, slots and attempts, with stops and
crashes at any time. The bound on attempts in `TypeOK` is inductive because a delivery whose
publication has just failed is still below it (`AttemptsCounted`, `NextAttempt`). `NothingVanishes` is not inductive: `XACK` takes away the entry the consumer
noted last for the message, not always the one its handler works on, so that something is left
has to be counted. `Covered` says that of every message published and not settled there are
more entries outstanding than retries about to acknowledge one. A retry is one step of the
count because no entry has two handlers (`HandsApart`); what it acknowledges is an entry of its
own message, and whoever acknowledges after handling has settled it (`EntriesNoted`). The
group exists before anything is read (`StreamTyped`), so creating it never sets `delivered` back.

**SingleFlight_proofs** from `FlightAssumption`: `TypeCorrect`, `NoLostWaiter` (`FlightTable`) and `Coalescing`
(`OneComputePerWorker`), for any number of workers and requests, with every failure and
cancellation enabled. `OneComputePerWorker` is strengthened by `LocalComputeIsRegistered`:
without Redis a task is at the node only while its own future is registered in its worker,
and there is one registration per worker.

**NodeExecution_proofs** from `ExecutionAssumption` (which calls have a timeout and which nodes
may hang; the queue has at least one place): `Isolation`, `NoStrandedWork`, `NoLateWork` from one
inductive invariant, and `NoLateCommit`. `Isolated` needs `CallsConsistent`: an outcome is
committed only from a finished future, which no thread writes to again, and a call without a
result has not committed. `NoLateStart` needs that a call not yet begun has no future.

**OrganismWalks_proofs** from `WalksAssumption` (requests and branches are different organisms;
the workloads name some of them): `FirstSuccessWins` (`SplitDecided`), for any number of branches, any
nodes and any hop limit. It is not inductive by itself: that the winner had nowhere to go on to
needs `DoneIsReached` (a branch that is done before the decision was terminated or is at the
end of its route), which in turn needs `EndsTerminated`; that it stays decided needs
`DecidedIsDone`. The proof goes by `Moves`: every step an organism takes by itself touches
only that organism, starts before its end, and ends it only for a reason (`StepMoves`), so the
invariant has to be checked once for moves, for `Win` and for `Lose`.

`SharedResults` (`SharedIsPure`) and `SwarmComplete` (`SwarmCovers`) follow from `SharingInvariant`.
It has that whatever is cached for a state is what the node makes of that state (`CachePure`), whoever
put it there, and that an organism at the top of its loop is where its hops led it (`Where`), within
the limit, past hops that succeeded or whose failure it restored (`Under`). Then restoring and running
are the same hop (`HopLeads`), up to the keys the node removed; a hop that is run and does not
succeed ends the walk, one that is restored goes on and is recorded (`HopPast`); and being stopped
anywhere leaves the organism between two hops, for a reason it would have alone (`StoppedPlaced`).
`Told` ties what requests report to how their organism ended. `SwarmCovers` is about the one
step that `ExecuteSwarm` is. `PartitionsFacts`: the partitions have all the items, each is in one, and
round robin makes no more than there are workers (counting up to it numbers each item that opens
one, `Numbering`). `WorkedKeeps`: after each worker's turn every result comes from the part of a
worker who had a turn, no two have an item in common, and unless there was an error none is
missing. `WalksAssumption` says for this that inputs are no capabilities (what nodes add to the
state is not an item). That no item is in two results is claimed only of data in which none is
there twice.

**ComputationGraph_proofs** from `CacheAssumption` ("no node" is no node id, a bound on the entries
and a negative time to live are positive): `Consistency` (`CacheConsistent`), `Freshness` (`NeverStale`) and
`LeaveTogether` (`LeavesTogether`), for any number of workers, keys and entries, any times to live,
any delay of Redis, with restarts at any time. The dictionaries are three and kept in step by
hand, so the invariant says of each what the others have: the outputs are those of known nodes, one
each, within the bound (`OutputsKept`), and the index leads to them (`IndexKept`). That is not
enough, because a worker that waits for Redis comes back with a node that may already be known:
`OneKeyPerNode` says that a node stands for one key wherever it is, in a worker, in Redis or on the
way between them, and `HydratesMissing` that the key is still missing when the answer comes.
`NeverStale` needs to know how late each copy may be: what is on its way (`WireInTime`) bounds what
Redis has (`RedisInTime`) and what a worker takes from it (`OutputsInTime`), each with the delays that
can have come before it.

**EnvelopeLoops_proofs** from `LoopsAssumption` (an alias is not itself a capability and stands for
one; "nowhere" names neither): `Typing`, `Verdict` (`PipelineVerdict`), `Routing` (`FollowsRouting`) and
`Answers` (`AnswersAreWalks`), for any envelopes, nodes, aliases, plans and limits, with a router that
changes at any time. `VerdictKept` says how the flags an envelope carries (terminated, error) stand for
the trouble its loop has seen, including the moment between a node's failure and the hook after it,
when only the loop knows of it. `RouteKept` says that the envelope has been where `Route` has been
after as many hops and that its next step is the route's; `BranchesKept` says the same of parallel
branches, over as many hops as the one step of `execute_parallel` takes. `StoredKept`: the semantic
cache has nothing but ended walks that went through some node.

**OrganismService_proofs** from `ServiceAssumption` (instances are numbers and finitely many, as are
hibernations and tasks: they bound how many dictionaries are referred to): `Typing`, `ResultsKept`
(`StepsKept`) and `HibernatedIsKept` (`HibernationKept`), for any organisms, requests, hibernations and
backends, pipelines of any length, and restarts at any time. `FreshCell` counts references: there is
always a dictionary that nobody refers to, so what is written to a new one is seen by nobody
else. `SaveKept` follows what was hibernated through memory, the copy being written, storage and the
copy being woken: because results are only added to a dictionary, none of them is ever behind what
the caller was told. `RestoresKeeps` treats once the two places at which a waiting
execution finds its step in the cache, after a future and after polling. `Complete` holds as long as no instance is in two executions: then the
dictionary an execution works on has the results of all the steps its instance is past, also
while the node is away with it, and what is hibernated, inherited or woken has them too.

Functions defined step by step (`Led`, `Workers`, `Route`, `Branch`) are proved about without an
induction rule. `Stepwise` and `Throughout` take the set of the numbers of steps that violate a claim
and its least element (`LeastNumber`, from the well-foundedness of the natural numbers), and show
that there is none.

**Only model-checked**: the liveness properties of the runs, because fairness and ENABLED are out of
the prover's reach. Every invariant and every other action property that a passing run checks is
stated by a theorem.

## Where the code departs from what it says

- `streams_crash`: nothing reads or claims the pending entries of a consumer that died or was
  stopped with a message fetched (`claim_idle_ms` is stored and not used), so delivery is at
  most once across a crash or a stop.
- `flight_stranded`: a cancelled owner leaves its future registered and unresolved; all later
  requests of that worker for the key hang.

Others were met while modelling, follow from the code, and have no run of their own.

*Cache and single flight.* An entry that expires on lookup leaves its node in `_nodes`, which grows by one for
each ("evicting only `_outputs` would leave the other two dicts growing unbounded", `engine`
line 225). Cancelling one waiter of a shared future cancels the future, and with it all that
await it (`CancelWaiter`). `release_flight_lock` deletes the lock whoever holds it, so an owner
that outlives its lock frees its successor's; the cost is a second run of the node, and
`EndsUnlessCancelled` shows that nobody is blocked. `retry` looks the entry id up after
publishing; if the new entry was read by then, the new delivery gets acknowledged and the old one
stays pending (`NothingVanishes` shows that the message is not lost by that).

*Walks.* A cached failure is restored like a success, so the second request goes on where the
first one was terminated, and may complete where by itself it would have failed ("identical
computations are computed once and reused", `README.md` line 79): the exception in
`SharedIsPure`. A swarm worker's cached failure is a result when the swarm runs
again. With `fail_fast` an error is counted twice. Partitions beyond the number of workers are
given to nobody. Keys a node deletes stay after a warm restore, because restoring merges.

*Envelopes.* `PrismEngine.execute` and `ParallelExecutor` have no hop limit, although "every
routing loop needs a bound" (`engine` line 44), and ignore failures that a node returns. A
pipeline whose node raises an exception without a message reports success. A stale error is
still there after a continued failure. The semantic cache answers requests with another input,
and replays. An alias outlives the capability it stands for.

*Service.* Two executions of one instance lose a step (`raced` in `StepsKept`). Hibernation
loses the plan and the metadata. Concurrent first users of `PostgresStorage` create two pools.
`inherit_from_similar` can make two organisms each other's parent, after which `get_lineage`
does not return.

*Documents.* A request that is sent twice can be attempted more than `max_attempts` times although
nothing but the attempts themselves failed, and without a limit (`AttemptBudget`). A result that
cannot be published is redelivered with attempts above `max_attempts`. A stored chunk of nothing but white space passes the processor and is refused by
the node. An integer too large for a float, or metadata that is not finite, raises out of
the processor with nothing recorded. An invalid payload that has the identity of a later corrected
one makes the corrected one a conflict. A repeated call with shared computations that finds a failure
succeeds with the output its parent's state had.

## Not modelled

Hash functions and canonical JSON behind the keys, error texts, statistics and metrics, HTTP,
mutation records, telemetry, and the diff, gravity, cost and capability-graph bookkeeping. A
recovery task or dispatcher that ends for good on an unexpected exception is not distinguished
from one that starts again. The time an event loop needs between cancelling a branch and its
end is no step of the model. The history of an envelope is the nodes that ran; its state is
left out of `EnvelopeLoops`, and inputs are left out of `OrganismService`.

`get_lineage` and `AncestryTree` are loops within one step, which a model of steps cannot show
to end or not. Resilience, tenancy, the event bus and the Cyrex stage store are used by no path
the models cover (the first two by nothing in the repository); the organic package is an older
form of the engine; the rest is configuration and demonstration. `PROJECT.json` gives the
reason for each component with status `not_modelled`.

## Plan

1. An abstract at-least-once queue, with `RedisStreamsTransport` shown to implement it up to
   the loss of a consumer; an abstract cache that never serves stale results, implemented by
   `ComputationGraph`.
2. `ConsumerLifecycle`: recovery tasks and dispatchers that die, start called again.
3. The Cyrex stage store, should a node come to use it.
