------------------------- MODULE ComputationGraph -------------------------
(***************************************************************************)
(* The shared-computation cache of the engine (ComputationGraph in         *)
(* engine/__init__.py): three in-process dictionaries per worker, which    *)
(* must agree with each other, in front of one Redis that all workers      *)
(* share and whose keys expire on their own clock.                         *)
(*                                                                         *)
(* A worker calls the cache from its event loop, synchronously: while it   *)
(* talks to Redis it does nothing else, but the other workers and the      *)
(* clock go on.  So a call that reaches Redis is two actions, what happens *)
(* up to the round trip and what happens after it.  A Redis that is not    *)
(* configured or not reachable is one whose calls all fail.                *)
(*                                                                         *)
(* Abstracted: the cached state and next capability (a result is known by  *)
(* when it was computed and whether it succeeded), hit and latency         *)
(* statistics, parent links, sub-second time.                              *)
(***************************************************************************)
EXTENDS Integers, SequencesExt

CONSTANTS
    Workers,      \* processes, each with its own ComputationGraph
    Keys,         \* lookup keys, capability:input-hash
    Nodes,        \* node ids; a new one is drawn for every new entry
    TtlOf,        \* seconds a success under a key may be reused; with 0 Redis
                  \* keeps it for ever and memory does not keep it
    NegativeTtl,  \* seconds a failure may be reused
    MaxDelay,     \* bound: seconds a Redis round trip may take
    Loads,        \* bound: COMPUTATION_CACHE_MAX_ENTRIES, the workers that get
                  \* requests and the keys they ask for; a run is under one
    MaxTime       \* bound: seconds of a run

NoNode == "none"
Never  == -1

ASSUME CacheAssumption ==
    /\ NoNode \notin Nodes
    /\ TtlOf \in [Keys -> Nat]
    /\ NegativeTtl \in Nat \ {0}
    /\ MaxDelay \in Nat
    /\ Loads \subseteq [maxEntries : Nat \ {0}, workers : SUBSET Workers,
                     keys : SUBSET Keys]
    /\ MaxTime \in Nat

VARIABLES
    load,     \* the load of this run
    nodes,    \* _nodes of each worker: the node ids it knows
    index,    \* _hash_to_node of each worker
    outputs,  \* _outputs of each worker, least recently used first
    redis,    \* what Redis holds under each key
    wire,     \* the Redis call each worker is blocked in
    now

vars == <<load, nodes, index, outputs, redis, wire, now>>

Times  == Nat \cup {Never}
Result == [node : Nodes, ok : BOOLEAN, born : Nat, expires : Times]
Entry  == [node : Nodes, key : Keys, ok : BOOLEAN, born : Nat, expires : Times]
Nil    == [node |-> NoNode]
Idle   == [call |-> "idle", age |-> 0]
Busy   == [call : {"set", "hydrate"}, age : 0..MaxDelay, key : Keys,
           res : [node : Nodes, ok : BOOLEAN, born : Nat], ttl : Times]

\* Node identities in use anywhere: uuid4 never draws one of them again.
KnownNodes ==
    (UNION {nodes[w] : w \in Workers})
      \cup {redis[k].node : k \in Keys}
      \cup {wire[w].res.node : w \in {v \in Workers : wire[v] # Idle}}

TypeOK ==
    /\ load \in Loads
    /\ nodes \in [Workers -> SUBSET Nodes]
    /\ index \in [Workers -> [Keys -> Nodes \cup {NoNode}]]
    /\ outputs \in [Workers -> Seq(Entry)]
    /\ redis \in [Keys -> Result \cup {Nil}]
    /\ wire \in [Workers -> Busy \cup {Idle}]
    /\ now \in 0..MaxTime

Init ==
    /\ load \in Loads
    /\ nodes = [w \in Workers |-> {}]
    /\ index = [w \in Workers |-> [k \in Keys |-> NoNode]]
    /\ outputs = [w \in Workers |-> <<>>]
    /\ redis = [k \in Keys |-> Nil]
    /\ wire = [w \in Workers |-> Idle]
    /\ now = 0

-----------------------------------------------------------------------------
\* ttl_for: failures are kept for a short time, at least a second.
TtlFor(k, ok) == IF ok THEN TtlOf[k] ELSE NegativeTtl

Expired(e) == e.expires # Never /\ now >= e.expires

\* s without the output of node n, if it has one (it never has two).
Without(s, n) ==
    IF \E i \in DOMAIN s : s[i].node = n
    THEN RemoveAt(s, CHOOSE i \in DOMAIN s : s[i].node = n) ELSE s

EntryOf(w, n) == CHOOSE e \in {outputs[w][i] : i \in DOMAIN outputs[w]} : e.node = n

\* The key is indexed and its entry is still good.
Cached(w, k) == index[w][k] # NoNode /\ ~Expired(EntryOf(w, index[w][k]))

\* How many entries at the front of s are beyond the bound.
Overflow(s) == IF Len(s) > load.maxEntries THEN Len(s) - load.maxEntries ELSE 0

\* The index without the rows of the entries in gone.  Mutants: the index is
\* forgotten; the row of the key is dropped whichever entry it leads to.
KeepRows(idx, gone)    == idx
DropKeyRows(idx, gone) ==
    [k \in Keys |-> IF \E g \in gone : g.key = k THEN NoNode ELSE idx[k]]
DropRows(idx, gone) ==
    [k \in Keys |-> IF \E g \in gone : g.key = k /\ g.node = idx[k]
                    THEN NoNode ELSE idx[k]]

(***************************************************************************)
(* _store_output: write the entry as the most recently used one, then      *)
(* evict from the other end down to the bound, together with the index    *)
(* row (if it is still this entry's) and the node.  nds and idx are the    *)
(* worker's _nodes and _hash_to_node at the call.                          *)
(***************************************************************************)
StoreOutput(w, e, nds, idx) ==
    LET s    == Append(Without(outputs[w], e.node), e)
        cut  == Overflow(s)
        gone == {s[i] : i \in 1..cut} IN
    /\ outputs' = [outputs EXCEPT ![w] = SubSeq(s, cut + 1, Len(s))]
    /\ nodes' = [nodes EXCEPT ![w] = nds \ {g.node : g \in gone}]
    /\ index' = [index EXCEPT ![w] = DropRows(idx, gone)]

-----------------------------------------------------------------------------
(***************************************************************************)
(* get_cached_result_by_key                                                *)
(***************************************************************************)
LookupHit(w, k) ==
    /\ wire[w] = Idle /\ Cached(w, k)
    /\ LET e == EntryOf(w, index[w][k]) IN
       outputs' = [outputs EXCEPT ![w] = Append(Without(@, e.node), e)]
    /\ UNCHANGED <<load, nodes, index, redis, wire, now>>

\* What an unsuccessful look into memory does: an expired entry is dropped
\* from the index and the outputs, but stays in _nodes.
ForgetExpired(w, k) ==
    /\ index' = [index EXCEPT ![w][k] = NoNode]
    /\ outputs' = [outputs EXCEPT ![w] = Without(@, index[w][k])]
    /\ UNCHANGED <<nodes, now>>

\* Redis has nothing either, or fails.
LookupMiss(w, k) ==
    /\ wire[w] = Idle /\ ~Cached(w, k)
    /\ ForgetExpired(w, k)
    /\ UNCHANGED <<load, redis, wire>>

\* There is a value and its time is not up.
Readable(r) == r # Nil /\ ~Expired(r)

\* GET and TTL in one round trip.
LookupRemote(w, k) ==
    LET r == redis[k] IN
    /\ wire[w] = Idle /\ ~Cached(w, k)
    /\ Readable(r)
    /\ ForgetExpired(w, k)
    /\ wire' = [wire EXCEPT ![w] =
          [call |-> "hydrate", age |-> 0, key |-> k,
           res |-> [node |-> r.node, ok |-> r.ok, born |-> r.born],
           ttl |-> IF r.expires = Never THEN Never ELSE r.expires - now]]
    /\ UNCHANGED <<load, redis>>

\* When a copy read with ttl seconds to go expires; a mutant that starts the
\* time to live of the key afresh.
ExpiryAfresh(k, ttl) == IF ttl = Never THEN Never ELSE now + TtlOf[k]
Expiry(k, ttl)       == IF ttl = Never THEN Never ELSE now + ttl

\* _hydrate_from_redis, after the round trip: the copy inherits what was left
\* of the Redis expiry.  A node the worker knows already is not indexed again.
Hydrate(w) ==
    LET c == wire[w]
        n == c.res.node
        e == [node |-> n, key |-> c.key, ok |-> c.res.ok, born |-> c.res.born,
              expires |-> Expiry(c.key, c.ttl)] IN
    /\ c.call = "hydrate"
    /\ StoreOutput(w, e, nodes[w] \cup {n},
                   IF n \in nodes[w] THEN index[w]
                                     ELSE [index[w] EXCEPT ![c.key] = n])
    /\ wire' = [wire EXCEPT ![w] = Idle]
    /\ UNCHANGED <<load, redis, now>>

-----------------------------------------------------------------------------
(***************************************************************************)
(* register_computation                                                    *)
(***************************************************************************)
\* The entry's node: the indexed one, or a new one.
Register(w, k, ok, n) ==
    LET ttl == TtlFor(k, ok) IN
    /\ wire[w] = Idle
    /\ IF index[w][k] # NoNode THEN n = index[w][k] ELSE n \notin KnownNodes
    /\ StoreOutput(w, [node |-> n, key |-> k, ok |-> ok, born |-> now,
                       expires |-> now + ttl],
                   nodes[w] \cup {n}, [index[w] EXCEPT ![k] = n])
    /\ wire' = [wire EXCEPT ![w] =
          [call |-> "set", age |-> 0, key |-> k,
           res |-> [node |-> n, ok |-> ok, born |-> now],
           ttl |-> IF ttl > 0 THEN ttl ELSE Never]]
    /\ UNCHANGED <<load, redis, now>>

\* _store_redis: the expiry counts from when Redis gets the command.
StoreRedis(w) ==
    LET c == wire[w] IN
    /\ c.call = "set"
    /\ redis' = [redis EXCEPT ![c.key] =
          [node |-> c.res.node, ok |-> c.res.ok, born |-> c.res.born,
           expires |-> IF c.ttl = Never THEN Never ELSE now + c.ttl]]
    /\ wire' = [wire EXCEPT ![w] = Idle]
    /\ UNCHANGED <<load, nodes, index, outputs, now>>

StoreRedisFails(w) ==
    /\ wire[w].call = "set"
    /\ wire' = [wire EXCEPT ![w] = Idle]
    /\ UNCHANGED <<load, nodes, index, outputs, redis, now>>

-----------------------------------------------------------------------------
\* The process is replaced by a new one with an empty cache.
Restart(w) ==
    /\ nodes' = [nodes EXCEPT ![w] = {}]
    /\ index' = [index EXCEPT ![w] = [k \in Keys |-> NoNode]]
    /\ outputs' = [outputs EXCEPT ![w] = <<>>]
    /\ wire' = [wire EXCEPT ![w] = Idle]
    /\ UNCHANGED <<load, redis, now>>

Tick ==
    /\ now < MaxTime
    /\ \A w \in Workers : wire[w] = Idle \/ wire[w].age < MaxDelay
    /\ now' = now + 1
    /\ wire' = [w \in Workers |->
          IF wire[w] = Idle THEN Idle ELSE [wire[w] EXCEPT !.age = @ + 1]]
    /\ UNCHANGED <<load, nodes, index, outputs, redis>>

Next ==
    \/ \E w \in load.workers :
          \/ \E k \in load.keys :
                \/ LookupHit(w, k) \/ LookupMiss(w, k) \/ LookupRemote(w, k)
                \/ \E ok \in BOOLEAN, n \in Nodes : Register(w, k, ok, n)
          \/ Hydrate(w) \/ StoreRedis(w) \/ StoreRedisFails(w)
          \/ Restart(w)
    \/ Tick

Spec == Init /\ [][Next]_vars

-----------------------------------------------------------------------------
(***************************************************************************)
(* Properties.                                                             *)
(***************************************************************************)
OutputNodes(w) == {outputs[w][i].node : i \in DOMAIN outputs[w]}

\* The three dictionaries agree: an indexed key leads to a node the worker
\* knows (self._nodes[node_id] never raises KeyError) and to an output stored
\* for that very key, whatever was evicted, expired or hydrated before.
IndexConsistent ==
    \A w \in Workers, k \in Keys : index[w][k] # NoNode =>
        /\ index[w][k] \in nodes[w]
        /\ \E i \in DOMAIN outputs[w] :
              outputs[w][i].node = index[w][k] /\ outputs[w][i].key = k

\* The memory cache keeps to its bound, with one output per node.
OutputsBounded ==
    \A w \in Workers :
        /\ Len(outputs[w]) <= load.maxEntries
        /\ Cardinality(OutputNodes(w)) = Len(outputs[w])
        /\ OutputNodes(w) \subseteq nodes[w]

\* What the cache's dictionaries say of each other, whatever came before.
CacheConsistent == TypeOK /\ IndexConsistent /\ OutputsBounded

\* No chain of workers, hydrations and rewrites keeps a result alive: what can
\* be served was computed less than its time to live ago, give or take the
\* delay of the write to Redis and of the read from it.
NeverStale ==
    \A w \in Workers : \A i \in DOMAIN outputs[w] :
        LET e == outputs[w][i] IN
        TtlFor(e.key, e.ok) > 0 =>
            /\ e.expires # Never
            /\ e.expires <= e.born + TtlFor(e.key, e.ok) + 2 * MaxDelay

\* A good entry that a lookup would find goes away only by a restart or by
\* being the least recently used one, and then it goes altogether; evicting
\* some other, older entry of the same key does not take its index row along.
LeavesTogether ==
    [][\A w \in Workers, k \in Keys :
          Cached(w, k) /\ index'[w][k] # index[w][k] =>
              /\ index[w][k] \notin nodes'[w]
              /\ index[w][k] \notin {outputs'[w][i].node : i \in DOMAIN outputs'[w]}]_vars

=============================================================================
