----------------------- MODULE ComputationGraph_proofs -----------------------
(***************************************************************************)
(* Proofs about ComputationGraph, for any number of workers, keys and      *)
(* nodes, any times to live, any delay of Redis and any bound on the       *)
(* cache, with restarts at any time.                                       *)
(***************************************************************************)
EXTENDS ComputationGraph, FiniteSetTheorems, FunctionTheorems, SequenceTheorems, TLAPS

MaxEntries == load.maxEntries

\* An output is the only one of its node.
Distinct(s) == \A i, j \in DOMAIN s : s[i].node = s[j].node => i = j

\* The entries of an output dictionary.
Entries(s) == {s[i] : i \in DOMAIN s}

\* The dictionaries of each worker: the outputs are those of known nodes, within
\* the bound, and the index leads to them.
OutputsKept ==
    \A w \in Workers :
        /\ Len(outputs[w]) <= MaxEntries /\ Distinct(outputs[w])
        /\ \A e \in Entries(outputs[w]) : e.node \in nodes[w]

IndexKept ==
    \A w \in Workers, k \in Keys : index[w][k] # NoNode =>
        \E e \in Entries(outputs[w]) : e.node = index[w][k] /\ e.key = k

\* Node n stands for key k: in some worker, in Redis, or on the way between them.
StandsFor(n, k) ==
    \/ \E w \in Workers : \E e \in Entries(outputs[w]) : e.node = n /\ e.key = k
    \/ redis[k] # Nil /\ redis[k].node = n
    \/ \E w \in Workers : wire[w] # Idle /\ wire[w].res.node = n /\ wire[w].key = k

\* A node stands for one key, everywhere.
OneKeyPerNode ==
    \A n \in Nodes : \A j, k \in Keys : StandsFor(n, j) /\ StandsFor(n, k) => j = k

\* While a worker waits for an answer from Redis the key is not in its index.
HydratesMissing ==
    \A w \in Workers : wire[w].call = "hydrate" => index[w][wire[w].key] = NoNode

\* How late an answer may be on its way through Redis.
InTime(e, slack) ==
    TtlFor(e.key, e.ok) > 0 =>
        e.expires # Never /\ e.expires <= e.born + TtlFor(e.key, e.ok) + slack

OutputsInTime ==
    \A w \in Workers : \A e \in Entries(outputs[w]) : InTime(e, 2 * MaxDelay)

RedisInTime ==
    \A k \in Keys : redis[k] # Nil =>
        (TtlFor(k, redis[k].ok) > 0 =>
            /\ redis[k].expires # Never
            /\ redis[k].expires <= redis[k].born + TtlFor(k, redis[k].ok) + MaxDelay)

WireInTime ==
    \A w \in Workers : wire[w] # Idle /\ TtlFor(wire[w].key, wire[w].res.ok) > 0 =>
        LET c == wire[w]  ttl == TtlFor(c.key, c.res.ok) IN
        /\ c.ttl # Never
        /\ c.call = "set" => c.ttl = ttl /\ now <= c.res.born + c.age
        /\ c.call = "hydrate" => now + c.ttl <= c.res.born + ttl + MaxDelay + c.age

IInv ==
    /\ TypeOK
    /\ OutputsKept /\ IndexKept /\ OneKeyPerNode /\ HydratesMissing
    /\ OutputsInTime /\ RedisInTime /\ WireInTime


-----------------------------------------------------------------------------
\* Taking one element out of a sequence.
LEMMA RemoveAtFacts ==
    ASSUME NEW S, NEW s \in Seq(S), NEW i \in 1..Len(s)
    PROVE  /\ RemoveAt(s, i) \in Seq(S)
           /\ Len(RemoveAt(s, i)) = Len(s) - 1
           /\ \A j \in 1..(Len(s) - 1) :
                 RemoveAt(s, i)[j] = IF j < i THEN s[j] ELSE s[j + 1]
<1> DEFINE front == SubSeq(s, 1, i - 1)  back == SubSeq(s, i + 1, Len(s))
<1>1. /\ front \in Seq(S) /\ Len(front) = i - 1
      /\ \A j \in 1..(i - 1) : front[j] = s[j]
  OBVIOUS
<1>2. /\ back \in Seq(S) /\ Len(back) = Len(s) - i
      /\ \A j \in 1..(Len(s) - i) : back[j] = s[j + i]
  OBVIOUS
<1>3. RemoveAt(s, i) = front \o back
  BY DEF RemoveAt
<1>4. Len(s) \in Nat
  OBVIOUS
<1> HIDE DEF front, back
<1>5. /\ front \o back \in Seq(S) /\ Len(front \o back) = Len(s) - 1
      /\ \A j \in 1..(Len(s) - 1) :
            (front \o back)[j] = IF j <= i - 1 THEN front[j] ELSE back[j - (i - 1)]
  <2>1. /\ front \o back \in Seq(S) /\ Len(front \o back) = Len(front) + Len(back)
        /\ \A j \in 1..(Len(front) + Len(back)) :
              (front \o back)[j] = IF j <= Len(front) THEN front[j] ELSE back[j - Len(front)]
    BY <1>1, <1>2, ConcatProperties
  <2>2. Len(front) + Len(back) = Len(s) - 1
    BY <1>1, <1>2, <1>4
  <2> QED
    BY <1>1, <2>1, <2>2
<1>6. ASSUME NEW j \in 1..(Len(s) - 1)
      PROVE  (front \o back)[j] = IF j < i THEN s[j] ELSE s[j + 1]
  <2>1. CASE j < i
    BY <1>1, <1>4, <1>5, <2>1
  <2>2. CASE ~(j < i)
    <3>1. j - (i - 1) \in 1..(Len(s) - i) /\ (j - (i - 1)) + i = j + 1
      BY <1>4, <2>2
    <3> QED
      BY <1>2, <1>4, <1>5, <2>2, <3>1
  <2> QED
    BY <2>1, <2>2
<1> QED
  BY <1>3, <1>5, <1>6

\* Without takes away the output of the node, and nothing else.
LEMMA WithoutFacts ==
    ASSUME NEW S, NEW s \in Seq(S), Distinct(s), NEW n
    PROVE  /\ Without(s, n) \in Seq(S) /\ Len(Without(s, n)) <= Len(s)
           /\ Distinct(Without(s, n))
           /\ Entries(Without(s, n)) = {e \in Entries(s) : e.node # n}
           /\ n \in {e.node : e \in Entries(s)} => Len(Without(s, n)) < Len(s)
<1>1. CASE \E i \in DOMAIN s : s[i].node = n
  <2> DEFINE i == CHOOSE i \in DOMAIN s : s[i].node = n
             r == Without(s, n)
  <2>1. i \in 1..Len(s) /\ s[i].node = n /\ r = RemoveAt(s, i)
    BY <1>1 DEF Without
  <2> HIDE DEF i, r
  <2>2. /\ r \in Seq(S) /\ Len(r) = Len(s) - 1 /\ Len(s) \in Nat
        /\ \A j \in 1..(Len(s) - 1) : r[j] = IF j < i THEN s[j] ELSE s[j + 1]
    <3>1. /\ RemoveAt(s, i) \in Seq(S) /\ Len(RemoveAt(s, i)) = Len(s) - 1
          /\ \A j \in 1..(Len(s) - 1) :
                RemoveAt(s, i)[j] = IF j < i THEN s[j] ELSE s[j + 1]
      BY <2>1, RemoveAtFacts
    <3> QED
      BY <2>1, <3>1
  <2>3. Distinct(r)
    <3> SUFFICES ASSUME NEW j \in 1..Len(r), NEW k \in 1..Len(r), r[j].node = r[k].node
                 PROVE  j = k
      BY <2>2 DEF Distinct
    <3> DEFINE was(x) == IF x < i THEN x ELSE x + 1
    <3>1. /\ was(j) \in 1..Len(s) /\ r[j] = s[was(j)]
          /\ was(k) \in 1..Len(s) /\ r[k] = s[was(k)]
      BY <2>1, <2>2
    <3>2. was(j) = was(k)
      BY <3>1 DEF Distinct
    <3> QED
      BY <2>1, <2>2, <3>2
  <2>4. ASSUME NEW e \in Entries(r) PROVE e \in Entries(s) /\ e.node # n
    <3>1. PICK j \in 1..(Len(s) - 1) : e = r[j]
      BY <2>2 DEF Entries
    <3>2. PICK k \in 1..Len(s) : e = s[k] /\ k # i
      BY <2>1, <2>2, <3>1
    <3> QED
      BY <2>1, <3>2 DEF Entries, Distinct
  <2>5. ASSUME NEW e \in Entries(s), e.node # n PROVE e \in Entries(r)
    <3>1. PICK k \in 1..Len(s) : e = s[k]
      BY DEF Entries
    <3>2. k # i
      BY <2>1, <2>5, <3>1
    <3>3. CASE k < i
      BY <2>1, <2>2, <3>1, <3>3 DEF Entries
    <3>4. CASE k > i
      <4>1. k - 1 \in 1..(Len(s) - 1) /\ r[k - 1] = s[k]
        BY <2>1, <2>2, <3>4
      <4> QED
        BY <2>2, <3>1, <4>1 DEF Entries
    <3> QED
      BY <2>1, <3>2, <3>3, <3>4
  <2> QED
    BY <2>2, <2>3, <2>4, <2>5 DEF r
<1>2. CASE ~\E i \in DOMAIN s : s[i].node = n
  BY <1>2 DEF Without, Entries
<1> QED
  BY <1>1, <1>2

\* What is in the outputs when an entry was put last.
LEMMA RefreshFacts ==
    ASSUME NEW S, NEW s \in Seq(S), Distinct(s), NEW e \in S
    PROVE  LET t == Append(Without(s, e.node), e) IN
           /\ t \in Seq(S) /\ Distinct(t)
           /\ Len(t) \in 1..(Len(s) + 1)
           /\ t[Len(t)] = e
           /\ e.node \in {x.node : x \in Entries(s)} => Len(t) <= Len(s)
           /\ Entries(t) = {x \in Entries(s) : x.node # e.node} \cup {e}
<1> DEFINE r == Without(s, e.node)
           t == Append(r, e)
<1>1. /\ r \in Seq(S) /\ Len(r) <= Len(s) /\ Distinct(r)
      /\ Entries(r) = {x \in Entries(s) : x.node # e.node}
      /\ e.node \in {x.node : x \in Entries(s)} => Len(r) < Len(s)
  BY WithoutFacts
<1>2. Len(s) \in Nat /\ Len(r) \in Nat
  BY <1>1
<1> HIDE DEF r
<1>3. /\ t \in Seq(S) /\ Len(t) = Len(r) + 1 /\ t[Len(r) + 1] = e
      /\ \A j \in 1..Len(r) : t[j] = r[j]
  BY <1>1, <1>2
<1> HIDE DEF t
<1>4. \A j \in 1..Len(r) : r[j] \in Entries(r)
  BY <1>1 DEF Entries
<1>5. Distinct(t)
  <2> SUFFICES ASSUME NEW i \in 1..Len(t), NEW j \in 1..Len(t), t[i].node = t[j].node
               PROVE  i = j
    BY <1>3 DEF Distinct
  <2>1. \A k \in 1..Len(r) : t[k].node # e.node
    BY <1>1, <1>3, <1>4
  <2>2. CASE i \in 1..Len(r) /\ j \in 1..Len(r)
    BY <1>1, <1>3, <2>2 DEF Distinct
  <2> QED
    BY <1>2, <1>3, <2>1, <2>2
<1>6. Entries(t) = Entries(r) \cup {e}
  <2>1. ASSUME NEW x \in Entries(t) PROVE x \in Entries(r) \cup {e}
    <3>1. PICK j \in 1..Len(t) : x = t[j]
      BY <1>3 DEF Entries
    <3> QED
      BY <1>2, <1>3, <1>4, <3>1
  <2>2. ASSUME NEW x \in Entries(r) PROVE x \in Entries(t)
    <3>1. PICK j \in 1..Len(r) : x = r[j]
      BY <1>1 DEF Entries
    <3>2. j \in 1..Len(t) /\ t[j] = x
      BY <1>2, <1>3, <3>1
    <3> QED
      BY <1>3, <3>2 DEF Entries
  <2>3. e \in Entries(t)
    BY <1>2, <1>3 DEF Entries
  <2> QED
    BY <2>1, <2>2, <2>3
<1> QED
  BY <1>1, <1>2, <1>3, <1>5, <1>6 DEF t, r

\* What is left when the first entries are evicted.
LEMMA EvictFacts ==
    ASSUME NEW S, NEW t \in Seq(S), Distinct(t), NEW cut \in 0..(Len(t) - 1)
    PROVE  LET kept == SubSeq(t, cut + 1, Len(t))  gone == {t[i] : i \in 1..cut} IN
           /\ kept \in Seq(S) /\ Distinct(kept) /\ Len(kept) = Len(t) - cut
           /\ Entries(t) = Entries(kept) \cup gone
           /\ \A x \in Entries(kept), g \in gone : x.node # g.node
           /\ t[Len(t)] \in Entries(kept)
<1> DEFINE kept == SubSeq(t, cut + 1, Len(t))
           gone == {t[i] : i \in 1..cut}
<1>1. /\ kept \in Seq(S) /\ Len(kept) = Len(t) - cut /\ Len(t) \in Nat
      /\ \A j \in 1..(Len(t) - cut) : kept[j] = t[j + cut]
  OBVIOUS
<1> HIDE DEF kept
<1>2. Distinct(kept)
  <2> SUFFICES ASSUME NEW j \in 1..Len(kept), NEW k \in 1..Len(kept),
                      kept[j].node = kept[k].node
               PROVE  j = k
    BY <1>1 DEF Distinct
  <2>1. /\ j + cut \in 1..Len(t) /\ kept[j] = t[j + cut]
        /\ k + cut \in 1..Len(t) /\ kept[k] = t[k + cut]
    BY <1>1
  <2>2. j + cut = k + cut
    BY <2>1 DEF Distinct
  <2> QED
    BY <1>1, <2>2
<1>3. ASSUME NEW x \in Entries(kept) PROVE \E i \in (cut + 1)..Len(t) : x = t[i]
  <2>1. PICK j \in 1..(Len(t) - cut) : x = kept[j]
    BY <1>1 DEF Entries
  <2>2. j + cut \in (cut + 1)..Len(t) /\ x = t[j + cut]
    BY <1>1, <2>1
  <2> QED
    BY <2>2
<1>4. ASSUME NEW i \in (cut + 1)..Len(t) PROVE t[i] \in Entries(kept)
  <2>1. i - cut \in 1..(Len(t) - cut) /\ (i - cut) + cut = i
    BY <1>1
  <2>2. kept[i - cut] = t[i] /\ i - cut \in DOMAIN kept
    BY <1>1, <2>1
  <2> QED
    BY <2>2 DEF Entries
<1>5. Entries(t) = Entries(kept) \cup gone
  <2>1. ASSUME NEW x \in Entries(t) PROVE x \in Entries(kept) \cup gone
    <3>1. PICK i \in 1..Len(t) : x = t[i]
      BY DEF Entries
    <3> QED
      BY <1>1, <1>4, <3>1
  <2>2. ASSUME NEW x \in Entries(kept) PROVE x \in Entries(t)
    <3>1. PICK i \in (cut + 1)..Len(t) : x = t[i]
      BY <1>3
    <3>2. i \in DOMAIN t
      BY <1>1, <3>1
    <3> QED
      BY <3>1, <3>2 DEF Entries
  <2>3. ASSUME NEW x \in gone PROVE x \in Entries(t)
    BY <1>1 DEF Entries
  <2> QED
    BY <2>1, <2>2, <2>3
<1>6. ASSUME NEW x \in Entries(kept), NEW g \in gone PROVE x.node # g.node
  <2>1. PICK i \in (cut + 1)..Len(t) : x = t[i]
    BY <1>3
  <2>2. PICK j \in 1..cut : g = t[j]
    OBVIOUS
  <2> QED
    BY <1>1, <2>1, <2>2 DEF Distinct
<1> QED
  BY <1>1, <1>2, <1>4, <1>5, <1>6 DEF kept

-----------------------------------------------------------------------------
\* A load bounds the cache by a positive number, and names workers and keys.
LEMMA LoadTyped ==
    ASSUME load \in Loads
    PROVE  MaxEntries \in Nat \ {0} /\ load.workers \subseteq Workers /\ load.keys \subseteq Keys
BY CacheAssumption DEF MaxEntries

LEMMA TtlTyped == \A k \in Keys, ok \in BOOLEAN : TtlFor(k, ok) \in Nat
BY CacheAssumption DEF TtlFor

\* Outputs are entries, and their nodes are nodes.
LEMMA EntriesTyped ==
    ASSUME TypeOK, NEW w \in Workers
    PROVE  outputs[w] \in Seq(Entry) /\ Entries(outputs[w]) \subseteq Entry
<1>1. outputs[w] \in Seq(Entry)
  BY DEF TypeOK
<1> HIDE DEF Entry
<1> QED
  BY <1>1 DEF Entries

LEMMA IndexTyped ==
    ASSUME TypeOK, NEW w \in Workers, NEW k \in Keys
    PROVE  index[w][k] \in Nodes \cup {NoNode}
BY DEF TypeOK

\* The index leads to one output.
LEMMA EntryOfFacts ==
    ASSUME TypeOK, OutputsKept, IndexKept, NEW w \in Workers, NEW k \in Keys,
           index[w][k] # NoNode
    PROVE  LET e == EntryOf(w, index[w][k]) IN
           e \in Entries(outputs[w]) /\ e.node = index[w][k] /\ e.key = k
<1> DEFINE e == EntryOf(w, index[w][k])
<1>1. PICK x \in Entries(outputs[w]) : x.node = index[w][k] /\ x.key = k
  BY DEF IndexKept
<1>2. e = CHOOSE y \in Entries(outputs[w]) : y.node = index[w][k]
  BY DEF EntryOf, Entries
<1>3. e \in Entries(outputs[w]) /\ e.node = index[w][k]
  BY <1>1, <1>2
<1>4. \A y, z \in Entries(outputs[w]) : y.node = z.node => y = z
  BY DEF OutputsKept, Entries, Distinct
<1> QED
  BY <1>1, <1>3, <1>4

\* Entry e is stored by worker w, and the entries in gone are evicted.
Stored(w, e, nds, idx, gone) ==
    /\ outputs' \in [Workers -> Seq(Entry)]
    /\ \A v \in Workers : v # w => outputs'[v] = outputs[v]
    /\ Len(outputs'[w]) <= MaxEntries /\ Distinct(outputs'[w])
    /\ Entries(outputs'[w]) =
          {x \in Entries(outputs[w]) : x.node # e.node /\ x \notin gone} \cup {e}
    /\ \A x \in Entries(outputs'[w]), g \in gone : x.node # g.node
    /\ nodes' = [nodes EXCEPT ![w] = nds \ {g.node : g \in gone}]
    /\ index' = [index EXCEPT ![w] = DropRows(idx, gone)]

\* _store_output keeps the bound; what it evicts is not what it stores.
LEMMA StoreFacts ==
    ASSUME TypeOK, OutputsKept, NEW w \in Workers, NEW e \in Entry, NEW nds, NEW idx,
           StoreOutput(w, e, nds, idx)
    PROVE  \E gone \in SUBSET Entries(outputs[w]) : Stored(w, e, nds, idx, gone)
<1> DEFINE s    == outputs[w]
           t    == Append(Without(s, e.node), e)
           cut  == Overflow(t)
           gone == {t[i] : i \in 1..cut}
           kept == SubSeq(t, cut + 1, Len(t))
<1>0. /\ outputs \in [Workers -> Seq(Entry)] /\ s \in Seq(Entry)
      /\ Distinct(s) /\ Len(s) <= MaxEntries /\ MaxEntries \in Nat \ {0}
  BY LoadTyped DEF TypeOK, OutputsKept
<1>1. /\ outputs' = [outputs EXCEPT ![w] = kept]
      /\ nodes' = [nodes EXCEPT ![w] = nds \ {g.node : g \in gone}]
      /\ index' = [index EXCEPT ![w] = DropRows(idx, gone)]
  BY DEF StoreOutput
<1> HIDE DEF Entry, s
<1>2. /\ t \in Seq(Entry) /\ Distinct(t) /\ Len(t) \in 1..(Len(s) + 1) /\ t[Len(t)] = e
      /\ Entries(t) = {x \in Entries(s) : x.node # e.node} \cup {e}
  BY <1>0, RefreshFacts
<1>3. Len(s) \in Nat
  BY <1>0
<1>4. cut \in 0..(Len(t) - 1) /\ Len(t) - cut <= MaxEntries
  BY <1>0, <1>2, <1>3 DEF Overflow, MaxEntries
<1> HIDE DEF t, cut
<1>5. /\ kept \in Seq(Entry) /\ Distinct(kept) /\ Len(kept) = Len(t) - cut
      /\ Entries(t) = Entries(kept) \cup gone
      /\ \A x \in Entries(kept), g \in gone : x.node # g.node
      /\ e \in Entries(kept)
  BY <1>2, <1>4, EvictFacts
<1> HIDE DEF kept, gone
<1>6. gone \subseteq Entries(s)
  BY <1>2, <1>5
<1>7. Entries(kept) = {x \in Entries(s) : x.node # e.node /\ x \notin gone} \cup {e}
  BY <1>2, <1>5
<1>8. /\ outputs' \in [Workers -> Seq(Entry)] /\ outputs'[w] = kept
      /\ \A v \in Workers : v # w => outputs'[v] = outputs[v]
  BY <1>0, <1>1, <1>5
<1> QED
  BY <1>1, <1>4, <1>5, <1>6, <1>7, <1>8 DEF s, Stored

\* A hit moves an entry to the end, no more.
LEMMA HitFacts ==
    ASSUME TypeOK, OutputsKept, IndexKept, NEW w \in Workers, NEW k \in Keys, LookupHit(w, k)
    PROVE  /\ outputs' \in [Workers -> Seq(Entry)]
           /\ \A v \in Workers : Entries(outputs'[v]) = Entries(outputs[v])
           /\ \A v \in Workers : Len(outputs'[v]) <= MaxEntries /\ Distinct(outputs'[v])
           /\ UNCHANGED <<load, nodes, index, redis, wire, now>>
<1> DEFINE e == EntryOf(w, index[w][k])
           s == outputs[w]
           t == Append(Without(s, e.node), e)
<1>1. /\ outputs' = [outputs EXCEPT ![w] = t] /\ index[w][k] # NoNode
      /\ UNCHANGED <<load, nodes, index, redis, wire, now>>
  BY DEF LookupHit, Cached
<1>2. e \in Entries(s)
  BY <1>1, EntryOfFacts
<1>3. /\ outputs \in [Workers -> Seq(Entry)] /\ s \in Seq(Entry) /\ e \in Entry
      /\ Distinct(s) /\ Len(s) <= MaxEntries /\ MaxEntries \in Nat \ {0}
  BY <1>2, EntriesTyped, LoadTyped DEF TypeOK, OutputsKept
<1> HIDE DEF Entry, e, s
<1>4. /\ t \in Seq(Entry) /\ Distinct(t) /\ Len(t) <= Len(s)
      /\ Entries(t) = {x \in Entries(s) : x.node # e.node} \cup {e}
  BY <1>2, <1>3, RefreshFacts
<1>5. Len(s) \in Nat /\ Len(t) \in Nat
  BY <1>3, <1>4
<1> HIDE DEF t
<1>6. Entries(t) = Entries(s)
  BY <1>2, <1>3, <1>4 DEF Entries, Distinct
<1>7. Len(t) <= MaxEntries
  BY <1>3, <1>4, <1>5
<1> QED
  BY <1>1, <1>3, <1>4, <1>6, <1>7 DEF OutputsKept, s

\* A miss takes away the entry of the key, if there is one.
LEMMA ForgetFacts ==
    ASSUME TypeOK, OutputsKept, NEW w \in Workers, NEW k \in Keys, ForgetExpired(w, k)
    PROVE  /\ outputs' \in [Workers -> Seq(Entry)]
           /\ \A v \in Workers : v # w => outputs'[v] = outputs[v]
           /\ Len(outputs'[w]) <= MaxEntries /\ Distinct(outputs'[w])
           /\ Entries(outputs'[w]) = {e \in Entries(outputs[w]) : e.node # index[w][k]}
           /\ index' = [index EXCEPT ![w][k] = NoNode]
           /\ UNCHANGED <<nodes, now>>
<1> DEFINE s == outputs[w]
           t == Without(s, index[w][k])
<1>1. /\ outputs' = [outputs EXCEPT ![w] = t]
      /\ index' = [index EXCEPT ![w][k] = NoNode] /\ UNCHANGED <<nodes, now>>
  BY DEF ForgetExpired
<1>2. /\ outputs \in [Workers -> Seq(Entry)] /\ s \in Seq(Entry)
      /\ Distinct(s) /\ Len(s) <= MaxEntries /\ MaxEntries \in Nat \ {0}
  BY LoadTyped DEF TypeOK, OutputsKept
<1> HIDE DEF Entry, s
<1>3. /\ t \in Seq(Entry) /\ Len(t) <= Len(s) /\ Distinct(t)
      /\ Entries(t) = {e \in Entries(s) : e.node # index[w][k]}
  BY <1>2, WithoutFacts
<1>4. Len(s) \in Nat /\ Len(t) \in Nat
  BY <1>2, <1>3
<1> HIDE DEF t
<1> QED
  BY <1>1, <1>2, <1>3, <1>4 DEF s

-----------------------------------------------------------------------------
\* What the answer of Redis is made into, and what is sent there.
LEMMA HydratedTyped ==
    ASSUME TypeOK, NEW w \in Workers, wire[w].call = "hydrate"
    PROVE  LET c == wire[w] IN
           /\ c \in Busy /\ c.res.node \in Nodes /\ c.key \in Keys
           /\ [node |-> c.res.node, key |-> c.key, ok |-> c.res.ok, born |-> c.res.born,
               expires |-> Expiry(c.key, c.ttl)] \in Entry
<1>1. wire[w] \in Busy /\ now \in Nat
  BY DEF TypeOK, Idle
<1> QED
  BY <1>1 DEF Busy, Entry, Expiry, Times, Never

LEMMA RegisteredTyped ==
    ASSUME TypeOK, NEW w \in Workers, NEW k \in Keys, NEW ok \in BOOLEAN, NEW n \in Nodes
    PROVE  LET ttl == TtlFor(k, ok) IN
           /\ [node |-> n, key |-> k, ok |-> ok, born |-> now, expires |-> now + ttl]
                 \in Entry
           /\ [call |-> "set", age |-> 0, key |-> k,
               res |-> [node |-> n, ok |-> ok, born |-> now],
               ttl |-> IF ttl > 0 THEN ttl ELSE Never] \in Busy
<1>1. now \in Nat /\ TtlFor(k, ok) \in Nat
  BY TtlTyped DEF TypeOK
<1> QED
  BY <1>1, CacheAssumption DEF Entry, Busy, Times

LEMMA DropRowsTyped ==
    ASSUME NEW idx \in [Keys -> Nodes \cup {NoNode}], NEW gone
    PROVE  DropRows(idx, gone) \in [Keys -> Nodes \cup {NoNode}]
BY DEF DropRows

\* The dictionaries stay well typed.
LEMMA StepTyped == IInv /\ [Next]_vars => TypeOK'
<1> SUFFICES ASSUME IInv, [Next]_vars PROVE TypeOK'
  OBVIOUS
<1>t. /\ TypeOK /\ OutputsKept /\ IndexKept /\ load \in Loads
      /\ nodes \in [Workers -> SUBSET Nodes]
      /\ index \in [Workers -> [Keys -> Nodes \cup {NoNode}]]
      /\ outputs \in [Workers -> Seq(Entry)]
      /\ redis \in [Keys -> Result \cup {Nil}]
      /\ wire \in [Workers -> Busy \cup {Idle}]
      /\ now \in 0..MaxTime
  BY DEF IInv, TypeOK
<1> HIDE DEF Entry, Result, Busy, Idle, Nil
<1>1. ASSUME NEW w \in Workers, NEW k \in Keys, LookupHit(w, k) PROVE TypeOK'
  BY <1>t, <1>1, HitFacts DEF TypeOK
<1>2. ASSUME NEW w \in Workers, NEW k \in Keys, LookupMiss(w, k) PROVE TypeOK'
  <2>1. ForgetExpired(w, k) /\ UNCHANGED <<load, redis, wire>>
    BY <1>2 DEF LookupMiss
  <2>2. /\ outputs' \in [Workers -> Seq(Entry)]
        /\ index' = [index EXCEPT ![w][k] = NoNode] /\ UNCHANGED <<nodes, now>>
    BY <1>t, <2>1, ForgetFacts
  <2> QED
    BY <1>t, <2>1, <2>2 DEF TypeOK
<1>3. ASSUME NEW w \in Workers, NEW k \in Keys, LookupRemote(w, k) PROVE TypeOK'
  <2> DEFINE r == redis[k]
             call == [call |-> "hydrate", age |-> 0, key |-> k,
                      res |-> [node |-> r.node, ok |-> r.ok, born |-> r.born],
                      ttl |-> IF r.expires = Never THEN Never ELSE r.expires - now]
  <2>1. /\ ForgetExpired(w, k) /\ UNCHANGED <<load, redis>>
        /\ wire' = [wire EXCEPT ![w] = call] /\ Readable(r)
    BY <1>3 DEF LookupRemote
  <2>2. /\ outputs' \in [Workers -> Seq(Entry)]
        /\ index' = [index EXCEPT ![w][k] = NoNode] /\ UNCHANGED <<nodes, now>>
    BY <1>t, <2>1, ForgetFacts
  <2>3. r \in Result /\ (r.expires = Never \/ r.expires - now \in Nat)
    BY <1>t, <2>1 DEF Readable, Expired, Result, Times
  <2>4. call \in Busy
    BY <2>3, CacheAssumption DEF Busy, Result, Times
  <2> HIDE DEF call
  <2> QED
    BY <1>t, <2>1, <2>2, <2>4 DEF TypeOK
<1>4. ASSUME NEW w \in Workers, NEW k \in Keys, NEW ok \in BOOLEAN, NEW n \in Nodes,
             Register(w, k, ok, n)
      PROVE  TypeOK'
  <2> DEFINE ttl == TtlFor(k, ok)
             e   == [node |-> n, key |-> k, ok |-> ok, born |-> now, expires |-> now + ttl]
             c   == [call |-> "set", age |-> 0, key |-> k,
                     res |-> [node |-> n, ok |-> ok, born |-> now],
                     ttl |-> IF ttl > 0 THEN ttl ELSE Never]
             idx == [index[w] EXCEPT ![k] = n]
  <2>1. /\ StoreOutput(w, e, nodes[w] \cup {n}, idx)
        /\ wire' = [wire EXCEPT ![w] = c] /\ UNCHANGED <<load, redis, now>>
    BY <1>4 DEF Register
  <2>2. e \in Entry /\ c \in Busy
    BY <1>t, RegisteredTyped
  <2> HIDE DEF e, c
  <2>3. idx \in [Keys -> Nodes \cup {NoNode}]
    BY <1>t
  <2> HIDE DEF idx
  <2>4. PICK gone \in SUBSET Entries(outputs[w]) : Stored(w, e, nodes[w] \cup {n}, idx, gone)
    BY <1>t, <2>1, <2>2, StoreFacts
  <2>5. DropRows(idx, gone) \in [Keys -> Nodes \cup {NoNode}]
    BY <2>3, DropRowsTyped
  <2> QED
    BY <1>t, <2>1, <2>2, <2>4, <2>5 DEF Stored, TypeOK
<1>5. ASSUME NEW w \in Workers, Hydrate(w) PROVE TypeOK'
  <2> DEFINE c   == wire[w]
             n   == c.res.node
             e   == [node |-> n, key |-> c.key, ok |-> c.res.ok, born |-> c.res.born,
                     expires |-> Expiry(c.key, c.ttl)]
             idx == IF n \in nodes[w] THEN index[w] ELSE [index[w] EXCEPT ![c.key] = n]
  <2>1. /\ StoreOutput(w, e, nodes[w] \cup {n}, idx) /\ c.call = "hydrate"
        /\ wire' = [wire EXCEPT ![w] = Idle] /\ UNCHANGED <<load, redis, now>>
    BY <1>5 DEF Hydrate
  <2>2. e \in Entry /\ n \in Nodes /\ c.key \in Keys
    BY <1>t, <2>1, HydratedTyped
  <2> HIDE DEF e
  <2>3. idx \in [Keys -> Nodes \cup {NoNode}]
    BY <1>t, <2>2
  <2> HIDE DEF idx, n
  <2>4. PICK gone \in SUBSET Entries(outputs[w]) : Stored(w, e, nodes[w] \cup {n}, idx, gone)
    BY <1>t, <2>1, <2>2, StoreFacts
  <2>5. DropRows(idx, gone) \in [Keys -> Nodes \cup {NoNode}]
    BY <2>3, DropRowsTyped
  <2> QED
    BY <1>t, <2>1, <2>2, <2>4, <2>5 DEF Stored, TypeOK
<1>6. ASSUME NEW w \in Workers, StoreRedis(w) PROVE TypeOK'
  <2> DEFINE c == wire[w]
             r == [node |-> c.res.node, ok |-> c.res.ok, born |-> c.res.born,
                   expires |-> IF c.ttl = Never THEN Never ELSE now + c.ttl]
  <2>1. c \in Busy /\ now \in Nat
    BY <1>t, <1>6 DEF StoreRedis, Idle
  <2>2. r \in Result /\ c.key \in Keys
    BY <2>1 DEF Busy, Result, Times, Never
  <2>3. /\ redis' = [redis EXCEPT ![c.key] = r] /\ wire' = [wire EXCEPT ![w] = Idle]
        /\ UNCHANGED <<load, nodes, index, outputs, now>>
    BY <1>6 DEF StoreRedis
  <2> HIDE DEF r
  <2> QED
    BY <1>t, <2>2, <2>3 DEF TypeOK
<1>7. ASSUME NEW w \in Workers, StoreRedisFails(w) PROVE TypeOK'
  BY <1>t, <1>7 DEF StoreRedisFails, TypeOK
<1>8. ASSUME NEW w \in Workers, Restart(w) PROVE TypeOK'
  <2>1. <<>> \in Seq(Entry)
    OBVIOUS
  <2> QED
    BY <1>t, <1>8, <2>1 DEF Restart, TypeOK
<1>9. CASE Tick
  <2>1. ASSUME NEW w \in Workers, wire[w] # Idle
        PROVE  [wire[w] EXCEPT !.age = @ + 1] \in Busy
    <3>1. wire[w] \in Busy /\ wire[w].age < MaxDelay
      BY <1>t, <1>9, <2>1 DEF Tick
    <3> QED
      BY <3>1, CacheAssumption DEF Busy
  <2> QED
    BY <1>t, <1>9, <2>1, CacheAssumption DEF Tick, TypeOK
<1>10. CASE UNCHANGED vars
  BY <1>t, <1>10 DEF vars, TypeOK
<1> QED
  BY <1>t, <1>1, <1>2, <1>3, <1>4, <1>5, <1>6, <1>7, <1>8, <1>9, <1>10, LoadTyped DEF Next

-----------------------------------------------------------------------------
(***************************************************************************)
(* The two actions that store an output.                                   *)
(***************************************************************************)
Registered(k, ok, n) ==
    [node |-> n, key |-> k, ok |-> ok, born |-> now, expires |-> now + TtlFor(k, ok)]

Hydrated(c) ==
    [node |-> c.res.node, key |-> c.key, ok |-> c.res.ok, born |-> c.res.born,
     expires |-> Expiry(c.key, c.ttl)]

HydratedRows(w) ==
    IF wire[w].res.node \in nodes[w] THEN index[w]
    ELSE [index[w] EXCEPT ![wire[w].key] = wire[w].res.node]

LEMMA RegisterFacts ==
    ASSUME IInv, NEW w \in Workers, NEW k \in Keys, NEW ok \in BOOLEAN, NEW n \in Nodes,
           Register(w, k, ok, n)
    PROVE  /\ Registered(k, ok, n) \in Entry
           /\ [index[w] EXCEPT ![k] = n] \in [Keys -> Nodes \cup {NoNode}]
           /\ \E gone \in SUBSET Entries(outputs[w]) :
                 Stored(w, Registered(k, ok, n), nodes[w] \cup {n},
                        [index[w] EXCEPT ![k] = n], gone)
<1> DEFINE e   == Registered(k, ok, n)
           idx == [index[w] EXCEPT ![k] = n]
<1>1. TypeOK /\ OutputsKept /\ index \in [Workers -> [Keys -> Nodes \cup {NoNode}]]
  BY DEF IInv, TypeOK
<1>2. StoreOutput(w, e, nodes[w] \cup {n}, idx)
  BY DEF Register, Registered
<1>3. e \in Entry
  BY <1>1, RegisteredTyped DEF Registered
<1>4. idx \in [Keys -> Nodes \cup {NoNode}]
  BY <1>1
<1> HIDE DEF e, idx
<1>5. \E gone \in SUBSET Entries(outputs[w]) : Stored(w, e, nodes[w] \cup {n}, idx, gone)
  BY <1>1, <1>2, <1>3, StoreFacts
<1> QED
  BY <1>3, <1>4, <1>5 DEF e, idx

LEMMA HydrateFacts ==
    ASSUME IInv, NEW w \in Workers, Hydrate(w)
    PROVE  /\ Hydrated(wire[w]) \in Entry /\ wire[w] \in Busy
           /\ wire[w].res.node \in Nodes /\ wire[w].key \in Keys
           /\ HydratedRows(w) \in [Keys -> Nodes \cup {NoNode}]
           /\ \E gone \in SUBSET Entries(outputs[w]) :
                 Stored(w, Hydrated(wire[w]), nodes[w] \cup {wire[w].res.node},
                        HydratedRows(w), gone)
<1> DEFINE e == Hydrated(wire[w])
           n == wire[w].res.node
<1>1. TypeOK /\ OutputsKept /\ index \in [Workers -> [Keys -> Nodes \cup {NoNode}]]
  BY DEF IInv, TypeOK
<1>2. StoreOutput(w, e, nodes[w] \cup {n}, HydratedRows(w)) /\ wire[w].call = "hydrate"
  BY DEF Hydrate, Hydrated, HydratedRows
<1>3. e \in Entry /\ n \in Nodes /\ wire[w].key \in Keys /\ wire[w] \in Busy
  BY <1>1, <1>2, HydratedTyped DEF Hydrated
<1>4. HydratedRows(w) \in [Keys -> Nodes \cup {NoNode}]
  BY <1>1, <1>3 DEF HydratedRows
<1> HIDE DEF e, n
<1>5. \E gone \in SUBSET Entries(outputs[w]) :
         Stored(w, e, nodes[w] \cup {n}, HydratedRows(w), gone)
  BY <1>1, <1>2, <1>3, StoreFacts
<1> QED
  BY <1>3, <1>4, <1>5 DEF e, n

\* A node that nobody knows stands for nothing.
LEMMA FreshNode ==
    ASSUME TypeOK, OutputsKept, NEW n \in Nodes, n \notin KnownNodes, NEW k \in Keys
    PROVE  ~StandsFor(n, k) /\ \A w \in Workers : n \notin nodes[w]
<1>1. \A w \in Workers : n \notin nodes[w]
  BY DEF KnownNodes
<1>2. ~(redis[k] # Nil /\ redis[k].node = n)
  BY DEF KnownNodes
<1>3. \A w \in Workers : wire[w] # Idle => wire[w].res.node # n
  BY DEF KnownNodes
<1> QED
  BY <1>1, <1>2, <1>3 DEF StandsFor, OutputsKept

\* The node of an index row is known and stands for the key of the row.
LEMMA RowFacts ==
    ASSUME OutputsKept, IndexKept, NEW w \in Workers, NEW k \in Keys, index[w][k] # NoNode
    PROVE  /\ StandsFor(index[w][k], k) /\ index[w][k] \in nodes[w]
           /\ \E x \in Entries(outputs[w]) : x.node = index[w][k] /\ x.key = k
BY DEF IndexKept, OutputsKept, StandsFor

\* The node of a new result: no other key leads to it.
LEMMA RegisteredApart ==
    ASSUME IInv, NEW w \in Workers, NEW k \in Keys, NEW ok \in BOOLEAN, NEW n \in Nodes,
           Register(w, k, ok, n)
    PROVE  \A j \in Keys : StandsFor(n, j) => j = k
<1>1. CASE index[w][k] # NoNode
  BY <1>1, RowFacts DEF IInv, OneKeyPerNode, Register
<1>2. CASE index[w][k] = NoNode
  BY <1>2, FreshNode DEF IInv, Register
<1> QED
  BY <1>1, <1>2

-----------------------------------------------------------------------------
\* Storing an entry keeps the dictionaries in order, if every row of the index
\* leads to an output of the worker or to the entry, and no row to an output of
\* another key that the entry replaces.
LEMMA StoreKeeps ==
    ASSUME TypeOK, OutputsKept, IndexKept, load' = load,
           NEW w \in Workers, NEW e \in Entry, NEW idx \in [Keys -> Nodes \cup {NoNode}],
           NEW gone \in SUBSET Entries(outputs[w]),
           Stored(w, e, nodes[w] \cup {e.node}, idx, gone),
           \A k \in Keys : idx[k] # NoNode =>
              \/ idx[k] = e.node /\ k = e.key
              \/ \E x \in Entries(outputs[w]) :
                    x.node = idx[k] /\ x.key = k /\ (x.node = e.node => x.key = e.key)
    PROVE  OutputsKept' /\ IndexKept'
<1> DEFINE E == Entries(outputs[w])  F == Entries(outputs'[w])
<1>1. /\ \A v \in Workers : v # w => /\ outputs'[v] = outputs[v] /\ index'[v] = index[v]
                                     /\ nodes'[v] = nodes[v]
      /\ Len(outputs'[w]) <= MaxEntries /\ Distinct(outputs'[w])
      /\ F = {x \in E : x.node # e.node /\ x \notin gone} \cup {e}
      /\ \A x \in F, g \in gone : x.node # g.node
      /\ nodes'[w] = (nodes[w] \cup {e.node}) \ {g.node : g \in gone}
      /\ index'[w] = DropRows(idx, gone) /\ MaxEntries' = MaxEntries
  BY DEF Stored, TypeOK, MaxEntries
<1>2. \A x \in F : x.node \in nodes'[w]
  BY <1>1 DEF OutputsKept
<1>3. OutputsKept'
  BY <1>1, <1>2 DEF OutputsKept
<1>4. ASSUME NEW k \in Keys, index'[w][k] # NoNode
      PROVE  \E x \in F : x.node = index'[w][k] /\ x.key = k
  <2>1. /\ idx[k] # NoNode /\ index'[w][k] = idx[k]
        /\ ~\E g \in gone : g.key = k /\ g.node = idx[k]
    BY <1>1, <1>4 DEF DropRows
  <2>2. CASE idx[k] = e.node /\ k = e.key
    BY <1>1, <2>1, <2>2
  <2>3. CASE \E x \in E : x.node = idx[k] /\ x.key = k /\ (x.node = e.node => x.key = e.key)
    <3>1. PICK x \in E : x.node = idx[k] /\ x.key = k /\ (x.node = e.node => x.key = e.key)
      BY <2>3
    <3>2. x \notin gone
      BY <2>1, <3>1
    <3>3. CASE x.node = e.node
      BY <1>1, <2>1, <3>1, <3>3
    <3>4. CASE x.node # e.node
      BY <1>1, <2>1, <3>1, <3>2, <3>4
    <3> QED
      BY <3>3, <3>4
  <2> QED
    BY <2>1, <2>2, <2>3
<1> HIDE DEF E, F
<1>5. IndexKept'
  <2> SUFFICES ASSUME NEW v \in Workers, NEW k \in Keys, index'[v][k] # NoNode
               PROVE  \E x \in Entries(outputs'[v]) : x.node = index'[v][k] /\ x.key = k
    BY DEF IndexKept
  <2>1. CASE v = w
    BY <1>4, <2>1 DEF F
  <2>2. CASE v # w
    BY <1>1, <2>2 DEF IndexKept
  <2> QED
    BY <2>1, <2>2
<1> QED
  BY <1>3, <1>5

\* Taking a row and its output away keeps them in order.
LEMMA ForgetKeeps ==
    ASSUME TypeOK, OutputsKept, IndexKept, load' = load, NEW w \in Workers, NEW k \in Keys,
           ForgetExpired(w, k)
    PROVE  OutputsKept' /\ IndexKept'
<1>1. /\ \A v \in Workers : v # w => outputs'[v] = outputs[v] /\ index'[v] = index[v]
      /\ Len(outputs'[w]) <= MaxEntries /\ Distinct(outputs'[w])
      /\ Entries(outputs'[w]) = {e \in Entries(outputs[w]) : e.node # index[w][k]}
      /\ index'[w] = [index[w] EXCEPT ![k] = NoNode]
      /\ nodes' = nodes /\ MaxEntries' = MaxEntries
  BY ForgetFacts DEF TypeOK, MaxEntries
<1>2. OutputsKept'
  BY <1>1 DEF OutputsKept
<1>3. ASSUME NEW j \in Keys, index'[w][j] # NoNode
      PROVE  \E x \in Entries(outputs'[w]) : x.node = index'[w][j] /\ x.key = j
  <2>1. j # k /\ index'[w][j] = index[w][j] /\ index[w][j] # NoNode
    BY <1>1, <1>3 DEF TypeOK
  <2>2. PICK x \in Entries(outputs[w]) : x.node = index[w][j] /\ x.key = j
    BY <2>1 DEF IndexKept
  <2>3. CASE index[w][k] = NoNode
    BY <1>1, <2>1, <2>2, <2>3
  <2>4. CASE index[w][k] # NoNode
    <3>1. PICK y \in Entries(outputs[w]) : y.node = index[w][k] /\ y.key = k
      BY <2>4 DEF IndexKept
    <3>2. x.node # y.node
      BY <2>1, <2>2, <3>1 DEF OutputsKept, Entries, Distinct
    <3> QED
      BY <1>1, <2>1, <2>2, <3>1, <3>2
  <2> QED
    BY <2>3, <2>4
<1>4. IndexKept'
  <2> SUFFICES ASSUME NEW v \in Workers, NEW j \in Keys, index'[v][j] # NoNode
               PROVE  \E x \in Entries(outputs'[v]) : x.node = index'[v][j] /\ x.key = j
    BY DEF IndexKept
  <2>1. CASE v = w
    BY <1>3, <2>1
  <2>2. CASE v # w
    BY <1>1, <2>2 DEF IndexKept
  <2> QED
    BY <2>1, <2>2
<1> QED
  BY <1>2, <1>4

LEMMA StepDictionaries == IInv /\ [Next]_vars => OutputsKept' /\ IndexKept'
<1> SUFFICES ASSUME IInv, [Next]_vars PROVE OutputsKept' /\ IndexKept'
  OBVIOUS
<1>t. /\ TypeOK /\ OutputsKept /\ IndexKept /\ OneKeyPerNode
      /\ nodes \in [Workers -> SUBSET Nodes]
      /\ index \in [Workers -> [Keys -> Nodes \cup {NoNode}]]
      /\ outputs \in [Workers -> Seq(Entry)]
  BY DEF IInv, TypeOK
<1>u. ASSUME UNCHANGED <<load, nodes, index, outputs>> PROVE OutputsKept' /\ IndexKept'
  BY <1>t, <1>u DEF OutputsKept, IndexKept, MaxEntries
<1>1. ASSUME NEW w \in Workers, NEW k \in Keys, LookupHit(w, k)
      PROVE  OutputsKept' /\ IndexKept'
  <2>1. /\ \A v \in Workers : /\ Entries(outputs'[v]) = Entries(outputs[v])
                              /\ Len(outputs'[v]) <= MaxEntries /\ Distinct(outputs'[v])
        /\ UNCHANGED <<load, nodes, index>>
    BY <1>t, <1>1, HitFacts
  <2> QED
    BY <1>t, <2>1 DEF OutputsKept, IndexKept, MaxEntries
<1>2. ASSUME NEW w \in Workers, NEW k \in Keys, LookupMiss(w, k)
      PROVE  OutputsKept' /\ IndexKept'
  BY <1>t, <1>2, ForgetKeeps DEF LookupMiss
<1>3. ASSUME NEW w \in Workers, NEW k \in Keys, LookupRemote(w, k)
      PROVE  OutputsKept' /\ IndexKept'
  <2>1. ForgetExpired(w, k) /\ load' = load
    BY <1>3 DEF LookupRemote
  <2> QED
    BY <1>t, <2>1, ForgetKeeps
<1>4. ASSUME NEW w \in Workers, NEW k \in Keys, NEW ok \in BOOLEAN, NEW n \in Nodes,
             Register(w, k, ok, n)
      PROVE  OutputsKept' /\ IndexKept'
  <2> DEFINE e   == Registered(k, ok, n)
             idx == [index[w] EXCEPT ![k] = n]
  <2>1. e \in Entry /\ idx \in [Keys -> Nodes \cup {NoNode}] /\ e.node = n /\ e.key = k
    <3>1. e \in Entry
      BY <1>t, RegisteredTyped DEF Registered
    <3>2. idx \in [Keys -> Nodes \cup {NoNode}]
      BY <1>t
    <3>3. e.node = n /\ e.key = k
      BY DEF Registered
    <3> QED
      BY <3>1, <3>2, <3>3
  <2>2. PICK gone \in SUBSET Entries(outputs[w]) : Stored(w, e, nodes[w] \cup {n}, idx, gone)
    BY <1>4, RegisterFacts
  <2>3. idx[k] = n /\ \A j \in Keys : j # k => idx[j] = index[w][j]
    BY <1>t
  <2> HIDE DEF e, idx
  <2>4. ASSUME NEW j \in Keys, idx[j] # NoNode, j # k
        PROVE  \E x \in Entries(outputs[w]) : x.node = idx[j] /\ x.key = j /\ x.node # n
    <3>1. StandsFor(idx[j], j)
          /\ \E x \in Entries(outputs[w]) : x.node = idx[j] /\ x.key = j
      BY <1>t, <2>3, <2>4, RowFacts
    <3>2. idx[j] # n
      BY <1>4, <2>4, <3>1, RegisteredApart
    <3> QED
      BY <3>1, <3>2
  <2>5. load' = load
    BY <1>4 DEF Register
  <2>6. Stored(w, e, nodes[w] \cup {e.node}, idx, gone)
    BY <2>1, <2>2
  <2>7. \A j \in Keys : idx[j] # NoNode =>
           \/ idx[j] = e.node /\ j = e.key
           \/ \E x \in Entries(outputs[w]) :
                 x.node = idx[j] /\ x.key = j /\ (x.node = e.node => x.key = e.key)
    BY <2>1, <2>3, <2>4
  <2> QED
    BY <1>t, <2>1, <2>5, <2>6, <2>7, StoreKeeps
<1>5. ASSUME NEW w \in Workers, Hydrate(w) PROVE OutputsKept' /\ IndexKept'
  <2> DEFINE e == Hydrated(wire[w])
             n == wire[w].res.node
             k == wire[w].key
             idx == HydratedRows(w)
  <2>1. /\ e \in Entry /\ idx \in [Keys -> Nodes \cup {NoNode}] /\ e.node = n /\ e.key = k
        /\ n \in Nodes /\ k \in Keys
    BY <1>5, HydrateFacts DEF Hydrated
  <2>2. PICK gone \in SUBSET Entries(outputs[w]) : Stored(w, e, nodes[w] \cup {n}, idx, gone)
    BY <1>5, HydrateFacts
  <2>3. \A j \in Keys : (idx[j] = n /\ j = k) \/ idx[j] = index[w][j]
    BY <1>t, <2>1 DEF HydratedRows
  <2>4. load' = load /\ wire[w] # Idle
    BY <1>5 DEF Hydrate, Idle
  <2>5. StandsFor(n, k)
    BY <2>4 DEF StandsFor
  <2> HIDE DEF e, idx, n, k
  <2>6. ASSUME NEW j \in Keys, index[w][j] # NoNode
        PROVE  \E x \in Entries(outputs[w]) :
                  x.node = index[w][j] /\ x.key = j /\ (x.node = n => x.key = k)
    BY <1>t, <2>1, <2>5, <2>6, RowFacts DEF OneKeyPerNode
  <2>7. Stored(w, e, nodes[w] \cup {e.node}, idx, gone)
    BY <2>1, <2>2
  <2>8. \A j \in Keys : idx[j] # NoNode =>
           \/ idx[j] = e.node /\ j = e.key
           \/ \E x \in Entries(outputs[w]) :
                 x.node = idx[j] /\ x.key = j /\ (x.node = e.node => x.key = e.key)
    BY <2>1, <2>3, <2>6
  <2> QED
    BY <1>t, <2>1, <2>4, <2>7, <2>8, StoreKeeps
<1>6. ASSUME NEW w \in Workers, StoreRedis(w) PROVE OutputsKept' /\ IndexKept'
  BY <1>6, <1>u DEF StoreRedis
<1>7. ASSUME NEW w \in Workers, StoreRedisFails(w) PROVE OutputsKept' /\ IndexKept'
  BY <1>7, <1>u DEF StoreRedisFails
<1>8. ASSUME NEW w \in Workers, Restart(w) PROVE OutputsKept' /\ IndexKept'
  <2>1. /\ \A v \in Workers : v # w => /\ outputs'[v] = outputs[v] /\ index'[v] = index[v]
                                       /\ nodes'[v] = nodes[v]
        /\ outputs'[w] = <<>> /\ index'[w] = [k \in Keys |-> NoNode]
        /\ MaxEntries' = MaxEntries
    BY <1>t, <1>8 DEF Restart, MaxEntries
  <2>2. Len(outputs'[w]) <= MaxEntries /\ Distinct(outputs'[w]) /\ Entries(outputs'[w]) = {}
    BY <1>t, <2>1, LoadTyped DEF Distinct, Entries, TypeOK
  <2>3. OutputsKept'
    BY <1>t, <2>1, <2>2 DEF OutputsKept
  <2>4. \A k \in Keys : index'[w][k] = NoNode
    BY <2>1
  <2> QED
    BY <1>t, <2>1, <2>3, <2>4 DEF IndexKept
<1>9. CASE Tick
  BY <1>9, <1>u DEF Tick
<1>10. CASE UNCHANGED vars
  BY <1>10, <1>u DEF vars
<1> QED
  BY <1>t, <1>1, <1>2, <1>3, <1>4, <1>5, <1>6, <1>7, <1>8, <1>9, <1>10, LoadTyped
     DEF Next, TypeOK

-----------------------------------------------------------------------------
(***************************************************************************)
(* Which nodes stand for which keys.                                       *)
(***************************************************************************)
\* Where a node may come to stand for a key.
StandsAsBefore(n, k) ==
    /\ \A v \in Workers : \A x \in Entries(outputs'[v]) :
          StandsFor(x.node, x.key) \/ (x.node = n /\ x.key = k)
    /\ \A j \in Keys : redis'[j] # Nil =>
          StandsFor(redis'[j].node, j) \/ (redis'[j].node = n /\ j = k)
    /\ \A v \in Workers : wire'[v] # Idle =>
          \/ StandsFor(wire'[v].res.node, wire'[v].key)
          \/ wire'[v].res.node = n /\ wire'[v].key = k

\* A node keeps to its key if no other key leads to the node that is added.
LEMMA OneKeyKept ==
    ASSUME OneKeyPerNode, NEW n, NEW k, \A j \in Keys : n \in Nodes /\ StandsFor(n, j) => j = k,
           StandsAsBefore(n, k)
    PROVE  OneKeyPerNode'
<1>1. ASSUME NEW m, NEW j \in Keys, StandsFor(m, j)'
      PROVE  StandsFor(m, j) \/ (m = n /\ j = k)
  <2>1. CASE \E v \in Workers : \E x \in Entries(outputs'[v]) : x.node = m /\ x.key = j
    BY <2>1 DEF StandsAsBefore
  <2>2. CASE redis'[j] # Nil /\ redis'[j].node = m
    BY <2>2 DEF StandsAsBefore
  <2>3. CASE \E v \in Workers : wire'[v] # Idle /\ wire'[v].res.node = m /\ wire'[v].key = j
    BY <2>3 DEF StandsAsBefore
  <2>4. \/ \E v \in Workers : \E x \in Entries(outputs'[v]) : x.node = m /\ x.key = j
        \/ redis'[j] # Nil /\ redis'[j].node = m
        \/ \E v \in Workers : wire'[v] # Idle /\ wire'[v].res.node = m /\ wire'[v].key = j
    BY <1>1 DEF StandsFor, Entries
  <2> QED
    BY <2>1, <2>2, <2>3, <2>4
<1> SUFFICES ASSUME NEW m \in Nodes, NEW i \in Keys, NEW j \in Keys,
                    StandsFor(m, i)', StandsFor(m, j)'
             PROVE  i = j
  BY DEF OneKeyPerNode
<1>2. /\ StandsFor(m, i) \/ (m = n /\ i = k)
      /\ StandsFor(m, j) \/ (m = n /\ j = k)
  BY <1>1
<1> QED
  BY <1>2 DEF OneKeyPerNode

\* What stands for a key stands for it.
LEMMA StandingFacts ==
    /\ \A v \in Workers : \A x \in Entries(outputs[v]) : StandsFor(x.node, x.key)
    /\ \A j \in Keys : redis[j] # Nil => StandsFor(redis[j].node, j)
    /\ \A v \in Workers : wire[v] # Idle => StandsFor(wire[v].res.node, wire[v].key)
BY DEF StandsFor

LEMMA StepOneKey == IInv /\ [Next]_vars => OneKeyPerNode'
<1> SUFFICES ASSUME IInv, [Next]_vars PROVE OneKeyPerNode'
  OBVIOUS
<1>t. /\ TypeOK /\ OutputsKept /\ IndexKept /\ OneKeyPerNode
      /\ redis \in [Keys -> Result \cup {Nil}]
      /\ wire \in [Workers -> Busy \cup {Idle}]
  BY DEF IInv, TypeOK
<1>0. ASSUME StandsAsBefore(NoNode, NoNode) PROVE OneKeyPerNode'
  BY <1>t, <1>0, OneKeyKept, CacheAssumption
<1> HIDE DEF Entry, Result, Busy, Nil
<1>1. ASSUME NEW w \in Workers, NEW k \in Keys, LookupHit(w, k) PROVE OneKeyPerNode'
  <2>1. \A v \in Workers : Entries(outputs'[v]) = Entries(outputs[v])
    BY <1>t, <1>1, HitFacts
  <2>2. redis' = redis /\ wire' = wire
    BY <1>1 DEF LookupHit
  <2> QED
    BY <1>0, <2>1, <2>2, StandingFacts DEF StandsAsBefore
<1>2. ASSUME NEW w \in Workers, NEW k \in Keys, LookupMiss(w, k) PROVE OneKeyPerNode'
  <2>1. ForgetExpired(w, k) /\ redis' = redis /\ wire' = wire
    BY <1>2 DEF LookupMiss
  <2>2. \A v \in Workers : Entries(outputs'[v]) \subseteq Entries(outputs[v])
    BY <1>t, <2>1, ForgetFacts
  <2> QED
    BY <1>0, <2>1, <2>2, StandingFacts DEF StandsAsBefore
<1>3. ASSUME NEW w \in Workers, NEW k \in Keys, LookupRemote(w, k) PROVE OneKeyPerNode'
  <2>1. ForgetExpired(w, k) /\ redis' = redis /\ redis[k] # Nil
    BY <1>3 DEF LookupRemote, Readable
  <2>2. \A v \in Workers : Entries(outputs'[v]) \subseteq Entries(outputs[v])
    BY <1>t, <2>1, ForgetFacts
  <2>3. /\ \A v \in Workers : v # w => wire'[v] = wire[v]
        /\ wire'[w].res.node = redis[k].node /\ wire'[w].key = k
    BY <1>t, <1>3 DEF LookupRemote
  <2>4. StandsFor(redis[k].node, k)
    BY <2>1, StandingFacts
  <2> QED
    BY <1>0, <2>1, <2>2, <2>3, <2>4, StandingFacts DEF StandsAsBefore
<1>4. ASSUME NEW w \in Workers, NEW k \in Keys, NEW ok \in BOOLEAN, NEW n \in Nodes,
             Register(w, k, ok, n)
      PROVE  OneKeyPerNode'
  <2> DEFINE e == Registered(k, ok, n)  idx == [index[w] EXCEPT ![k] = n]
  <2>1. PICK gone \in SUBSET Entries(outputs[w]) : Stored(w, e, nodes[w] \cup {n}, idx, gone)
    BY <1>4, RegisterFacts
  <2>2. e.node = n /\ e.key = k
    BY DEF Registered
  <2> HIDE DEF e, idx
  <2>3. /\ \A v \in Workers : v # w => outputs'[v] = outputs[v]
        /\ \A x \in Entries(outputs'[w]) : x \in Entries(outputs[w]) \/ x = e
    BY <2>1 DEF Stored
  <2>4. /\ redis' = redis /\ \A v \in Workers : v # w => wire'[v] = wire[v]
        /\ wire'[w].res.node = n /\ wire'[w].key = k
    BY <1>t, <1>4 DEF Register
  <2>5. StandsAsBefore(n, k)
    BY <2>2, <2>3, <2>4, StandingFacts DEF StandsAsBefore
  <2> QED
    BY <1>t, <1>4, <2>5, RegisteredApart, OneKeyKept
<1>5. ASSUME NEW w \in Workers, Hydrate(w) PROVE OneKeyPerNode'
  <2> DEFINE e == Hydrated(wire[w])  n == wire[w].res.node  k == wire[w].key
  <2>1. PICK gone \in SUBSET Entries(outputs[w]) :
               Stored(w, e, nodes[w] \cup {n}, HydratedRows(w), gone)
    BY <1>5, HydrateFacts
  <2>2. e.node = n /\ e.key = k
    BY DEF Hydrated
  <2>3. wire[w] # Idle /\ redis' = redis /\ wire' = [wire EXCEPT ![w] = Idle]
    BY <1>5 DEF Hydrate, Idle
  <2>4. StandsFor(n, k)
    BY <2>3, StandingFacts
  <2> HIDE DEF e, n, k
  <2>5. /\ \A v \in Workers : v # w => outputs'[v] = outputs[v]
        /\ \A x \in Entries(outputs'[w]) : x \in Entries(outputs[w]) \/ x = e
    BY <2>1 DEF Stored
  <2>6. \A v \in Workers : wire'[v] # Idle => wire'[v] = wire[v]
    BY <1>t, <2>3
  <2> QED
    BY <1>0, <2>2, <2>3, <2>4, <2>5, <2>6, StandingFacts DEF StandsAsBefore
<1>6. ASSUME NEW w \in Workers, StoreRedis(w) PROVE OneKeyPerNode'
  <2> DEFINE c == wire[w]
  <2>1. c # Idle /\ outputs' = outputs /\ wire' = [wire EXCEPT ![w] = Idle]
    BY <1>6 DEF StoreRedis, Idle
  <2>2. \A j \in Keys : redis'[j] # redis[j] => j = c.key /\ redis'[j].node = c.res.node
    BY <1>t, <1>6 DEF StoreRedis
  <2>3. \A v \in Workers : wire'[v] # Idle => wire'[v] = wire[v]
    BY <1>t, <2>1
  <2>4. StandsFor(c.res.node, c.key)
    BY <2>1, StandingFacts
  <2>5. \A j \in Keys : redis'[j] # Nil => StandsFor(redis'[j].node, j)
    BY <2>2, <2>4, StandingFacts
  <2> QED
    BY <1>0, <2>1, <2>3, <2>5, StandingFacts DEF StandsAsBefore
<1>7. ASSUME NEW w \in Workers, StoreRedisFails(w) PROVE OneKeyPerNode'
  <2>1. /\ outputs' = outputs /\ redis' = redis
        /\ \A v \in Workers : wire'[v] # Idle => wire'[v] = wire[v]
    BY <1>t, <1>7 DEF StoreRedisFails
  <2> QED
    BY <1>0, <2>1, StandingFacts DEF StandsAsBefore
<1>8. ASSUME NEW w \in Workers, Restart(w) PROVE OneKeyPerNode'
  <2>1. /\ redis' = redis /\ outputs'[w] = <<>>
        /\ \A v \in Workers : v # w => outputs'[v] = outputs[v]
        /\ \A v \in Workers : wire'[v] # Idle => wire'[v] = wire[v]
    BY <1>t, <1>8 DEF Restart, TypeOK
  <2>2. Entries(outputs'[w]) = {}
    BY <2>1 DEF Entries
  <2> QED
    BY <1>0, <2>1, <2>2, StandingFacts DEF StandsAsBefore
<1>9. CASE Tick
  <2>1. /\ outputs' = outputs /\ redis' = redis
        /\ \A v \in Workers : wire'[v] =
              IF wire[v] = Idle THEN Idle ELSE [wire[v] EXCEPT !.age = @ + 1]
    BY <1>9 DEF Tick
  <2>2. \A v \in Workers : wire'[v] # Idle =>
           wire[v] # Idle /\ wire'[v].res = wire[v].res /\ wire'[v].key = wire[v].key
    BY <1>t, <2>1 DEF Busy
  <2> QED
    BY <1>0, <2>1, <2>2, StandingFacts DEF StandsAsBefore
<1>10. CASE UNCHANGED vars
  BY <1>0, <1>10, StandingFacts DEF vars, StandsAsBefore
<1> QED
  BY <1>t, <1>1, <1>2, <1>3, <1>4, <1>5, <1>6, <1>7, <1>8, <1>9, <1>10, LoadTyped
     DEF Next, TypeOK

-----------------------------------------------------------------------------
\* A key that is being read from Redis is not indexed before the answer is in.
LEMMA StepHydrates == IInv /\ [Next]_vars => HydratesMissing'
<1> SUFFICES ASSUME IInv, [Next]_vars PROVE HydratesMissing'
  OBVIOUS
<1>t. /\ TypeOK /\ OutputsKept /\ IndexKept /\ HydratesMissing
      /\ index \in [Workers -> [Keys -> Nodes \cup {NoNode}]]
      /\ wire \in [Workers -> Busy \cup {Idle}]
  BY DEF IInv, TypeOK
<1>u. Idle.call # "hydrate"
  BY DEF Idle
<1>v. ASSUME NEW w \in Workers,
             \A v \in Workers : v # w => wire'[v] = wire[v] /\ index'[v] = index[v],
             wire'[w].call # "hydrate"
      PROVE  HydratesMissing'
  BY <1>t, <1>v DEF HydratesMissing
<1> HIDE DEF Busy, Idle
<1>1. ASSUME NEW w \in Workers, NEW k \in Keys, LookupHit(w, k) PROVE HydratesMissing'
  BY <1>t, <1>1 DEF LookupHit, HydratesMissing
<1>2. ASSUME NEW w \in Workers, NEW k \in Keys, LookupMiss(w, k) PROVE HydratesMissing'
  BY <1>t, <1>u, <1>v, <1>2 DEF LookupMiss, ForgetExpired
<1>3. ASSUME NEW w \in Workers, NEW k \in Keys, LookupRemote(w, k) PROVE HydratesMissing'
  <2>1. /\ \A v \in Workers : v # w => wire'[v] = wire[v] /\ index'[v] = index[v]
        /\ wire'[w].key = k /\ index'[w][k] = NoNode
    BY <1>t, <1>3 DEF LookupRemote, ForgetExpired
  <2> QED
    BY <1>t, <2>1 DEF HydratesMissing
<1>4. ASSUME NEW w \in Workers, NEW k \in Keys, NEW ok \in BOOLEAN, NEW n \in Nodes,
             Register(w, k, ok, n)
      PROVE  HydratesMissing'
  BY <1>t, <1>v, <1>4 DEF Register, StoreOutput
<1>5. ASSUME NEW w \in Workers, Hydrate(w) PROVE HydratesMissing'
  BY <1>t, <1>u, <1>v, <1>5 DEF Hydrate, StoreOutput
<1>6. ASSUME NEW w \in Workers, StoreRedis(w) PROVE HydratesMissing'
  BY <1>t, <1>u, <1>v, <1>6 DEF StoreRedis
<1>7. ASSUME NEW w \in Workers, StoreRedisFails(w) PROVE HydratesMissing'
  BY <1>t, <1>u, <1>v, <1>7 DEF StoreRedisFails
<1>8. ASSUME NEW w \in Workers, Restart(w) PROVE HydratesMissing'
  BY <1>t, <1>u, <1>v, <1>8 DEF Restart
<1>9. CASE Tick
  <2>1. /\ index' = index
        /\ \A v \in Workers : wire'[v] =
              IF wire[v] = Idle THEN Idle ELSE [wire[v] EXCEPT !.age = @ + 1]
    BY <1>9 DEF Tick
  <2>2. \A v \in Workers : wire'[v].call = "hydrate" =>
           wire[v].call = "hydrate" /\ wire'[v].key = wire[v].key
    BY <1>t, <1>u, <2>1 DEF Busy
  <2> QED
    BY <1>t, <2>1, <2>2 DEF HydratesMissing
<1>10. CASE UNCHANGED vars
  BY <1>t, <1>10 DEF vars, HydratesMissing
<1> QED
  BY <1>t, <1>1, <1>2, <1>3, <1>4, <1>5, <1>6, <1>7, <1>8, <1>9, <1>10, LoadTyped
     DEF Next, TypeOK

-----------------------------------------------------------------------------
(***************************************************************************)
(* Times.  The write to Redis and the read from it each add at most        *)
(* MaxDelay to the life of a result, and no other step adds anything.      *)
(***************************************************************************)
\* The answer on its way in call c is in time.
CallInTime(c, time) ==
    LET ttl == TtlFor(c.key, c.res.ok) IN
    ttl > 0 =>
        /\ c.ttl # Never
        /\ c.call = "set" => c.ttl = ttl /\ time <= c.res.born + c.age
        /\ c.call = "hydrate" => time + c.ttl <= c.res.born + ttl + MaxDelay + c.age

LEMMA WireInTimeFacts ==
    /\ WireInTime = \A w \in Workers : wire[w] # Idle => CallInTime(wire[w], now)
    /\ WireInTime' = \A w \in Workers : wire'[w] # Idle => CallInTime(wire'[w], now')
BY DEF WireInTime, CallInTime, TtlFor

LEMMA BusyFacts ==
    ASSUME NEW c \in Busy
    PROVE  /\ c.call \in {"set", "hydrate"} /\ c.age \in Nat /\ c.age <= MaxDelay /\ c.key \in Keys
           /\ c.res.node \in Nodes /\ c.res.ok \in BOOLEAN /\ c.res.born \in Nat
           /\ c.ttl \in Times /\ TtlFor(c.key, c.res.ok) \in Nat /\ c # Idle /\ MaxDelay \in Nat
<1>1. /\ c.call \in {"set", "hydrate"} /\ c.age \in 0..MaxDelay /\ c.key \in Keys
      /\ c.res.node \in Nodes /\ c.res.ok \in BOOLEAN /\ c.res.born \in Nat /\ c.ttl \in Times
      /\ MaxDelay \in Nat
  BY CacheAssumption DEF Busy
<1> QED
  BY <1>1, TtlTyped DEF Idle

\* The entries that are stored are in time.
LEMMA RegisteredInTime ==
    ASSUME TypeOK, NEW k \in Keys, NEW ok \in BOOLEAN, NEW n \in Nodes
    PROVE  InTime(Registered(k, ok, n), 2 * MaxDelay)
<1>1. now \in Nat /\ TtlFor(k, ok) \in Nat /\ MaxDelay \in Nat
  BY TtlTyped, CacheAssumption DEF TypeOK
<1> QED
  BY <1>1 DEF InTime, Registered, Never

LEMMA HydratedInTime ==
    ASSUME TypeOK, WireInTime, NEW w \in Workers, wire[w].call = "hydrate"
    PROVE  InTime(Hydrated(wire[w]), 2 * MaxDelay)
<1> DEFINE c == wire[w]  ttl == TtlFor(c.key, c.res.ok)
<1>1. c \in Busy /\ now \in Nat
  BY DEF TypeOK, Idle
<1>2. CallInTime(c, now)
  BY <1>1, WireInTimeFacts, BusyFacts
<1>3. /\ c.age \in Nat /\ c.age <= MaxDelay /\ c.res.born \in Nat
      /\ c.ttl \in Times /\ ttl \in Nat /\ MaxDelay \in Nat
  BY <1>1, BusyFacts
<1>4. ttl > 0 => c.ttl # Never /\ now + c.ttl <= c.res.born + ttl + MaxDelay + c.age
  BY <1>2 DEF CallInTime
<1>5. c.ttl # Never => now + c.ttl # Never
  BY <1>1, <1>3 DEF Times, Never
<1>6. /\ Hydrated(c).key = c.key /\ Hydrated(c).ok = c.res.ok /\ Hydrated(c).born = c.res.born
      /\ Hydrated(c).expires = IF c.ttl = Never THEN Never ELSE now + c.ttl
  BY DEF Hydrated, Expiry
<1> HIDE DEF c, ttl
<1>7. ttl > 0 => c.ttl # Never /\ now + c.ttl # Never
                 /\ now + c.ttl <= c.res.born + ttl + 2 * MaxDelay
  BY <1>1, <1>3, <1>4, <1>5 DEF Times
<1> QED
  BY <1>6, <1>7 DEF InTime, c, ttl

LEMMA StepOutputsInTime == IInv /\ [Next]_vars => OutputsInTime'
<1> SUFFICES ASSUME IInv, [Next]_vars PROVE OutputsInTime'
  OBVIOUS
<1>t. TypeOK /\ OutputsKept /\ IndexKept /\ OutputsInTime /\ WireInTime
  BY DEF IInv
<1>0. ASSUME \A v \in Workers : \A x \in Entries(outputs'[v]) :
                x \in Entries(outputs[v]) \/ InTime(x, 2 * MaxDelay)
      PROVE  OutputsInTime'
  <2>1. \A v \in Workers : \A x \in Entries(outputs'[v]) : InTime(x, 2 * MaxDelay)
    BY <1>t, <1>0 DEF OutputsInTime
  <2> QED
    BY <2>1 DEF OutputsInTime, InTime, Entries, TtlFor
<1>1. ASSUME NEW w \in Workers, NEW k \in Keys, LookupHit(w, k) PROVE OutputsInTime'
  BY <1>t, <1>0, <1>1, HitFacts
<1>2. ASSUME NEW w \in Workers, NEW k \in Keys, ForgetExpired(w, k) PROVE OutputsInTime'
  <2>1. \A v \in Workers : Entries(outputs'[v]) \subseteq Entries(outputs[v])
    BY <1>t, <1>2, ForgetFacts
  <2> QED
    BY <1>0, <2>1
<1>3. ASSUME NEW w \in Workers, NEW k \in Keys, NEW ok \in BOOLEAN, NEW n \in Nodes,
             Register(w, k, ok, n)
      PROVE  OutputsInTime'
  <2> DEFINE e == Registered(k, ok, n)  idx == [index[w] EXCEPT ![k] = n]
  <2>1. PICK gone \in SUBSET Entries(outputs[w]) : Stored(w, e, nodes[w] \cup {n}, idx, gone)
    BY <1>3, RegisterFacts
  <2>2. InTime(e, 2 * MaxDelay)
    BY <1>t, RegisteredInTime
  <2> HIDE DEF e, idx
  <2>3. /\ \A v \in Workers : v # w => outputs'[v] = outputs[v]
        /\ \A x \in Entries(outputs'[w]) : x \in Entries(outputs[w]) \/ x = e
    BY <2>1 DEF Stored
  <2> QED
    BY <1>0, <2>2, <2>3
<1>4. ASSUME NEW w \in Workers, Hydrate(w) PROVE OutputsInTime'
  <2> DEFINE e == Hydrated(wire[w])  n == wire[w].res.node
  <2>1. PICK gone \in SUBSET Entries(outputs[w]) :
               Stored(w, e, nodes[w] \cup {n}, HydratedRows(w), gone)
    BY <1>4, HydrateFacts
  <2>2. wire[w].call = "hydrate"
    BY <1>4 DEF Hydrate
  <2>3. InTime(e, 2 * MaxDelay)
    BY <1>t, <2>2, HydratedInTime
  <2> HIDE DEF e, n
  <2>4. /\ \A v \in Workers : v # w => outputs'[v] = outputs[v]
        /\ \A x \in Entries(outputs'[w]) : x \in Entries(outputs[w]) \/ x = e
    BY <2>1 DEF Stored
  <2> QED
    BY <1>0, <2>3, <2>4
<1>5. ASSUME NEW w \in Workers, Restart(w) PROVE OutputsInTime'
  <2>1. outputs'[w] = <<>> /\ \A v \in Workers : v # w => outputs'[v] = outputs[v]
    BY <1>t, <1>5 DEF Restart, TypeOK
  <2>2. Entries(outputs'[w]) = {}
    BY <2>1 DEF Entries
  <2> QED
    BY <1>0, <2>1, <2>2
<1>6. ASSUME UNCHANGED outputs PROVE OutputsInTime'
  BY <1>0, <1>6
<1> QED
  BY <1>t, <1>1, <1>2, <1>3, <1>4, <1>5, <1>6, LoadTyped
     DEF Next, TypeOK, vars, LookupMiss, LookupRemote, StoreRedis, StoreRedisFails, Tick

LEMMA StepRedisInTime == IInv /\ [Next]_vars => RedisInTime'
<1> SUFFICES ASSUME IInv, [Next]_vars PROVE RedisInTime'
  OBVIOUS
<1>t. /\ TypeOK /\ RedisInTime /\ WireInTime
      /\ redis \in [Keys -> Result \cup {Nil}] /\ wire \in [Workers -> Busy \cup {Idle}]
      /\ now \in Nat
  BY DEF IInv, TypeOK
<1> HIDE DEF Busy, Result, Nil
<1>1. ASSUME NEW w \in Workers, StoreRedis(w) PROVE RedisInTime'
  <2> DEFINE c == wire[w]  ttl == TtlFor(c.key, c.res.ok)
             r == [node |-> c.res.node, ok |-> c.res.ok, born |-> c.res.born,
                   expires |-> IF c.ttl = Never THEN Never ELSE now + c.ttl]
  <2>1. c.call = "set" /\ redis' = [redis EXCEPT ![c.key] = r]
    BY <1>1 DEF StoreRedis
  <2>2. c \in Busy
    BY <1>t, <2>1 DEF Idle
  <2>3. CallInTime(c, now)
    BY <1>t, <2>2, WireInTimeFacts, BusyFacts
  <2>4. /\ c.age \in Nat /\ c.age <= MaxDelay /\ c.res.born \in Nat /\ c.key \in Keys
        /\ c.ttl \in Times /\ ttl \in Nat /\ MaxDelay \in Nat
    BY <2>2, BusyFacts
  <2>5. ttl > 0 => c.ttl = ttl /\ now <= c.res.born + c.age
    BY <2>1, <2>3 DEF CallInTime
  <2>6. r.ok = c.res.ok /\ r.born = c.res.born
        /\ r.expires = IF c.ttl = Never THEN Never ELSE now + c.ttl
    OBVIOUS
  <2> HIDE DEF c, ttl, r
  <2>7. ttl > 0 => r.expires # Never /\ r.expires <= r.born + ttl + MaxDelay
    BY <1>t, <2>4, <2>5, <2>6 DEF Never
  <2>8. redis'[c.key] = r /\ \A k \in Keys : k # c.key => redis'[k] = redis[k]
    BY <1>t, <2>1, <2>4
  <2>9. TtlFor(c.key, redis'[c.key].ok) = ttl
    BY <2>6, <2>8 DEF ttl
  <2> QED
    BY <1>t, <2>7, <2>8, <2>9 DEF RedisInTime, TtlFor
<1>2. ASSUME UNCHANGED redis PROVE RedisInTime'
  BY <1>t, <1>2 DEF RedisInTime, TtlFor
<1>3. ASSUME NEW w \in Workers, NEW k \in Keys,
             LookupHit(w, k) \/ LookupMiss(w, k) \/ LookupRemote(w, k)
      PROVE  RedisInTime'
  BY <1>2, <1>3 DEF LookupHit, LookupMiss, LookupRemote
<1>4. ASSUME NEW w \in Workers, NEW k \in Keys, NEW ok \in BOOLEAN, NEW n \in Nodes,
             Register(w, k, ok, n)
      PROVE  RedisInTime'
  BY <1>2, <1>4 DEF Register
<1>5. ASSUME NEW w \in Workers, Hydrate(w) \/ StoreRedisFails(w) \/ Restart(w)
      PROVE  RedisInTime'
  BY <1>2, <1>5 DEF Hydrate, StoreRedisFails, Restart
<1>6. CASE Tick \/ UNCHANGED vars
  BY <1>2, <1>6 DEF Tick, vars
<1> QED
  BY <1>t, <1>1, <1>3, <1>4, <1>5, <1>6, LoadTyped DEF Next, TypeOK

LEMMA StepWireInTime == IInv /\ [Next]_vars => WireInTime'
<1> SUFFICES ASSUME IInv, [Next]_vars PROVE WireInTime'
  OBVIOUS
<1>t. /\ TypeOK /\ RedisInTime /\ WireInTime
      /\ redis \in [Keys -> Result \cup {Nil}] /\ wire \in [Workers -> Busy \cup {Idle}]
      /\ now \in Nat
  BY DEF IInv, TypeOK
<1>i. \A v \in Workers : wire[v] # Idle => wire[v] \in Busy /\ CallInTime(wire[v], now)
  BY <1>t, WireInTimeFacts
<1>0. ASSUME NEW w \in Workers, now' = now,
             \A v \in Workers : v # w => wire'[v] = wire[v],
             wire'[w] # Idle => CallInTime(wire'[w], now)
      PROVE  WireInTime'
  BY <1>i, <1>0, WireInTimeFacts
<1> HIDE DEF Busy, Idle, Result, Nil
<1>1. ASSUME NEW w \in Workers, NEW k \in Keys,
             LookupHit(w, k) \/ LookupMiss(w, k)
      PROVE  WireInTime'
  BY <1>i, <1>0, <1>1 DEF LookupHit, LookupMiss, ForgetExpired
<1>2. ASSUME NEW w \in Workers, NEW k \in Keys, LookupRemote(w, k) PROVE WireInTime'
  <2> DEFINE r == redis[k]  ttl == TtlFor(k, r.ok)
             c == [call |-> "hydrate", age |-> 0, key |-> k,
                   res |-> [node |-> r.node, ok |-> r.ok, born |-> r.born],
                   ttl |-> IF r.expires = Never THEN Never ELSE r.expires - now]
  <2>1. r # Nil /\ (r.expires = Never \/ now < r.expires)
    <3>1. Readable(r)
      BY <1>2 DEF LookupRemote
    <3>2. r \in Result
      BY <1>t, <3>1 DEF Readable
    <3> QED
      BY <1>t, <3>1, <3>2 DEF Readable, Expired, Result, Times
  <2>2. r.ok \in BOOLEAN /\ r.born \in Nat /\ r.expires \in Times
    BY <1>t, <2>1 DEF Result
  <2>3. ttl > 0 => r.expires # Never /\ r.expires <= r.born + ttl + MaxDelay
    BY <2>1, <1>t DEF RedisInTime
  <2>4. ttl \in Nat /\ MaxDelay \in Nat
    BY <2>2, TtlTyped, CacheAssumption
  <2>5. /\ c.key = k /\ c.res.ok = r.ok /\ c.res.born = r.born /\ c.age = 0
        /\ c.call = "hydrate" /\ c.ttl = IF r.expires = Never THEN Never ELSE r.expires - now
    OBVIOUS
  <2>6. /\ wire' = [wire EXCEPT ![w] = c] /\ now' = now
    BY <1>2 DEF LookupRemote, ForgetExpired
  <2> HIDE DEF c, r
  <2>7. ttl > 0 => c.ttl # Never /\ now + c.ttl <= c.res.born + ttl + MaxDelay + c.age
    BY <1>t, <2>1, <2>2, <2>3, <2>4, <2>5 DEF Times, Never
  <2>8. CallInTime(c, now)
    BY <2>5, <2>7 DEF CallInTime
  <2>9. wire'[w] = c /\ \A v \in Workers : v # w => wire'[v] = wire[v]
    BY <1>t, <2>6
  <2> QED
    BY <1>0, <2>6, <2>8, <2>9
<1>3. ASSUME NEW w \in Workers, NEW k \in Keys, NEW ok \in BOOLEAN, NEW n \in Nodes,
             Register(w, k, ok, n)
      PROVE  WireInTime'
  <2> DEFINE ttl == TtlFor(k, ok)
             c == [call |-> "set", age |-> 0, key |-> k,
                   res |-> [node |-> n, ok |-> ok, born |-> now],
                   ttl |-> IF ttl > 0 THEN ttl ELSE Never]
  <2>1. wire' = [wire EXCEPT ![w] = c] /\ now' = now
    BY <1>3 DEF Register
  <2>2. CallInTime(c, now)
    BY <1>t, TtlTyped DEF CallInTime, Never
  <2> HIDE DEF c
  <2>3. wire'[w] = c /\ \A v \in Workers : v # w => wire'[v] = wire[v]
    BY <1>t, <2>1
  <2> QED
    BY <1>0, <2>1, <2>2, <2>3
<1>4. ASSUME NEW w \in Workers,
             Hydrate(w) \/ StoreRedis(w) \/ StoreRedisFails(w) \/ Restart(w)
      PROVE  WireInTime'
  <2>1. wire' = [wire EXCEPT ![w] = Idle] /\ now' = now
    BY <1>4 DEF Hydrate, StoreRedis, StoreRedisFails, Restart
  <2>2. wire'[w] = Idle /\ \A v \in Workers : v # w => wire'[v] = wire[v]
    BY <1>t, <2>1
  <2> QED
    BY <1>0, <2>1, <2>2
<1>5. CASE Tick
  <2> SUFFICES ASSUME NEW v \in Workers, wire'[v] # Idle PROVE CallInTime(wire'[v], now')
    BY WireInTimeFacts
  <2> DEFINE c == wire[v]  d == [c EXCEPT !.age = @ + 1]
  <2>1. c # Idle /\ wire'[v] = d /\ now' = now + 1
    BY <1>5 DEF Tick
  <2>2. c \in Busy /\ CallInTime(c, now)
    BY <1>i, <2>1
  <2>3. /\ c.age \in Nat /\ c.res.born \in Nat /\ c.ttl \in Times
        /\ TtlFor(c.key, c.res.ok) \in Nat /\ MaxDelay \in Nat
    BY <2>2, BusyFacts
  <2>4. /\ d.key = c.key /\ d.res = c.res /\ d.call = c.call /\ d.ttl = c.ttl
        /\ d.age = c.age + 1
    BY <2>2 DEF Busy
  <2> HIDE DEF c, d
  <2> QED
    BY <1>t, <2>1, <2>2, <2>3, <2>4 DEF CallInTime, Times
<1>6. CASE UNCHANGED vars
  BY <1>i, <1>6, WireInTimeFacts DEF vars
<1> QED
  BY <1>t, <1>1, <1>2, <1>3, <1>4, <1>5, <1>6, LoadTyped DEF Next, TypeOK

-----------------------------------------------------------------------------
LEMMA InitIInv == Init => IInv
<1> SUFFICES ASSUME Init PROVE IInv
  OBVIOUS
<1>1. /\ load \in Loads /\ \A w \in Workers : nodes[w] = {} /\ outputs[w] = <<>>
      /\ \A w \in Workers : wire[w] = Idle
      /\ \A w \in Workers, k \in Keys : index[w][k] = NoNode
      /\ \A k \in Keys : redis[k] = Nil
  BY DEF Init
<1>2. TypeOK
  <2>1. <<>> \in Seq(Entry) /\ now \in 0..MaxTime
    BY CacheAssumption DEF Init
  <2> HIDE DEF Entry, Busy, Idle, Result, Nil
  <2> QED
    BY <1>1, <2>1 DEF Init, TypeOK
<1>3. \A w \in Workers : Entries(outputs[w]) = {}
  BY <1>1 DEF Entries
<1>4. OutputsKept
  BY <1>1, <1>3, LoadTyped DEF OutputsKept, Distinct
<1>5. IndexKept /\ OneKeyPerNode
  BY <1>1, <1>3 DEF IndexKept, OneKeyPerNode, StandsFor
<1>6. HydratesMissing /\ OutputsInTime /\ RedisInTime /\ WireInTime
  BY <1>1, <1>3 DEF HydratesMissing, OutputsInTime, RedisInTime, WireInTime, Idle
<1> QED
  BY <1>2, <1>4, <1>5, <1>6 DEF IInv

\* Whatever the workers do, and whenever Redis answers, the dictionaries of each
\* worker agree, a node stands for one key in all the workers and in Redis, and
\* no result is kept longer than the delays of one write and one read allow.
THEOREM InductiveInvariant == Spec => []IInv
<1>1. IInv /\ [Next]_vars => IInv'
  BY StepTyped, StepDictionaries, StepOneKey, StepHydrates, StepOutputsInTime,
     StepRedisInTime, StepWireInTime DEF IInv
<1> QED
  BY <1>1, InitIInv, PTL DEF Spec

\* Outputs of different nodes are as many as their nodes.
LEMMA DistinctNodes ==
    ASSUME NEW S, NEW s \in Seq(S), Distinct(s)
    PROVE  Cardinality({s[i].node : i \in DOMAIN s}) = Len(s)
<1> DEFINE D == 1..Len(s)
           N == {s[i].node : i \in D}
           f == [i \in D |-> s[i].node]
<1>1. Len(s) \in Nat /\ DOMAIN s = D
  OBVIOUS
<1>2. f \in Bijection(D, N)
  <2>1. f \in Surjection(D, N)
    BY DEF Surjection
  <2>2. f \in Injection(D, N)
    BY <1>1 DEF Injection, IsInjective, Distinct
  <2> QED
    BY <2>1, <2>2 DEF Bijection
<1>3. IsFiniteSet(D) /\ Cardinality(D) = Len(s)
  BY <1>1, FS_Interval
<1>4. Cardinality(N) = Cardinality(D)
  BY <1>2, <1>3, FS_Bijection DEF ExistsBijection
<1> QED
  BY <1>1, <1>3, <1>4

\* CacheConsistent: an indexed key leads to a known node and to an output that
\* was stored for that very key, and the outputs, one for each node, are those of
\* known nodes and keep to the bound.
THEOREM Consistency == Spec => []CacheConsistent
<1>1. IInv => CacheConsistent
  <2> SUFFICES ASSUME IInv PROVE CacheConsistent
    OBVIOUS
  <2>1. TypeOK /\ OutputsKept /\ IndexKept
    BY DEF IInv
  <2>2. IndexConsistent
    BY <2>1 DEF IndexConsistent, IndexKept, OutputsKept, Entries
  <2>3. ASSUME NEW w \in Workers
        PROVE  /\ Len(outputs[w]) <= load.maxEntries
               /\ Cardinality(OutputNodes(w)) = Len(outputs[w])
               /\ OutputNodes(w) \subseteq nodes[w]
    <3>1. outputs[w] \in Seq(Entry) /\ Distinct(outputs[w])
      BY <2>1, EntriesTyped DEF OutputsKept
    <3>2. Cardinality(OutputNodes(w)) = Len(outputs[w])
      BY <3>1, DistinctNodes DEF OutputNodes
    <3>3. OutputNodes(w) \subseteq nodes[w]
      BY <2>1 DEF OutputNodes, OutputsKept, Entries
    <3> QED
      BY <2>1, <3>2, <3>3 DEF OutputsKept, MaxEntries
  <2> QED
    BY <2>1, <2>2, <2>3 DEF CacheConsistent, OutputsBounded
<1> QED
  BY <1>1, InductiveInvariant, PTL

\* NeverStale: no chain of workers, hydrations and rewrites serves a result later
\* than its time to live and the delays of one write and one read.
THEOREM Freshness == Spec => []NeverStale
<1>1. IInv => NeverStale
  BY DEF IInv, NeverStale, OutputsInTime, InTime, Entries
<1> QED
  BY <1>1, InductiveInvariant, PTL

-----------------------------------------------------------------------------
\* A row that disappears when an entry is stored was the row of an evicted output.
LEMMA DroppedRow ==
    ASSUME TypeOK, NEW w \in Workers, NEW e, NEW nds, NEW idx, NEW gone, NEW k \in Keys,
           Stored(w, e, nds, idx, gone), index'[w][k] # idx[k]
    PROVE  idx[k] \notin nodes'[w] /\ idx[k] \notin {x.node : x \in Entries(outputs'[w])}
<1>1. index'[w] = DropRows(idx, gone) /\ nodes'[w] = nds \ {g.node : g \in gone}
  BY DEF Stored, TypeOK
<1>2. PICK g \in gone : g.key = k /\ g.node = idx[k]
  BY <1>1 DEF DropRows
<1> QED
  BY <1>1, <1>2 DEF Stored

\* LeavesTogether: a good entry that a lookup would find goes away by a restart
\* or by being evicted, and then its row, its output and its node go together.
THEOREM LeaveTogether == Spec => LeavesTogether
<1> DEFINE Together(w, k) ==
             Cached(w, k) /\ index'[w][k] # index[w][k] =>
                /\ index[w][k] \notin nodes'[w]
                /\ index[w][k] \notin {outputs'[w][i].node : i \in DOMAIN outputs'[w]}
<1>s. ASSUME IInv, [Next]_vars, NEW w \in Workers, NEW k \in Keys PROVE Together(w, k)
  <2> SUFFICES ASSUME Cached(w, k), index'[w][k] # index[w][k]
               PROVE  /\ index[w][k] \notin nodes'[w]
                      /\ index[w][k] \notin {x.node : x \in Entries(outputs'[w])}
    BY DEF Entries
  <2>t. /\ TypeOK /\ OutputsKept /\ IndexKept /\ HydratesMissing /\ index[w][k] # NoNode
        /\ index \in [Workers -> [Keys -> Nodes \cup {NoNode}]]
        /\ nodes \in [Workers -> SUBSET Nodes]
        /\ outputs \in [Workers -> Seq(Entry)]
    BY <1>s DEF IInv, TypeOK, Cached
  <2>u. index' # index
    OBVIOUS
  <2>1. ASSUME NEW v \in Workers, NEW j \in Keys, LookupMiss(v, j) \/ LookupRemote(v, j)
        PROVE  FALSE
    BY <2>t, <2>1 DEF LookupMiss, LookupRemote, ForgetExpired
  <2>2. ASSUME NEW v \in Workers, NEW j \in Keys, NEW ok \in BOOLEAN, NEW n \in Nodes,
               Register(v, j, ok, n)
        PROVE  /\ index[w][k] \notin nodes'[w]
               /\ index[w][k] \notin {x.node : x \in Entries(outputs'[w])}
    <3> DEFINE e == Registered(j, ok, n)  idx == [index[v] EXCEPT ![j] = n]
    <3>1. PICK gone \in SUBSET Entries(outputs[v]) :
                 Stored(v, e, nodes[v] \cup {n}, idx, gone)
      BY <1>s, <2>2, RegisterFacts
    <3>2. v = w
      BY <2>t, <3>1 DEF Stored
    <3>3. idx[k] = index[w][k]
      BY <2>t, <2>2, <3>2 DEF Register
    <3> HIDE DEF e, idx
    <3>5. Stored(w, e, nodes[v] \cup {n}, idx, gone) /\ index'[w][k] # idx[k]
      BY <3>1, <3>2, <3>3
    <3>6. /\ idx[k] \notin nodes'[w]
          /\ idx[k] \notin {x.node : x \in Entries(outputs'[w])}
      BY <2>t, <3>5, DroppedRow
    <3> QED
      BY <3>3, <3>6
  <2>3. ASSUME NEW v \in Workers, Hydrate(v)
        PROVE  /\ index[w][k] \notin nodes'[w]
               /\ index[w][k] \notin {x.node : x \in Entries(outputs'[w])}
    <3> DEFINE e == Hydrated(wire[v])  n == wire[v].res.node  idx == HydratedRows(v)
    <3>1. PICK gone \in SUBSET Entries(outputs[v]) :
                 Stored(v, e, nodes[v] \cup {n}, idx, gone)
      BY <1>s, <2>3, HydrateFacts
    <3>2. v = w
      BY <2>t, <3>1 DEF Stored
    <3>3. index[w][wire[w].key] = NoNode
      BY <2>t, <2>3, <3>2 DEF Hydrate, HydratesMissing
    <3>4. idx[k] = index[w][k]
      BY <2>t, <3>2, <3>3 DEF HydratedRows
    <3> HIDE DEF e, n, idx
    <3>5. Stored(w, e, nodes[v] \cup {n}, idx, gone) /\ index'[w][k] # idx[k]
      BY <3>1, <3>2, <3>4
    <3>6. /\ idx[k] \notin nodes'[w]
          /\ idx[k] \notin {x.node : x \in Entries(outputs'[w])}
      BY <2>t, <3>5, DroppedRow
    <3> QED
      BY <3>4, <3>6
  <2>4. ASSUME NEW v \in Workers, Restart(v)
        PROVE  /\ index[w][k] \notin nodes'[w]
               /\ index[w][k] \notin {x.node : x \in Entries(outputs'[w])}
    <3>1. v = w
      BY <2>t, <2>4 DEF Restart
    <3>2. nodes'[w] = {} /\ outputs'[w] = <<>>
      BY <2>t, <2>4, <3>1 DEF Restart
    <3> QED
      BY <3>2 DEF Entries
  <2>5. ASSUME NEW v \in Workers, NEW j \in Keys, LookupHit(v, j) PROVE FALSE
    BY <2>u, <2>5 DEF LookupHit
  <2>6. ASSUME NEW v \in Workers, StoreRedis(v) \/ StoreRedisFails(v) PROVE FALSE
    BY <2>u, <2>6 DEF StoreRedis, StoreRedisFails
  <2>7. ~Tick /\ ~UNCHANGED vars
    BY <2>u DEF Tick, vars
  <2> QED
    BY <1>s, <2>t, <2>1, <2>2, <2>3, <2>4, <2>5, <2>6, <2>7, LoadTyped DEF Next, TypeOK
<1>1. IInv /\ [Next]_vars => \A w \in Workers, k \in Keys : Together(w, k)
  BY <1>s
<1> QED
  BY <1>1, InductiveInvariant, PTL DEF Spec, LeavesTogether
=============================================================================
