----------------------- MODULE RedisStreamsTransport -----------------------
(***************************************************************************)
(* The broker adapter of the document consumer                             *)
(* (redis_streams_transport.py): one stream read through a consumer group, *)
(* acknowledgement and retry by message id, and the consumer that starts,  *)
(* reads and stops it (document/processing.py).                            *)
(*                                                                         *)
(* The stream, its last-delivered id and its pending entries list (PEL)    *)
(* are Redis's: XADD appends, XREADGROUP with ">" hands out entries that   *)
(* nobody has read and puts them on the PEL, XACK takes one off.  What a   *)
(* handler does with a message is module DocumentOperations; here it only  *)
(* ends by acknowledging, by retrying, or without either.                  *)
(***************************************************************************)
EXTENDS Integers, Sequences, FiniteSets

CONSTANTS
    Messages,     \* message ids
    Consumers,    \* consumer processes, each with its own transport
    Slots,        \* max_concurrency of a consumer
    MaxAttempts,  \* max_attempts of a consumer
    MaxFaults     \* bound: stops, crashes, and tasks that end without an answer

\* What the constructor of the consumer lets pass.
OptionsAccepted == Slots \in Nat \ {0} /\ MaxAttempts \in Nat \ {0}

ASSUME TransportAssumption ==
    /\ IsFiniteSet(Messages)
    /\ OptionsAccepted
    /\ MaxFaults \in Nat

VARIABLES
    life,       \* each consumer: "down", "started", "reading", "draining"
    group,      \* the consumer group exists
    stream,     \* the entries of the stream, in order
    delivered,  \* last-delivered id of the group
    pel,        \* ids of the entries delivered and not acknowledged
    fetched,    \* the entry each dispatcher has read and not handed on, or 0
    hand,       \* the deliveries each consumer's handlers work on
    entryIds,   \* _entry_ids of each transport, by message id; 0: none
    settled,    \* messages a handler has finished and means to acknowledge
    failures,   \* publication_attempts of the row of each message, up to MaxAttempts
    faults

vars == <<life, group, stream, delivered, pel, fetched, hand, entryIds, settled,
          failures, faults>>

Ids == 1..Len(stream)
Delivery == [id : Nat \ {0}, step : {"handling", "unpublished", "retrying", "acking"}]

\* Attempts at the work and, after them, at the publication of its outcome.
Attempts == 1..(2 * MaxAttempts - 1)

\* Types, and that every attempt above max_attempts stands for a result that could
\* not be published.
TypeOK ==
    /\ life \in [Consumers -> {"down", "started", "reading", "draining"}]
    /\ group \in BOOLEAN
    /\ stream \in Seq([msg : Messages, attempt : Attempts])
    /\ \A i \in Ids : stream[i].attempt <= MaxAttempts + failures[stream[i].msg]
    /\ delivered \in 0..Len(stream)
    /\ pel \subseteq 1..delivered
    /\ fetched \in [Consumers -> 0..delivered]
    /\ \A c \in Consumers :
          /\ hand[c] \subseteq Delivery
          /\ \A d \in hand[c] : d.id <= delivered
          /\ Cardinality(hand[c]) <= Slots
    /\ entryIds \in [Consumers -> [Messages -> 0..delivered]]
    /\ settled \subseteq Messages
    /\ failures \in [Messages -> 0..MaxAttempts]
    /\ faults \in 0..MaxFaults

Init ==
    /\ life = [c \in Consumers |-> "down"] /\ group = FALSE
    /\ stream = <<>>
    /\ delivered = 0
    /\ pel = {}
    /\ fetched = [c \in Consumers |-> 0]
    /\ hand = [c \in Consumers |-> {}]
    /\ entryIds = [c \in Consumers |-> [m \in Messages |-> 0]]
    /\ settled = {}
    /\ failures = [m \in Messages |-> 0]
    /\ faults = 0

Published == {stream[i].msg : i \in Ids}
MsgOf(d) == stream[d.id].msg

Move(c, d, step) == hand' = [hand EXCEPT ![c] = (@ \ {d}) \cup {[d EXCEPT !.step = step]}]
End(c, d)        == hand' = [hand EXCEPT ![c] = @ \ {d}]
Fault            == faults < MaxFaults /\ faults' = faults + 1

-----------------------------------------------------------------------------
\* Somebody publishes a request, whether or not anybody has ever read the stream.
Publish(m) ==
    /\ m \notin Published
    /\ stream' = Append(stream, [msg |-> m, attempt |-> 1])
    /\ UNCHANGED <<life, group, delivered, pel, fetched, hand, entryIds,
                   settled, failures, faults>>

Start(c) ==
    /\ life[c] = "down"
    /\ life' = [life EXCEPT ![c] = "started"]
    /\ UNCHANGED <<group, stream, delivered, pel, fetched, hand, entryIds,
                   settled, failures, faults>>

\* Mutant of EnsureGroup: the group begins with what is published from now on.
EnsureGroupNew(c) ==
    /\ life[c] = "started"
    /\ life' = [life EXCEPT ![c] = "reading"]
    /\ group' = TRUE
    /\ delivered' = IF group THEN delivered ELSE Len(stream)
    /\ UNCHANGED <<stream, pel, fetched, hand, entryIds, settled, failures, faults>>

\* _ensure_group: the group begins at the beginning of the stream, and one that
\* is there already is left as it is.
EnsureGroup(c) ==
    /\ life[c] = "started"
    /\ life' = [life EXCEPT ![c] = "reading"]
    /\ group' = TRUE
    /\ delivered' = IF group THEN delivered ELSE 0
    /\ UNCHANGED <<stream, pel, fetched, hand, entryIds, settled, failures, faults>>

\* Mutant of Read: pending entries of any consumer are read again.
ReadAgain(c) ==
    /\ life[c] = "reading" /\ fetched[c] = 0
    /\ \E i \in pel \cup {delivered + 1} :
          /\ i <= Len(stream)
          /\ delivered' = IF i > delivered THEN i ELSE delivered
          /\ pel' = pel \cup {i}
          /\ fetched' = [fetched EXCEPT ![c] = i]
    /\ UNCHANGED <<life, group, stream, hand, entryIds, settled, failures, faults>>

\* consume: the next entry that no consumer of the group has been given.
Read(c) ==
    /\ life[c] = "reading" /\ fetched[c] = 0 /\ delivered < Len(stream)
    /\ delivered' = delivered + 1
    /\ pel' = pel \cup {delivered + 1}
    /\ fetched' = [fetched EXCEPT ![c] = delivered + 1]
    /\ UNCHANGED <<life, group, stream, hand, entryIds, settled, failures, faults>>

\* The semaphore has room; a mutant that does not ask it.
SlotUnasked(c) == TRUE
SlotFree(c)    == Cardinality(hand[c]) < Slots

\* _consume waits for a free slot, starts the handler and asks the transport
\* for more; only then does consume note the entry id.
Dispatch(c) ==
    LET i == fetched[c] IN
    /\ i # 0 /\ SlotFree(c)
    /\ hand' = [hand EXCEPT ![c] = @ \cup {[id |-> i, step |-> "handling"]}]
    /\ entryIds' = [entryIds EXCEPT ![c][stream[i].msg] = i]
    /\ fetched' = [fetched EXCEPT ![c] = 0]
    /\ UNCHANGED <<life, group, stream, delivered, pel, settled, failures, faults>>

\* The handler has finished the message.
Settle(c, d) ==
    /\ d.step = "handling"
    /\ settled' = settled \cup {MsgOf(d)}
    /\ Move(c, d, "acking")
    /\ UNCHANGED <<life, group, stream, delivered, pel, fetched,
                   entryIds, failures, faults>>

\* The result cannot be published.  The row counts it, together with what the
\* recovery task failed at in the meantime; a row that has seen max_attempts
\* failures keeps the result and the message is acknowledged.
PublicationFails(c, d) ==
    /\ d.step = "handling"
    /\ \E n \in 1..MaxAttempts :
          /\ n > failures[MsgOf(d)] \/ n = MaxAttempts
          /\ failures' = [failures EXCEPT ![MsgOf(d)] = n]
          /\ \/ /\ n < MaxAttempts
                /\ Move(c, d, "unpublished")
                /\ UNCHANGED settled
             \/ /\ n = MaxAttempts
                /\ Move(c, d, "acking")
                /\ settled' = settled \cup {MsgOf(d)}
    /\ UNCHANGED <<life, group, stream, delivered, pel, fetched, entryIds, faults>>

\* XACK of the entry last noted for the message id.
Xack(c, d) == pel' = pel \ {entryIds[c][MsgOf(d)]}

Acknowledge(c, d) ==
    /\ d.step = "acking"
    /\ Xack(c, d)
    /\ End(c, d)
    /\ UNCHANGED <<life, group, stream, delivered, fetched, entryIds,
                   settled, failures, faults>>

\* Work that failed, or waits for its owner, is tried again until the delivery has
\* used up its attempts; a result that could not be published, whatever the attempt.
Retries(d) ==
    \/ d.step = "handling" /\ stream[d.id].attempt < MaxAttempts
    \/ d.step = "unpublished"

\* Mutant of RetryPublish: the entry is acknowledged before it is published
\* again.
RetryAckFirst(c, d) ==
    /\ Retries(d)
    /\ Xack(c, d)
    /\ Move(c, d, "retrying")
    /\ UNCHANGED <<life, group, stream, delivered, fetched, entryIds,
                   settled, failures, faults>>

\* retry: publish the message again with the next attempt, then acknowledge.
RetryPublish(c, d) ==
    /\ Retries(d)
    /\ stream' = Append(stream, [stream[d.id] EXCEPT !.attempt = @ + 1])
    /\ Move(c, d, "retrying")
    /\ UNCHANGED <<life, group, delivered, pel, fetched, entryIds,
                   settled, failures, faults>>

RetryAcknowledge(c, d) ==
    /\ d.step = "retrying"
    /\ Xack(c, d)
    /\ End(c, d)
    /\ UNCHANGED <<life, group, stream, delivered, fetched, entryIds,
                   settled, failures, faults>>

-----------------------------------------------------------------------------
\* The task dies: a lost claim, a call to Redis that fails, a payload that
\* cannot be processed.
Abandon(c, d) ==
    /\ Fault
    /\ End(c, d)
    /\ UNCHANGED <<life, group, stream, delivered, pel, fetched, entryIds,
                   settled, failures>>

\* stop of the consumer: the dispatcher is cancelled, and what it has read and
\* not handed on stays on the PEL; handlers are waited for, or cancelled too.
Stop(c) ==
    /\ life[c] \in {"started", "reading"}
    /\ Fault
    /\ life' = [life EXCEPT ![c] = "draining"]
    /\ fetched' = [fetched EXCEPT ![c] = 0]
    /\ \E drain \in BOOLEAN : hand' = IF drain THEN hand ELSE [hand EXCEPT ![c] = {}]
    /\ UNCHANGED <<group, stream, delivered, pel, entryIds, settled, failures>>

\* stop of the transport, once no handler is left.
Stopped(c) ==
    /\ life[c] = "draining" /\ hand[c] = {}
    /\ life' = [life EXCEPT ![c] = "down"]
    /\ UNCHANGED <<group, stream, delivered, pel, fetched, hand, entryIds,
                   settled, failures, faults>>

\* The process dies: only the group, the stream and the PEL are left.
Crash(c) ==
    /\ life[c] # "down"
    /\ Fault
    /\ life' = [life EXCEPT ![c] = "down"]
    /\ fetched' = [fetched EXCEPT ![c] = 0]
    /\ hand' = [hand EXCEPT ![c] = {}]
    /\ entryIds' = [entryIds EXCEPT ![c] = [m \in Messages |-> 0]]
    /\ UNCHANGED <<group, stream, delivered, pel, settled, failures>>

ConsumerStep(c) ==
    \/ Start(c) \/ EnsureGroup(c) \/ Read(c) \/ Dispatch(c) \/ Stopped(c)
    \/ \E d \in hand[c] :
          Settle(c, d) \/ Acknowledge(c, d) \/ RetryPublish(c, d) \/ RetryAcknowledge(c, d)

Next ==
    \/ \E m \in Messages : Publish(m)
    \/ \E c \in Consumers :
        \/ ConsumerStep(c)
        \/ \E d \in hand[c] : PublicationFails(c, d) \/ Abandon(c, d)
        \/ Stop(c) \/ Crash(c)

Spec == Init /\ [][Next]_vars

\* A consumer that is down is started again; its event loop runs the dispatcher
\* and every handler, and handlers get done.
FairSpec ==
    /\ Spec
    /\ \A c \in Consumers : WF_vars(Read(c)) /\ WF_vars(Dispatch(c))
    /\ \A c \in Consumers : WF_vars(ConsumerStep(c))

-----------------------------------------------------------------------------
(***************************************************************************)
(* Properties.                                                             *)
(***************************************************************************)
\* No crash between the steps of a retry, and no acknowledgement of the wrong
\* delivery, makes a message vanish, nor is one lost that was published before
\* there was a group: until it is settled, one of its entries is still to be read
\* or on the PEL, where an operator can find it.
NothingVanishes ==
    \A m \in Published \ settled :
        \E i \in Ids : stream[i].msg = m /\ (i > delivered \/ i \in pel)

\* Nobody steals a delivery: an entry is in the hands of at most one handler or
\* dispatcher, also while its retry is already in the stream.
HandedOutOnce ==
    \A c, b \in Consumers : \A d \in hand[c] :
        /\ d.id # fetched[b]
        /\ \A e \in hand[b] : d.id = e.id => c = b /\ d = e

\* Some entry of m is on the PEL and in nobody's hands.
Stranded(m) ==
    \E i \in pel : stream[i].msg = m /\ \A c \in Consumers :
        fetched[c] # i /\ \A d \in hand[c] : d.id # i

\* A message is settled in the end, however often it is retried, unless a consumer
\* was stopped, or a task or a process died: then it may be left behind on the PEL,
\* but nowhere else.
SettledOrStranded ==
    \A m \in Messages :
        m \in Published ~> (m \in settled \/ (faults > 0 /\ Stranded(m)))

\* "at-least-once": whatever dies on the way, every message is settled.
EveryMessageSettles == \A m \in Messages : m \in Published ~> m \in settled
=============================================================================
