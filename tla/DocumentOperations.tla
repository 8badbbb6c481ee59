------------------------ MODULE DocumentOperations ------------------------
(***************************************************************************)
(* The durable document.vectorize service: the SQLite operation store with *)
(* its claims, leases and publication outbox (document/operations.py), the *)
(* processor that works on a claimed operation and the consumer that turns *)
(* broker deliveries into retries, dead letters, publications and          *)
(* acknowledgements (document/processing.py).                              *)
(*                                                                         *)
(* Every column of the document_operations table that a decision reads is  *)
(* a variable indexed by operation.  A store call is one transaction, so   *)
(* one action; between two calls every other agent may run, the process    *)
(* may die and the lease may run out.  A handler is one _handle_and_release *)
(* task, a drainer one _recover_pending_publications task (or the drain    *)
(* that start() runs); several consumer processes share one store.         *)
(*                                                                         *)
(* Abstracted: payloads, results and errors (an outcome is identified by   *)
(* its topic and the attempt that produced it), wall-clock time (a lease   *)
(* is live until it expires), the hash functions behind the keys.          *)
(***************************************************************************)
EXTENDS Integers, FiniteSets

CONSTANTS
    Messages,        \* document.vectorize messages
    Workloads,       \* bound: a run is about the messages of one of these sets
    Ops,             \* idempotency keys, one row of the table each
    Fingerprints,    \* request fingerprints
    KeyOf,           \* build_document_idempotency_key of a message
    ConflictKeyOf,   \* the key under which its conflict is recorded
    FpOf,            \* build_document_request_fingerprint of a message
    Invalid,         \* messages whose payload fails validation
    Unserializable,  \* invalid messages that have no canonical JSON form
    Handlers,        \* handler tasks that can run at the same time
    Drainers,        \* publication recovery tasks
    MaxAttempts,     \* max_attempts of the consumer
    DrainLimit,      \* pending_drain_limit of the consumer
    MaxFaults,       \* bound: crashes, cancellations, slow owners, ...
    MaxOvertaken     \* bound: claims of an operation about to be dead-lettered

\* What build_document_idempotency_key and _record_conflict guarantee: the
\* conflict key of a message is not a request key, and it determines the
\* fingerprint (its hash prefix is part of the key).
ASSUME ConstantsAssumption ==
    /\ Workloads \subseteq SUBSET Messages
    /\ KeyOf \in [Messages -> Ops]
    /\ ConflictKeyOf \in [Messages -> Ops]
    /\ FpOf \in [Messages -> Fingerprints]
    /\ \A m, n \in Messages : KeyOf[m] # ConflictKeyOf[n]
    /\ \A m, n \in Messages :
          ConflictKeyOf[m] = ConflictKeyOf[n] => FpOf[m] = FpOf[n]
    /\ Unserializable \subseteq Invalid
    /\ Handlers \cap Drainers = {}
    /\ MaxAttempts \in Nat \ {0}
    /\ DrainLimit \in Nat \ {0}
    /\ MaxFaults \in Nat
    /\ MaxOvertaken \in Nat

VARIABLES
    \* columns of document_operations
    status, fp, attempts, token, lease, publication, pubAttempts, outbound,
    \* the broker: deliveries waiting, delivered but not acknowledged, and
    \* the acknowledged messages; the outbound streams
    queue, unacked, acked, published,
    \* local variables of the handlers and drainers
    pc, delivery, op, held, out, batch,
    \* what has gone wrong so far: failures, and per operation how often it was
    \* claimed anew while another handler was about to dead-letter it
    faults, overtaken

table   == <<status, fp, attempts, token, lease, publication, pubAttempts, outbound>>
broker  == <<queue, unacked, acked>>
locals  == <<delivery, op, held>>
history == <<faults, overtaken>>
vars    == <<table, broker, published, pc, locals, out, batch, history>>

Agents     == Handlers \cup Drainers
Settling   == {"succeeded", "terminal_failure", "dead_lettered"}
Statuses   == {"absent", "processing", "retryable_failure"} \cup Settling
NoToken    == 0
Deliveries == [msg : Messages, attempt : Nat \ {0}]
NoOutbound == [op |-> "none", topic |-> "none", by |-> NoToken]
Outbounds  == [op : Ops, topic : {"document.artifacts", "pipeline.dead-letter"}, by : Nat]
NoDelivery == [msg |-> "none", attempt |-> 0]
Steps      == {"idle", "claim", "wait", "work", "deadletter", "publish",
               "mark", "pubfail", "retry", "ack", "drain"}

Settled(o) == status[o] \in Settling
Pending    == {o \in Ops : publication[o] = "pending"}
Msg(h)     == delivery[h].msg

\* Mutant of Fenced: the UPDATE selects the row by its key alone.
Unfenced(h, expected) == TRUE

\* The claim of handler h is still the one the row records.
Fenced(h, expected) == token[op[h]] = held[h] /\ status[op[h]] = expected

TypeOK ==
    /\ status \in [Ops -> Statuses]
    /\ fp \in [Ops -> Fingerprints \cup {"none"}]
    /\ attempts \in [Ops -> Nat]
    /\ token \in [Ops -> Nat]
    /\ lease \in [Ops -> {"null", "live", "expired"}]
    /\ publication \in [Ops -> {"none", "pending", "published"}]
    /\ pubAttempts \in [Ops -> Nat]
    /\ outbound \in [Ops -> Outbounds \cup {NoOutbound}]
    /\ queue \subseteq Deliveries
    /\ unacked \subseteq Deliveries
    /\ acked \subseteq Messages
    /\ published \subseteq Outbounds
    /\ pc \in [Agents -> Steps]
    /\ \A r \in Drainers : pc[r] \in {"idle", "drain", "publish", "mark", "pubfail"}
    /\ delivery \in [Handlers -> Deliveries \cup {NoDelivery}]
    /\ op \in [Handlers -> Ops \cup {"none"}]
    /\ \A h \in Handlers : pc[h] # "idle" => delivery[h] \in Deliveries /\ op[h] \in Ops
    /\ held \in [Handlers -> Nat]
    /\ out \in [Agents -> Outbounds \cup {NoOutbound}]
    /\ batch \in [Drainers -> SUBSET Outbounds]
    /\ faults \in 0..MaxFaults
    /\ overtaken \in [Ops -> 0..MaxOvertaken]

Init ==
    /\ status = [o \in Ops |-> "absent"]
    /\ fp = [o \in Ops |-> "none"]
    /\ attempts = [o \in Ops |-> 0]
    /\ token = [o \in Ops |-> NoToken]
    /\ lease = [o \in Ops |-> "null"]
    /\ publication = [o \in Ops |-> "none"]
    /\ pubAttempts = [o \in Ops |-> 0]
    /\ outbound = [o \in Ops |-> NoOutbound]
    /\ \E sent \in Workloads : queue = {[msg |-> m, attempt |-> 1] : m \in sent}
    /\ unacked = {}
    /\ acked = {}
    /\ published = {}
    /\ pc = [a \in Agents |-> "idle"]
    /\ delivery = [h \in Handlers |-> NoDelivery]
    /\ op = [h \in Handlers |-> "none"]
    /\ held = [h \in Handlers |-> NoToken]
    /\ out = [a \in Agents |-> NoOutbound]
    /\ batch = [r \in Drainers |-> {}]
    /\ faults = 0
    /\ overtaken = [o \in Ops |-> 0]

Goto(a, step) == pc' = [pc EXCEPT ![a] = step]
Fault         == faults < MaxFaults /\ faults' = faults + 1 /\ UNCHANGED overtaken

-----------------------------------------------------------------------------
(***************************************************************************)
(* The consumer's decision about a record the processor returned           *)
(* (process_message), as the next step of the handler.                     *)
(***************************************************************************)
AttemptsLeft(h) == delivery[h].attempt < MaxAttempts

\* Mutants of AfterRetryable: count deliveries, not attempts; acknowledge what
\* is exhausted instead of dead-lettering it.
AfterRetryableByDelivery(h, count) == IF AttemptsLeft(h) THEN "retry" ELSE "deadletter"
AfterRetryableAcks(h, count) ==
    IF count < MaxAttempts /\ AttemptsLeft(h) THEN "retry" ELSE "ack"

AfterRetryable(h, count) ==
    IF count < MaxAttempts /\ AttemptsLeft(h) THEN "retry" ELSE "deadletter"

AfterSettled(o) == IF publication[o] = "pending" THEN "publish" ELSE "ack"

-----------------------------------------------------------------------------
(***************************************************************************)
(* The consumer takes a delivery; the task ends.                           *)
(***************************************************************************)
\* _consume: a free handler slot takes a delivery of the stream.
Deliver(h, d) ==
    /\ pc[h] = "idle"
    /\ d \in queue
    /\ queue' = queue \ {d}
    /\ unacked' = unacked \cup {d}
    /\ delivery' = [delivery EXCEPT ![h] = d]
    /\ op' = [op EXCEPT ![h] = KeyOf[d.msg]]
    /\ Goto(h, "claim")
    /\ UNCHANGED <<table, acked, published, held, out, batch, history>>

\* The task is over: its locals are gone, its semaphore slot is free.  What it
\* did not acknowledge or re-queue stays with the broker.
Leave(h) ==
    /\ Goto(h, "idle")
    /\ delivery' = [delivery EXCEPT ![h] = NoDelivery]
    /\ op' = [op EXCEPT ![h] = "none"]
    /\ held' = [held EXCEPT ![h] = NoToken]
    /\ out' = [out EXCEPT ![h] = NoOutbound]

\* A payload with no canonical JSON form raises out of the processor: the
\* message is neither recorded nor acknowledged.
RejectUnserializable(h) ==
    /\ pc[h] = "claim" /\ Msg(h) \in Unserializable
    /\ Leave(h)
    /\ UNCHANGED <<table, broker, published, batch, history>>

-----------------------------------------------------------------------------
(***************************************************************************)
(* _claim_sync: one BEGIN IMMEDIATE transaction, five outcomes.            *)
(***************************************************************************)
Claiming(h)    == pc[h] = "claim" /\ Msg(h) \notin Unserializable

SameRequest(h) == fp[op[h]] = FpOf[Msg(h)]

\* Mutant of TakeClaim: a takeover keeps the token of the claim it replaces.
TakeClaimSameToken(h) ==
    LET o == op[h]
        k == IF token[o] = NoToken THEN attempts[o] + 1 ELSE token[o] IN
    /\ status' = [status EXCEPT ![o] = "processing"]
    /\ attempts' = [attempts EXCEPT ![o] = @ + 1]
    /\ token' = [token EXCEPT ![o] = k]
    /\ lease' = [lease EXCEPT ![o] = "live"]
    /\ held' = [held EXCEPT ![h] = k]
    /\ Goto(h, "work")
    /\ UNCHANGED <<publication, pubAttempts, outbound, broker, published,
                   delivery, op, out, batch>>

\* The row becomes this handler's: next attempt, fresh token, fresh lease.
\* uuid4 tokens are fresh; the ordinal of the attempt is as fresh per row.
TakeClaim(h) ==
    LET o == op[h] IN
    /\ status' = [status EXCEPT ![o] = "processing"]
    /\ attempts' = [attempts EXCEPT ![o] = @ + 1]
    /\ token' = [token EXCEPT ![o] = attempts[o] + 1]
    /\ lease' = [lease EXCEPT ![o] = "live"]
    /\ held' = [held EXCEPT ![h] = attempts[o] + 1]
    /\ Goto(h, "work")
    /\ UNCHANGED <<publication, pubAttempts, outbound, broker, published,
                   delivery, op, out, batch>>

\* No row yet: insert it.
ClaimNew(h) ==
    /\ Claiming(h) /\ status[op[h]] = "absent"
    /\ TakeClaim(h)
    /\ fp' = [fp EXCEPT ![op[h]] = FpOf[Msg(h)]]
    /\ UNCHANGED history

\* The key belongs to another request: IdempotencyConflictError, after which
\* _record_conflict claims the conflict key instead.
ClaimConflict(h) ==
    /\ Claiming(h) /\ status[op[h]] # "absent" /\ ~SameRequest(h)
    /\ op' = [op EXCEPT ![h] = ConflictKeyOf[Msg(h)]]
    /\ UNCHANGED <<table, broker, published, pc, delivery, held, out, batch, history>>

\* Already settled: not the owner, the consumer publishes or acknowledges.
ClaimSettled(h) ==
    /\ Claiming(h) /\ Settled(op[h]) /\ SameRequest(h)
    /\ out' = [out EXCEPT ![h] = outbound[op[h]]]
    /\ Goto(h, AfterSettled(op[h]))
    /\ UNCHANGED <<table, broker, published, locals, batch, history>>

\* Being processed under a live lease: wait for the owner.
ClaimBusy(h) ==
    /\ Claiming(h) /\ status[op[h]] = "processing" /\ SameRequest(h)
    /\ lease[op[h]] = "live"
    /\ Goto(h, "wait")
    /\ UNCHANGED <<table, broker, published, locals, out, batch, history>>

\* Mutants of Reclaimable: every failure may be tried again; an expired lease
\* is not looked at.
ReclaimableUnlessSucceeded(o) ==
    \/ status[o] \in {"retryable_failure", "terminal_failure", "dead_lettered"}
    \/ status[o] = "processing" /\ lease[o] # "live"
ReclaimableIfFailed(o) == status[o] = "retryable_failure"

\* A failed attempt or an expired lease may be taken over.
Reclaimable(o) ==
    \/ status[o] = "retryable_failure"
    \/ status[o] = "processing" /\ lease[o] # "live"

\* Some handler is about to dead-letter o under the token the row still has.
Exhausting(o) ==
    \E g \in Handlers : pc[g] = "deadletter" /\ op[g] = o /\ held[g] = token[o]

\* Between the record of the last attempt's failure and the dead letter the row
\* reads like any failed attempt, and this claim does not look at the number of
\* attempts: any delivery of the request may start one more.  Two deliveries can
\* do so to each other again and again; MaxOvertaken only keeps runs finite.
Overtakes(o) ==
    /\ overtaken[o] < MaxOvertaken
    /\ overtaken' = [overtaken EXCEPT ![o] = @ + 1]
    /\ UNCHANGED faults

ClaimTakeover(h) ==
    /\ Claiming(h) /\ Reclaimable(op[h]) /\ SameRequest(h)
    /\ TakeClaim(h)
    /\ IF Exhausting(op[h]) THEN Overtakes(op[h]) ELSE UNCHANGED history
    /\ UNCHANGED fp

-----------------------------------------------------------------------------
(***************************************************************************)
(* _settled_duplicate: poll until the owner is done or claim_wait ends.    *)
(***************************************************************************)
WaitOver(h) ==
    /\ pc[h] = "wait" /\ status[op[h]] # "processing"
    /\ held' = [held EXCEPT ![h] = token[op[h]]]
    /\ out' = [out EXCEPT ![h] = outbound[op[h]]]
    /\ Goto(h, IF Settled(op[h]) THEN AfterSettled(op[h])
                                 ELSE AfterRetryable(h, attempts[op[h]]))
    /\ UNCHANGED <<table, broker, published, delivery, op, batch, history>>

\* The deadline passes: the caller gets the record it read when it claimed,
\* still PROCESSING, whatever the row says by now.  An unfinished operation is
\* never acknowledged; it is re-queued until the delivery has used up its
\* attempts, then left to the broker.
WaitTimeoutRetry(h) ==
    /\ pc[h] = "wait" /\ AttemptsLeft(h)
    /\ Goto(h, "retry")
    /\ UNCHANGED <<table, broker, published, locals, out, batch, history>>

WaitTimeoutLeave(h) ==
    /\ pc[h] = "wait" /\ ~AttemptsLeft(h)
    /\ Leave(h)
    /\ UNCHANGED <<table, broker, published, batch, history>>

-----------------------------------------------------------------------------
(***************************************************************************)
(* The owner of a claim resolves the chunks, runs the vectorizer and       *)
(* writes the outcome.  An invalid request, or one that conflicts, can     *)
(* only fail for good.                                                     *)
(***************************************************************************)
Vectorizes(h) == Msg(h) \notin Invalid /\ op[h] = KeyOf[Msg(h)]

Verdict(o, st, by) ==
    [op |-> o, by |-> by,
     topic |-> IF st = "succeeded" THEN "document.artifacts" ELSE "pipeline.dead-letter"]

\* _finish_sync: settle the row and put the outcome in the outbox, if the
\* claim is still the row's; the consumer then publishes the new record.
Finish(h, st, expected) ==
    LET o == op[h]
        v == Verdict(o, st, held[h]) IN
    /\ Fenced(h, expected)
    /\ status' = [status EXCEPT ![o] = st]
    /\ lease' = [lease EXCEPT ![o] = "null"]
    /\ token' = [token EXCEPT ![o] = NoToken]
    /\ publication' = [publication EXCEPT ![o] = "pending"]
    /\ outbound' = [outbound EXCEPT ![o] = v]
    /\ out' = [out EXCEPT ![h] = v]
    /\ Goto(h, "publish")
    /\ UNCHANGED <<fp, attempts, pubAttempts, broker, published, locals, batch, history>>

Succeed(h) ==
    /\ pc[h] = "work" /\ Vectorizes(h)
    /\ Finish(h, "succeeded", "processing")

FailTerminally(h) ==
    /\ pc[h] = "work"
    /\ Finish(h, "terminal_failure", "processing")

DeadLetter(h) ==
    /\ pc[h] = "deadletter"
    /\ Finish(h, "dead_lettered", "retryable_failure")

\* _record_retryable_sync: the row may be claimed again; it keeps its token so
\* that this handler can still dead-letter it.
RecordRetryable(h) ==
    /\ Fenced(h, "processing")
    /\ status' = [status EXCEPT ![op[h]] = "retryable_failure"]
    /\ lease' = [lease EXCEPT ![op[h]] = "null"]
    /\ UNCHANGED <<fp, attempts, token, publication, pubAttempts, outbound>>

FailRetryably(h) ==
    /\ pc[h] = "work" /\ Vectorizes(h)
    /\ RecordRetryable(h)
    /\ Goto(h, AfterRetryable(h, attempts[op[h]]))
    /\ UNCHANGED <<broker, published, locals, out, batch, history>>

\* StaleDocumentOperationClaimError, from any of the writes above: the claim
\* was lost, the task dies and the message stays unacknowledged.
Stale(h) ==
    /\ \/ pc[h] = "work" /\ ~Fenced(h, "processing")
       \/ pc[h] = "deadletter" /\ ~Fenced(h, "retryable_failure")
    /\ Leave(h)
    /\ UNCHANGED <<table, broker, published, batch, history>>

-----------------------------------------------------------------------------
(***************************************************************************)
(* _publish_record, run by handlers and by the recovery task alike.        *)
(***************************************************************************)
Publish(a) ==
    /\ pc[a] = "publish"
    /\ published' = published \cup {out[a]}
    /\ Goto(a, "mark")
    /\ UNCHANGED <<table, broker, locals, out, batch, history>>

\* DeepiriTransportError.  A publication that timed out may have arrived.
PublishFails(a) ==
    /\ pc[a] = "publish"
    /\ Fault
    /\ published' \in {published, published \cup {out[a]}}
    /\ Goto(a, "pubfail")
    /\ UNCHANGED <<table, broker, locals, out, batch>>

\* Mutant of Resume: the recovery task goes on as a handler would.
ResumeAsHandler(a, step) == Goto(a, step)

Resume(a, step) == Goto(a, IF a \in Drainers THEN "drain" ELSE step)

\* Mutant of MarkPublished: the row is not updated.
MarkNothing(a) ==
    /\ pc[a] = "mark"
    /\ Resume(a, "ack")
    /\ UNCHANGED <<table, broker, published, locals, out, batch, history>>

MarkPublished(a) ==
    /\ pc[a] = "mark"
    /\ publication' = [publication EXCEPT ![out[a].op] = "published"]
    /\ Resume(a, "ack")
    /\ UNCHANGED <<status, fp, attempts, token, lease, pubAttempts, outbound,
                   broker, published, locals, out, batch, history>>

\* A handler asks for another delivery until the row has seen max_attempts
\* failed publications, then acknowledges: the outbox keeps the outcome.
CountFailedPublication(a) ==
    LET o == out[a].op IN
    /\ pc[a] = "pubfail"
    /\ pubAttempts' = [pubAttempts EXCEPT ![o] = @ + 1]
    /\ Resume(a, IF pubAttempts[o] + 1 < MaxAttempts THEN "retry" ELSE "ack")
    /\ UNCHANGED <<status, fp, attempts, token, lease, publication, outbound,
                   broker, published, locals, out, batch, history>>

-----------------------------------------------------------------------------
(***************************************************************************)
(* The broker calls that end a task.                                       *)
(***************************************************************************)
Acknowledge(h) ==
    /\ pc[h] = "ack"
    /\ acked' = acked \cup {Msg(h)}
    /\ unacked' = unacked \ {delivery[h]}
    /\ Leave(h)
    /\ UNCHANGED <<table, queue, published, batch, history>>

\* Re-publishing with the next delivery attempt replaces this delivery.
Retry(h) ==
    /\ pc[h] = "retry"
    /\ queue' = queue \cup {[delivery[h] EXCEPT !.attempt = @ + 1]}
    /\ unacked' = unacked \ {delivery[h]}
    /\ Leave(h)
    /\ UNCHANGED <<table, acked, published, batch, history>>

-----------------------------------------------------------------------------
(***************************************************************************)
(* drain_pending_publications: a snapshot of the outbox, one record after  *)
(* the other.  Which DrainLimit records are oldest is left open.           *)
(***************************************************************************)
DrainRead(r) ==
    /\ pc[r] = "idle" /\ Pending # {}
    /\ \E S \in SUBSET Pending :
          /\ S # {} /\ Cardinality(S) <= DrainLimit
          /\ S # Pending => Cardinality(S) = DrainLimit
          /\ batch' = [batch EXCEPT ![r] = {outbound[o] : o \in S}]
    /\ Goto(r, "drain")
    /\ UNCHANGED <<table, broker, published, locals, out, history>>

DrainNext(r) ==
    /\ pc[r] = "drain"
    /\ \E v \in batch[r] :
          /\ out' = [out EXCEPT ![r] = v]
          /\ batch' = [batch EXCEPT ![r] = @ \ {v}]
    /\ Goto(r, "publish")
    /\ UNCHANGED <<table, broker, published, locals, history>>

DrainDone(r) ==
    /\ pc[r] = "drain" /\ batch[r] = {}
    /\ Goto(r, "idle")
    /\ out' = [out EXCEPT ![r] = NoOutbound]
    /\ UNCHANGED <<table, broker, published, locals, batch, history>>

-----------------------------------------------------------------------------
(***************************************************************************)
(* Failures and time.                                                      *)
(***************************************************************************)
\* stop(drain=False) cancels a handler at work: the attempt is recorded as a
\* retryable failure unless the claim is lost, and the task ends.
Cancel(h) ==
    /\ pc[h] = "work" /\ Vectorizes(h)
    /\ Fault
    /\ RecordRetryable(h) \/ (~Fenced(h, "processing") /\ UNCHANGED table)
    /\ Leave(h)
    /\ UNCHANGED <<broker, published, batch>>

\* The process dies, an unexpected exception ends the task, or it is
\* cancelled anywhere else: nothing more happens on its behalf.
CrashHandler(h) ==
    /\ pc[h] # "idle"
    /\ Fault
    /\ Leave(h)
    /\ UNCHANGED <<table, broker, published, batch>>

CrashDrainer(r) ==
    /\ pc[r] # "idle"
    /\ Fault
    /\ Goto(r, "idle")
    /\ out' = [out EXCEPT ![r] = NoOutbound]
    /\ batch' = [batch EXCEPT ![r] = {}]
    /\ UNCHANGED <<table, broker, published, locals>>

\* The handler that holds the row's claim is still at work on it.
OwnerAtWork(o) ==
    \E h \in Handlers : pc[h] = "work" /\ op[h] = o /\ held[h] = token[o]

\* claim_lease_seconds pass.  That an owner is slower than its lease is a
\* fault, that the lease of a dead owner runs out is just time.
LeaseExpires(o) ==
    /\ status[o] = "processing" /\ lease[o] = "live"
    /\ lease' = [lease EXCEPT ![o] = "expired"]
    /\ IF OwnerAtWork(o) THEN Fault ELSE UNCHANGED history
    /\ UNCHANGED <<status, fp, attempts, token, publication, pubAttempts, outbound,
                   broker, published, pc, locals, out, batch>>

InHand(d) == \E h \in Handlers : pc[h] # "idle" /\ delivery[h] = d

\* The broker delivers again what was not acknowledged.  Doing so while a
\* handler still has the delivery in hand is a fault.
Redeliver(d) ==
    /\ d \in unacked \ queue
    /\ queue' = queue \cup {d}
    /\ IF InHand(d) THEN Fault ELSE UNCHANGED history
    /\ UNCHANGED <<table, unacked, acked, published, pc, locals, out, batch>>

-----------------------------------------------------------------------------
\* One step of a handler that has a delivery, no failure involved.
HandlerStep(h) ==
    \/ RejectUnserializable(h)
    \/ ClaimNew(h) \/ ClaimConflict(h) \/ ClaimSettled(h)
    \/ ClaimBusy(h) \/ ClaimTakeover(h)
    \/ WaitOver(h) \/ WaitTimeoutRetry(h) \/ WaitTimeoutLeave(h)
    \/ Succeed(h) \/ FailTerminally(h) \/ FailRetryably(h)
    \/ DeadLetter(h) \/ Stale(h)
    \/ Publish(h) \/ MarkPublished(h) \/ CountFailedPublication(h)
    \/ Acknowledge(h) \/ Retry(h)

DrainerStep(r) ==
    \/ DrainRead(r) \/ DrainNext(r) \/ DrainDone(r)
    \/ Publish(r) \/ MarkPublished(r) \/ CountFailedPublication(r)

Environment ==
    \/ \E h \in Handlers : Cancel(h) \/ CrashHandler(h)
    \/ \E r \in Drainers : CrashDrainer(r)
    \/ \E a \in Agents : PublishFails(a)
    \/ \E o \in Ops : LeaseExpires(o)
    \/ \E d \in unacked : Redeliver(d)

Next ==
    \/ \E h \in Handlers : HandlerStep(h) \/ \E d \in queue : Deliver(h, d)
    \/ \E r \in Drainers : DrainerStep(r)
    \/ Environment

Spec == Init /\ [][Next]_vars

(***************************************************************************)
(* A task that can run keeps running (the event loop is fair), the stream  *)
(* is consumed in order, so no message is passed over for ever, time goes  *)
(* on, and the broker redelivers what no handler has in hand.              *)
(***************************************************************************)
Fairness ==
    /\ \A h \in Handlers : WF_vars(HandlerStep(h))
    /\ \A r \in Drainers : WF_vars(DrainerStep(r))
    /\ \A m \in Messages :
          SF_vars(\E h \in Handlers, d \in queue : d.msg = m /\ Deliver(h, d))
    /\ \A o \in Ops : WF_vars(LeaseExpires(o) /\ ~OwnerAtWork(o))
    /\ \A m \in Messages :
          WF_vars(\E d \in unacked : d.msg = m /\ ~InHand(d) /\ Redeliver(d))

FairSpec == Spec /\ Fairness

-----------------------------------------------------------------------------
(***************************************************************************)
(* Properties.                                                             *)
(***************************************************************************)
\* "Never acknowledge an unfinished operation": whatever mix of duplicates,
\* stale claims, failed publications and crashes went before, a message that
\* was acknowledged has a durable outcome for exactly its request, and that
\* outcome is published or still in the outbox.
AckedIsDurable ==
    \A m \in acked : \E o \in {KeyOf[m], ConflictKeyOf[m]} :
        Settled(o) /\ fp[o] = FpOf[m] /\ publication[o] # "none"

\* Everything on the outbound streams about an operation is one and the same
\* message, the one its row holds: no artifact and dead letter for the same
\* operation, no results of two different attempts, whoever publishes it.
PublishedIsTheOutcome == \A v \in published : v = outbound[v.op]

\* Two handlers at work on one operation never both hold its claim, so at most
\* one of them can write (the token fences the one whose lease ran out).
OneOwner ==
    \A g, h \in Handlers :
        /\ g # h /\ pc[g] = "work" /\ pc[h] = "work" /\ op[g] = op[h]
        => ~(held[g] = token[op[g]] /\ held[h] = token[op[h]])

\* The columns agree: an operation is settled iff it has an outcome in the
\* outbox, a settled one has no claim, and one that can be dead-lettered has.
RowConsistent ==
    \A o \in Ops :
        /\ Settled(o) <=> outbound[o] # NoOutbound
        /\ Settled(o) <=> publication[o] # "none"
        /\ Settled(o) => token[o] = NoToken /\ lease[o] = "null"
        /\ status[o] \in {"processing", "retryable_failure"} => token[o] # NoToken

\* The messages that were sent: each waits, is delivered or is acknowledged.
Sent == {d.msg : d \in queue \cup unacked} \cup acked

\* The row of o records, or would record, the request of message m.
RequestedBy(m, o) == o \in {KeyOf[m], ConflictKeyOf[m]} /\ fp[o] = FpOf[m]

SentTwice(o) == \E m, n \in Sent : m # n /\ RequestedBy(m, o) /\ RequestedBy(n, o)

\* An exhausted operation is not vectorized again and again: an attempt beyond
\* max_attempts takes a failure, or a claim that overtook the dead letter.  The
\* code does not prevent the latter, but unless something has failed it takes a
\* second message with the same request: for a request sent once max_attempts
\* is kept as long as nothing fails.
AttemptBudget ==
    \A o \in Ops :
        /\ attempts[o] <= MaxAttempts + faults + overtaken[o]
        /\ overtaken[o] > 0 => faults > 0 \/ SentTwice(o)

-----------------------------------------------------------------------------
(***************************************************************************)
(* The inductive invariant behind the safety properties.                   *)
(***************************************************************************)
\* Tokens come from attempts, so a new one differs from every token in hand.
TokensAreAttempts ==
    \A o \in Ops :
        /\ token[o] <= attempts[o]
        /\ status[o] = "absent" => attempts[o] = 0
        /\ Settled(o) => outbound[o].op = o

\* What a handler knows of its row.  Rows are never deleted and never change
\* the request they stand for, so it stays true while others work on them.
HandlerKnows ==
    \A h \in Handlers :
        /\ pc[h] # "idle" => op[h] \in {KeyOf[Msg(h)], ConflictKeyOf[Msg(h)]}
        /\ pc[h] \in {"wait", "work", "deadletter", "publish", "mark", "pubfail", "ack"}
              => status[op[h]] # "absent" /\ SameRequest(h)
        /\ pc[h] \in {"publish", "mark", "pubfail", "ack"} => Settled(op[h])
        /\ pc[h] \in {"work", "deadletter"}
              => held[h] # NoToken /\ held[h] <= attempts[op[h]]

\* What is about to be published is the outcome of its operation.
OutboundIsOutcome ==
    /\ \A a \in Agents : pc[a] \in {"publish", "mark", "pubfail"}
          => out[a] \in Outbounds /\ out[a] = outbound[out[a].op]
    /\ \A r \in Drainers : \A v \in batch[r] : v = outbound[v.op]

\* An operation that has used up its budget of attempts is in the hands of
\* its owner, or of a handler that will dead-letter it.
BudgetIsHeld ==
    \A o \in Ops : attempts[o] = MaxAttempts + faults + overtaken[o] =>
        /\ status[o] = "processing" => lease[o] = "live" /\ OwnerAtWork(o)
        /\ status[o] = "retryable_failure" => Exhausting(o)

\* Only a row that is there can be taken over.
OvertakenIsClaimed == \A o \in Ops : overtaken[o] > 0 => status[o] # "absent"

\* Unless something has failed a message has one delivery: it waits or it is in
\* the hands of one handler, never both.
OneDelivery ==
    faults = 0 =>
        /\ \A d, e \in queue \cup unacked : d.msg = e.msg => d = e
        /\ \A h \in Handlers : pc[h] # "idle" => delivery[h] \in unacked \ queue
        /\ \A g, h \in Handlers :
              pc[g] # "idle" /\ pc[h] # "idle" /\ delivery[g] = delivery[h] => g = h

\* Everything above at once: an inductive invariant of the service.
IInv ==
    /\ TypeOK
    /\ RowConsistent
    /\ TokensAreAttempts
    /\ HandlerKnows
    /\ OutboundIsOutcome
    /\ PublishedIsTheOutcome
    /\ OneOwner
    /\ AckedIsDurable
    /\ AttemptBudget
    /\ BudgetIsHeld
    /\ OvertakenIsClaimed
    /\ OneDelivery

-----------------------------------------------------------------------------
KeepsOutcomes ==
    \A o \in Ops : Settled(o) =>
        /\ status'[o] = status[o] /\ fp'[o] = fp[o] /\ outbound'[o] = outbound[o]
        /\ publication[o] = "published" => publication'[o] = "published"

\* A settled operation keeps its status, request and outcome for ever, and a
\* published one is never pending again.
OutcomeIsFinal == [][KeepsOutcomes]_vars

\* The service implements the ledger: settle once, announce only the verdict.
Ledger == INSTANCE OperationLedger WITH
    Verdicts <- Outbounds, Open <- NoOutbound,
    verdict <- outbound, announced <- published
ImplementsLedger == Ledger!Spec

\* Once failures stop, every message that can be recorded is acknowledged:
\* duplicates that wait for each other, lost claims, re-queued deliveries and
\* failed publications never keep it going round for ever.
EventuallyAcked ==
    \A m \in Messages \ Unserializable :
        (\E d \in queue : d.msg = m) ~> (m \in acked)

\* Once failures stop, every outcome in the outbox is published, although the
\* handler that wrote it may have died or acknowledged without publishing.
OutboxDrains == \A o \in Ops : publication[o] = "pending" ~> publication[o] = "published"
=============================================================================
