---------------------- MODULE DocumentService_proofs ----------------------
(***************************************************************************)
(* Proofs about the document.vectorize service.  First, what becomes of    *)
(* the operations (module DocumentOperations), for every set of messages,  *)
(* operations, handlers and drainers and for every bound: the inductive    *)
(* invariant IInv, the safety properties that follow from it, finality of  *)
(* outcomes, and that the service implements OperationLedger.  There is    *)
(* one lemma per conjunct of IInv and in it one step per action.           *)
(*                                                                         *)
(* Then one attempt at a request (module DocumentVectorize), for every     *)
(* payload, backend and stored content: that what is written of a request  *)
(* is read as that request again, and the inductive invariant AttemptInv,  *)
(* with one lemma per action.                                              *)
(***************************************************************************)
EXTENDS DocumentOperations, DocumentVectorize, FiniteSetTheorems, SequenceTheorems,
        WellFoundedInduction, TLAPS

USE DEF NoToken

-----------------------------------------------------------------------------
\* The table is empty, no message is in hand: everything holds.
LEMMA InitIInv == Init => IInv
  <1> SUFFICES ASSUME Init PROVE IInv
    OBVIOUS
  <1> USE ConstantsAssumption DEF Init
  <1>1. TypeOK
    BY DEF TypeOK, Agents, Steps, Statuses, Settling, Deliveries, NoDelivery
  <1>2. RowConsistent /\ TokensAreAttempts
    BY DEF RowConsistent, TokensAreAttempts, Settled, Settling
  <1>3. HandlerKnows /\ OutboundIsOutcome /\ OneOwner
    BY DEF HandlerKnows, OutboundIsOutcome, OneOwner, Agents
  <1>4. PublishedIsTheOutcome /\ AckedIsDurable /\ AttemptBudget /\ BudgetIsHeld
    BY DEF PublishedIsTheOutcome, AckedIsDurable, AttemptBudget, BudgetIsHeld
  <1>5. OneDelivery /\ OvertakenIsClaimed
    BY DEF OneDelivery, OvertakenIsClaimed, Agents
  <1> QED BY <1>1, <1>2, <1>3, <1>4, <1>5 DEF IInv

\* Which steps write to the table.
LEMMA TableSteps ==
  ASSUME [Next]_vars
  PROVE  \/ \E h \in Handlers :
               \/ ClaimNew(h) \/ ClaimTakeover(h) \/ Succeed(h) \/ FailTerminally(h)
               \/ DeadLetter(h) \/ FailRetryably(h) \/ Cancel(h)
         \/ \E a \in Agents : MarkPublished(a) \/ CountFailedPublication(a)
         \/ \E o \in Ops : LeaseExpires(o)
         \/ UNCHANGED table
  BY DEF Next, HandlerStep, DrainerStep, Environment, Agents, vars, Deliver,
         RejectUnserializable, ClaimConflict, ClaimSettled, ClaimBusy, WaitOver,
         WaitTimeoutRetry, WaitTimeoutLeave, Stale, Acknowledge, Retry, CrashHandler,
         DrainRead, DrainNext, DrainDone, CrashDrainer, Publish, PublishFails, Redeliver

\* A re-queued delivery is one with the next attempt number.
LEMMA NextDelivery ==
  ASSUME NEW d \in Deliveries
  PROVE  [d EXCEPT !.attempt = @ + 1] \in Deliveries
  BY DEF Deliveries

\* Types. A handler or drainer that publishes carries a real outcome because a
\* settled row has one.
LEMMA StepTypeOK == IInv /\ [Next]_vars => TypeOK'
  <1> SUFFICES ASSUME IInv, [Next]_vars PROVE TypeOK'
    OBVIOUS
  <1> USE ConstantsAssumption DEF IInv, TypeOK, Agents, Steps, Statuses, Settling, Settled,
          Deliveries, Outbounds, table, broker, locals, history, Goto, NoDelivery, NoOutbound, Msg,
          RowConsistent, OutboundIsOutcome
  <1>1. ASSUME NEW h \in Handlers, RejectUnserializable(h) PROVE TypeOK'
    BY <1>1 DEF RejectUnserializable, Leave
  <1>2. ASSUME NEW h \in Handlers, ClaimNew(h) PROVE TypeOK'
    BY <1>2 DEF ClaimNew, Claiming, TakeClaim
  <1>3. ASSUME NEW h \in Handlers, ClaimConflict(h) PROVE TypeOK'
    BY <1>3 DEF ClaimConflict, Claiming
  <1>4. ASSUME NEW h \in Handlers, ClaimSettled(h) PROVE TypeOK'
    BY <1>4 DEF ClaimSettled, Claiming, AfterSettled
  <1>5. ASSUME NEW h \in Handlers, ClaimBusy(h) PROVE TypeOK'
    BY <1>5 DEF ClaimBusy, Claiming
  <1>6. ASSUME NEW h \in Handlers, ClaimTakeover(h) PROVE TypeOK'
    BY <1>6 DEF ClaimTakeover, Claiming, TakeClaim, Overtakes, Reclaimable
  <1>7. ASSUME NEW h \in Handlers, WaitOver(h) PROVE TypeOK'
    BY <1>7 DEF WaitOver, AfterSettled, AfterRetryable
  <1>8. ASSUME NEW h \in Handlers, WaitTimeoutRetry(h) PROVE TypeOK'
    BY <1>8 DEF WaitTimeoutRetry
  <1>9. ASSUME NEW h \in Handlers, WaitTimeoutLeave(h) PROVE TypeOK'
    BY <1>9 DEF WaitTimeoutLeave, Leave
  <1>10. ASSUME NEW h \in Handlers, Succeed(h) PROVE TypeOK'
    BY <1>10 DEF Succeed, Finish, Verdict, Fenced
  <1>11. ASSUME NEW h \in Handlers, FailTerminally(h) PROVE TypeOK'
    BY <1>11 DEF FailTerminally, Finish, Verdict, Fenced
  <1>12. ASSUME NEW h \in Handlers, FailRetryably(h) PROVE TypeOK'
    BY <1>12 DEF FailRetryably, RecordRetryable, AfterRetryable, Fenced
  <1>13. ASSUME NEW h \in Handlers, DeadLetter(h) PROVE TypeOK'
    BY <1>13 DEF DeadLetter, Finish, Verdict, Fenced
  <1>14. ASSUME NEW h \in Handlers, Stale(h) PROVE TypeOK'
    BY <1>14 DEF Stale, Leave, Fenced
  <1>15. ASSUME NEW h \in Handlers, Acknowledge(h) PROVE TypeOK'
    BY <1>15 DEF Acknowledge, Leave
  <1>16. ASSUME NEW h \in Handlers, Retry(h) PROVE TypeOK'
    <2>1. [delivery[h] EXCEPT !.attempt = @ + 1] \in Deliveries
      BY <1>16, NextDelivery DEF Retry
    <2>2. queue' \subseteq Deliveries /\ unacked' \subseteq Deliveries
      BY <1>16, <2>1 DEF Retry
    <2> QED BY <1>16, <2>2 DEF Retry, Leave
  <1>17. ASSUME NEW h \in Handlers, Cancel(h) PROVE TypeOK'
    <2> USE <1>17 DEF Cancel, Leave, Fault
    <2>1. CASE RecordRetryable(h)
      BY <2>1 DEF RecordRetryable
    <2>2. CASE UNCHANGED table
      BY <2>2
    <2> QED BY <2>1, <2>2
  <1>18. ASSUME NEW h \in Handlers, CrashHandler(h) PROVE TypeOK'
    BY <1>18 DEF CrashHandler, Leave, Fault
  <1>19. ASSUME NEW h \in Handlers, NEW d \in queue, Deliver(h, d) PROVE TypeOK'
    BY <1>19 DEF Deliver
  <1>20. ASSUME NEW r \in Drainers, DrainRead(r) PROVE TypeOK'
    BY <1>20 DEF DrainRead, Pending
  <1>21. ASSUME NEW r \in Drainers, DrainNext(r) PROVE TypeOK'
    BY <1>21 DEF DrainNext
  <1>22. ASSUME NEW r \in Drainers, DrainDone(r) PROVE TypeOK'
    BY <1>22 DEF DrainDone
  <1>23. ASSUME NEW r \in Drainers, CrashDrainer(r) PROVE TypeOK'
    BY <1>23 DEF CrashDrainer, Fault
  <1>24. ASSUME NEW a \in Agents, Publish(a) PROVE TypeOK'
    BY <1>24 DEF Publish
  <1>25. ASSUME NEW a \in Agents, PublishFails(a) PROVE TypeOK'
    BY <1>25 DEF PublishFails, Fault
  <1>26. ASSUME NEW a \in Agents, MarkPublished(a) PROVE TypeOK'
    BY <1>26 DEF MarkPublished, Resume
  <1>27. ASSUME NEW a \in Agents, CountFailedPublication(a) PROVE TypeOK'
    BY <1>27 DEF CountFailedPublication, Resume
  <1>28. ASSUME NEW o \in Ops, LeaseExpires(o) PROVE TypeOK'
    BY <1>28 DEF LeaseExpires, Fault
  <1>29. ASSUME NEW d \in unacked, Redeliver(d) PROVE TypeOK'
    BY <1>29 DEF Redeliver, Fault
  <1>30. CASE UNCHANGED vars
    BY <1>30 DEF vars
  <1> QED
    BY <1>1, <1>2, <1>3, <1>4, <1>5, <1>6, <1>7, <1>8, <1>9, <1>10, <1>11, <1>12, <1>13,
      <1>14, <1>15, <1>16, <1>17, <1>18, <1>19, <1>20, <1>21, <1>22, <1>23, <1>24, <1>25,
      <1>26, <1>27, <1>28, <1>29, <1>30
    DEF Next, HandlerStep, DrainerStep, Environment, Agents

\* Claims make a row unsettled with a token, Finish settles it and clears the
\* token, nothing else touches status, token and outbox together.
LEMMA StepRowConsistent == IInv /\ [Next]_vars => RowConsistent'
  <1> SUFFICES ASSUME IInv, [Next]_vars PROVE RowConsistent'
    OBVIOUS
  <1> USE ConstantsAssumption DEF IInv, TypeOK, Agents, Statuses, Settling, Settled,
          Outbounds, NoOutbound, table, RowConsistent, HandlerKnows, OutboundIsOutcome
  <1>1. ASSUME NEW h \in Handlers, ClaimNew(h) PROVE RowConsistent'
    BY <1>1 DEF ClaimNew, Claiming, TakeClaim
  <1>2. ASSUME NEW h \in Handlers, ClaimTakeover(h) PROVE RowConsistent'
    BY <1>2 DEF ClaimTakeover, Claiming, TakeClaim, Overtakes, Reclaimable
  <1>3. ASSUME NEW h \in Handlers, Succeed(h) PROVE RowConsistent'
    BY <1>3 DEF Succeed, Finish, Verdict, Fenced
  <1>4. ASSUME NEW h \in Handlers, FailTerminally(h) PROVE RowConsistent'
    BY <1>4 DEF FailTerminally, Finish, Verdict, Fenced
  <1>5. ASSUME NEW h \in Handlers, DeadLetter(h) PROVE RowConsistent'
    BY <1>5 DEF DeadLetter, Finish, Verdict, Fenced
  <1>6. ASSUME NEW h \in Handlers, FailRetryably(h) PROVE RowConsistent'
    BY <1>6 DEF FailRetryably, RecordRetryable, AfterRetryable, Fenced
  <1>7. ASSUME NEW h \in Handlers, Cancel(h) PROVE RowConsistent'
    BY <1>7 DEF Cancel, RecordRetryable, Leave, Fault, Fenced
  <1>8. ASSUME NEW a \in Agents, MarkPublished(a) PROVE RowConsistent'
    BY <1>8 DEF MarkPublished, Resume
  <1>9. ASSUME NEW a \in Agents, CountFailedPublication(a) PROVE RowConsistent'
    BY <1>9 DEF CountFailedPublication, Resume
  <1>10. ASSUME NEW o \in Ops, LeaseExpires(o) PROVE RowConsistent'
    BY <1>10 DEF LeaseExpires, Fault
  <1>11. CASE UNCHANGED table
    BY <1>11
  <1> QED
    BY <1>1, <1>2, <1>3, <1>4, <1>5, <1>6, <1>7, <1>8, <1>9, <1>10, <1>11, TableSteps

\* A token is the number of the attempt that took it.
LEMMA StepTokensAreAttempts == IInv /\ [Next]_vars => TokensAreAttempts'
  <1> SUFFICES ASSUME IInv, [Next]_vars PROVE TokensAreAttempts'
    OBVIOUS
  <1> USE ConstantsAssumption DEF IInv, TypeOK, Agents, Statuses, Settling, Settled,
          Outbounds, NoOutbound, table, RowConsistent, TokensAreAttempts, HandlerKnows,
          OutboundIsOutcome
  <1>1. ASSUME NEW h \in Handlers, ClaimNew(h) PROVE TokensAreAttempts'
    BY <1>1 DEF ClaimNew, Claiming, TakeClaim
  <1>2. ASSUME NEW h \in Handlers, ClaimTakeover(h) PROVE TokensAreAttempts'
    BY <1>2 DEF ClaimTakeover, Claiming, TakeClaim, Overtakes, Reclaimable
  <1>3. ASSUME NEW h \in Handlers, Succeed(h) PROVE TokensAreAttempts'
    BY <1>3 DEF Succeed, Finish, Verdict, Fenced
  <1>4. ASSUME NEW h \in Handlers, FailTerminally(h) PROVE TokensAreAttempts'
    BY <1>4 DEF FailTerminally, Finish, Verdict, Fenced
  <1>5. ASSUME NEW h \in Handlers, DeadLetter(h) PROVE TokensAreAttempts'
    BY <1>5 DEF DeadLetter, Finish, Verdict, Fenced
  <1>6. ASSUME NEW h \in Handlers, FailRetryably(h) PROVE TokensAreAttempts'
    BY <1>6 DEF FailRetryably, RecordRetryable, AfterRetryable, Fenced
  <1>7. ASSUME NEW h \in Handlers, Cancel(h) PROVE TokensAreAttempts'
    BY <1>7 DEF Cancel, RecordRetryable, Leave, Fault, Fenced
  <1>8. ASSUME NEW a \in Agents, MarkPublished(a) PROVE TokensAreAttempts'
    BY <1>8 DEF MarkPublished, Resume
  <1>9. ASSUME NEW a \in Agents, CountFailedPublication(a) PROVE TokensAreAttempts'
    BY <1>9 DEF CountFailedPublication, Resume
  <1>10. ASSUME NEW o \in Ops, LeaseExpires(o) PROVE TokensAreAttempts'
    BY <1>10 DEF LeaseExpires, Fault
  <1>11. CASE UNCHANGED table
    BY <1>11
  <1> QED
    BY <1>1, <1>2, <1>3, <1>4, <1>5, <1>6, <1>7, <1>8, <1>9, <1>10, <1>11, TableSteps

\* Rows neither disappear nor change request, settled rows stay settled.
LEMMA StepHandlerKnows == IInv /\ [Next]_vars => HandlerKnows'
  <1> SUFFICES ASSUME IInv, [Next]_vars PROVE HandlerKnows'
    OBVIOUS
  <1> USE ConstantsAssumption DEF IInv, TypeOK, Agents, Steps, Statuses, Settling, Settled,
          Deliveries, Outbounds, table, broker, locals, history, Goto, NoDelivery, NoOutbound, Msg,
          RowConsistent, TokensAreAttempts, HandlerKnows, SameRequest
  <1>1. ASSUME NEW h \in Handlers, RejectUnserializable(h) PROVE HandlerKnows'
    BY <1>1 DEF RejectUnserializable, Leave
  <1>2. ASSUME NEW h \in Handlers, ClaimNew(h) PROVE HandlerKnows'
    BY <1>2 DEF ClaimNew, Claiming, TakeClaim
  <1>3. ASSUME NEW h \in Handlers, ClaimConflict(h) PROVE HandlerKnows'
    BY <1>3 DEF ClaimConflict, Claiming
  <1>4. ASSUME NEW h \in Handlers, ClaimSettled(h) PROVE HandlerKnows'
    BY <1>4 DEF ClaimSettled, Claiming, AfterSettled
  <1>5. ASSUME NEW h \in Handlers, ClaimBusy(h) PROVE HandlerKnows'
    BY <1>5 DEF ClaimBusy, Claiming
  <1>6. ASSUME NEW h \in Handlers, ClaimTakeover(h) PROVE HandlerKnows'
    BY <1>6 DEF ClaimTakeover, Claiming, TakeClaim, Overtakes, Reclaimable
  <1>7. ASSUME NEW h \in Handlers, WaitOver(h) PROVE HandlerKnows'
    BY <1>7 DEF WaitOver, AfterSettled, AfterRetryable
  <1>8. ASSUME NEW h \in Handlers, WaitTimeoutRetry(h) PROVE HandlerKnows'
    BY <1>8 DEF WaitTimeoutRetry
  <1>9. ASSUME NEW h \in Handlers, WaitTimeoutLeave(h) PROVE HandlerKnows'
    BY <1>9 DEF WaitTimeoutLeave, Leave
  <1>10. ASSUME NEW h \in Handlers, Succeed(h) PROVE HandlerKnows'
    BY <1>10 DEF Succeed, Finish, Verdict, Fenced
  <1>11. ASSUME NEW h \in Handlers, FailTerminally(h) PROVE HandlerKnows'
    BY <1>11 DEF FailTerminally, Finish, Verdict, Fenced
  <1>12. ASSUME NEW h \in Handlers, FailRetryably(h) PROVE HandlerKnows'
    BY <1>12 DEF FailRetryably, RecordRetryable, AfterRetryable, Fenced
  <1>13. ASSUME NEW h \in Handlers, DeadLetter(h) PROVE HandlerKnows'
    BY <1>13 DEF DeadLetter, Finish, Verdict, Fenced
  <1>14. ASSUME NEW h \in Handlers, Stale(h) PROVE HandlerKnows'
    BY <1>14 DEF Stale, Leave, Fenced
  <1>15. ASSUME NEW h \in Handlers, Acknowledge(h) PROVE HandlerKnows'
    BY <1>15 DEF Acknowledge, Leave
  <1>16. ASSUME NEW h \in Handlers, Retry(h) PROVE HandlerKnows'
    BY <1>16 DEF Retry, Leave
  <1>17. ASSUME NEW h \in Handlers, Cancel(h) PROVE HandlerKnows'
    BY <1>17 DEF Cancel, RecordRetryable, Leave, Fault, Fenced
  <1>18. ASSUME NEW h \in Handlers, CrashHandler(h) PROVE HandlerKnows'
    BY <1>18 DEF CrashHandler, Leave, Fault
  <1>19. ASSUME NEW h \in Handlers, NEW d \in queue, Deliver(h, d) PROVE HandlerKnows'
    BY <1>19 DEF Deliver
  <1>20. ASSUME NEW r \in Drainers, DrainRead(r) PROVE HandlerKnows'
    BY <1>20 DEF DrainRead, Pending
  <1>21. ASSUME NEW r \in Drainers, DrainNext(r) PROVE HandlerKnows'
    BY <1>21 DEF DrainNext
  <1>22. ASSUME NEW r \in Drainers, DrainDone(r) PROVE HandlerKnows'
    BY <1>22 DEF DrainDone
  <1>23. ASSUME NEW r \in Drainers, CrashDrainer(r) PROVE HandlerKnows'
    BY <1>23 DEF CrashDrainer, Fault
  <1>24. ASSUME NEW a \in Agents, Publish(a) PROVE HandlerKnows'
    BY <1>24 DEF Publish
  <1>25. ASSUME NEW a \in Agents, PublishFails(a) PROVE HandlerKnows'
    BY <1>25 DEF PublishFails, Fault
  <1>26. ASSUME NEW a \in Agents, MarkPublished(a) PROVE HandlerKnows'
    BY <1>26 DEF MarkPublished, Resume
  <1>27. ASSUME NEW a \in Agents, CountFailedPublication(a) PROVE HandlerKnows'
    BY <1>27 DEF CountFailedPublication, Resume
  <1>28. ASSUME NEW o \in Ops, LeaseExpires(o) PROVE HandlerKnows'
    BY <1>28 DEF LeaseExpires, Fault
  <1>29. ASSUME NEW d \in unacked, Redeliver(d) PROVE HandlerKnows'
    BY <1>29 DEF Redeliver, Fault
  <1>30. CASE UNCHANGED vars
    BY <1>30 DEF vars
  <1> QED
    BY <1>1, <1>2, <1>3, <1>4, <1>5, <1>6, <1>7, <1>8, <1>9, <1>10, <1>11, <1>12, <1>13,
      <1>14, <1>15, <1>16, <1>17, <1>18, <1>19, <1>20, <1>21, <1>22, <1>23, <1>24, <1>25,
      <1>26, <1>27, <1>28, <1>29, <1>30
    DEF Next, HandlerStep, DrainerStep, Environment, Agents

\* Only Finish writes an outcome and only into an open row, so no outcome in
\* hand goes out of date.
LEMMA StepOutboundIsOutcome == IInv /\ [Next]_vars => OutboundIsOutcome'
  <1> SUFFICES ASSUME IInv, [Next]_vars PROVE OutboundIsOutcome'
    OBVIOUS
  <1> USE ConstantsAssumption DEF IInv, TypeOK, Agents, Steps, Statuses, Settling, Settled,
          Deliveries, Outbounds, table, broker, locals, history, Goto, NoDelivery, NoOutbound, Msg,
          RowConsistent, TokensAreAttempts, HandlerKnows, OutboundIsOutcome
  <1>1. ASSUME NEW h \in Handlers, RejectUnserializable(h) PROVE OutboundIsOutcome'
    BY <1>1 DEF RejectUnserializable, Leave
  <1>2. ASSUME NEW h \in Handlers, ClaimNew(h) PROVE OutboundIsOutcome'
    BY <1>2 DEF ClaimNew, Claiming, TakeClaim
  <1>3. ASSUME NEW h \in Handlers, ClaimConflict(h) PROVE OutboundIsOutcome'
    BY <1>3 DEF ClaimConflict, Claiming
  <1>4. ASSUME NEW h \in Handlers, ClaimSettled(h) PROVE OutboundIsOutcome'
    BY <1>4 DEF ClaimSettled, Claiming, AfterSettled
  <1>5. ASSUME NEW h \in Handlers, ClaimBusy(h) PROVE OutboundIsOutcome'
    BY <1>5 DEF ClaimBusy, Claiming
  <1>6. ASSUME NEW h \in Handlers, ClaimTakeover(h) PROVE OutboundIsOutcome'
    BY <1>6 DEF ClaimTakeover, Claiming, TakeClaim, Overtakes, Reclaimable
  <1>7. ASSUME NEW h \in Handlers, WaitOver(h) PROVE OutboundIsOutcome'
    BY <1>7 DEF WaitOver, AfterSettled, AfterRetryable
  <1>8. ASSUME NEW h \in Handlers, WaitTimeoutRetry(h) PROVE OutboundIsOutcome'
    BY <1>8 DEF WaitTimeoutRetry
  <1>9. ASSUME NEW h \in Handlers, WaitTimeoutLeave(h) PROVE OutboundIsOutcome'
    BY <1>9 DEF WaitTimeoutLeave, Leave
  <1>10. ASSUME NEW h \in Handlers, Succeed(h) PROVE OutboundIsOutcome'
    BY <1>10 DEF Succeed, Finish, Verdict, Fenced
  <1>11. ASSUME NEW h \in Handlers, FailTerminally(h) PROVE OutboundIsOutcome'
    BY <1>11 DEF FailTerminally, Finish, Verdict, Fenced
  <1>12. ASSUME NEW h \in Handlers, FailRetryably(h) PROVE OutboundIsOutcome'
    BY <1>12 DEF FailRetryably, RecordRetryable, AfterRetryable, Fenced
  <1>13. ASSUME NEW h \in Handlers, DeadLetter(h) PROVE OutboundIsOutcome'
    BY <1>13 DEF DeadLetter, Finish, Verdict, Fenced
  <1>14. ASSUME NEW h \in Handlers, Stale(h) PROVE OutboundIsOutcome'
    BY <1>14 DEF Stale, Leave, Fenced
  <1>15. ASSUME NEW h \in Handlers, Acknowledge(h) PROVE OutboundIsOutcome'
    BY <1>15 DEF Acknowledge, Leave
  <1>16. ASSUME NEW h \in Handlers, Retry(h) PROVE OutboundIsOutcome'
    BY <1>16 DEF Retry, Leave
  <1>17. ASSUME NEW h \in Handlers, Cancel(h) PROVE OutboundIsOutcome'
    BY <1>17 DEF Cancel, RecordRetryable, Leave, Fault, Fenced
  <1>18. ASSUME NEW h \in Handlers, CrashHandler(h) PROVE OutboundIsOutcome'
    BY <1>18 DEF CrashHandler, Leave, Fault
  <1>19. ASSUME NEW h \in Handlers, NEW d \in queue, Deliver(h, d) PROVE OutboundIsOutcome'
    BY <1>19 DEF Deliver
  <1>20. ASSUME NEW r \in Drainers, DrainRead(r) PROVE OutboundIsOutcome'
    BY <1>20 DEF DrainRead, Pending
  <1>21. ASSUME NEW r \in Drainers, DrainNext(r) PROVE OutboundIsOutcome'
    BY <1>21 DEF DrainNext
  <1>22. ASSUME NEW r \in Drainers, DrainDone(r) PROVE OutboundIsOutcome'
    BY <1>22 DEF DrainDone
  <1>23. ASSUME NEW r \in Drainers, CrashDrainer(r) PROVE OutboundIsOutcome'
    BY <1>23 DEF CrashDrainer, Fault
  <1>24. ASSUME NEW a \in Agents, Publish(a) PROVE OutboundIsOutcome'
    BY <1>24 DEF Publish
  <1>25. ASSUME NEW a \in Agents, PublishFails(a) PROVE OutboundIsOutcome'
    BY <1>25 DEF PublishFails, Fault
  <1>26. ASSUME NEW a \in Agents, MarkPublished(a) PROVE OutboundIsOutcome'
    BY <1>26 DEF MarkPublished, Resume
  <1>27. ASSUME NEW a \in Agents, CountFailedPublication(a) PROVE OutboundIsOutcome'
    BY <1>27 DEF CountFailedPublication, Resume
  <1>28. ASSUME NEW o \in Ops, LeaseExpires(o) PROVE OutboundIsOutcome'
    BY <1>28 DEF LeaseExpires, Fault
  <1>29. ASSUME NEW d \in unacked, Redeliver(d) PROVE OutboundIsOutcome'
    BY <1>29 DEF Redeliver, Fault
  <1>30. CASE UNCHANGED vars
    BY <1>30 DEF vars
  <1> QED
    BY <1>1, <1>2, <1>3, <1>4, <1>5, <1>6, <1>7, <1>8, <1>9, <1>10, <1>11, <1>12, <1>13,
      <1>14, <1>15, <1>16, <1>17, <1>18, <1>19, <1>20, <1>21, <1>22, <1>23, <1>24, <1>25,
      <1>26, <1>27, <1>28, <1>29, <1>30
    DEF Next, HandlerStep, DrainerStep, Environment, Agents

\* What was published is the outcome, and outcomes do not change.
LEMMA StepPublishedIsTheOutcome == IInv /\ [Next]_vars => PublishedIsTheOutcome'
  <1> SUFFICES ASSUME IInv, [Next]_vars PROVE PublishedIsTheOutcome'
    OBVIOUS
  <1> USE ConstantsAssumption DEF IInv, TypeOK, Agents, Statuses, Settling, Settled,
          Outbounds, NoOutbound, table, RowConsistent, OutboundIsOutcome,
          PublishedIsTheOutcome
  <1>1. ASSUME NEW h \in Handlers, RejectUnserializable(h) PROVE PublishedIsTheOutcome'
    BY <1>1 DEF RejectUnserializable, Leave
  <1>2. ASSUME NEW h \in Handlers, ClaimNew(h) PROVE PublishedIsTheOutcome'
    BY <1>2 DEF ClaimNew, Claiming, TakeClaim
  <1>3. ASSUME NEW h \in Handlers, ClaimConflict(h) PROVE PublishedIsTheOutcome'
    BY <1>3 DEF ClaimConflict, Claiming
  <1>4. ASSUME NEW h \in Handlers, ClaimSettled(h) PROVE PublishedIsTheOutcome'
    BY <1>4 DEF ClaimSettled, Claiming, AfterSettled
  <1>5. ASSUME NEW h \in Handlers, ClaimBusy(h) PROVE PublishedIsTheOutcome'
    BY <1>5 DEF ClaimBusy, Claiming
  <1>6. ASSUME NEW h \in Handlers, ClaimTakeover(h) PROVE PublishedIsTheOutcome'
    BY <1>6 DEF ClaimTakeover, Claiming, TakeClaim, Overtakes, Reclaimable
  <1>7. ASSUME NEW h \in Handlers, WaitOver(h) PROVE PublishedIsTheOutcome'
    BY <1>7 DEF WaitOver, AfterSettled, AfterRetryable
  <1>8. ASSUME NEW h \in Handlers, WaitTimeoutRetry(h) PROVE PublishedIsTheOutcome'
    BY <1>8 DEF WaitTimeoutRetry
  <1>9. ASSUME NEW h \in Handlers, WaitTimeoutLeave(h) PROVE PublishedIsTheOutcome'
    BY <1>9 DEF WaitTimeoutLeave, Leave
  <1>10. ASSUME NEW h \in Handlers, Succeed(h) PROVE PublishedIsTheOutcome'
    BY <1>10 DEF Succeed, Finish, Verdict, Fenced
  <1>11. ASSUME NEW h \in Handlers, FailTerminally(h) PROVE PublishedIsTheOutcome'
    BY <1>11 DEF FailTerminally, Finish, Verdict, Fenced
  <1>12. ASSUME NEW h \in Handlers, FailRetryably(h) PROVE PublishedIsTheOutcome'
    BY <1>12 DEF FailRetryably, RecordRetryable, AfterRetryable, Fenced
  <1>13. ASSUME NEW h \in Handlers, DeadLetter(h) PROVE PublishedIsTheOutcome'
    BY <1>13 DEF DeadLetter, Finish, Verdict, Fenced
  <1>14. ASSUME NEW h \in Handlers, Stale(h) PROVE PublishedIsTheOutcome'
    BY <1>14 DEF Stale, Leave, Fenced
  <1>15. ASSUME NEW h \in Handlers, Acknowledge(h) PROVE PublishedIsTheOutcome'
    BY <1>15 DEF Acknowledge, Leave
  <1>16. ASSUME NEW h \in Handlers, Retry(h) PROVE PublishedIsTheOutcome'
    BY <1>16 DEF Retry, Leave
  <1>17. ASSUME NEW h \in Handlers, Cancel(h) PROVE PublishedIsTheOutcome'
    BY <1>17 DEF Cancel, RecordRetryable, Leave, Fault, Fenced
  <1>18. ASSUME NEW h \in Handlers, CrashHandler(h) PROVE PublishedIsTheOutcome'
    BY <1>18 DEF CrashHandler, Leave, Fault
  <1>19. ASSUME NEW h \in Handlers, NEW d \in queue, Deliver(h, d) PROVE PublishedIsTheOutcome'
    BY <1>19 DEF Deliver
  <1>20. ASSUME NEW r \in Drainers, DrainRead(r) PROVE PublishedIsTheOutcome'
    BY <1>20 DEF DrainRead, Pending
  <1>21. ASSUME NEW r \in Drainers, DrainNext(r) PROVE PublishedIsTheOutcome'
    BY <1>21 DEF DrainNext
  <1>22. ASSUME NEW r \in Drainers, DrainDone(r) PROVE PublishedIsTheOutcome'
    BY <1>22 DEF DrainDone
  <1>23. ASSUME NEW r \in Drainers, CrashDrainer(r) PROVE PublishedIsTheOutcome'
    BY <1>23 DEF CrashDrainer, Fault
  <1>24. ASSUME NEW a \in Agents, Publish(a) PROVE PublishedIsTheOutcome'
    BY <1>24 DEF Publish
  <1>25. ASSUME NEW a \in Agents, PublishFails(a) PROVE PublishedIsTheOutcome'
    BY <1>25 DEF PublishFails, Fault
  <1>26. ASSUME NEW a \in Agents, MarkPublished(a) PROVE PublishedIsTheOutcome'
    BY <1>26 DEF MarkPublished, Resume
  <1>27. ASSUME NEW a \in Agents, CountFailedPublication(a) PROVE PublishedIsTheOutcome'
    BY <1>27 DEF CountFailedPublication, Resume
  <1>28. ASSUME NEW o \in Ops, LeaseExpires(o) PROVE PublishedIsTheOutcome'
    BY <1>28 DEF LeaseExpires, Fault
  <1>29. ASSUME NEW d \in unacked, Redeliver(d) PROVE PublishedIsTheOutcome'
    BY <1>29 DEF Redeliver, Fault
  <1>30. CASE UNCHANGED vars
    BY <1>30 DEF vars
  <1> QED
    BY <1>1, <1>2, <1>3, <1>4, <1>5, <1>6, <1>7, <1>8, <1>9, <1>10, <1>11, <1>12, <1>13,
      <1>14, <1>15, <1>16, <1>17, <1>18, <1>19, <1>20, <1>21, <1>22, <1>23, <1>24, <1>25,
      <1>26, <1>27, <1>28, <1>29, <1>30
    DEF Next, HandlerStep, DrainerStep, Environment, Agents

\* A new claim has a token larger than any in hand.
LEMMA StepOneOwner == IInv /\ [Next]_vars => OneOwner'
  <1> SUFFICES ASSUME IInv, [Next]_vars PROVE OneOwner'
    OBVIOUS
  <1> USE ConstantsAssumption DEF IInv, TypeOK, Agents, Steps, Statuses, Settling, Settled,
          Deliveries, Outbounds, table, broker, locals, history, Goto, NoDelivery, NoOutbound, Msg,
          TokensAreAttempts, HandlerKnows, OneOwner
  <1>1. ASSUME NEW h \in Handlers, RejectUnserializable(h) PROVE OneOwner'
    BY <1>1 DEF RejectUnserializable, Leave
  <1>2. ASSUME NEW h \in Handlers, ClaimNew(h) PROVE OneOwner'
    BY <1>2 DEF ClaimNew, Claiming, TakeClaim
  <1>3. ASSUME NEW h \in Handlers, ClaimConflict(h) PROVE OneOwner'
    BY <1>3 DEF ClaimConflict, Claiming
  <1>4. ASSUME NEW h \in Handlers, ClaimSettled(h) PROVE OneOwner'
    BY <1>4 DEF ClaimSettled, Claiming, AfterSettled
  <1>5. ASSUME NEW h \in Handlers, ClaimBusy(h) PROVE OneOwner'
    BY <1>5 DEF ClaimBusy, Claiming
  <1>6. ASSUME NEW h \in Handlers, ClaimTakeover(h) PROVE OneOwner'
    BY <1>6 DEF ClaimTakeover, Claiming, TakeClaim, Overtakes, Reclaimable
  <1>7. ASSUME NEW h \in Handlers, WaitOver(h) PROVE OneOwner'
    BY <1>7 DEF WaitOver, AfterSettled, AfterRetryable
  <1>8. ASSUME NEW h \in Handlers, WaitTimeoutRetry(h) PROVE OneOwner'
    BY <1>8 DEF WaitTimeoutRetry
  <1>9. ASSUME NEW h \in Handlers, WaitTimeoutLeave(h) PROVE OneOwner'
    BY <1>9 DEF WaitTimeoutLeave, Leave
  <1>10. ASSUME NEW h \in Handlers, Succeed(h) PROVE OneOwner'
    BY <1>10 DEF Succeed, Finish, Verdict, Fenced
  <1>11. ASSUME NEW h \in Handlers, FailTerminally(h) PROVE OneOwner'
    BY <1>11 DEF FailTerminally, Finish, Verdict, Fenced
  <1>12. ASSUME NEW h \in Handlers, FailRetryably(h) PROVE OneOwner'
    BY <1>12 DEF FailRetryably, RecordRetryable, AfterRetryable, Fenced
  <1>13. ASSUME NEW h \in Handlers, DeadLetter(h) PROVE OneOwner'
    BY <1>13 DEF DeadLetter, Finish, Verdict, Fenced
  <1>14. ASSUME NEW h \in Handlers, Stale(h) PROVE OneOwner'
    BY <1>14 DEF Stale, Leave, Fenced
  <1>15. ASSUME NEW h \in Handlers, Acknowledge(h) PROVE OneOwner'
    BY <1>15 DEF Acknowledge, Leave
  <1>16. ASSUME NEW h \in Handlers, Retry(h) PROVE OneOwner'
    BY <1>16 DEF Retry, Leave
  <1>17. ASSUME NEW h \in Handlers, Cancel(h) PROVE OneOwner'
    BY <1>17 DEF Cancel, RecordRetryable, Leave, Fault, Fenced
  <1>18. ASSUME NEW h \in Handlers, CrashHandler(h) PROVE OneOwner'
    BY <1>18 DEF CrashHandler, Leave, Fault
  <1>19. ASSUME NEW h \in Handlers, NEW d \in queue, Deliver(h, d) PROVE OneOwner'
    BY <1>19 DEF Deliver
  <1>20. ASSUME NEW r \in Drainers, DrainRead(r) PROVE OneOwner'
    BY <1>20 DEF DrainRead, Pending
  <1>21. ASSUME NEW r \in Drainers, DrainNext(r) PROVE OneOwner'
    BY <1>21 DEF DrainNext
  <1>22. ASSUME NEW r \in Drainers, DrainDone(r) PROVE OneOwner'
    BY <1>22 DEF DrainDone
  <1>23. ASSUME NEW r \in Drainers, CrashDrainer(r) PROVE OneOwner'
    BY <1>23 DEF CrashDrainer, Fault
  <1>24. ASSUME NEW a \in Agents, Publish(a) PROVE OneOwner'
    BY <1>24 DEF Publish
  <1>25. ASSUME NEW a \in Agents, PublishFails(a) PROVE OneOwner'
    BY <1>25 DEF PublishFails, Fault
  <1>26. ASSUME NEW a \in Agents, MarkPublished(a) PROVE OneOwner'
    BY <1>26 DEF MarkPublished, Resume
  <1>27. ASSUME NEW a \in Agents, CountFailedPublication(a) PROVE OneOwner'
    BY <1>27 DEF CountFailedPublication, Resume
  <1>28. ASSUME NEW o \in Ops, LeaseExpires(o) PROVE OneOwner'
    BY <1>28 DEF LeaseExpires, Fault
  <1>29. ASSUME NEW d \in unacked, Redeliver(d) PROVE OneOwner'
    BY <1>29 DEF Redeliver, Fault
  <1>30. CASE UNCHANGED vars
    BY <1>30 DEF vars
  <1> QED
    BY <1>1, <1>2, <1>3, <1>4, <1>5, <1>6, <1>7, <1>8, <1>9, <1>10, <1>11, <1>12, <1>13,
      <1>14, <1>15, <1>16, <1>17, <1>18, <1>19, <1>20, <1>21, <1>22, <1>23, <1>24, <1>25,
      <1>26, <1>27, <1>28, <1>29, <1>30
    DEF Next, HandlerStep, DrainerStep, Environment, Agents

\* A handler acknowledges only with a settled row for its request in hand.
LEMMA StepAckedIsDurable == IInv /\ [Next]_vars => AckedIsDurable'
  <1> SUFFICES ASSUME IInv, [Next]_vars PROVE AckedIsDurable'
    OBVIOUS
  <1> USE ConstantsAssumption DEF IInv, TypeOK, Agents, Steps, Statuses, Settling, Settled,
          Deliveries, Outbounds, table, broker, locals, history, Goto, NoDelivery, NoOutbound, Msg,
          RowConsistent, HandlerKnows, SameRequest, OutboundIsOutcome, AckedIsDurable
  <1>1. ASSUME NEW h \in Handlers, RejectUnserializable(h) PROVE AckedIsDurable'
    BY <1>1 DEF RejectUnserializable, Leave
  <1>2. ASSUME NEW h \in Handlers, ClaimNew(h) PROVE AckedIsDurable'
    BY <1>2 DEF ClaimNew, Claiming, TakeClaim
  <1>3. ASSUME NEW h \in Handlers, ClaimConflict(h) PROVE AckedIsDurable'
    BY <1>3 DEF ClaimConflict, Claiming
  <1>4. ASSUME NEW h \in Handlers, ClaimSettled(h) PROVE AckedIsDurable'
    BY <1>4 DEF ClaimSettled, Claiming, AfterSettled
  <1>5. ASSUME NEW h \in Handlers, ClaimBusy(h) PROVE AckedIsDurable'
    BY <1>5 DEF ClaimBusy, Claiming
  <1>6. ASSUME NEW h \in Handlers, ClaimTakeover(h) PROVE AckedIsDurable'
    BY <1>6 DEF ClaimTakeover, Claiming, TakeClaim, Overtakes, Reclaimable
  <1>7. ASSUME NEW h \in Handlers, WaitOver(h) PROVE AckedIsDurable'
    BY <1>7 DEF WaitOver, AfterSettled, AfterRetryable
  <1>8. ASSUME NEW h \in Handlers, WaitTimeoutRetry(h) PROVE AckedIsDurable'
    BY <1>8 DEF WaitTimeoutRetry
  <1>9. ASSUME NEW h \in Handlers, WaitTimeoutLeave(h) PROVE AckedIsDurable'
    BY <1>9 DEF WaitTimeoutLeave, Leave
  <1>10. ASSUME NEW h \in Handlers, Succeed(h) PROVE AckedIsDurable'
    BY <1>10 DEF Succeed, Finish, Verdict, Fenced
  <1>11. ASSUME NEW h \in Handlers, FailTerminally(h) PROVE AckedIsDurable'
    BY <1>11 DEF FailTerminally, Finish, Verdict, Fenced
  <1>12. ASSUME NEW h \in Handlers, FailRetryably(h) PROVE AckedIsDurable'
    BY <1>12 DEF FailRetryably, RecordRetryable, AfterRetryable, Fenced
  <1>13. ASSUME NEW h \in Handlers, DeadLetter(h) PROVE AckedIsDurable'
    BY <1>13 DEF DeadLetter, Finish, Verdict, Fenced
  <1>14. ASSUME NEW h \in Handlers, Stale(h) PROVE AckedIsDurable'
    BY <1>14 DEF Stale, Leave, Fenced
  <1>15. ASSUME NEW h \in Handlers, Acknowledge(h) PROVE AckedIsDurable'
    <2>1. /\ Msg(h) \in Messages
          /\ op[h] \in {KeyOf[Msg(h)], ConflictKeyOf[Msg(h)]}
          /\ Settled(op[h]) /\ fp[op[h]] = FpOf[Msg(h)]
          /\ publication[op[h]] # "none"
      BY <1>15 DEF Acknowledge, HandlerKnows, SameRequest, RowConsistent
    <2> QED BY <1>15, <2>1 DEF Acknowledge
  <1>16. ASSUME NEW h \in Handlers, Retry(h) PROVE AckedIsDurable'
    BY <1>16 DEF Retry, Leave
  <1>17. ASSUME NEW h \in Handlers, Cancel(h) PROVE AckedIsDurable'
    BY <1>17 DEF Cancel, RecordRetryable, Leave, Fault, Fenced
  <1>18. ASSUME NEW h \in Handlers, CrashHandler(h) PROVE AckedIsDurable'
    BY <1>18 DEF CrashHandler, Leave, Fault
  <1>19. ASSUME NEW h \in Handlers, NEW d \in queue, Deliver(h, d) PROVE AckedIsDurable'
    BY <1>19 DEF Deliver
  <1>20. ASSUME NEW r \in Drainers, DrainRead(r) PROVE AckedIsDurable'
    BY <1>20 DEF DrainRead, Pending
  <1>21. ASSUME NEW r \in Drainers, DrainNext(r) PROVE AckedIsDurable'
    BY <1>21 DEF DrainNext
  <1>22. ASSUME NEW r \in Drainers, DrainDone(r) PROVE AckedIsDurable'
    BY <1>22 DEF DrainDone
  <1>23. ASSUME NEW r \in Drainers, CrashDrainer(r) PROVE AckedIsDurable'
    BY <1>23 DEF CrashDrainer, Fault
  <1>24. ASSUME NEW a \in Agents, Publish(a) PROVE AckedIsDurable'
    BY <1>24 DEF Publish
  <1>25. ASSUME NEW a \in Agents, PublishFails(a) PROVE AckedIsDurable'
    BY <1>25 DEF PublishFails, Fault
  <1>26. ASSUME NEW a \in Agents, MarkPublished(a) PROVE AckedIsDurable'
    BY <1>26 DEF MarkPublished, Resume
  <1>27. ASSUME NEW a \in Agents, CountFailedPublication(a) PROVE AckedIsDurable'
    BY <1>27 DEF CountFailedPublication, Resume
  <1>28. ASSUME NEW o \in Ops, LeaseExpires(o) PROVE AckedIsDurable'
    BY <1>28 DEF LeaseExpires, Fault
  <1>29. ASSUME NEW d \in unacked, Redeliver(d) PROVE AckedIsDurable'
    BY <1>29 DEF Redeliver, Fault
  <1>30. CASE UNCHANGED vars
    BY <1>30 DEF vars
  <1> QED
    BY <1>1, <1>2, <1>3, <1>4, <1>5, <1>6, <1>7, <1>8, <1>9, <1>10, <1>11, <1>12, <1>13,
      <1>14, <1>15, <1>16, <1>17, <1>18, <1>19, <1>20, <1>21, <1>22, <1>23, <1>24, <1>25,
      <1>26, <1>27, <1>28, <1>29, <1>30
    DEF Next, HandlerStep, DrainerStep, Environment, Agents

\* Which steps start an attempt; the others may cost a fault.
LEMMA AttemptSteps ==
  ASSUME [Next]_vars
  PROVE  \/ \E h \in Handlers : ClaimNew(h) \/ ClaimTakeover(h)
         \/ /\ UNCHANGED <<attempts, overtaken>>
            /\ faults' = faults \/ faults' = faults + 1
  <1> USE DEF table, history
  <1>1. ASSUME NEW h \in Handlers, HandlerStep(h), ~ClaimNew(h), ~ClaimTakeover(h)
        PROVE  UNCHANGED <<attempts, overtaken>> /\ faults' = faults
    BY <1>1 DEF HandlerStep, RejectUnserializable, ClaimConflict, ClaimSettled, ClaimBusy,
       WaitOver, WaitTimeoutRetry, WaitTimeoutLeave, Succeed, FailTerminally, FailRetryably,
       DeadLetter, Finish, RecordRetryable, Stale, Publish, MarkPublished,
       CountFailedPublication, Acknowledge, Retry
  <1>2. ASSUME NEW h \in Handlers, NEW d \in queue, Deliver(h, d)
        PROVE  UNCHANGED <<attempts, overtaken>> /\ faults' = faults
    BY <1>2 DEF Deliver
  <1>3. ASSUME NEW r \in Drainers, DrainerStep(r)
        PROVE  UNCHANGED <<attempts, overtaken>> /\ faults' = faults
    BY <1>3 DEF DrainerStep, DrainRead, DrainNext, DrainDone, Publish, MarkPublished,
       CountFailedPublication
  <1>4. ASSUME Environment
        PROVE  /\ UNCHANGED <<attempts, overtaken>>
               /\ faults' = faults \/ faults' = faults + 1
    BY <1>4 DEF Environment, Cancel, RecordRetryable, CrashHandler, CrashDrainer,
       PublishFails, LeaseExpires, Redeliver, Fault
  <1>5. CASE UNCHANGED vars
    BY <1>5 DEF vars
  <1> QED BY <1>1, <1>2, <1>3, <1>4, <1>5 DEF Next

\* Which steps move a delivery, and that no other hands one out.
LEMMA BrokerSteps ==
  ASSUME TypeOK, [Next]_vars
  PROVE  \/ \E h \in Handlers, d \in queue : Deliver(h, d)
         \/ \E h \in Handlers : Acknowledge(h) \/ Retry(h)
         \/ \E d \in unacked : Redeliver(d)
         \/ /\ UNCHANGED broker
            /\ \A h \in Handlers : pc'[h] # "idle" =>
                  pc[h] # "idle" /\ delivery'[h] = delivery[h]
  <1> DEFINE Same == /\ UNCHANGED broker
                     /\ \A h \in Handlers : pc'[h] # "idle" =>
                           pc[h] # "idle" /\ delivery'[h] = delivery[h]
  <1> USE ConstantsAssumption DEF TypeOK, Agents, broker, locals, Goto
  <1>1. ASSUME NEW h \in Handlers,
               RejectUnserializable(h) \/ WaitTimeoutLeave(h) \/ Stale(h) \/ Cancel(h)
                 \/ CrashHandler(h)
        PROVE  Same
    BY <1>1 DEF RejectUnserializable, WaitTimeoutLeave, Stale, Cancel, CrashHandler, Leave
  <1>2. ASSUME NEW h \in Handlers,
               ClaimNew(h) \/ ClaimTakeover(h) \/ ClaimConflict(h) \/ ClaimSettled(h)
                 \/ ClaimBusy(h)
        PROVE  Same
    BY <1>2 DEF ClaimNew, ClaimTakeover, ClaimConflict, ClaimSettled, ClaimBusy, Claiming,
       TakeClaim
  <1>3. ASSUME NEW h \in Handlers,
               WaitOver(h) \/ WaitTimeoutRetry(h) \/ Succeed(h) \/ FailTerminally(h)
                 \/ FailRetryably(h) \/ DeadLetter(h)
        PROVE  Same
    BY <1>3 DEF WaitOver, WaitTimeoutRetry, Succeed, FailTerminally, FailRetryably,
       DeadLetter, Finish
  <1>4. ASSUME NEW a \in Agents,
               Publish(a) \/ PublishFails(a) \/ MarkPublished(a) \/ CountFailedPublication(a)
        PROVE  Same
    BY <1>4 DEF Publish, PublishFails, MarkPublished, CountFailedPublication, Resume
  <1>5. ASSUME NEW r \in Drainers,
               DrainRead(r) \/ DrainNext(r) \/ DrainDone(r) \/ CrashDrainer(r)
        PROVE  Same
    BY <1>5 DEF DrainRead, DrainNext, DrainDone, CrashDrainer
  <1>6. ASSUME NEW o \in Ops, LeaseExpires(o) PROVE Same
    BY <1>6 DEF LeaseExpires
  <1>7. ASSUME UNCHANGED vars PROVE Same
    BY <1>7 DEF vars
  <1> HIDE DEF Same, TypeOK, broker, locals, Goto
  <1>8. \/ \E h \in Handlers, d \in queue : Deliver(h, d)
        \/ \E h \in Handlers : Acknowledge(h) \/ Retry(h)
        \/ \E d \in unacked : Redeliver(d)
        \/ Same
    <2>1. ASSUME NEW h \in Handlers, HandlerStep(h) PROVE Acknowledge(h) \/ Retry(h) \/ Same
      BY <2>1, <1>1, <1>2, <1>3, <1>4 DEF HandlerStep
    <2>2. ASSUME NEW r \in Drainers, DrainerStep(r) PROVE Same
      BY <2>2, <1>4, <1>5 DEF DrainerStep
    <2>3. ASSUME Environment PROVE (\E d \in unacked : Redeliver(d)) \/ Same
      BY <2>3, <1>1, <1>4, <1>5, <1>6 DEF Environment
    <2>4. CASE Next
      BY ONLY <2>1, <2>2, <2>3, <2>4 DEF Next
    <2> QED BY <1>7, <2>4
  <1> QED BY <1>8 DEF Same

\* No message that was sent is ever gone: its delivery waits, is delivered, or
\* is followed by the next, or the message is acknowledged.
LEMMA SentStays ==
  ASSUME TypeOK, [Next]_vars
  PROVE  Sent \subseteq Sent'
  <1>1. ASSUME NEW h \in Handlers, NEW d \in queue, Deliver(h, d) PROVE Sent \subseteq Sent'
    BY <1>1 DEF Deliver, Sent
  <1>2. ASSUME NEW h \in Handlers, Acknowledge(h) PROVE Sent \subseteq Sent'
    BY <1>2 DEF Acknowledge, Sent, Msg
  <1>3. ASSUME NEW h \in Handlers, Retry(h) PROVE Sent \subseteq Sent'
    <2> DEFINE next == [delivery[h] EXCEPT !.attempt = @ + 1]
    <2>1. delivery[h] \in Deliveries
      BY <1>3 DEF Retry, TypeOK
    <2>2. next.msg = delivery[h].msg
      BY <2>1 DEF Deliveries
    <2>3. queue' = queue \cup {next} /\ unacked' = unacked \ {delivery[h]} /\ acked' = acked
      BY <1>3 DEF Retry
    <2> HIDE DEF next
    <2> QED BY <2>2, <2>3 DEF Sent
  <1>4. ASSUME NEW d \in unacked, Redeliver(d) PROVE Sent \subseteq Sent'
    BY <1>4 DEF Redeliver, Sent
  <1>5. CASE UNCHANGED broker
    BY <1>5 DEF broker, Sent
  <1> QED BY <1>1, <1>2, <1>3, <1>4, <1>5, BrokerSteps

\* Without a failure a delivery is replaced, not copied.
LEMMA StepOneDelivery == IInv /\ [Next]_vars => OneDelivery'
  <1> SUFFICES ASSUME IInv, [Next]_vars, faults' = 0 PROVE OneDelivery'
    BY DEF OneDelivery
  <1>0. /\ faults = 0
        /\ TypeOK
        /\ \A d, e \in queue \cup unacked : d.msg = e.msg => d = e
        /\ \A h \in Handlers : pc[h] # "idle" => delivery[h] \in unacked \ queue
        /\ \A g, h \in Handlers :
              pc[g] # "idle" /\ pc[h] # "idle" /\ delivery[g] = delivery[h] => g = h
    <2>1. faults \in Nat /\ TypeOK
      BY ConstantsAssumption DEF IInv, TypeOK
    <2>2. faults' = faults \/ faults' = faults + 1
      <3>1. ASSUME NEW h \in Handlers, ClaimNew(h) \/ ClaimTakeover(h) PROVE faults' = faults
        BY <3>1 DEF ClaimNew, ClaimTakeover, Overtakes, history
      <3> QED BY <3>1, AttemptSteps
    <2>3. faults = 0
      BY <2>1, <2>2
    <2> QED BY <2>1, <2>3 DEF IInv, OneDelivery
  <1>p. pc \in [Agents -> Steps] /\ delivery \in [Handlers -> Deliveries \cup {NoDelivery}]
    BY <1>0 DEF TypeOK
  <1>1. ASSUME NEW h \in Handlers, NEW d \in queue, Deliver(h, d) PROVE OneDelivery'
    <2>1. /\ pc[h] = "idle" /\ queue' = queue \ {d} /\ unacked' = unacked \cup {d}
          /\ delivery' = [delivery EXCEPT ![h] = d] /\ pc' = [pc EXCEPT ![h] = "claim"]
      BY <1>1 DEF Deliver, Goto
    <2>2. \A g \in Handlers : g # h => pc'[g] = pc[g] /\ delivery'[g] = delivery[g]
      BY <1>p, <2>1 DEF Agents
    <2>3. delivery'[h] = d
      BY <1>p, <2>1
    <2>4. \A e, f \in queue' \cup unacked' : e.msg = f.msg => e = f
      BY <1>0, <2>1
    <2>5. \A g \in Handlers : pc'[g] # "idle" => delivery'[g] \in unacked' \ queue'
      BY <1>0, <2>1, <2>2, <2>3
    <2>6. \A g \in Handlers : g # h /\ pc'[g] # "idle" => delivery'[g] # d
      BY <1>0, <2>2
    <2>7. \A g, f \in Handlers :
            pc'[g] # "idle" /\ pc'[f] # "idle" /\ delivery'[g] = delivery'[f] => g = f
      BY <1>0, <2>2, <2>3, <2>6
    <2> QED BY <2>4, <2>5, <2>7 DEF OneDelivery
  <1>2. ASSUME NEW h \in Handlers, Acknowledge(h) \/ Retry(h) PROVE OneDelivery'
    <2> DEFINE d == delivery[h]
    <2> DEFINE next == [d EXCEPT !.attempt = @ + 1]
    <2>1. /\ pc[h] # "idle" /\ unacked' = unacked \ {d}
          /\ queue' = queue \/ queue' = queue \cup {next}
          /\ pc' = [pc EXCEPT ![h] = "idle"]
          /\ delivery' = [delivery EXCEPT ![h] = NoDelivery]
      BY <1>2 DEF Acknowledge, Retry, Leave, Goto
    <2>2. d \in Deliveries /\ d \in unacked \ queue
      BY <1>0, <2>1 DEF TypeOK
    <2>3. next.msg = d.msg /\ next.attempt = d.attempt + 1 /\ d.attempt \in Nat
      BY <2>2 DEF Deliveries
    <2>4. \A g \in Handlers : pc'[g] # "idle" =>
             g # h /\ pc[g] # "idle" /\ delivery'[g] = delivery[g]
      BY <1>p, <2>1 DEF Agents
    <2>5. \A g \in Handlers : pc'[g] # "idle" => delivery'[g] # d /\ delivery'[g] # next
      <3>1. \A e \in unacked : e.msg = d.msg => e = d
        BY <1>0, <2>2
      <3>2. next # d
        <4>1. next.attempt # d.attempt
          <5> HIDE DEF d, next
          <5> QED BY ONLY <2>3
        <4> QED BY <4>1
      <3>3. next \notin unacked
        BY <2>3, <3>1, <3>2
      <3>4. \A g \in Handlers : pc'[g] # "idle" => delivery'[g] # d /\ delivery'[g] \in unacked
        BY <1>0, <2>1, <2>4
      <3> QED BY ONLY <3>3, <3>4
    <2> HIDE DEF d, next
    <2>6. \A g \in Handlers : pc'[g] # "idle" => delivery'[g] \in unacked' \ queue'
      BY <1>0, <2>1, <2>4, <2>5
    <2>7. \A e, f \in queue' \cup unacked' : e.msg = f.msg => e = f
      <3>1. \A e \in queue \cup unacked' : e \in queue \cup unacked /\ e.msg # d.msg
        BY <1>0, <2>1, <2>2
      <3> QED BY <1>0, <2>1, <2>3, <3>1
    <2>8. \A g, f \in Handlers :
            pc'[g] # "idle" /\ pc'[f] # "idle" /\ delivery'[g] = delivery'[f] => g = f
      BY <1>0, <2>4
    <2> QED BY <2>6, <2>7, <2>8 DEF OneDelivery
  <1>3. ASSUME NEW d \in unacked, Redeliver(d) PROVE OneDelivery'
    <2>1. /\ queue' = queue \cup {d} /\ UNCHANGED <<unacked, pc, delivery>>
      BY <1>3 DEF Redeliver, locals
    <2>2. ~InHand(d)
      BY <1>0, <1>3 DEF Redeliver, Fault
    <2>3. \A h \in Handlers : pc[h] # "idle" => delivery[h] # d
      BY <2>2 DEF InHand
    <2> QED BY <1>0, <2>1, <2>3 DEF OneDelivery
  <1>4. CASE /\ UNCHANGED broker
             /\ \A h \in Handlers : pc'[h] # "idle" =>
                   pc[h] # "idle" /\ delivery'[h] = delivery[h]
    BY <1>0, <1>4 DEF broker, OneDelivery
  <1> QED BY <1>0, <1>1, <1>2, <1>3, <1>4, BrokerSteps

\* An attempt is started only below the budget, or by overtaking a dead letter.
LEMMA StepWithinBudget ==
  ASSUME IInv, [Next]_vars
  PROVE  \A o \in Ops : attempts'[o] <= MaxAttempts + faults' + overtaken'[o]
  <1>0. /\ attempts \in [Ops -> Nat] /\ overtaken \in [Ops -> Nat] /\ faults \in Nat
        /\ MaxAttempts \in Nat \ {0}
        /\ \A o \in Ops : attempts[o] <= MaxAttempts + faults + overtaken[o]
    BY ConstantsAssumption DEF IInv, TypeOK, AttemptBudget
  <1>1. ASSUME NEW h \in Handlers, ClaimNew(h)
        PROVE  \A o \in Ops : attempts'[o] <= MaxAttempts + faults' + overtaken'[o]
    <2>1. op[h] \in Ops /\ status[op[h]] = "absent"
      BY <1>1 DEF ClaimNew, Claiming, IInv, TypeOK
    <2>2. attempts[op[h]] = 0
      BY <2>1 DEF IInv, TokensAreAttempts
    <2>3. attempts' = [attempts EXCEPT ![op[h]] = @ + 1] /\ UNCHANGED <<faults, overtaken>>
      BY <1>1 DEF ClaimNew, TakeClaim, history
    <2> QED BY <1>0, <2>1, <2>2, <2>3
  <1>2. ASSUME NEW h \in Handlers, ClaimTakeover(h)
        PROVE  \A o \in Ops : attempts'[o] <= MaxAttempts + faults' + overtaken'[o]
    <2>1. op[h] \in Ops /\ Reclaimable(op[h])
      BY <1>2 DEF ClaimTakeover, Claiming, IInv, TypeOK
    <2>2. attempts' = [attempts EXCEPT ![op[h]] = @ + 1]
      BY <1>2 DEF ClaimTakeover, TakeClaim
    <2>3. CASE Exhausting(op[h])
      <3>1. overtaken' = [overtaken EXCEPT ![op[h]] = @ + 1] /\ faults' = faults
        BY <1>2, <2>3 DEF ClaimTakeover, Overtakes
      <3> QED BY <1>0, <2>1, <2>2, <3>1
    <2>4. CASE ~Exhausting(op[h])
      <3>1. UNCHANGED <<faults, overtaken>>
        BY <1>2, <2>4 DEF ClaimTakeover, history
      <3>2. attempts[op[h]] # MaxAttempts + faults + overtaken[op[h]]
        BY <2>1, <2>4 DEF Reclaimable, IInv, BudgetIsHeld
      <3> QED BY <1>0, <2>1, <2>2, <3>1, <3>2
    <2> QED BY <2>3, <2>4
  <1>3. CASE UNCHANGED <<attempts, overtaken>> /\ (faults' = faults \/ faults' = faults + 1)
    BY <1>0, <1>3
  <1> QED BY <1>1, <1>2, <1>3, AttemptSteps

\* A row is never deleted and never changes the request it stands for.
LEMMA RowStays ==
  ASSUME TypeOK, [Next]_vars, NEW o \in Ops, status[o] # "absent"
  PROVE  fp'[o] = fp[o] /\ status'[o] # "absent"
  <1> USE DEF TypeOK
  <1>1. ASSUME NEW h \in Handlers, ClaimNew(h) PROVE fp'[o] = fp[o] /\ status'[o] # "absent"
    BY <1>1 DEF ClaimNew, TakeClaim
  <1>2. ASSUME NEW h \in Handlers,
               \/ ClaimTakeover(h) \/ Succeed(h) \/ FailTerminally(h)
               \/ DeadLetter(h) \/ FailRetryably(h) \/ Cancel(h)
        PROVE  fp'[o] = fp[o] /\ status'[o] # "absent"
    BY <1>2 DEF ClaimTakeover, TakeClaim, Succeed, FailTerminally, DeadLetter, Finish,
       FailRetryably, Cancel, RecordRetryable, table
  <1>3. ASSUME NEW a \in Agents, MarkPublished(a) \/ CountFailedPublication(a)
        PROVE  fp'[o] = fp[o] /\ status'[o] # "absent"
    BY <1>3 DEF MarkPublished, CountFailedPublication
  <1>4. ASSUME NEW p \in Ops, LeaseExpires(p) PROVE fp'[o] = fp[o] /\ status'[o] # "absent"
    BY <1>4 DEF LeaseExpires
  <1>5. CASE UNCHANGED table
    BY <1>5 DEF table
  <1> QED BY <1>1, <1>2, <1>3, <1>4, <1>5, TableSteps

LEMMA StepOvertakenIsClaimed == IInv /\ [Next]_vars => OvertakenIsClaimed'
  <1> SUFFICES ASSUME IInv, [Next]_vars, NEW o \in Ops, overtaken'[o] > 0
               PROVE  status'[o] # "absent"
    BY DEF OvertakenIsClaimed
  <1>0. TypeOK
    BY DEF IInv
  <1>1. CASE overtaken[o] > 0
    BY <1>0, <1>1, RowStays DEF IInv, OvertakenIsClaimed
  <1>2. ASSUME NEW h \in Handlers, ClaimTakeover(h) PROVE status'[o] # "absent"
    <2>1. status[o] # "absent" \/ o # op[h]
      BY <1>2 DEF ClaimTakeover, Reclaimable
    <2>2. o # op[h] => overtaken'[o] = overtaken[o]
      BY <1>0, <1>2 DEF ClaimTakeover, Overtakes, history, TypeOK
    <2> QED BY <1>0, <1>1, <2>1, <2>2, RowStays
  <1>3. ASSUME NEW h \in Handlers, ClaimNew(h) PROVE status'[o] # "absent"
    BY <1>1, <1>3 DEF ClaimNew, history
  <1> QED BY <1>1, <1>2, <1>3, AttemptSteps

\* Who overtakes a dead letter while nothing has failed handles another message
\* than the one that is about to be dead-lettered, for the same request.
LEMMA StepOvertaken ==
  ASSUME IInv, [Next]_vars, NEW o \in Ops, overtaken'[o] > 0
  PROVE  faults' > 0 \/ SentTwice(o)'
  <1>0. TypeOK /\ faults \in Nat /\ overtaken \in [Ops -> Nat]
    BY ConstantsAssumption DEF IInv, TypeOK
  <1>k. ASSUME overtaken[o] > 0, faults' = faults \/ faults' = faults + 1
        PROVE  faults' > 0 \/ SentTwice(o)'
    <2>1. faults > 0 \/ SentTwice(o)
      BY <1>k DEF IInv, AttemptBudget
    <2>2. status[o] # "absent"
      BY <1>k DEF IInv, OvertakenIsClaimed
    <2>3. fp'[o] = fp[o] /\ Sent \subseteq Sent'
      BY <1>0, <2>2, RowStays, SentStays
    <2>4. SentTwice(o) => SentTwice(o)'
      BY <2>3 DEF SentTwice, RequestedBy
    <2> QED BY <1>0, <1>k, <2>1, <2>4
  <1>1. ASSUME NEW h \in Handlers, ClaimNew(h) PROVE faults' > 0 \/ SentTwice(o)'
    BY <1>1, <1>k DEF ClaimNew, history
  <1>2. ASSUME NEW h \in Handlers, ClaimTakeover(h) PROVE faults' > 0 \/ SentTwice(o)'
    <2>1. CASE ~(Exhausting(op[h]) /\ o = op[h])
      <3>1. overtaken'[o] = overtaken[o] /\ faults' = faults
        BY <1>0, <1>2, <2>1 DEF ClaimTakeover, Overtakes, history
      <3> QED BY <1>k, <3>1
    <2>2. CASE Exhausting(op[h]) /\ o = op[h]
      <3>1. PICK g \in Handlers : pc[g] = "deadletter" /\ op[g] = o
        BY <2>2 DEF Exhausting
      <3>2. /\ pc[h] = "claim" /\ SameRequest(h) /\ faults' = faults
            /\ fp' = fp /\ UNCHANGED broker
        BY <1>2, <2>2 DEF ClaimTakeover, Claiming, Overtakes, TakeClaim
      <3>3. RequestedBy(Msg(g), o) /\ RequestedBy(Msg(h), o)
        BY <2>2, <3>1, <3>2 DEF IInv, HandlerKnows, SameRequest, RequestedBy
      <3>4. ASSUME faults = 0 PROVE Msg(g) # Msg(h) /\ Msg(g) \in Sent /\ Msg(h) \in Sent
        <4>1. delivery[g] \in unacked /\ delivery[h] \in unacked /\ g # h
          BY <3>1, <3>2, <3>4 DEF IInv, OneDelivery
        <4>2. delivery[g] # delivery[h]
          BY <3>1, <3>2, <3>4, <4>1 DEF IInv, OneDelivery
        <4>3. delivery[g].msg # delivery[h].msg
          BY <3>4, <4>1, <4>2 DEF IInv, OneDelivery
        <4> QED BY <4>1, <4>3 DEF Msg, Sent
      <3>5. faults = 0 => SentTwice(o)
        BY <3>3, <3>4 DEF SentTwice
      <3>6. SentTwice(o)' = SentTwice(o)
        BY <3>2 DEF SentTwice, RequestedBy, Sent, broker
      <3> QED BY <1>0, <3>2, <3>5, <3>6
    <2> QED BY <2>1, <2>2
  <1>3. CASE UNCHANGED <<attempts, overtaken>> /\ (faults' = faults \/ faults' = faults + 1)
    BY <1>3, <1>k
  <1> QED BY <1>1, <1>2, <1>3, AttemptSteps

LEMMA StepAttemptBudget == IInv /\ [Next]_vars => AttemptBudget'
  <1> SUFFICES ASSUME IInv, [Next]_vars PROVE AttemptBudget'
    OBVIOUS
  <1>1. \A o \in Ops : attempts'[o] <= MaxAttempts + faults' + overtaken'[o]
    BY StepWithinBudget
  <1>2. \A o \in Ops : overtaken'[o] > 0 => faults' > 0 \/ SentTwice(o)'
    BY StepOvertaken
  <1> QED BY <1>1, <1>2 DEF AttemptBudget

\* Who takes a claim is at work on the operation, and disturbs nobody else's.
LEMMA ClaimHolds ==
  ASSUME TypeOK, NEW h \in Handlers, pc[h] = "claim", TakeClaim(h), NEW o \in Ops
  PROVE  IF o = op[h]
         THEN status'[o] = "processing" /\ lease'[o] = "live" /\ OwnerAtWork(o)'
         ELSE /\ status'[o] = status[o] /\ attempts'[o] = attempts[o]
              /\ lease'[o] = lease[o]
              /\ OwnerAtWork(o) => OwnerAtWork(o)'
              /\ Exhausting(o) => Exhausting(o)'
  <1>1. /\ pc' = [pc EXCEPT ![h] = "work"] /\ op' = op
        /\ held' = [held EXCEPT ![h] = attempts[op[h]] + 1]
        /\ token' = [token EXCEPT ![op[h]] = attempts[op[h]] + 1]
        /\ status' = [status EXCEPT ![op[h]] = "processing"]
        /\ lease' = [lease EXCEPT ![op[h]] = "live"]
        /\ attempts' = [attempts EXCEPT ![op[h]] = @ + 1]
    BY DEF TakeClaim, Goto
  <1>2. /\ pc \in [Agents -> Steps] /\ held \in [Handlers -> Nat] /\ h \in Agents
        /\ token \in [Ops -> Nat] /\ status \in [Ops -> Statuses]
        /\ attempts \in [Ops -> Nat] /\ DOMAIN lease = Ops
    BY DEF TypeOK, Agents
  <1>3. CASE o = op[h]
    <2>1. pc'[h] = "work" /\ op'[h] = o /\ held'[h] = token'[o]
      BY ONLY <1>1, <1>2, <1>3
    <2>2. status'[o] = "processing" /\ lease'[o] = "live"
      BY ONLY <1>1, <1>2, <1>3
    <2> QED BY <1>3, <2>1, <2>2 DEF OwnerAtWork
  <1>4. CASE o # op[h]
    <2>1. /\ status'[o] = status[o] /\ attempts'[o] = attempts[o]
          /\ lease'[o] = lease[o] /\ token'[o] = token[o]
      BY ONLY <1>1, <1>2, <1>4
    <2>2. \A g \in Handlers : op[g] = o =>
             g # h /\ pc'[g] = pc[g] /\ op'[g] = op[g] /\ held'[g] = held[g]
      BY ONLY <1>1, <1>2, <1>4 DEF Agents
    <2>3. OwnerAtWork(o) => OwnerAtWork(o)'
      BY ONLY <2>1, <2>2 DEF OwnerAtWork
    <2>4. Exhausting(o) => Exhausting(o)'
      BY ONLY <2>1, <2>2 DEF Exhausting
    <2> QED BY <1>4, <2>1, <2>3, <2>4
  <1> QED BY <1>3, <1>4

\* Losing the last owner or the last handler that will dead-letter costs a
\* fault, or is an overtaking: either raises the budget.
LEMMA StepBudgetIsHeld == IInv /\ [Next]_vars => BudgetIsHeld'
  <1> SUFFICES ASSUME IInv, [Next]_vars PROVE BudgetIsHeld'
    OBVIOUS
  <1>k. ASSUME NEW o \in Ops, faults' = faults,
               /\ status'[o] = status[o] /\ attempts'[o] = attempts[o]
               /\ lease'[o] = lease[o] /\ overtaken'[o] = overtaken[o],
               OwnerAtWork(o) => OwnerAtWork(o)', Exhausting(o) => Exhausting(o)'
        PROVE  attempts'[o] = MaxAttempts + faults' + overtaken'[o] =>
                 /\ status'[o] = "processing" => lease'[o] = "live" /\ OwnerAtWork(o)'
                 /\ status'[o] = "retryable_failure" => Exhausting(o)'
    BY <1>k DEF IInv, BudgetIsHeld
  <1>t. TypeOK
    BY DEF IInv
  <1>b. \A o \in Ops : attempts[o] <= MaxAttempts + faults + overtaken[o]
    BY DEF IInv, AttemptBudget
  <1> USE <1>b, ConstantsAssumption DEF IInv, TypeOK, Agents, Statuses, Settling, Settled,
          table, broker, locals, history, Goto, TokensAreAttempts, BudgetIsHeld, HandlerKnows
  <1>1. ASSUME NEW h \in Handlers, RejectUnserializable(h) PROVE BudgetIsHeld'
    BY <1>1 DEF RejectUnserializable, Leave, OwnerAtWork, Exhausting
  <1>2. ASSUME NEW h \in Handlers, ClaimNew(h) PROVE BudgetIsHeld'
    <2>1. pc[h] = "claim" /\ TakeClaim(h)
      BY <1>2 DEF ClaimNew, Claiming
    <2>2. \A o \in Ops : o # op[h] => faults' = faults /\ overtaken'[o] = overtaken[o]
      BY <1>2 DEF ClaimNew
    <2>3. ASSUME NEW o \in Ops
          PROVE  attempts'[o] = MaxAttempts + faults' + overtaken'[o] =>
                   /\ status'[o] = "processing" => lease'[o] = "live" /\ OwnerAtWork(o)'
                   /\ status'[o] = "retryable_failure" => Exhausting(o)'
      <3>1. CASE o = op[h]
        BY ONLY <1>t, <2>1, <3>1, ClaimHolds
      <3>2. CASE o # op[h]
        <4>1. /\ status'[o] = status[o] /\ attempts'[o] = attempts[o]
              /\ lease'[o] = lease[o]
              /\ OwnerAtWork(o) => OwnerAtWork(o)'
              /\ Exhausting(o) => Exhausting(o)'
          BY ONLY <1>t, <2>1, <3>2, ClaimHolds
        <4> QED BY ONLY <1>k, <2>2, <3>2, <4>1
      <3> QED BY ONLY <3>1, <3>2
    <2> QED BY ONLY <2>3 DEF BudgetIsHeld
  <1>3. ASSUME NEW h \in Handlers, ClaimConflict(h) PROVE BudgetIsHeld'
    BY <1>3 DEF ClaimConflict, Claiming, OwnerAtWork, Exhausting
  <1>4. ASSUME NEW h \in Handlers, ClaimSettled(h) PROVE BudgetIsHeld'
    BY <1>4 DEF ClaimSettled, Claiming, AfterSettled, OwnerAtWork, Exhausting
  <1>5. ASSUME NEW h \in Handlers, ClaimBusy(h) PROVE BudgetIsHeld'
    BY <1>5 DEF ClaimBusy, Claiming, OwnerAtWork, Exhausting
  <1>6. ASSUME NEW h \in Handlers, ClaimTakeover(h) PROVE BudgetIsHeld'
    <2>1. pc[h] = "claim" /\ TakeClaim(h)
      BY <1>6 DEF ClaimTakeover, Claiming
    <2>2. \A o \in Ops : o # op[h] => faults' = faults /\ overtaken'[o] = overtaken[o]
      BY <1>6 DEF ClaimTakeover, Overtakes
    <2>3. ASSUME NEW o \in Ops
          PROVE  attempts'[o] = MaxAttempts + faults' + overtaken'[o] =>
                   /\ status'[o] = "processing" => lease'[o] = "live" /\ OwnerAtWork(o)'
                   /\ status'[o] = "retryable_failure" => Exhausting(o)'
      <3>1. CASE o = op[h]
        BY ONLY <1>t, <2>1, <3>1, ClaimHolds
      <3>2. CASE o # op[h]
        <4>1. /\ status'[o] = status[o] /\ attempts'[o] = attempts[o]
              /\ lease'[o] = lease[o]
              /\ OwnerAtWork(o) => OwnerAtWork(o)'
              /\ Exhausting(o) => Exhausting(o)'
          BY ONLY <1>t, <2>1, <3>2, ClaimHolds
        <4> QED BY ONLY <1>k, <2>2, <3>2, <4>1
      <3> QED BY ONLY <3>1, <3>2
    <2> QED BY ONLY <2>3 DEF BudgetIsHeld
  <1>7. ASSUME NEW h \in Handlers, WaitOver(h) PROVE BudgetIsHeld'
    BY <1>7 DEF WaitOver, AfterSettled, AfterRetryable, OwnerAtWork, Exhausting
  <1>8. ASSUME NEW h \in Handlers, WaitTimeoutRetry(h) PROVE BudgetIsHeld'
    BY <1>8 DEF WaitTimeoutRetry, OwnerAtWork, Exhausting
  <1>9. ASSUME NEW h \in Handlers, WaitTimeoutLeave(h) PROVE BudgetIsHeld'
    BY <1>9 DEF WaitTimeoutLeave, Leave, OwnerAtWork, Exhausting
  <1>10. ASSUME NEW h \in Handlers, Succeed(h) PROVE BudgetIsHeld'
    BY <1>10 DEF Succeed, Finish, Verdict, Fenced, OwnerAtWork, Exhausting
  <1>11. ASSUME NEW h \in Handlers, FailTerminally(h) PROVE BudgetIsHeld'
    BY <1>11 DEF FailTerminally, Finish, Verdict, Fenced, OwnerAtWork, Exhausting
  <1>12. ASSUME NEW h \in Handlers, FailRetryably(h) PROVE BudgetIsHeld'
    BY <1>12 DEF FailRetryably, RecordRetryable, AfterRetryable, Fenced, OwnerAtWork,
      Exhausting
  <1>13. ASSUME NEW h \in Handlers, DeadLetter(h) PROVE BudgetIsHeld'
    BY <1>13 DEF DeadLetter, Finish, Verdict, Fenced, OwnerAtWork, Exhausting
  <1>14. ASSUME NEW h \in Handlers, Stale(h) PROVE BudgetIsHeld'
    <2> USE <1>14 DEF Stale, Leave, Fenced
    <2>1. ASSUME NEW o \in Ops, status[o] = "processing", OwnerAtWork(o)
          PROVE  OwnerAtWork(o)'
      BY <2>1 DEF OwnerAtWork
    <2>2. ASSUME NEW o \in Ops, status[o] = "retryable_failure", Exhausting(o)
          PROVE  Exhausting(o)'
      BY <2>2 DEF Exhausting
    <2> QED BY <2>1, <2>2
  <1>15. ASSUME NEW h \in Handlers, Acknowledge(h) PROVE BudgetIsHeld'
    BY <1>15 DEF Acknowledge, Leave, OwnerAtWork, Exhausting
  <1>16. ASSUME NEW h \in Handlers, Retry(h) PROVE BudgetIsHeld'
    BY <1>16 DEF Retry, Leave, OwnerAtWork, Exhausting
  <1>17. ASSUME NEW h \in Handlers, Cancel(h) PROVE BudgetIsHeld'
    BY <1>17 DEF Cancel, RecordRetryable, Leave, Fault, Fenced, OwnerAtWork, Exhausting
  <1>18. ASSUME NEW h \in Handlers, CrashHandler(h) PROVE BudgetIsHeld'
    BY <1>18 DEF CrashHandler, Leave, Fault, OwnerAtWork, Exhausting
  <1>19. ASSUME NEW h \in Handlers, NEW d \in queue, Deliver(h, d) PROVE BudgetIsHeld'
    <2> USE <1>19 DEF Deliver
    <2>1. \A o \in Ops :
            (Exhausting(o) => Exhausting(o)') /\ (OwnerAtWork(o) => OwnerAtWork(o)')
      BY DEF OwnerAtWork, Exhausting
    <2>2. UNCHANGED <<status, attempts, lease, faults, overtaken>>
      OBVIOUS
    <2> QED BY ONLY <1>k, <2>1, <2>2 DEF BudgetIsHeld
  <1>20. ASSUME NEW r \in Drainers, DrainRead(r) PROVE BudgetIsHeld'
    BY <1>20 DEF DrainRead, Pending, OwnerAtWork, Exhausting
  <1>21. ASSUME NEW r \in Drainers, DrainNext(r) PROVE BudgetIsHeld'
    BY <1>21 DEF DrainNext, OwnerAtWork, Exhausting
  <1>22. ASSUME NEW r \in Drainers, DrainDone(r) PROVE BudgetIsHeld'
    BY <1>22 DEF DrainDone, OwnerAtWork, Exhausting
  <1>23. ASSUME NEW r \in Drainers, CrashDrainer(r) PROVE BudgetIsHeld'
    BY <1>23 DEF CrashDrainer, Fault, OwnerAtWork, Exhausting
  <1>24. ASSUME NEW a \in Agents, Publish(a) PROVE BudgetIsHeld'
    BY <1>24 DEF Publish, OwnerAtWork, Exhausting
  <1>25. ASSUME NEW a \in Agents, PublishFails(a) PROVE BudgetIsHeld'
    BY <1>25 DEF PublishFails, Fault, OwnerAtWork, Exhausting
  <1>26. ASSUME NEW a \in Agents, MarkPublished(a) PROVE BudgetIsHeld'
    BY <1>26 DEF MarkPublished, Resume, OwnerAtWork, Exhausting
  <1>27. ASSUME NEW a \in Agents, CountFailedPublication(a) PROVE BudgetIsHeld'
    BY <1>27 DEF CountFailedPublication, Resume, OwnerAtWork, Exhausting
  <1>28. ASSUME NEW o \in Ops, LeaseExpires(o) PROVE BudgetIsHeld'
    BY <1>28 DEF LeaseExpires, Fault, OwnerAtWork, Exhausting
  <1>29. ASSUME NEW d \in unacked, Redeliver(d) PROVE BudgetIsHeld'
    BY <1>29 DEF Redeliver, Fault, OwnerAtWork, Exhausting
  <1>30. CASE UNCHANGED vars
    BY <1>30 DEF vars, OwnerAtWork, Exhausting
  <1> QED
    BY <1>1, <1>2, <1>3, <1>4, <1>5, <1>6, <1>7, <1>8, <1>9, <1>10, <1>11, <1>12, <1>13,
      <1>14, <1>15, <1>16, <1>17, <1>18, <1>19, <1>20, <1>21, <1>22, <1>23, <1>24, <1>25,
      <1>26, <1>27, <1>28, <1>29, <1>30
    DEF Next, HandlerStep, DrainerStep, Environment, Agents

-----------------------------------------------------------------------------
\* IInv is an inductive invariant of the service.
THEOREM InductiveInvariant == Spec => []IInv
  <1>1. IInv /\ [Next]_vars => IInv'
    BY StepTypeOK, StepRowConsistent, StepTokensAreAttempts, StepHandlerKnows,
       StepOutboundIsOutcome, StepPublishedIsTheOutcome, StepOneOwner,
       StepAckedIsDurable, StepAttemptBudget, StepBudgetIsHeld,
       StepOvertakenIsClaimed, StepOneDelivery DEF IInv
  <1> QED BY InitIInv, <1>1, PTL DEF Spec

\* The types of the table, the broker and the tasks.
THEOREM TypeCorrect == Spec => []TypeOK
  <1>1. IInv => TypeOK
    BY DEF IInv
  <1> QED BY InductiveInvariant, <1>1, PTL

\* A message is never acknowledged before its request has a durable outcome.
THEOREM AckSafety == Spec => []AckedIsDurable
  <1>1. IInv => AckedIsDurable
    BY DEF IInv
  <1> QED BY InductiveInvariant, <1>1, PTL

\* Only the outcome of an operation is ever published, whoever publishes it.
THEOREM PublicationSafety == Spec => []PublishedIsTheOutcome
  <1>1. IInv => PublishedIsTheOutcome
    BY DEF IInv
  <1> QED BY InductiveInvariant, <1>1, PTL

\* At most one handler at work on an operation can still write to it.
THEOREM Fencing == Spec => []OneOwner
  <1>1. IInv => OneOwner
    BY DEF IInv
  <1> QED BY InductiveInvariant, <1>1, PTL

\* An attempt beyond max_attempts takes a failure or a claim that overtook the dead
\* letter, and the latter, as long as nothing has failed, a second message with the
\* same request: a request sent once keeps to max_attempts.
THEOREM BoundedAttempts == Spec => []AttemptBudget
  <1>1. IInv => AttemptBudget
    BY DEF IInv
  <1> QED BY InductiveInvariant, <1>1, PTL

-----------------------------------------------------------------------------
\* A settled operation keeps its outcome: the token of a claim is gone from a
\* settled row, so no late handler passes the fence.
THEOREM Finality == Spec => OutcomeIsFinal
  <1>1. IInv /\ [Next]_vars => [KeepsOutcomes]_vars
    <2> SUFFICES ASSUME IInv, [Next]_vars PROVE KeepsOutcomes
      OBVIOUS
    <2> USE DEF IInv, TypeOK, Agents, Statuses, Settling, Settled, table, KeepsOutcomes,
            RowConsistent, HandlerKnows
    <2>1. ASSUME NEW h \in Handlers, ClaimNew(h) PROVE KeepsOutcomes
      BY <2>1 DEF ClaimNew, Claiming, TakeClaim
    <2>2. ASSUME NEW h \in Handlers, ClaimTakeover(h) PROVE KeepsOutcomes
      BY <2>2 DEF ClaimTakeover, Claiming, TakeClaim, Fault, Reclaimable
    <2>3. ASSUME NEW h \in Handlers, Succeed(h) PROVE KeepsOutcomes
      BY <2>3 DEF Succeed, Finish, Verdict, Fenced
    <2>4. ASSUME NEW h \in Handlers, FailTerminally(h) PROVE KeepsOutcomes
      BY <2>4 DEF FailTerminally, Finish, Verdict, Fenced
    <2>5. ASSUME NEW h \in Handlers, DeadLetter(h) PROVE KeepsOutcomes
      BY <2>5 DEF DeadLetter, Finish, Verdict, Fenced
    <2>6. ASSUME NEW h \in Handlers, FailRetryably(h) PROVE KeepsOutcomes
      BY <2>6 DEF FailRetryably, RecordRetryable, AfterRetryable, Fenced
    <2>7. ASSUME NEW h \in Handlers, Cancel(h) PROVE KeepsOutcomes
      BY <2>7 DEF Cancel, RecordRetryable, Leave, Fault, Fenced
    <2>8. ASSUME NEW a \in Agents, MarkPublished(a) PROVE KeepsOutcomes
      BY <2>8 DEF MarkPublished, Resume
    <2>9. ASSUME NEW a \in Agents, CountFailedPublication(a) PROVE KeepsOutcomes
      BY <2>9 DEF CountFailedPublication, Resume
    <2>10. ASSUME NEW o \in Ops, LeaseExpires(o) PROVE KeepsOutcomes
      BY <2>10 DEF LeaseExpires, Fault
    <2>11. CASE UNCHANGED table
      BY <2>11
    <2> QED
      BY <2>1, <2>2, <2>3, <2>4, <2>5, <2>6, <2>7, <2>8, <2>9, <2>10, <2>11, TableSteps
  <1> QED BY <1>1, InductiveInvariant, PTL DEF Spec, OutcomeIsFinal

-----------------------------------------------------------------------------
\* Which steps settle an operation or publish something.
LEMMA LedgerSteps ==
  ASSUME [Next]_vars
  PROVE  \/ \E h \in Handlers : Succeed(h) \/ FailTerminally(h) \/ DeadLetter(h)
         \/ \E a \in Agents : Publish(a) \/ PublishFails(a)
         \/ UNCHANGED <<outbound, published>>
  BY DEF Next, HandlerStep, DrainerStep, Environment, Agents, vars, table, Deliver,
         RejectUnserializable, ClaimNew, ClaimConflict, ClaimSettled, ClaimBusy,
         ClaimTakeover, TakeClaim, WaitOver, WaitTimeoutRetry, WaitTimeoutLeave,
         FailRetryably, RecordRetryable, Cancel, Stale, Acknowledge, Retry, CrashHandler,
         DrainRead, DrainNext, DrainDone, CrashDrainer, MarkPublished,
         CountFailedPublication, LeaseExpires, Redeliver

\* The store, the handlers, the recovery tasks and the broker together do what
\* the ledger promises: one verdict per operation, and only it is announced.
THEOREM Refinement == Spec => ImplementsLedger
  <1>1. Init => Ledger!Init
    BY DEF Init, Ledger!Init
  <1>2. IInv /\ [Next]_vars => [Ledger!Next]_(Ledger!vars)
    <2> SUFFICES ASSUME IInv, [Next]_vars PROVE [Ledger!Next]_(Ledger!vars)
      OBVIOUS
    <2>1. ASSUME NEW h \in Handlers, NEW st \in Settling, NEW expected \in Statuses,
                 pc[h] # "idle", expected \notin Settling, Finish(h, st, expected)
          PROVE  Ledger!Settle(op[h]) /\ op[h] \in Ops
      <3>1. op[h] \in Ops /\ held[h] \in Nat /\ outbound \in [Ops -> Outbounds \cup {NoOutbound}]
        BY <2>1 DEF IInv, TypeOK
      <3>2. outbound[op[h]] = NoOutbound
        BY <2>1, <3>1 DEF IInv, RowConsistent, Finish, Fenced, Settled
      <3>3. Verdict(op[h], st, held[h]) \in Outbounds
        BY <3>1 DEF Verdict, Outbounds
      <3> QED BY <2>1, <3>1, <3>2, <3>3 DEF Finish, Ledger!Settle
    <2>2. ASSUME NEW h \in Handlers, Succeed(h) \/ FailTerminally(h) \/ DeadLetter(h)
          PROVE  Ledger!Next
      <3>1. /\ pc[h] # "idle"
            /\ \E st \in Settling, expected \in Statuses \ Settling :
                  Finish(h, st, expected)
        BY <2>2 DEF Succeed, FailTerminally, DeadLetter, Settling, Statuses
      <3>2. Ledger!Settle(op[h]) /\ op[h] \in Ops
        BY <3>1, <2>1
      <3> QED BY <3>2 DEF Ledger!Next
    <2>3. ASSUME NEW a \in Agents, Publish(a) \/ PublishFails(a)
          PROVE  [Ledger!Next]_(Ledger!vars)
      <3>1. /\ out[a].op \in Ops /\ out[a] = outbound[out[a].op]
            /\ outbound[out[a].op] # NoOutbound /\ UNCHANGED outbound
        BY <2>3 DEF Publish, PublishFails, table, IInv, OutboundIsOutcome, Outbounds, NoOutbound
      <3>2. published' \in {published, published \cup {out[a]}}
        BY <2>3 DEF Publish, PublishFails
      <3> QED BY <3>1, <3>2 DEF Ledger!Next, Ledger!Announce, Ledger!vars
    <2>4. CASE UNCHANGED <<outbound, published>>
      BY <2>4 DEF Ledger!vars
    <2> QED BY <2>2, <2>3, <2>4, LedgerSteps
  <1> QED BY <1>1, <1>2, InductiveInvariant, PTL DEF Spec, ImplementsLedger, Ledger!Spec

-----------------------------------------------------------------------------
(***************************************************************************)
(* One attempt: the contract, and the round trip of a request.             *)
(***************************************************************************)
\* A set of natural numbers that has a member has a least one.
LEMMA LeastNumber ==
    ASSUME NEW T, T \subseteq Nat, T # {}
    PROVE  \E m \in T : \A n \in T : m <= n
<1>1. IsWellFoundedOn(OpToRel(<, Nat), Nat)
  BY NatLessThanWellFounded
<1>2. PICK m \in T : \A y \in T : ~(<<y, m>> \in OpToRel(<, Nat))
  BY <1>1, WFMin, Zenon
<1>3. \A i, j \in Nat : i < j => <<i, j>> \in OpToRel(<, Nat)
  BY DEF OpToRel
<1>4. \A n \in T : ~(n < m)
  BY <1>2, <1>3
<1> QED
  BY <1>4

\* Null is what an absent key is read as, and is read as itself.
LEMMA NormalStable ==
    ASSUME NEW v \in Strings
    PROVE  /\ Normal(v) \in Strings /\ Normal(v) # "absent"
           /\ Normal(Normal(v)) = Normal(v)
           /\ Given(Normal(v)) <=> Given(v)
           /\ OptionalString(Normal(v)) <=> OptionalString(v)
<1>1. CASE v = "absent"
  BY <1>1, VectorizeAssumption DEF Normal, Given, RequiredString, OptionalString
<1>2. CASE v # "absent"
  BY <1>2, VectorizeAssumption DEF Normal, Given, RequiredString, OptionalString
<1>3. QED
  BY <1>1, <1>2

\* An object is not the absence of one.
LEMMA ObjectGiven == NoStorage \notin Objects
<1>1. \A s \in Objects : "uri" \in DOMAIN s
  BY DEF Objects
<1>2. DOMAIN NoStorage = {"none"}
  BY DEF NoStorage
<1>3. QED
  BY <1>1, <1>2

\* A storage reference is read as itself once it has been read, and stays valid.
LEMMA StorageStable ==
    ASSUME NEW s \in Storages
    PROVE  /\ StorageNormal(s) \in Storages
           /\ s \in Objects => StorageNormal(s) \in Objects
           /\ StorageNormal(s) = NoStorage <=> s = NoStorage
           /\ StorageNormal(StorageNormal(s)) = StorageNormal(s)
           /\ StorageValid(s) => StorageValid(StorageNormal(s))
<1>1. CASE s = NoStorage
  BY <1>1, ObjectGiven DEF StorageNormal, StorageValid, Storages
<1>2. CASE s \in Objects
  <2> DEFINE n == [uri |-> Normal(s.uri), bucket |-> Normal(s.bucket), key |-> Normal(s.key),
                   sizeBytes |-> s.sizeBytes]
  <2>1. StorageNormal(s) = n
    BY <1>2, ObjectGiven DEF StorageNormal
  <2>2. n \in Objects
    BY <1>2, NormalStable DEF Objects
  <2>3. /\ n.uri = Normal(s.uri) /\ n.bucket = Normal(s.bucket) /\ n.key = Normal(s.key)
        /\ n.sizeBytes = s.sizeBytes
    OBVIOUS
  <2> HIDE DEF n
  <2>4. s.uri \in Strings /\ s.bucket \in Strings /\ s.key \in Strings
    BY <1>2 DEF Objects
  <2>5. StorageNormal(n) = [uri |-> Normal(n.uri), bucket |-> Normal(n.bucket),
                            key |-> Normal(n.key), sizeBytes |-> n.sizeBytes]
    BY <2>2, ObjectGiven DEF StorageNormal
  <2>6. Normal(n.uri) = n.uri /\ Normal(n.bucket) = n.bucket /\ Normal(n.key) = n.key
    BY <2>3, <2>4, NormalStable
  <2>7. n = [uri |-> n.uri, bucket |-> n.bucket, key |-> n.key, sizeBytes |-> n.sizeBytes]
    BY <2>2 DEF Objects
  <2>8. StorageNormal(n) = n
    BY <2>5, <2>6, <2>7
  <2>9. ASSUME StorageValid(s) PROVE StorageValid(n)
    <3>1. s # NoStorage /\ n # NoStorage
      BY <1>2, <2>2, ObjectGiven
    <3>2. QED
      BY <2>3, <2>4, <2>9, <3>1, NormalStable DEF StorageValid
  <2>10. QED
    BY <1>2, <2>1, <2>2, <2>8, <2>9, ObjectGiven DEF Storages
<1>3. QED
  BY <1>1, <1>2 DEF Storages

-----------------------------------------------------------------------------
\* A chunk as it is in a request whose texts are loaded.
Piece(c, t) ==
    [chunkId |-> c.chunkId, documentId |-> Normal(c.documentId), index |-> c.index,
     text |-> t, tokenCount |-> c.tokenCount, storage |-> StorageNormal(c.storage)]

LEMMA PieceOf ==
    ASSUME NEW c \in Chunks, NEW t \in Strings
    PROVE  /\ Piece(c, t) \in Chunks
           /\ [ChunkOf(c) EXCEPT !.text = t] = Piece(c, t)
           /\ ChunkOf(c) = Piece(c, Normal(c.text))
<1>1. ChunkOf(c) = Piece(c, Normal(c.text))
  BY DEF ChunkOf, Piece
<1>2. [Piece(c, Normal(c.text)) EXCEPT !.text = t] = Piece(c, t)
  BY DEF Piece
<1>3. c.storage \in Storages /\ c.documentId \in Strings /\ c.chunkId \in Strings
      /\ c.index \in Int /\ c.tokenCount \in Int
  BY DEF Chunks
<1>4. StorageNormal(c.storage) \in Storages /\ Normal(c.documentId) \in Strings
  BY <1>3, StorageStable, NormalStable
<1>5. Piece(c, t) \in Chunks
  BY <1>3, <1>4 DEF Piece, Chunks
<1>6. QED
  BY <1>1, <1>2, <1>5

\* Such a chunk is read as itself, and is valid if it was and its text is one.
LEMMA PieceStable ==
    ASSUME NEW c \in Chunks, NEW t \in Strings
    PROVE  /\ t # "absent" => ChunkOf(Piece(c, t)) = Piece(c, t)
           /\ ChunkValid(c) /\ t # "odd" => ChunkValid(Piece(c, t))
<1> DEFINE d == Piece(c, t)
<1>1. /\ d.chunkId = c.chunkId /\ d.documentId = Normal(c.documentId) /\ d.index = c.index
      /\ d.text = t /\ d.tokenCount = c.tokenCount /\ d.storage = StorageNormal(c.storage)
  BY DEF Piece
<1>2. d \in Chunks
  BY PieceOf
<1> HIDE DEF d
<1>3. c.storage \in Storages /\ c.documentId \in Strings
  BY DEF Chunks
<1>4. ASSUME t # "absent" PROVE ChunkOf(d) = d
  <2>1. ChunkOf(d) = Piece(d, Normal(d.text))
    BY <1>2, PieceOf
  <2>2. Piece(d, Normal(d.text)) = Piece(c, t)
    BY <1>1, <1>3, <1>4, NormalStable, StorageStable DEF Piece, Normal
  <2>3. QED
    BY <2>1, <2>2 DEF d
<1>5. ASSUME ChunkValid(c), t # "odd" PROVE ChunkValid(d)
  BY <1>1, <1>3, <1>5, NormalStable, StorageStable DEF ChunkValid, OptionalString
<1>6. QED
  BY <1>4, <1>5 DEF d

-----------------------------------------------------------------------------
\* What a valid payload is read as, with texts in its chunks.
Normalized(p, texts) ==
    [routeId |-> p.routeId, documentId |-> p.documentId,
     manifestVersion |-> p.manifestVersion, destination |-> p.destination,
     score |-> p.score, document |-> DocumentOf(p),
     chunks |-> [i \in DOMAIN p.chunks |-> Piece(p.chunks[i], texts[i])],
     storageReferences |-> [i \in DOMAIN p.storageReferences |->
                               StorageNormal(p.storageReferences[i])],
     documentType |-> Alias(p, "documentType"), schemaId |-> Alias(p, "schemaId"),
     schemaVersion |-> Alias(p, "schemaVersion"),
     artifacts |-> [i \in DOMAIN p.artifacts |-> ArtifactOf(p.artifacts[i])],
     correlationId |-> Normal(p.correlationId), dimensions |-> p.dimensions,
     metadata |-> IF p.metadata \in {"absent", "null"} THEN "empty" ELSE p.metadata]

\* The payload that is written of it.
Plain(p, texts) ==
    [routeId |-> p.routeId, documentId |-> p.documentId,
     manifestVersion |-> p.manifestVersion, destination |-> p.destination,
     score |-> p.score,
     document |-> [documentId |-> p.document.documentId,
                   fingerprint |-> Normal(p.document.fingerprint),
                   storage |-> StorageNormal(p.document.storage), documentType |-> "absent",
                   schemaId |-> "absent", schemaVersion |-> "absent"],
     chunks |-> [i \in DOMAIN p.chunks |-> Piece(p.chunks[i], texts[i])],
     storageReferences |-> [i \in DOMAIN p.storageReferences |->
                               StorageNormal(p.storageReferences[i])],
     documentType |-> Alias(p, "documentType"), schemaId |-> Alias(p, "schemaId"),
     schemaVersion |-> Alias(p, "schemaVersion"), artifacts |-> p.artifacts,
     correlationId |-> Normal(p.correlationId), dimensions |-> p.dimensions,
     metadata |-> IF p.metadata \in {"absent", "null"} THEN "empty" ELSE p.metadata]

\* The fields of a payload.
LEMMA PayloadFields ==
    ASSUME NEW p \in Payloads
    PROVE  /\ p.routeId \in Strings /\ p.documentId \in Strings
           /\ p.manifestVersion \in Strings /\ p.destination \in Strings
           /\ p.score \in Strings /\ p.document \in Documents /\ p.chunks \in Seq(Chunks)
           /\ p.storageReferences \in Seq(Objects) /\ p.documentType \in Strings
           /\ p.schemaId \in Strings /\ p.schemaVersion \in Strings
           /\ p.artifacts \in Seq(Artifacts) /\ p.correlationId \in Strings
           /\ p.dimensions \in Int /\ p.metadata \in Strings
  BY DEF Payloads

LEMMA DocumentFields ==
    ASSUME NEW d \in Documents
    PROVE  /\ d.documentId \in Strings /\ d.fingerprint \in Strings /\ d.storage \in Storages
           /\ d.documentType \in Strings /\ d.schemaId \in Strings
           /\ d.schemaVersion \in Strings
  BY DEF Documents

\* An alias is never absent, and is the root's unless that has none.
LEMMA AliasStable ==
    ASSUME NEW p \in Payloads, NEW k \in Aliases
    PROVE  Alias(p, k) \in Strings /\ Alias(p, k) # "absent"
<1>1. p[k] \in Strings /\ p.document[k] \in Strings
  BY PayloadFields, DocumentFields DEF Aliases
<1>2. QED
  BY <1>1, NormalStable DEF Alias

LEMMA RequestWithTexts ==
    ASSUME NEW p \in Payloads, NEW texts \in [DOMAIN p.chunks -> Strings]
    PROVE  /\ WithTexts(RequestOf(p), texts) = Normalized(p, texts)
           /\ Texts(Normalized(p, texts)) = texts
<1>1. RequestOf(p).chunks = [i \in DOMAIN p.chunks |-> ChunkOf(p.chunks[i])]
  BY DEF RequestOf
<1>2. \A i \in DOMAIN p.chunks : p.chunks[i] \in Chunks
  BY PayloadFields, ElementOfSeq
<1>3. \A i \in DOMAIN p.chunks :
          [ChunkOf(p.chunks[i]) EXCEPT !.text = texts[i]] = Piece(p.chunks[i], texts[i])
  BY <1>2, PieceOf
<1>4. [i \in DOMAIN RequestOf(p).chunks |-> [RequestOf(p).chunks[i] EXCEPT !.text = texts[i]]]
          = [i \in DOMAIN p.chunks |-> Piece(p.chunks[i], texts[i])]
  BY <1>1, <1>3
<1>5. WithTexts(RequestOf(p), texts) = [RequestOf(p) EXCEPT !.chunks =
          [i \in DOMAIN p.chunks |-> Piece(p.chunks[i], texts[i])]]
  BY <1>4 DEF WithTexts
<1>6. WithTexts(RequestOf(p), texts) = Normalized(p, texts)
  BY <1>5 DEF RequestOf, Normalized
<1>7. Texts(Normalized(p, texts)) = texts
  BY DEF Texts, Normalized, Piece
<1>8. QED
  BY <1>6, <1>7

\* A payload without its texts loaded is one such.
LEMMA RequestAsRead ==
    ASSUME NEW p \in Payloads
    PROVE  LET texts == [i \in DOMAIN p.chunks |-> Normal(p.chunks[i].text)]
           IN  texts \in [DOMAIN p.chunks -> Strings] /\ RequestOf(p) = Normalized(p, texts)
<1> DEFINE texts == [i \in DOMAIN p.chunks |-> Normal(p.chunks[i].text)]
<1>1. \A i \in DOMAIN p.chunks : p.chunks[i] \in Chunks
  BY PayloadFields, ElementOfSeq
<1>2. \A i \in DOMAIN p.chunks : p.chunks[i].text \in Strings
  BY <1>1 DEF Chunks
<1>3. texts \in [DOMAIN p.chunks -> Strings]
  BY <1>2, NormalStable
<1>4. [i \in DOMAIN p.chunks |-> ChunkOf(p.chunks[i])]
          = [i \in DOMAIN p.chunks |-> Piece(p.chunks[i], texts[i])]
  BY DEF ChunkOf, Piece
<1>5. RequestOf(p) = Normalized(p, texts)
  BY <1>4 DEF RequestOf, Normalized
<1>6. QED
  BY <1>3, <1>5

LEMMA PayloadOfRequest ==
    ASSUME NEW p \in Payloads, NEW texts \in [DOMAIN p.chunks -> Strings]
    PROVE  ToPayload(Normalized(p, texts)) = Plain(p, texts)
<1>1. [i \in DOMAIN p.artifacts |-> ArtifactOf(p.artifacts[i]).raw] = p.artifacts
  <2>1. \A i \in DOMAIN p.artifacts : ArtifactOf(p.artifacts[i]).raw = p.artifacts[i]
    BY DEF ArtifactOf
  <2>2. p.artifacts = [i \in DOMAIN p.artifacts |-> p.artifacts[i]]
    BY PayloadFields, LenProperties
  <2>3. QED
    BY <2>1, <2>2
<1> DEFINE r == Normalized(p, texts)
<1>2. /\ r.document.documentId = p.document.documentId
      /\ r.document.fingerprint = Normal(p.document.fingerprint)
      /\ r.document.storage = StorageNormal(p.document.storage)
      /\ r.artifacts = [i \in DOMAIN p.artifacts |-> ArtifactOf(p.artifacts[i])]
  BY DEF Normalized, DocumentOf
<1> HIDE DEF r
<1>3. [i \in DOMAIN r.artifacts |-> r.artifacts[i].raw] = p.artifacts
  <2>1. DOMAIN r.artifacts = DOMAIN p.artifacts
    BY <1>2
  <2>2. \A i \in DOMAIN p.artifacts : r.artifacts[i].raw = ArtifactOf(p.artifacts[i]).raw
    BY <1>2
  <2>3. QED
    BY <1>1, <2>1, <2>2
<1> DEFINE d == [documentId |-> p.document.documentId,
                 fingerprint |-> Normal(p.document.fingerprint),
                 storage |-> StorageNormal(p.document.storage), documentType |-> "absent",
                 schemaId |-> "absent", schemaVersion |-> "absent"]
           q == Plain(p, texts)
<1>4. ToPayload(r) = [r EXCEPT !.document = d, !.artifacts = p.artifacts]
  BY <1>2, <1>3 DEF ToPayload
<1>5. /\ r = [f \in DOMAIN r |-> r[f]] /\ q = [f \in DOMAIN q |-> q[f]]
      /\ DOMAIN r = DOMAIN q /\ "document" \in DOMAIN r /\ "artifacts" \in DOMAIN r
  BY DEF r, Normalized, Plain
<1>6. q.document = d /\ q.artifacts = p.artifacts
  BY DEF Plain
<1>7. \A f \in DOMAIN r \ {"document", "artifacts"} : r[f] = q[f]
  BY DEF r, Normalized, Plain
<1> HIDE DEF d, q
<1>8. [r EXCEPT !.document = d, !.artifacts = p.artifacts] = q
  BY <1>5, <1>6, <1>7
<1>9. QED
  BY <1>4, <1>8 DEF r, q

-----------------------------------------------------------------------------
\* Whatever is made of a sequence, place by place, is a sequence, as long as it.
LEMMA SeqByPlace ==
    ASSUME NEW S, NEW T, NEW s \in Seq(S), NEW f \in [DOMAIN s -> T]
    PROVE  /\ f \in Seq(T) /\ Len(f) = Len(s) /\ DOMAIN f = DOMAIN s
           /\ s # <<>> => f # <<>>
<1>1. DOMAIN s = 1..Len(s) /\ Len(s) \in Nat
  BY LenProperties
<1>2. f \in [1..Len(s) -> T]
  BY <1>1
<1>3. f \in Seq(T)
  BY <1>1, <1>2, SeqDef
<1>4. DOMAIN f = 1..Len(f) /\ Len(f) \in Nat
  BY <1>3, LenProperties
<1>5. Len(f) = Len(s)
  BY <1>1, <1>2, <1>4
<1>6. s # <<>> => f # <<>>
  BY <1>3, <1>5, EmptySeq
<1>7. QED
  BY <1>1, <1>2, <1>3, <1>5, <1>6

\* The fields of what is written of p.
WrittenOf(q, p, texts) ==
    /\ q.routeId = p.routeId /\ q.documentId = p.documentId
    /\ q.manifestVersion = p.manifestVersion /\ q.destination = p.destination
    /\ q.score = p.score
    /\ q.chunks = [i \in DOMAIN p.chunks |-> Piece(p.chunks[i], texts[i])]
    /\ q.storageReferences = [i \in DOMAIN p.storageReferences |->
                                 StorageNormal(p.storageReferences[i])]
    /\ q.artifacts = p.artifacts
    /\ q.correlationId = Normal(p.correlationId) /\ q.dimensions = p.dimensions
    /\ q.metadata = IF p.metadata \in {"absent", "null"} THEN "empty" ELSE p.metadata
    /\ q.document.documentId = p.document.documentId
    /\ q.document.fingerprint = Normal(p.document.fingerprint)
    /\ q.document.storage = StorageNormal(p.document.storage)
    /\ \A k \in Aliases : q.document[k] = "absent" /\ q[k] = Alias(p, k)

LEMMA PlainFields ==
    ASSUME NEW p, NEW texts PROVE WrittenOf(Plain(p, texts), p, texts)
  BY DEF WrittenOf, Plain, Aliases

LEMMA PlainTyped ==
    ASSUME NEW p \in Payloads, NEW texts \in [DOMAIN p.chunks -> Strings]
    PROVE  Plain(p, texts) \in Payloads
<1> DEFINE chunks == [i \in DOMAIN p.chunks |-> Piece(p.chunks[i], texts[i])]
           storages == [i \in DOMAIN p.storageReferences |->
                           StorageNormal(p.storageReferences[i])]
           metadata == IF p.metadata \in {"absent", "null"} THEN "empty" ELSE p.metadata
           document == [documentId |-> p.document.documentId,
                        fingerprint |-> Normal(p.document.fingerprint),
                        storage |-> StorageNormal(p.document.storage),
                        documentType |-> "absent", schemaId |-> "absent",
                        schemaVersion |-> "absent"]
<1>1. chunks \in Seq(Chunks)
  <2>1. \A i \in DOMAIN p.chunks : p.chunks[i] \in Chunks
    BY PayloadFields, ElementOfSeq
  <2>2. \A i \in DOMAIN p.chunks : Piece(p.chunks[i], texts[i]) \in Chunks
    BY <2>1, PieceOf
  <2>3. chunks \in [DOMAIN p.chunks -> Chunks]
    BY <2>2
  <2> HIDE DEF chunks
  <2>4. QED
    BY <2>3, PayloadFields, SeqByPlace
<1>2. storages \in Seq(Objects)
  <2>1. \A i \in DOMAIN p.storageReferences : p.storageReferences[i] \in Objects
    BY PayloadFields, ElementOfSeq
  <2>2. \A i \in DOMAIN p.storageReferences : StorageNormal(p.storageReferences[i]) \in Objects
    BY <2>1, StorageStable DEF Storages
  <2>3. storages \in [DOMAIN p.storageReferences -> Objects]
    BY <2>2
  <2> HIDE DEF storages
  <2>4. QED
    BY <2>3, PayloadFields, SeqByPlace
<1>3. document \in Documents
  <2>1. /\ StorageNormal(p.document.storage) \in Storages
        /\ Normal(p.document.fingerprint) \in Strings
        /\ p.document.documentId \in Strings /\ "absent" \in Strings
    BY PayloadFields, DocumentFields, StorageStable, NormalStable, VectorizeAssumption
  <2>2. QED
    BY <2>1 DEF Documents
<1>4. /\ metadata \in Strings /\ Normal(p.correlationId) \in Strings
      /\ Alias(p, "documentType") \in Strings /\ Alias(p, "schemaId") \in Strings
      /\ Alias(p, "schemaVersion") \in Strings
  BY PayloadFields, NormalStable, AliasStable, VectorizeAssumption DEF Aliases
<1>5. Plain(p, texts) =
        [routeId |-> p.routeId, documentId |-> p.documentId,
         manifestVersion |-> p.manifestVersion, destination |-> p.destination,
         score |-> p.score, document |-> document, chunks |-> chunks,
         storageReferences |-> storages, documentType |-> Alias(p, "documentType"),
         schemaId |-> Alias(p, "schemaId"), schemaVersion |-> Alias(p, "schemaVersion"),
         artifacts |-> p.artifacts, correlationId |-> Normal(p.correlationId),
         dimensions |-> p.dimensions, metadata |-> metadata]
  BY DEF Plain
<1> HIDE DEF document, chunks, storages, metadata
<1>6. QED
  BY <1>1, <1>2, <1>3, <1>4, <1>5, PayloadFields DEF Payloads

\* An alias reads as it did.
LEMMA AliasKept ==
    ASSUME NEW p \in Payloads, NEW texts, NEW q, WrittenOf(q, p, texts), NEW k \in Aliases
    PROVE  Alias(q, k) = Alias(p, k)
<1>1. q[k] = Alias(p, k) /\ Alias(p, k) # "absent"
  BY AliasStable DEF WrittenOf
<1>2. Alias(q, k) = IF q[k] # "absent" THEN q[k] ELSE Normal(q.document[k])
  BY DEF Alias
<1>3. QED
  BY <1>1, <1>2

\* What is written of a request is read as that request.
LEMMA PlainStable ==
    ASSUME NEW p \in Payloads, NEW texts \in [DOMAIN p.chunks -> Strings],
           \A i \in DOMAIN p.chunks : texts[i] # "absent"
    PROVE  RequestOf(Plain(p, texts)) = Normalized(p, texts)
<1> DEFINE q == Plain(p, texts)
<1>1. q \in Payloads
  BY PlainTyped
<1>2. WrittenOf(q, p, texts)
  BY PlainFields
<1> HIDE DEF q
<1>3. \A i \in DOMAIN p.chunks : p.chunks[i] \in Chunks
  BY PayloadFields, ElementOfSeq
<1>4. /\ DOMAIN q.chunks = DOMAIN p.chunks
      /\ \A i \in DOMAIN p.chunks : q.chunks[i] = Piece(p.chunks[i], texts[i])
  BY <1>2 DEF WrittenOf
<1>5. \A i \in DOMAIN p.chunks : /\ q.chunks[i].text = texts[i]
                                 /\ Normal(texts[i]) = texts[i]
  <2>1. \A c, t : Piece(c, t).text = t
    BY DEF Piece
  <2>2. \A t : t # "absent" => Normal(t) = t
    BY DEF Normal
  <2>3. QED
    BY <1>4, <2>1, <2>2
<1>6. RequestOf(q) = Normalized(q, texts)
  <2> DEFINE t == [i \in DOMAIN q.chunks |-> Normal(q.chunks[i].text)]
  <2>1. RequestOf(q) = Normalized(q, t)
    BY <1>1, RequestAsRead
  <2>2. t = texts
    BY <1>4, <1>5
  <2>3. QED
    BY <2>1, <2>2
<1>7. [i \in DOMAIN q.chunks |-> Piece(q.chunks[i], texts[i])]
          = [i \in DOMAIN p.chunks |-> Piece(p.chunks[i], texts[i])]
  <2>1. \A i \in DOMAIN p.chunks :
            Piece(Piece(p.chunks[i], texts[i]), texts[i]) = Piece(p.chunks[i], texts[i])
    <3> SUFFICES ASSUME NEW i \in DOMAIN p.chunks
                 PROVE  Piece(Piece(p.chunks[i], texts[i]), texts[i])
                            = Piece(p.chunks[i], texts[i])
      OBVIOUS
    <3> DEFINE c == p.chunks[i]  t == texts[i]
    <3>1. c \in Chunks /\ t \in Strings /\ t # "absent"
      BY <1>3
    <3> HIDE DEF c, t
    <3>2. ChunkOf(Piece(c, t)) = Piece(c, t) /\ Piece(c, t) \in Chunks
      BY <3>1, PieceStable, PieceOf
    <3>3. Piece(c, t).text = t /\ Normal(t) = t
      BY <3>1 DEF Piece, Normal
    <3>4. ChunkOf(Piece(c, t)) = Piece(Piece(c, t), t)
      BY <3>2, <3>3, PieceOf
    <3>5. QED
      BY <3>2, <3>4 DEF c, t
  <2>2. QED
    BY <1>4, <2>1
<1>8. [i \in DOMAIN q.storageReferences |-> StorageNormal(q.storageReferences[i])]
          = [i \in DOMAIN p.storageReferences |-> StorageNormal(p.storageReferences[i])]
  <2>1. \A i \in DOMAIN p.storageReferences : p.storageReferences[i] \in Storages
    BY PayloadFields, ElementOfSeq DEF Storages
  <2>2. \A i \in DOMAIN p.storageReferences :
            StorageNormal(StorageNormal(p.storageReferences[i]))
                = StorageNormal(p.storageReferences[i])
    BY <2>1, StorageStable
  <2>3. /\ DOMAIN q.storageReferences = DOMAIN p.storageReferences
        /\ \A i \in DOMAIN p.storageReferences :
               q.storageReferences[i] = StorageNormal(p.storageReferences[i])
    BY <1>2 DEF WrittenOf
  <2>4. QED
    BY <2>2, <2>3
<1>9. DocumentOf(q) = DocumentOf(p)
  <2>1. p.document.storage \in Storages /\ p.document.fingerprint \in Strings
    BY PayloadFields, DocumentFields
  <2>2. QED
    BY <1>2, <2>1, StorageStable, NormalStable DEF DocumentOf, WrittenOf
<1>10. \A k \in Aliases : Alias(q, k) = Alias(p, k)
  BY <1>2, AliasKept
<1>11. /\ Alias(q, "documentType") = Alias(p, "documentType")
       /\ Alias(q, "schemaId") = Alias(p, "schemaId")
       /\ Alias(q, "schemaVersion") = Alias(p, "schemaVersion")
  BY <1>10 DEF Aliases
<1>12. /\ Normal(q.correlationId) = Normal(p.correlationId) /\ q.artifacts = p.artifacts
       /\ (IF q.metadata \in {"absent", "null"} THEN "empty" ELSE q.metadata)
              = (IF p.metadata \in {"absent", "null"} THEN "empty" ELSE p.metadata)
  BY <1>2, PayloadFields, NormalStable DEF WrittenOf
<1>13. /\ q.routeId = p.routeId /\ q.documentId = p.documentId
       /\ q.manifestVersion = p.manifestVersion /\ q.destination = p.destination
       /\ q.score = p.score /\ q.dimensions = p.dimensions
  BY <1>2 DEF WrittenOf
<1>14. Normalized(q, texts) = Normalized(p, texts)
  BY <1>7, <1>8, <1>9, <1>11, <1>12, <1>13 DEF Normalized
<1>15. QED
  BY <1>6, <1>14 DEF q

-----------------------------------------------------------------------------
\* The texts a payload has, or that were loaded for it and are not blank.
LoadedTexts(p, texts) ==
    \A i \in DOMAIN p.chunks : texts[i] \in {Normal(p.chunks[i].text), "text"}

\* What is written of a valid payload has its relations between chunks...
LEMMA ChunksStillRelate ==
    ASSUME NEW p \in Payloads, NEW texts \in [DOMAIN p.chunks -> Strings],
           ChunksRelate(p), LoadedTexts(p, texts), NEW q, WrittenOf(q, p, texts)
    PROVE  ChunksRelate(q)
<1>1. /\ DOMAIN q.chunks = DOMAIN p.chunks
      /\ \A i \in DOMAIN p.chunks : q.chunks[i] = Piece(p.chunks[i], texts[i])
      /\ q.documentId = p.documentId
  BY DEF WrittenOf
<1>2. \A i \in DOMAIN p.chunks : p.chunks[i] \in Chunks
  BY PayloadFields, ElementOfSeq
<1>3. DOMAIN p.chunks = 1..Len(p.chunks)
  BY PayloadFields, LenProperties
<1> SUFFICES ASSUME NEW i \in DOMAIN p.chunks
             PROVE  /\ Given(q.chunks[i].documentId) => q.chunks[i].documentId = p.documentId
                    /\ \A j \in 1..(i - 1) : q.chunks[j].chunkId # q.chunks[i].chunkId
                    /\ q.chunks[i].index = i - 1
                    /\ Given(q.chunks[i].text) \/ q.chunks[i].storage # NoStorage
  BY <1>1 DEF ChunksRelate
<1> DEFINE c == p.chunks[i]  d == q.chunks[i]
<1>4. /\ Given(c.documentId) => c.documentId = p.documentId
      /\ \A j \in 1..(i - 1) : p.chunks[j].chunkId # c.chunkId
      /\ c.index = i - 1
      /\ Given(c.text) \/ c.storage # NoStorage
  BY DEF ChunksRelate
<1>5. /\ d.documentId = Normal(c.documentId) /\ d.chunkId = c.chunkId /\ d.index = c.index
      /\ d.text = texts[i] /\ d.storage = StorageNormal(c.storage)
  <2>1. d = Piece(c, texts[i])
    BY <1>1
  <2> HIDE DEF c, d
  <2>2. QED
    BY <2>1 DEF Piece
<1>6. \A j \in 1..(i - 1) : q.chunks[j].chunkId = p.chunks[j].chunkId
  <2>1. \A j \in 1..(i - 1) : j \in DOMAIN p.chunks
    BY <1>3
  <2>2. \A e, t : Piece(e, t).chunkId = e.chunkId
    BY DEF Piece
  <2>3. QED
    BY <1>1, <2>1, <2>2
<1>7. /\ c.documentId \in Strings /\ c.text \in Strings /\ c.storage \in Storages
      /\ texts[i] \in {Normal(c.text), "text"}
  BY <1>2 DEF Chunks, LoadedTexts
<1> HIDE DEF c, d
<1>8. Given(d.documentId) => d.documentId = p.documentId
  <2>1. ASSUME Given(d.documentId) PROVE d.documentId = p.documentId
    <3>1. Given(c.documentId)
      BY <1>5, <1>7, <2>1, NormalStable
    <3>2. Normal(c.documentId) = c.documentId
      BY <3>1 DEF Given, RequiredString, Normal
    <3>3. QED
      BY <1>4, <1>5, <3>1, <3>2
  <2>2. QED
    BY <2>1
<1>9. Given(d.text) \/ d.storage # NoStorage
  <2>1. Given("text")
    BY DEF Given, RequiredString
  <2>2. CASE c.storage # NoStorage
    BY <1>5, <1>7, <2>2, StorageStable
  <2>3. CASE Given(c.text)
    BY <1>5, <1>7, <2>1, <2>3, NormalStable
  <2>4. QED
    BY <1>4, <2>2, <2>3
<1>10. QED
  BY <1>4, <1>5, <1>6, <1>8, <1>9 DEF c, d

\* ... and its relations to what it is part of...
LEMMA StillRelated ==
    ASSUME NEW p \in Payloads, NEW texts \in [DOMAIN p.chunks -> Strings],
           Related(p), LoadedTexts(p, texts), NEW q, WrittenOf(q, p, texts)
    PROVE  Related(q)
<1>1. ChunksRelate(q)
  BY ChunksStillRelate DEF Related
<1>2. \A k \in Aliases : Alias(q, k) = Alias(p, k)
  BY AliasKept
<1>3. /\ Alias(q, "schemaId") = Alias(p, "schemaId")
      /\ Alias(q, "schemaVersion") = Alias(p, "schemaVersion")
  BY <1>2 DEF Aliases
<1>4. /\ q.score = p.score /\ q.document.documentId = p.document.documentId
      /\ q.documentId = p.documentId /\ q.artifacts = p.artifacts
      /\ q.dimensions = p.dimensions
  BY DEF WrittenOf
<1>5. QED
  BY <1>1, <1>3, <1>4 DEF Related

\* ... and is valid.
LEMMA PlainValid ==
    ASSUME NEW p \in Payloads, NEW texts \in [DOMAIN p.chunks -> Strings],
           Valid(p), LoadedTexts(p, texts), NEW q, WrittenOf(q, p, texts)
    PROVE  Valid(q)
<1>1. \A i \in DOMAIN p.chunks : p.chunks[i] \in Chunks
  BY PayloadFields, ElementOfSeq
<1>2. /\ RequiredString(q.routeId) /\ RequiredString(q.documentId)
      /\ ManifestVersion(q.manifestVersion) /\ q.destination = "vectorize"
      /\ OptionsValid(q) /\ \A a \in ToSet(q.artifacts) : ArtifactValid(a)
  BY DEF Valid, WrittenOf, OptionsValid
<1>3. DocumentValid(q.document)
  <2>1. /\ RequiredString(p.document.documentId) /\ OptionalString(p.document.fingerprint)
        /\ StorageValid(p.document.storage)
    BY DEF Valid, DocumentValid
  <2>2. p.document.storage \in Storages /\ p.document.fingerprint \in Strings
    BY PayloadFields, DocumentFields
  <2>3. QED
    BY <2>1, <2>2, StorageStable, NormalStable DEF DocumentValid, WrittenOf
<1>4. q.chunks # <<>> /\ \A c \in ToSet(q.chunks) : ChunkValid(c)
  <2>1. /\ DOMAIN q.chunks = DOMAIN p.chunks
        /\ \A i \in DOMAIN p.chunks : q.chunks[i] = Piece(p.chunks[i], texts[i])
        /\ q.chunks = [i \in DOMAIN p.chunks |-> Piece(p.chunks[i], texts[i])]
    BY DEF WrittenOf
  <2>2. \A i \in DOMAIN p.chunks : Piece(p.chunks[i], texts[i]) \in Chunks
    BY <1>1, PieceOf
  <2>3. q.chunks \in [DOMAIN p.chunks -> Chunks]
    BY <2>1, <2>2
  <2>4. p.chunks # <<>>
    BY DEF Valid
  <2>5. q.chunks # <<>>
    BY <2>3, <2>4, PayloadFields, SeqByPlace
  <2>6. ASSUME NEW i \in DOMAIN p.chunks PROVE ChunkValid(q.chunks[i])
    <3> DEFINE c == p.chunks[i]  t == texts[i]
    <3>1. c \in Chunks /\ t \in Strings /\ t \in {Normal(c.text), "text"} /\ ChunkValid(c)
      BY <1>1 DEF LoadedTexts, Valid, ToSet
    <3>2. q.chunks[i] = Piece(c, t)
      BY <2>1
    <3> HIDE DEF c, t
    <3>3. c.text \in Strings
      BY <3>1 DEF Chunks
    <3>4. t # "odd"
      BY <3>1, <3>3, NormalStable DEF ChunkValid, OptionalString
    <3>5. QED
      BY <3>1, <3>2, <3>4, PieceStable
  <2>7. QED
    BY <2>1, <2>5, <2>6 DEF ToSet
<1>5. \A s \in ToSet(q.storageReferences) : StorageValid(s)
  <2>1. ASSUME NEW i \in DOMAIN p.storageReferences
        PROVE  StorageValid(StorageNormal(p.storageReferences[i]))
    <3>1. p.storageReferences[i] \in Storages
      BY PayloadFields, ElementOfSeq DEF Storages
    <3>2. StorageValid(p.storageReferences[i])
      BY DEF Valid, ToSet
    <3>3. QED
      BY <3>1, <3>2, StorageStable
  <2>2. QED
    BY <2>1 DEF ToSet, WrittenOf
<1>6. AliasesAgree(q)
  BY DEF WrittenOf, AliasesAgree
<1>7. \A k \in Aliases : OptionalString(Alias(q, k))
  BY AliasKept DEF Valid
<1>8. OptionalMapping(q.metadata) /\ OptionalString(q.correlationId)
  <2>1. OptionalMapping(p.metadata) /\ OptionalString(p.correlationId)
        /\ p.correlationId \in Strings
    BY PayloadFields DEF Valid
  <2>2. OptionalMapping(q.metadata)
    BY <2>1 DEF WrittenOf, OptionalMapping
  <2>3. OptionalString(q.correlationId)
    BY <2>1, NormalStable DEF WrittenOf
  <2>4. QED
    BY <2>2, <2>3
<1>9. Related(q)
  BY StillRelated DEF Valid
<1>10. QED
  BY <1>2, <1>3, <1>4, <1>5, <1>6, <1>7, <1>8, <1>9 DEF Valid

-----------------------------------------------------------------------------
\* What is written of a request keeps what identifies it, whichever message
\* brings it.
LEMMA IdentityKept ==
    ASSUME NEW p \in Payloads, NEW texts, Valid(p), NEW q, WrittenOf(q, p, texts),
           NEW h, NEW m, NEW n
    PROVE  Identity(q, h, m) = Identity(p, h, n)
<1>1. /\ p.documentId \notin {"absent", "null"} /\ p.routeId \notin {"absent", "null"}
      /\ p.correlationId \in Strings
  BY PayloadFields DEF Valid, RequiredString
<1>2. /\ q.documentId = p.documentId /\ q.routeId = p.routeId
      /\ q.manifestVersion = p.manifestVersion /\ q.correlationId = Normal(p.correlationId)
  BY DEF WrittenOf
<1> DEFINE correlation == IF Normal(p.correlationId) = "null" THEN h ELSE p.correlationId
<1>3. /\ Normal(q.correlationId) = Normal(p.correlationId)
      /\ (IF Normal(q.correlationId) = "null" THEN h ELSE q.correlationId) = correlation
  BY <1>1, <1>2, NormalStable DEF Normal
<1>4. {Normal(p.routeId), correlation} # {"null"}
  BY <1>1 DEF Normal
<1>5. Identity(p, h, n) =
          [documentId |-> Normal(p.documentId), routeId |-> Normal(p.routeId),
           manifestVersion |-> Normal(p.manifestVersion), correlation |-> correlation,
           message |-> IF {Normal(p.routeId), correlation} = {"null"} THEN n ELSE "none"]
  BY Zenon DEF Identity
<1>6. Identity(q, h, m) =
          [documentId |-> Normal(p.documentId), routeId |-> Normal(p.routeId),
           manifestVersion |-> Normal(p.manifestVersion), correlation |-> correlation,
           message |-> IF {Normal(p.routeId), correlation} = {"null"} THEN m ELSE "none"]
  BY <1>2, <1>3, Zenon DEF Identity
<1> HIDE DEF correlation
<1>7. QED
  BY <1>4, <1>5, <1>6, Zenon

\* A valid storage reference leads to an object once it is normal.
LEMMA StorageLeads ==
    ASSUME NEW s \in Objects, StorageValid(s), NEW k \in ToSet(StorageKey(s))
    PROVE  Given(k)
<1>1. /\ Given(s.uri) \/ Given(s.key)
      /\ Given(s.bucket) => Given(s.key)
  BY ObjectGiven DEF StorageValid
<1>2. CASE Given(s.uri)
  <2>1. ToSet(<<s.uri>>) = {s.uri}
    BY DEF ToSet
  <2>2. QED
    BY <1>2, <2>1 DEF StorageKey
<1>3. CASE ~Given(s.uri) /\ Given(s.bucket)
  <2>1. ToSet(<<s.bucket, s.key>>) = {s.bucket, s.key}
    BY DEF ToSet
  <2>2. QED
    BY <1>1, <1>3, <2>1 DEF StorageKey
<1>4. CASE ~Given(s.uri) /\ ~Given(s.bucket)
  <2>1. ToSet(<<s.key>>) = {s.key}
    BY DEF ToSet
  <2>2. QED
    BY <1>1, <1>4, <2>1 DEF StorageKey
<1>5. QED
  BY <1>2, <1>3, <1>4

\* Nothing that was read is nothing.
LEMMA RequestThere ==
    ASSUME NEW p, NEW texts
    PROVE  Normalized(p, texts) # Empty
<1>1. "routeId" \in DOMAIN Normalized(p, texts)
  BY DEF Normalized
<1>2. DOMAIN Empty = {"none"}
  BY DEF Empty
<1>3. QED
  BY <1>1, <1>2

-----------------------------------------------------------------------------
\* The payload of a call, and what it says of sharing.
LEMMA CallFields ==
    ASSUME call \in Requests
    PROVE  /\ call.payload \in Payloads /\ call.entry \in {"processor", "runtime"}
           /\ call.stale \in BOOLEAN /\ call.sharing \in BOOLEAN
           /\ call.entry = "processor" => ~call.stale /\ ~call.sharing
<1>1. call \in [entry : {"processor", "runtime"}, stale : BOOLEAN, sharing : BOOLEAN,
                payload : Payloads]
  BY VectorizeAssumption
<1>2. QED
  BY <1>1, VectorizeAssumption

\* The request is what the call's payload is read as, with texts of its own.
LEMMA RequestIs ==
    ASSUME call \in Requests, RequestKept, request # Empty
    PROVE  /\ Valid(call.payload)
           /\ Texts(request) \in [DOMAIN call.payload.chunks -> Strings]
           /\ request = Normalized(call.payload, Texts(request))
           /\ \A i \in DOMAIN call.payload.chunks : Texts(request)[i] # "absent"
           /\ ~blank => LoadedTexts(call.payload, Texts(request))
<1> DEFINE p == call.payload  texts == Texts(request)
<1>1. p \in Payloads
  BY CallFields
<1>2. /\ Valid(p) /\ request = WithTexts(RequestOf(p), texts)
      /\ \A i \in DOMAIN p.chunks : MayBeText(p.chunks[i], texts[i])
  BY DEF RequestKept
<1>3. \A i \in DOMAIN p.chunks : p.chunks[i].text \in Strings
  <2>1. \A i \in DOMAIN p.chunks : p.chunks[i] \in Chunks
    BY <1>1, PayloadFields, ElementOfSeq
  <2>2. QED
    BY <2>1 DEF Chunks
<1>4. DOMAIN request.chunks = DOMAIN p.chunks
  <2>1. DOMAIN RequestOf(p).chunks = DOMAIN p.chunks /\ "chunks" \in DOMAIN RequestOf(p)
    BY DEF RequestOf
  <2> HIDE DEF p, texts
  <2>2. DOMAIN WithTexts(RequestOf(p), texts).chunks = DOMAIN RequestOf(p).chunks
    BY <2>1 DEF WithTexts
  <2>3. QED
    BY <1>2, <2>1, <2>2
<1>5. \A i \in DOMAIN p.chunks : texts[i] \in Strings /\ texts[i] # "absent"
  <2>1. \A i \in DOMAIN p.chunks : texts[i] \in {Normal(p.chunks[i].text), "text", "odd"}
    BY <1>2 DEF MayBeText
  <2>2. \A i \in DOMAIN p.chunks : /\ Normal(p.chunks[i].text) \in Strings
                                   /\ Normal(p.chunks[i].text) # "absent"
    BY <1>3, NormalStable
  <2> HIDE DEF texts
  <2>3. QED
    BY <2>1, <2>2, VectorizeAssumption
<1>6. texts = [i \in DOMAIN p.chunks |-> texts[i]]
  BY <1>4 DEF Texts
<1> HIDE DEF texts
<1>7. texts \in [DOMAIN p.chunks -> Strings]
  BY <1>5, <1>6
<1>8. request = Normalized(p, texts)
  BY <1>1, <1>2, <1>7, RequestWithTexts
<1>9. ~blank => LoadedTexts(p, texts)
  BY <1>2 DEF MayBeText, LoadedTexts
<1>10. QED
  BY <1>2, <1>5, <1>7, <1>8, <1>9 DEF texts

\* What is written of it.
LEMMA RoundTrip ==
    ASSUME call \in Requests, RequestKept, request # Empty
    PROVE  LET p == call.payload  q == ToPayload(request) IN
           /\ WrittenOf(q, p, Texts(request))
           /\ q \in Payloads /\ RequestOf(q) = request
           /\ ~blank => Valid(q)
<1> DEFINE p == call.payload  q == ToPayload(request)  texts == Texts(request)
<1>1. /\ p \in Payloads /\ Valid(p) /\ texts \in [DOMAIN p.chunks -> Strings]
      /\ request = Normalized(p, texts)
      /\ \A i \in DOMAIN p.chunks : texts[i] # "absent"
      /\ ~blank => LoadedTexts(p, texts)
  BY CallFields, RequestIs
<1> HIDE DEF p, texts
<1>2. q = Plain(p, texts)
  BY <1>1, PayloadOfRequest
<1> HIDE DEF q
<1>3. WrittenOf(q, p, texts)
  BY <1>2, PlainFields
<1>4. q \in Payloads /\ RequestOf(q) = request
  BY <1>1, <1>2, PlainTyped, PlainStable
<1>5. ~blank => Valid(q)
  BY <1>1, <1>3, PlainValid
<1>6. QED
  BY <1>3, <1>4, <1>5 DEF p, q, texts

\* A request that is kept is normal (NormalFormKept, but for its last part).
LEMMA NormalForm ==
    ASSUME call \in Requests, RequestKept, request # Empty, ~blank
    PROVE  LET p == ToPayload(request) IN
           /\ Valid(p) /\ RequestOf(p) = request
           /\ \A h \in {"null", "header"} :
                 Identity(p, h, "first") = Identity(call.payload, h, "redelivered")
           /\ \A s \in ToSet(request.storageReferences) :
                 \A k \in ToSet(StorageKey(s)) : Given(k)
<1> DEFINE p == call.payload  q == ToPayload(request)
<1>1. /\ WrittenOf(q, p, Texts(request)) /\ q \in Payloads /\ RequestOf(q) = request
      /\ Valid(q) /\ Valid(p) /\ p \in Payloads
      /\ request = Normalized(p, Texts(request))
  BY CallFields, RequestIs, RoundTrip
<1> HIDE DEF q, p
<1>2. request.storageReferences = q.storageReferences
  <2>1. Normalized(p, Texts(request)).storageReferences
            = [i \in DOMAIN p.storageReferences |-> StorageNormal(p.storageReferences[i])]
    BY DEF Normalized
  <2>2. QED
    BY <1>1, <2>1 DEF WrittenOf
<1>3. \A h \in {"null", "header"} : Identity(q, h, "first") = Identity(p, h, "redelivered")
  BY <1>1, IdentityKept
<1>4. \A s \in ToSet(q.storageReferences) : s \in Objects /\ StorageValid(s)
  <2>1. \A s \in ToSet(q.storageReferences) : StorageValid(s)
    BY <1>1 DEF Valid
  <2>2. \A s \in ToSet(q.storageReferences) : s \in Objects
    BY <1>1, PayloadFields, ElementOfSeq DEF ToSet
  <2>3. QED
    BY <2>1, <2>2
<1>5. \A s \in ToSet(q.storageReferences) : \A k \in ToSet(StorageKey(s)) : Given(k)
  BY <1>4, StorageLeads
<1>6. QED
  BY <1>1, <1>2, <1>3, <1>5 DEF p, q

-----------------------------------------------------------------------------
(***************************************************************************)
(* One attempt: what it ends as, and its steps.                            *)
(***************************************************************************)
\* What the caller gets of an attempt that ends in the node.
LEMMA ReturnsResult ==
    ASSUME NEW terminated \in BOOLEAN, NEW left, NEW err \in Codes, NEW unsaid \in Codes,
           Returns(terminated, left, err, unsaid), call \in Requests
    PROVE  /\ step' = "done" /\ output' = left /\ error' = err /\ result'.output = left
           /\ result'.success = (~terminated /\ left # Empty)
           /\ result'.code = (IF call.entry = "processor" /\ terminated /\ err = "none"
                              THEN unsaid ELSE err)
           /\ result'.code \in Codes /\ result'.retryable = Retryable(result'.code)
           /\ result'.success \in BOOLEAN /\ result'.retryable \in BOOLEAN
           /\ shared' # Empty => /\ call.sharing /\ shared'.output = left
                                 /\ shared'.error = err
           /\ call.entry = "processor" => shared' = Empty
<1> DEFINE code == IF call.entry = "processor" /\ terminated /\ err = "none"
                   THEN unsaid ELSE err
<1>1. result' = [success |-> ~terminated /\ left # Empty, output |-> left, code |-> code,
                 retryable |-> Retryable(code)]
  BY DEF Returns, Outcome
<1>2. code \in Codes
  OBVIOUS
<1> HIDE DEF code
<1>3. /\ result'.success = (~terminated /\ left # Empty) /\ result'.output = left
      /\ result'.code = code /\ result'.retryable = Retryable(code)
  BY <1>1
<1>4. Retryable(code) \in BOOLEAN
  BY DEF Retryable
<1>5. shared' = IF call.sharing THEN [output |-> left, error |-> err] ELSE Empty
  BY DEF Returns
<1>6. step' = "done" /\ output' = left /\ error' = err
  BY DEF Returns
<1>7. QED
  BY <1>2, <1>3, <1>4, <1>5, <1>6, CallFields DEF code

\* The ways an attempt may end in the node.
MayReturn(terminated, left, err, unsaid) ==
    /\ "VALIDATION_ERROR" \in {err, unsaid} => ~Valid(call.payload) \/ blank
    /\ call.entry = "processor" => /\ Valid(call.payload)
                                   /\ "raised" \notin {err, unsaid}
                                   /\ terminated => err # "none" \/ unsaid # "none"
                                   /\ ~terminated => err = "none" /\ left # Empty
    /\ left = Empty \/ call.stale \/ IsAnswer(call.payload, left)
    /\ ~terminated /\ left # Empty =>
           (call.stale /\ call.sharing) \/ IsAnswer(call.payload, left)

\* An attempt that ends in one of them keeps the invariant.
LEMMA ReturnsKeep ==
    ASSUME AttemptInv, UNCHANGED <<call, request, reply, blank>>,
           NEW terminated \in BOOLEAN, NEW left, NEW err \in Codes, NEW unsaid \in Codes,
           Returns(terminated, left, err, unsaid), MayReturn(terminated, left, err, unsaid)
    PROVE  AttemptInv'
<1> DEFINE code == IF call.entry = "processor" /\ terminated /\ err = "none"
                   THEN unsaid ELSE err
<1>0. call \in Requests /\ UNCHANGED <<call, request, reply, blank>>
  BY DEF AttemptInv
<1>1. /\ step' = "done" /\ output' = left /\ error' = err /\ result'.output = left
      /\ result'.success = (~terminated /\ left # Empty)
      /\ result'.code = code
      /\ result'.code \in Codes /\ result'.retryable = Retryable(result'.code)
      /\ result'.success \in BOOLEAN /\ result'.retryable \in BOOLEAN
      /\ shared' # Empty => /\ call.sharing /\ shared'.output = left
                            /\ shared'.error = err
      /\ call.entry = "processor" => shared' = Empty
  BY <1>0, ReturnsResult
<1>2. /\ "VALIDATION_ERROR" \in {err, unsaid} => ~Valid(call.payload) \/ blank
      /\ call.entry = "processor" => /\ Valid(call.payload)
                                     /\ "raised" \notin {err, unsaid}
                                     /\ terminated => err # "none" \/ unsaid # "none"
                                     /\ ~terminated => err = "none" /\ left # Empty
      /\ left = Empty \/ call.stale \/ IsAnswer(call.payload, left)
      /\ ~terminated /\ left # Empty =>
             (call.stale /\ call.sharing) \/ IsAnswer(call.payload, left)
  BY DEF MayReturn
<1>3. code \in {err, unsaid}
  OBVIOUS
<1>4. AttemptTypeOK'
  BY <1>0, <1>1 DEF AttemptInv, AttemptVerdict, AttemptTypeOK
<1>5. AttemptVerdict'
  <2>1. ASSUME call.entry = "processor"
        PROVE  /\ result'.success <=> result'.code = "none"
               /\ result'.success => result'.output # Empty
               /\ result'.retryable => ~result'.success
               /\ result'.success \/ result'.retryable => Valid(call.payload)
               /\ result'.code # "raised"
    <3>1. Retryable("none") = FALSE
      BY DEF Retryable
    <3>2. code = "none" <=> ~terminated
      BY <1>2, <2>1
    <3> HIDE DEF code
    <3>3. QED
      BY <1>1, <1>2, <1>3, <2>1, <3>1, <3>2
  <2>2. QED
    BY <1>0, <1>4, <2>1 DEF AttemptVerdict
<1> HIDE DEF code
<1>6. (result.code = "VALIDATION_ERROR" => ~Valid(call.payload) \/ blank)'
  BY <1>0, <1>1, <1>2, <1>3
<1>7. AnswersRequest'
  BY <1>0, <1>1, <1>2 DEF AnswersRequest
<1>8. RequestKept'
  BY <1>0 DEF AttemptInv, RequestKept, MayBeText
<1>9. EntryKept'
  BY <1>0, <1>1 DEF AttemptInv, EntryKept
<1>10. SharedKept'
  <2>1. blank => call.entry = "processor"
    BY DEF AttemptInv, EntryKept
  <2>2. QED
    BY <1>0, <1>1, <1>2, <2>1 DEF SharedKept
<1>11. QED
  BY <1>0, <1>5, <1>6, <1>7, <1>8, <1>9, <1>10 DEF AttemptInv

\* What the invariant says of an attempt at a message that is not over.
LEMMA NodeState ==
    ASSUME AttemptInv, step \in {"node", "backend", "answered"}
    PROVE  /\ call \in Requests /\ output = ParentState /\ error = "none"
           /\ result = NoResult
           /\ request # Empty => Valid(call.payload)
           /\ call.entry = "processor" \/ step # "node" => request # Empty
           /\ call.entry = "processor" => shared = Empty /\ ParentState = Empty
<1>1. call.entry = "processor" => ~call.stale
  BY CallFields DEF AttemptInv
<1>2. QED
  BY <1>1 DEF AttemptInv, AttemptVerdict, AttemptTypeOK, EntryKept, RequestKept, ParentState

\* An attempt that ends before the node is no success.
LEMMA EndsResult ==
    ASSUME NEW code, Ends(code)
    PROVE  /\ step' = "done" /\ result'.success = FALSE /\ result'.code = code
           /\ result'.retryable = Retryable(code)
<1>1. /\ DOMAIN NoResult = {"success", "output", "code", "retryable"}
      /\ NoResult.success = FALSE
  BY DEF NoResult
<1>2. step' = "done"
      /\ result' = [NoResult EXCEPT !.code = code, !.retryable = Retryable(code)]
  BY DEF Ends
<1>3. QED
  BY <1>1, <1>2

\* Every step that does not end in the node keeps the invariant.
LEMMA StepRead == ASSUME AttemptInv, Read PROVE AttemptInv'
<1>0. /\ call \in Requests /\ call.entry = "processor" /\ shared = Empty
      /\ output = ParentState /\ error = "none" /\ result = NoResult
      /\ step = "received"
      /\ UNCHANGED <<call, reply, output, error, blank, shared>>
  BY DEF AttemptInv, AttemptVerdict, AttemptTypeOK, EntryKept, Read
<1>1. CASE /\ Valid(call.payload) /\ request' = RequestOf(call.payload)
           /\ step' = "load" /\ UNCHANGED result
  <2> DEFINE p == call.payload  texts == [i \in DOMAIN p.chunks |-> Normal(p.chunks[i].text)]
  <2>1. /\ p \in Payloads /\ texts \in [DOMAIN p.chunks -> Strings]
        /\ RequestOf(p) = Normalized(p, texts)
    BY <1>0, CallFields, RequestAsRead
  <2>2. /\ WithTexts(RequestOf(p), texts) = RequestOf(p) /\ Texts(RequestOf(p)) = texts
        /\ RequestOf(p) # Empty
    <3> HIDE DEF texts, p
    <3>1. QED
      BY <2>1, RequestWithTexts, RequestThere
  <2>3. \A i \in DOMAIN p.chunks : texts[i] = Normal(p.chunks[i].text)
    OBVIOUS
  <2> HIDE DEF texts
  <2>4. RequestKept'
    BY <1>0, <1>1, <2>2, <2>3 DEF RequestKept, MayBeText
  <2>5. AttemptVerdict'
    BY <1>0, <1>1, <2>2 DEF AttemptInv, AttemptVerdict, AttemptTypeOK
  <2>6. AnswersRequest' /\ (result.code = "VALIDATION_ERROR" => ~Valid(call.payload) \/ blank)'
    BY <1>0, <1>1 DEF AnswersRequest, NoResult
  <2>7. EntryKept' /\ SharedKept'
    BY <1>0, <1>1 DEF AttemptInv, EntryKept, SharedKept, ParentState
  <2>8. QED
    BY <1>0, <2>4, <2>5, <2>6, <2>7 DEF AttemptInv
<1>2. ASSUME NEW code \in {"VALIDATION_ERROR", "raised"}, Ends(code), UNCHANGED request,
             code = "VALIDATION_ERROR" => ~Valid(call.payload),
             code = "raised" => call.payload.score = "huge" \/ call.payload.metadata = "odd"
      PROVE  AttemptInv'
  <2>1. /\ step' = "done" /\ result'.success = FALSE /\ result'.retryable = FALSE
        /\ result'.code = code
    <3>1. Retryable(code) = FALSE
      BY DEF Retryable
    <3>2. QED
      BY <1>2, <3>1, EndsResult
  <2>2. AttemptVerdict'
    BY <1>0, <1>2, <2>1 DEF AttemptInv, AttemptVerdict, AttemptTypeOK, Codes
  <2>3. AnswersRequest' /\ (result.code = "VALIDATION_ERROR" => ~Valid(call.payload) \/ blank)'
    BY <1>0, <1>2, <2>1 DEF AnswersRequest
  <2>4. RequestKept'
    BY <1>0, <1>2 DEF AttemptInv, RequestKept, MayBeText
  <2>5. EntryKept' /\ SharedKept'
    BY <1>0, <2>1 DEF AttemptInv, EntryKept, SharedKept
  <2>6. QED
    BY <1>0, <2>2, <2>3, <2>4, <2>5 DEF AttemptInv
<1>3. Raises(call.payload) => call.payload.score = "huge"
  BY DEF Raises
<1>4. call.payload.metadata = "odd" \/ Raises(call.payload) =>
          call.payload.score = "huge" \/ call.payload.metadata = "odd"
  BY <1>3
<1>5. \/ /\ Valid(call.payload) /\ request' = RequestOf(call.payload)
         /\ step' = "load" /\ UNCHANGED result
      \/ ~Valid(call.payload) /\ Ends("VALIDATION_ERROR") /\ UNCHANGED request
      \/ /\ Raises(call.payload) \/ call.payload.metadata = "odd"
         /\ Ends("raised") /\ UNCHANGED request
  BY DEF Read
<1>6. QED
  BY <1>1, <1>2, <1>4, <1>5

\* Loading replaces the texts that are not given, and no others.
LEMMA StepLoad == ASSUME AttemptInv, Load PROVE AttemptInv'
<1> DEFINE p == call.payload
           stored == {i \in DOMAIN request.chunks : ~Given(request.chunks[i].text)}
<1>0. /\ call \in Requests /\ call.entry = "processor" /\ shared = Empty
      /\ output = ParentState /\ error = "none" /\ result = NoResult
      /\ step = "load" /\ request # Empty /\ RequestKept /\ p \in Payloads
      /\ UNCHANGED <<call, reply, output, error, shared>>
  BY CallFields DEF AttemptInv, AttemptVerdict, AttemptTypeOK, EntryKept, Load
<1>1. /\ Valid(p) /\ Texts(request) \in [DOMAIN p.chunks -> Strings]
      /\ request = Normalized(p, Texts(request))
  BY <1>0, RequestIs
<1>2. /\ DOMAIN request.chunks = DOMAIN p.chunks
      /\ \A i \in DOMAIN p.chunks :
             /\ request.chunks[i] = Piece(p.chunks[i], Texts(request)[i])
             /\ request.chunks[i].text = Texts(request)[i]
  <2>1. Normalized(p, Texts(request)).chunks
            = [i \in DOMAIN p.chunks |-> Piece(p.chunks[i], Texts(request)[i])]
    BY DEF Normalized
  <2>2. \A c, t : Piece(c, t).text = t
    BY DEF Piece
  <2> HIDE DEF p
  <2>3. request.chunks = [i \in DOMAIN p.chunks |-> Piece(p.chunks[i], Texts(request)[i])]
    BY <1>1, <2>1
  <2>4. QED
    BY <2>2, <2>3
<1>3. \A i \in DOMAIN p.chunks : p.chunks[i] \in Chunks
  BY <1>0, PayloadFields, ElementOfSeq
<1>4. PICK content \in [stored -> Contents] :
          LET bad == {i \in stored : content[i] \notin {"text", "blank"}} IN
          IF bad = {}
          THEN /\ request' = [request EXCEPT !.chunks = [i \in DOMAIN @ |->
                      IF i \notin stored THEN @[i]
                      ELSE [@[i] EXCEPT !.text =
                               IF content[i] = "blank" THEN "odd" ELSE "text"]]]
               /\ blank' = \E i \in stored : content[i] = "blank"
               /\ step' = "node"
               /\ UNCHANGED result
          ELSE /\ Ends(CodeOf(content[CHOOSE i \in bad : \A j \in bad : i <= j]))
               /\ UNCHANGED <<request, blank>>
  BY DEF Load
<1> DEFINE bad == {i \in stored : content[i] \notin {"text", "blank"}}
<1>5. CASE bad = {}
  <2> DEFINE texts == [i \in DOMAIN p.chunks |->
                          IF i \notin stored THEN Texts(request)[i]
                          ELSE IF content[i] = "blank" THEN "odd" ELSE "text"]
             chunks == [i \in DOMAIN request.chunks |->
                          IF i \notin stored THEN request.chunks[i]
                          ELSE [request.chunks[i] EXCEPT !.text =
                                   IF content[i] = "blank" THEN "odd" ELSE "text"]]
  <2>1. /\ request' = [request EXCEPT !.chunks = chunks]
        /\ blank' = (\E i \in stored : content[i] = "blank")
        /\ step' = "node" /\ UNCHANGED result
    BY <1>4, <1>5
  <2>2. texts \in [DOMAIN p.chunks -> Strings]
    BY <1>1, VectorizeAssumption
  <2>3. chunks = [i \in DOMAIN p.chunks |-> Piece(p.chunks[i], texts[i])]
    <3>1. ASSUME NEW i \in DOMAIN p.chunks, NEW t
          PROVE  [Piece(p.chunks[i], Texts(request)[i]) EXCEPT !.text = t]
                     = Piece(p.chunks[i], t)
      BY DEF Piece
    <3> HIDE DEF stored, p
    <3>2. ASSUME NEW i \in DOMAIN p.chunks
          PROVE  chunks[i] = Piece(p.chunks[i], texts[i])
      <4>1. CASE i \notin stored
        BY <1>2, <4>1
      <4>2. CASE i \in stored
        <5> DEFINE t == IF content[i] = "blank" THEN "odd" ELSE "text"
        <5>1. chunks[i] = [request.chunks[i] EXCEPT !.text = t] /\ texts[i] = t
          BY <1>2, <4>2
        <5> HIDE DEF t, chunks, texts
        <5>2. [Piece(p.chunks[i], Texts(request)[i]) EXCEPT !.text = t] = Piece(p.chunks[i], t)
          BY <3>1
        <5>3. QED
          BY <1>2, <5>1, <5>2
      <4>3. QED
        BY <4>1, <4>2
    <3>3. DOMAIN chunks = DOMAIN p.chunks
      BY <1>2
    <3> HIDE DEF texts
    <3>4. QED
      BY <3>2, <3>3
  <2>4. \A i \in DOMAIN p.chunks :
            \/ texts[i] \in {Normal(p.chunks[i].text), "text"}
            \/ blank' /\ texts[i] = "odd"
    <3> SUFFICES ASSUME NEW i \in DOMAIN p.chunks
                 PROVE  \/ texts[i] \in {Normal(p.chunks[i].text), "text"}
                        \/ blank' /\ texts[i] = "odd"
      OBVIOUS
    <3>1. CASE i \notin stored
      <4>1. Given(Texts(request)[i]) /\ texts[i] = Texts(request)[i]
        BY <1>2, <3>1
      <4>2. MayBeText(p.chunks[i], Texts(request)[i])
        BY <1>0 DEF RequestKept
      <4> HIDE DEF texts, p
      <4>3. QED
        BY <4>1, <4>2 DEF MayBeText, Given, RequiredString
    <3>2. CASE i \in stored
      <4>1. texts[i] = IF content[i] = "blank" THEN "odd" ELSE "text"
        BY <3>2
      <4> HIDE DEF texts, p, stored
      <4>2. QED
        BY <2>1, <3>2, <4>1
    <3>3. QED
      BY <3>1, <3>2
  <2> HIDE DEF texts, chunks, stored
  <2>5. request' = Normalized(p, texts)
    <3>1. request' = [Normalized(p, Texts(request)) EXCEPT !.chunks = chunks]
      BY <1>1, <2>1
    <3>2. QED
      BY <2>3, <3>1 DEF Normalized
  <2>6. /\ WithTexts(RequestOf(p), texts) = request' /\ Texts(request') = texts
        /\ request' # Empty
    BY <1>0, <2>2, <2>5, RequestWithTexts, RequestThere
  <2>7. RequestKept'
    BY <1>0, <1>1, <2>4, <2>6 DEF RequestKept, MayBeText
  <2>8. blank' \in BOOLEAN
    BY <2>1
  <2>9. AttemptVerdict'
    BY <1>0, <2>1, <2>6, <2>8 DEF AttemptInv, AttemptVerdict, AttemptTypeOK
  <2>10. AnswersRequest' /\ (result.code = "VALIDATION_ERROR" => ~Valid(call.payload) \/ blank)'
    BY <1>0, <2>1 DEF AnswersRequest, NoResult
  <2>11. EntryKept' /\ SharedKept'
    BY <1>0, <2>1, <2>6 DEF EntryKept, SharedKept, ParentState
  <2>12. QED
    BY <1>0, <2>7, <2>9, <2>10, <2>11 DEF AttemptInv
<1>6. CASE bad # {}
  <2> DEFINE first == CHOOSE i \in bad : \A j \in bad : i <= j
             code == CodeOf(content[first])
  <2>1. Ends(code) /\ UNCHANGED <<request, blank>>
    BY <1>4, <1>6
  <2>2. first \in bad
    <3>1. bad \subseteq Nat
      <4>1. DOMAIN p.chunks \subseteq Nat
        BY <1>0, PayloadFields, LenProperties
      <4>2. QED
        BY <1>2, <4>1
    <3> HIDE DEF bad
    <3>2. \E i \in bad : \A j \in bad : i <= j
      BY <1>6, <3>1, LeastNumber
    <3>3. QED
      BY <3>2
  <2>3. content[first] \in {"empty", "missing", "unavailable"}
    BY <2>2, VectorizeAssumption
  <2> HIDE DEF first
  <2>4. code \in {"STORAGE_UNAVAILABLE", "STORAGE_CONTENT_NOT_FOUND",
                  "INVALID_STORAGE_CONTENT"}
    BY <2>3 DEF CodeOf
  <2> HIDE DEF code, bad
  <2>5. /\ step' = "done" /\ result'.success = FALSE /\ result'.code = code
        /\ result'.retryable = Retryable(code) /\ Retryable(code) \in BOOLEAN
    <3>1. Retryable(code) \in BOOLEAN
      BY DEF Retryable
    <3>2. QED
      BY <2>1, <3>1, EndsResult
  <2>6. AttemptVerdict'
    BY <1>0, <1>1, <2>1, <2>4, <2>5 DEF AttemptInv, AttemptVerdict, AttemptTypeOK, Codes
  <2>7. AnswersRequest' /\ (result.code = "VALIDATION_ERROR" => ~Valid(call.payload) \/ blank)'
    BY <1>0, <2>4, <2>5 DEF AnswersRequest
  <2>8. RequestKept'
    BY <1>0, <2>1 DEF AttemptInv, RequestKept, MayBeText
  <2>9. EntryKept' /\ SharedKept'
    BY <1>0, <2>1, <2>5 DEF AttemptInv, EntryKept, SharedKept
  <2>10. QED
    BY <1>0, <2>6, <2>7, <2>8, <2>9 DEF AttemptInv
<1>7. QED
  BY <1>5, <1>6

-----------------------------------------------------------------------------
\* An answer that is accepted for a request is the answer to its payload.
LEMMA AcceptableAnswers ==
    ASSUME NEW p \in Payloads, NEW texts \in [DOMAIN p.chunks -> Strings], Valid(p),
           NEW r, r = Normalized(p, texts), NEW a \in BackendResults, Acceptable(r, a)
    PROVE  IsAnswer(p, OutputOf(r, a)) /\ OutputOf(r, a) # Empty
<1> DEFINE D == DimensionsOf(a)  o == OutputOf(r, a)
<1>1. /\ p.chunks \in Seq(Chunks) /\ p.chunks # <<>> /\ p.artifacts \in Seq(Artifacts)
      /\ a.chunks \in Seq(Vectors)
  BY PayloadFields DEF Valid, BackendResults
<1>2. /\ r.documentId = p.documentId /\ r.dimensions = p.dimensions
      /\ r.chunks = [i \in DOMAIN p.chunks |-> Piece(p.chunks[i], texts[i])]
      /\ r.artifacts = [i \in DOMAIN p.artifacts |-> ArtifactOf(p.artifacts[i])]
  BY DEF Normalized
<1>3. /\ o.documentId = r.documentId /\ o.chunks = a.chunks /\ o.dimensions = D
      /\ o.artifacts = [i \in DOMAIN r.artifacts |-> ArtifactResult(r.artifacts[i])]
      /\ "documentId" \in DOMAIN o
  BY DEF OutputOf
<1>4. o # Empty
  <2>1. DOMAIN Empty = {"none"}
    BY DEF Empty
  <2> HIDE DEF o
  <2>2. QED
    BY <1>3, <2>1
<1> HIDE DEF o, D
<1>5. /\ Len(a.chunks) = Len(r.chunks)
      /\ \A i \in DOMAIN a.chunks : a.chunks[i].id = r.chunks[i].chunkId
      /\ \A c \in ToSet(a.chunks) : c.size > 0 /\ c.size = D
      /\ r.dimensions \in {None, D}
      /\ \A q \in ToSet(r.artifacts) :
            q.required /\ q.artifactType = "embedding" => q.dimensions \in {None, D}
  BY DEF Acceptable, SameChunks, D
<1>6. Len(r.chunks) = Len(p.chunks) /\ Len(o.artifacts) = Len(p.artifacts)
  <2>1. r.chunks \in [DOMAIN p.chunks -> {r.chunks[i] : i \in DOMAIN p.chunks}]
    BY <1>2
  <2>2. o.artifacts \in [DOMAIN p.artifacts -> {o.artifacts[i] : i \in DOMAIN p.artifacts}]
    BY <1>2, <1>3
  <2>3. QED
    BY <1>1, <2>1, <2>2, SeqByPlace
<1>7. DOMAIN a.chunks = DOMAIN p.chunks /\ 1 \in DOMAIN p.chunks
  <2>1. Len(p.chunks) \in Nat /\ Len(p.chunks) # 0
    BY <1>1, LenProperties, EmptySeq
  <2>2. DOMAIN a.chunks = 1..Len(a.chunks) /\ DOMAIN p.chunks = 1..Len(p.chunks)
    BY <1>1, LenProperties
  <2>3. QED
    BY <1>5, <1>6, <2>1, <2>2
<1>8. \A i \in DOMAIN p.chunks : a.chunks[i].size > 0 /\ a.chunks[i].size = D
  BY <1>5, <1>7 DEF ToSet
<1>9. \A i \in DOMAIN p.chunks : a.chunks[i].id = p.chunks[i].chunkId
  <2>1. \A c, t : Piece(c, t).chunkId = c.chunkId
    BY DEF Piece
  <2>2. \A i \in DOMAIN p.chunks : r.chunks[i].chunkId = p.chunks[i].chunkId
    BY <1>2, <2>1
  <2>3. QED
    BY <1>5, <1>7, <2>2
<1>10. D > 0
  BY <1>7, <1>8
<1>11. ASSUME NEW i \in DOMAIN p.artifacts, p.artifacts[i].required = "true"
       PROVE  /\ o.artifacts[i].type = "embedding" /\ o.artifacts[i].status = "fulfilled"
              /\ o.artifacts[i].required /\ p.artifacts[i].dimensions \in {None, D}
  <2> DEFINE b == p.artifacts[i]  q == ArtifactOf(b)
  <2>1. b.artifactType = "embedding"
    BY <1>11 DEF Valid, ArtifactValid, ToSet
  <2>2. q.artifactType = b.artifactType /\ q.required = TRUE /\ q.dimensions = b.dimensions
    BY <1>11 DEF ArtifactOf
  <2>3. r.artifacts[i] = q /\ DOMAIN r.artifacts = DOMAIN p.artifacts
    BY <1>2
  <2> HIDE DEF q, b
  <2>4. q \in ToSet(r.artifacts)
    BY <2>3 DEF ToSet
  <2>5. q.dimensions \in {None, D}
    BY <1>5, <2>1, <2>2, <2>4
  <2>6. o.artifacts[i] = ArtifactResult(q)
    BY <1>3, <2>3
  <2>7. ArtifactResult(q) = [type |-> q.artifactType, status |-> "fulfilled",
                             required |-> q.required]
    BY <2>1, <2>2 DEF ArtifactResult
  <2>8. QED
    BY <2>1, <2>2, <2>5, <2>6, <2>7 DEF b
<1>12. p.dimensions \in {None, D}
  BY <1>2, <1>3, <1>5, <1>6
<1>13. IsAnswer(p, o)
  <2>1. o.documentId = p.documentId /\ Len(o.chunks) = Len(p.chunks)
    BY <1>2, <1>3, <1>5, <1>6
  <2>2. \A i \in DOMAIN p.chunks :
            o.chunks[i].id = p.chunks[i].chunkId /\ o.chunks[i].size = o.dimensions
    BY <1>3, <1>8, <1>9
  <2>3. o.dimensions > 0 /\ p.dimensions \in {None, o.dimensions}
    BY <1>3, <1>10, <1>12
  <2>4. \A i \in DOMAIN p.artifacts : p.artifacts[i].required = "true" =>
            /\ o.artifacts[i].type = "embedding" /\ o.artifacts[i].status = "fulfilled"
            /\ o.artifacts[i].required
            /\ p.artifacts[i].dimensions \in {None, o.dimensions}
    BY <1>3, <1>11
  <2>5. QED
    BY <1>6, <2>1, <2>2, <2>3, <2>4 DEF IsAnswer
<1>14. QED
  BY <1>4, <1>13 DEF o

\* A step that leaves the node goes on to the backend...
LEMMA StepNodeReads == ASSUME AttemptInv, NodeReads PROVE AttemptInv'
<1> DEFINE p == call.payload
<1>0. /\ call \in Requests /\ output = ParentState /\ error = "none" /\ result = NoResult
      /\ call.entry = "processor" => /\ request # Empty /\ shared = Empty
                                     /\ Valid(p)
      /\ RequestKept /\ p \in Payloads /\ call.entry \in {"processor", "runtime"}
      /\ step = "node" /\ UNCHANGED <<call, reply, blank>>
  <2>1. step = "node" /\ UNCHANGED <<call, reply, blank>>
    BY DEF NodeReads
  <2>2. step \in {"node", "backend", "answered"}
    BY <2>1
  <2>3. RequestKept
    BY DEF AttemptInv
  <2>4. QED
    BY <2>1, <2>2, <2>3, NodeState, CallFields
<1>1. blank => call.entry = "processor"
  BY DEF AttemptInv, EntryKept
<1>2. call.entry = "processor" => /\ RequestOf(Payload) = request
                                  /\ ~blank => Valid(Payload)
  BY <1>0, RoundTrip DEF Payload
<1>3. call.entry = "runtime" => Payload = p
  BY DEF Payload
<1>4. CASE Valid(Payload)
  <2>1. /\ request' = RequestOf(Payload) /\ step' = "backend"
        /\ UNCHANGED <<output, error, result, shared>>
    BY <1>4 DEF NodeReads
  <2>2. request' # Empty /\ RequestKept'
    <3>1. CASE call.entry = "processor"
      <4>1. request' = request
        BY <1>2, <2>1, <3>1
      <4>2. QED
        BY <1>0, <3>1, <4>1 DEF RequestKept, MayBeText
    <3>2. CASE call.entry = "runtime"
      <4> DEFINE texts == [i \in DOMAIN p.chunks |-> Normal(p.chunks[i].text)]
      <4>1. /\ texts \in [DOMAIN p.chunks -> Strings] /\ RequestOf(p) = Normalized(p, texts)
        BY <1>0, RequestAsRead
      <4>2. \A i \in DOMAIN p.chunks : texts[i] = Normal(p.chunks[i].text)
        OBVIOUS
      <4> HIDE DEF texts
      <4>3. request' = RequestOf(p) /\ Valid(p)
        BY <1>3, <1>4, <2>1, <3>2
      <4> HIDE DEF p
      <4>4. /\ WithTexts(RequestOf(p), texts) = RequestOf(p) /\ Texts(RequestOf(p)) = texts
            /\ RequestOf(p) # Empty
        BY <1>0, <4>1, RequestWithTexts, RequestThere
      <4>5. QED
        BY <1>0, <4>2, <4>3, <4>4 DEF RequestKept, MayBeText, p
    <3>3. QED
      BY <1>0, <3>1, <3>2
  <2>3. AttemptVerdict'
    BY <1>0, <2>1, <2>2 DEF AttemptInv, AttemptVerdict, AttemptTypeOK
  <2>4. AnswersRequest' /\ (result.code = "VALIDATION_ERROR" => ~Valid(call.payload) \/ blank)'
    BY <1>0, <2>1 DEF AnswersRequest, NoResult
  <2>5. EntryKept' /\ SharedKept'
    BY <1>0, <2>1 DEF AttemptInv, EntryKept, SharedKept, ParentState
  <2>6. QED
    BY <1>0, <2>2, <2>3, <2>4, <2>5 DEF AttemptInv
<1>5. CASE ~Valid(Payload)
  <2>1. /\ Returns(TRUE, Empty, "VALIDATION_ERROR", "VALIDATION_ERROR")
        /\ UNCHANGED <<call, request, reply, blank>>
    BY <1>5 DEF NodeReads, Fails
  <2>2. ~Valid(p) \/ blank
    BY <1>0, <1>2, <1>3, <1>5
  <2>3. MayReturn(TRUE, Empty, "VALIDATION_ERROR", "VALIDATION_ERROR")
    BY <1>0, <2>2 DEF MayReturn
  <2>4. "VALIDATION_ERROR" \in Codes
    BY DEF Codes
  <2>5. QED
    BY <2>1, <2>3, <2>4, ReturnsKeep
<1>6. QED
  BY <1>4, <1>5

\* ... whose answer is a result, whatever it says.
LEMMA StepAnswers == ASSUME AttemptInv, Answers PROVE AttemptInv'
<1>0. /\ call \in Requests /\ output = ParentState /\ error = "none" /\ result = NoResult
      /\ RequestKept /\ request # Empty /\ step = "backend" /\ step' = "answered"
      /\ UNCHANGED <<call, request, output, error, result, blank, shared>>
  <2>1. /\ step = "backend" /\ step' = "answered" /\ RequestKept
        /\ UNCHANGED <<call, request, output, error, result, blank, shared>>
    BY DEF Answers, AttemptInv
  <2>2. step \in {"node", "backend", "answered"}
    BY <2>1
  <2>3. QED
    BY <2>1, <2>2, NodeState
<1>1. ASSUME NEW sizes \in [{c.chunkId : c \in ToSet(request.chunks)} -> {1, 2}],
             NEW d \in {None, 1}
      PROVE  CyrexReply(request, sizes, d) \in BackendResults
  <2> DEFINE p == call.payload  texts == Texts(request)
             chunks == [i \in DOMAIN request.chunks |->
                           [id |-> request.chunks[i].chunkId,
                            size |-> sizes[request.chunks[i].chunkId], finite |-> TRUE]]
  <2>1. /\ p \in Payloads /\ texts \in [DOMAIN p.chunks -> Strings]
        /\ request = Normalized(p, texts)
    BY <1>0, RequestIs, CallFields
  <2> HIDE DEF p, texts
  <2>2. /\ DOMAIN request.chunks = DOMAIN p.chunks
        /\ \A i \in DOMAIN p.chunks : request.chunks[i] = Piece(p.chunks[i], texts[i])
    <3>1. Normalized(p, texts).chunks
              = [i \in DOMAIN p.chunks |-> Piece(p.chunks[i], texts[i])]
      BY DEF Normalized
    <3>2. QED
      BY <2>1, <3>1
  <2>3. \A i \in DOMAIN p.chunks : request.chunks[i].chunkId \in Strings
    <3>1. \A i \in DOMAIN p.chunks : p.chunks[i] \in Chunks
      BY <2>1, PayloadFields, ElementOfSeq
    <3>2. \A i \in DOMAIN p.chunks : request.chunks[i] \in Chunks
      BY <2>1, <2>2, <3>1, PieceOf
    <3>3. QED
      BY <2>2, <3>2 DEF Chunks
  <2>4. \A i \in DOMAIN p.chunks : sizes[request.chunks[i].chunkId] \in Nat
    <3>1. \A i \in DOMAIN p.chunks : request.chunks[i] \in ToSet(request.chunks)
      BY <2>2 DEF ToSet
    <3>2. \A i \in DOMAIN p.chunks : sizes[request.chunks[i].chunkId] \in {1, 2}
      BY <3>1
    <3>3. QED
      BY <3>2
  <2>5. chunks \in [DOMAIN p.chunks -> Vectors]
    BY <2>2, <2>3, <2>4 DEF Vectors
  <2>6. CyrexReply(request, sizes, d) = [chunks |-> chunks, dimensions |-> d, finite |-> TRUE]
    BY DEF CyrexReply
  <2> HIDE DEF chunks
  <2>7. chunks \in Seq(Vectors)
    BY <2>1, <2>5, PayloadFields, SeqByPlace
  <2>8. d \in Int
    BY DEF None
  <2>9. QED
    BY <2>6, <2>7, <2>8 DEF BackendResults
<1>2. reply' \in BackendResults
  BY <1>1, VectorizeAssumption DEF Answers
<1>3. AttemptVerdict'
  BY <1>0, <1>2 DEF AttemptInv, AttemptVerdict, AttemptTypeOK
<1>4. AnswersRequest' /\ (result.code = "VALIDATION_ERROR" => ~Valid(call.payload) \/ blank)'
  BY <1>0 DEF AnswersRequest, NoResult
<1>5. RequestKept'
  BY <1>0 DEF RequestKept, MayBeText
<1>6. EntryKept' /\ SharedKept'
  BY <1>0 DEF AttemptInv, EntryKept, SharedKept, ParentState
<1>7. QED
  BY <1>0, <1>3, <1>4, <1>5, <1>6 DEF AttemptInv

\* A backend that fails, or takes too long, and an answer that is checked end it.
LEMMA StepBackendFails == ASSUME AttemptInv, BackendFails PROVE AttemptInv'
<1>0. /\ Returns(TRUE, Empty, "VECTORIZER_ERROR", "VECTORIZER_ERROR")
      /\ UNCHANGED <<call, request, reply, blank>> /\ step = "backend"
  BY DEF BackendFails, Fails
<1>1. Valid(call.payload)
  BY <1>0, NodeState
<1>2. MayReturn(TRUE, Empty, "VECTORIZER_ERROR", "VECTORIZER_ERROR")
  BY <1>1 DEF MayReturn
<1>3. "VECTORIZER_ERROR" \in Codes
  BY DEF Codes
<1>4. QED
  BY <1>0, <1>2, <1>3, ReturnsKeep

LEMMA StepChecks == ASSUME AttemptInv, Checks PROVE AttemptInv'
<1>0. /\ UNCHANGED <<call, request, reply, blank>> /\ step = "answered"
      /\ call \in Requests /\ RequestKept /\ reply \in BackendResults
  BY DEF Checks, AttemptInv, AttemptVerdict, AttemptTypeOK
<1>1. Valid(call.payload) /\ request # Empty
  BY <1>0, NodeState
<1>2. CASE Acceptable(request, reply)
  <2> DEFINE o == OutputOf(request, reply)
  <2>1. Returns(FALSE, o, "none", "none")
    BY <1>2 DEF Checks
  <2>2. IsAnswer(call.payload, o) /\ o # Empty
    <3> DEFINE p == call.payload  texts == Texts(request)
    <3>1. /\ p \in Payloads /\ texts \in [DOMAIN p.chunks -> Strings] /\ Valid(p)
          /\ request = Normalized(p, texts)
      BY <1>0, <1>1, CallFields, RequestIs
    <3> HIDE DEF p, texts
    <3>2. IsAnswer(p, o) /\ o # Empty
      BY <1>0, <1>2, <3>1, AcceptableAnswers
    <3>3. QED
      BY <3>2 DEF p
  <2> HIDE DEF o
  <2>3. MayReturn(FALSE, o, "none", "none")
    BY <1>1, <2>2 DEF MayReturn
  <2>4. "none" \in Codes
    BY DEF Codes
  <2>5. QED
    BY <1>0, <2>1, <2>3, <2>4, ReturnsKeep
<1>3. CASE ~Acceptable(request, reply)
  <2>1. Returns(TRUE, Empty, "VECTORIZER_RESULT_INVALID", "VECTORIZER_RESULT_INVALID")
    BY <1>3 DEF Checks, Fails
  <2>2. MayReturn(TRUE, Empty, "VECTORIZER_RESULT_INVALID", "VECTORIZER_RESULT_INVALID")
    BY <1>1 DEF MayReturn
  <2>3. "VECTORIZER_RESULT_INVALID" \in Codes
    BY DEF Codes
  <2>4. QED
    BY <1>0, <2>1, <2>2, <2>3, ReturnsKeep
<1>4. QED
  BY <1>2, <1>3

LEMMA StepRefused == ASSUME AttemptInv, Refused PROVE AttemptInv'
<1>0. PICK unsaid \in {"VECTORIZER_ERROR", "VECTORIZER_TIMEOUT"} :
          Returns(TRUE, output, error, unsaid)
  BY DEF Refused
<1>1. UNCHANGED <<call, request, reply, blank>> /\ step \in {"node", "backend", "answered"}
  BY DEF Refused
<1>2. /\ output = ParentState /\ error = "none"
      /\ call.entry = "processor" => Valid(call.payload)
  BY <1>1, NodeState
<1>3. output = Empty \/ call.stale
  BY <1>2 DEF ParentState
<1>4. MayReturn(TRUE, output, error, unsaid)
  BY <1>2, <1>3 DEF MayReturn
<1>5. error \in Codes /\ unsaid \in Codes
  BY <1>2 DEF Codes
<1>6. QED
  BY <1>0, <1>1, <1>4, <1>5, ReturnsKeep

-----------------------------------------------------------------------------
\* The same call again, and with what it left restored.
LEMMA StepAgain == ASSUME AttemptInv, Again PROVE AttemptInv'
<1>0. /\ call \in Requests /\ shared # Empty /\ EntryKept /\ SharedKept
      /\ step' = "node" /\ output' = ParentState /\ error' = "none"
      /\ request' = Empty /\ reply' = NoReply /\ result' = NoResult
      /\ UNCHANGED <<call, blank, shared>> /\ blank \in BOOLEAN
  BY DEF Again, AttemptInv, AttemptVerdict, AttemptTypeOK
<1>1. call.entry # "processor"
  BY <1>0 DEF EntryKept
<1>2. NoReply \in BackendResults
  BY DEF NoReply, BackendResults, Odd
<1>3. /\ "none" \in Codes /\ NoResult.code = "none" /\ NoResult.success = FALSE
      /\ NoResult.retryable = FALSE
  BY DEF NoResult, Codes
<1>4. AttemptVerdict'
  BY <1>0, <1>2, <1>3 DEF AttemptVerdict, AttemptTypeOK
<1>5. /\ AnswersRequest' /\ (result.code = "VALIDATION_ERROR" => ~Valid(call.payload) \/ blank)'
  BY <1>0, <1>3 DEF AnswersRequest
<1>6. RequestKept' /\ EntryKept' /\ SharedKept'
  BY <1>0, <1>1 DEF RequestKept, EntryKept, SharedKept, ParentState
<1>7. QED
  BY <1>0, <1>4, <1>5, <1>6 DEF AttemptInv

LEMMA StepRestored == ASSUME AttemptInv, Restored PROVE AttemptInv'
<1> DEFINE left == IF shared.output = Empty THEN output ELSE shared.output
           err == IF shared.error = "none" THEN error ELSE shared.error
<1>0. /\ Returns(FALSE, left, err, "none") /\ UNCHANGED <<call, request, reply, blank>>
      /\ step = "node" /\ shared # Empty /\ call \in Requests
  BY DEF Restored, AttemptInv
<1>1. output = ParentState /\ error = "none" /\ call.entry # "processor"
  BY <1>0, NodeState
<1>2. /\ call.sharing /\ shared.error \in Codes
      /\ shared.error = "VALIDATION_ERROR" => ~Valid(call.payload)
      /\ shared.output = Empty \/ call.stale \/ IsAnswer(call.payload, shared.output)
  BY <1>0 DEF AttemptInv, SharedKept
<1>3. left = Empty \/ call.stale \/ IsAnswer(call.payload, left)
  BY <1>1, <1>2 DEF ParentState
<1>4. err \in Codes /\ "none" \in Codes /\ (err = "VALIDATION_ERROR" => ~Valid(call.payload))
  BY <1>1, <1>2 DEF Codes
<1> HIDE DEF left, err
<1>5. MayReturn(FALSE, left, err, "none")
  BY <1>1, <1>2, <1>3, <1>4 DEF MayReturn
<1>6. QED
  BY <1>0, <1>4, <1>5, ReturnsKeep

-----------------------------------------------------------------------------
\* Whatever the call, the invariant holds when the attempt begins...
LEMMA AttemptInvInit == AttemptInit => AttemptInv
<1> SUFFICES ASSUME AttemptInit PROVE AttemptInv
  OBVIOUS
<1>0. /\ call \in Requests
      /\ step = IF call.entry = "processor" THEN "received" ELSE "node"
      /\ request = Empty /\ reply = NoReply /\ output = ParentState /\ error = "none"
      /\ result = NoResult /\ blank = FALSE /\ shared = Empty
  BY DEF AttemptInit
<1>1. NoReply \in BackendResults
  BY DEF NoReply, BackendResults, Odd
<1>2. /\ "none" \in Codes /\ NoResult.code = "none" /\ NoResult.success = FALSE
      /\ NoResult.retryable = FALSE
  BY DEF NoResult, Codes
<1>3. AttemptVerdict
  BY <1>0, <1>1, <1>2 DEF AttemptVerdict, AttemptTypeOK
<1>4. AnswersRequest /\ (result.code = "VALIDATION_ERROR" => ~Valid(call.payload) \/ blank)
  BY <1>0, <1>2 DEF AnswersRequest
<1>5. RequestKept /\ EntryKept /\ SharedKept
  BY <1>0 DEF RequestKept, EntryKept, SharedKept
<1>6. QED
  BY <1>0, <1>3, <1>4, <1>5 DEF AttemptInv

\* ... and after every step of it.
LEMMA AttemptInvStep == AttemptInv /\ [AttemptNext]_attemptVars => AttemptInv'
<1> SUFFICES ASSUME AttemptInv, [AttemptNext]_attemptVars PROVE AttemptInv'
  OBVIOUS
<1>1. CASE Read
  BY <1>1, StepRead
<1>2. CASE Load
  BY <1>2, StepLoad
<1>3. CASE NodeReads
  BY <1>3, StepNodeReads
<1>4. CASE Answers
  BY <1>4, StepAnswers
<1>5. CASE BackendFails
  BY <1>5, StepBackendFails
<1>6. CASE Checks
  BY <1>6, StepChecks
<1>7. CASE Refused
  BY <1>7, StepRefused
<1>8. CASE Again
  BY <1>8, StepAgain
<1>9. CASE Restored
  BY <1>9, StepRestored
<1>10. CASE UNCHANGED attemptVars
  <2>1. UNCHANGED <<call, step, request, reply, output, error, result, blank, shared>>
    BY <1>10 DEF attemptVars
  <2>2. AttemptVerdict'
    BY <2>1 DEF AttemptInv, AttemptVerdict, AttemptTypeOK
  <2>3. AnswersRequest' /\ (result.code = "VALIDATION_ERROR" => ~Valid(call.payload) \/ blank)'
    BY <2>1 DEF AttemptInv, AnswersRequest
  <2>4. RequestKept' /\ EntryKept' /\ SharedKept'
    BY <2>1 DEF AttemptInv, RequestKept, MayBeText, EntryKept, SharedKept, ParentState
  <2>5. call' \in Requests
    BY <2>1 DEF AttemptInv
  <2>6. QED
    BY <2>2, <2>3, <2>4, <2>5 DEF AttemptInv
<1>11. QED
  BY <1>1, <1>2, <1>3, <1>4, <1>5, <1>6, <1>7, <1>8, <1>9, <1>10 DEF AttemptNext

LEMMA AttemptInvariance == AttemptSpec => []AttemptInv
<1>1. QED
  BY AttemptInvInit, AttemptInvStep, PTL DEF AttemptSpec

\* Every attempt at a document.vectorize request, whatever its payload, its backend
\* and its stored chunks, ends as a success with an output or with an error code
\* (AttemptVerdict: processing.py, _process, and execute_document_vectorize).
THEOREM AttemptVerdictHolds == AttemptSpec => []AttemptVerdict
<1>1. AttemptInv => AttemptVerdict
  BY DEF AttemptInv
<1>2. QED
  BY <1>1, AttemptInvariance, PTL

\* Whatever payload was accepted is written, and read again, as the same request,
\* with the same identity, and the node never refuses it but for a blank chunk
\* (NormalFormKept: DocumentVectorizeInput.from_payload and to_payload,
\* build_document_idempotency_key).
THEOREM NormalFormHolds == AttemptSpec => []NormalFormKept
<1>1. AttemptInv => NormalFormKept
  <2> SUFFICES ASSUME AttemptInv PROVE NormalFormKept
    OBVIOUS
  <2>1. /\ call \in Requests /\ RequestKept
        /\ result.code = "VALIDATION_ERROR" => ~Valid(call.payload) \/ blank
    BY DEF AttemptInv
  <2>2. ASSUME request # Empty, ~blank
        PROVE  LET p == ToPayload(request) IN
               /\ Valid(p) /\ RequestOf(p) = request
               /\ \A h \in {"null", "header"} :
                     Identity(p, h, "first") = Identity(call.payload, h, "redelivered")
               /\ \A s \in ToSet(request.storageReferences) :
                     \A k \in ToSet(StorageKey(s)) : Given(k)
    BY <2>1, <2>2, NormalForm
  <2>3. QED
    BY <2>1, <2>2 DEF NormalFormKept
<1>2. QED
  BY <1>1, AttemptInvariance, PTL

\* A call that succeeds returns the answer to its own request, whatever backend it
\* has, and never what its parent's state or another call left, but for the one
\* case the property names (AnswersRequest: _validate_backend_result, from_backend,
\* _fail_envelope).
THEOREM AnswersRequestHolds == AttemptSpec => []AnswersRequest
<1>1. AttemptInv => AnswersRequest
  BY DEF AttemptInv
<1>2. QED
  BY <1>1, AttemptInvariance, PTL
=============================================================================
