------------------------ MODULE NodeExecution_proofs ------------------------
(***************************************************************************)
(* Proofs about NodeExecution, for any number of calls of every kind, of   *)
(* threads and of pending items, with shutdown at any moment: the          *)
(* inductive invariant, one lemma per conjunct and one step per action.    *)
(***************************************************************************)
EXTENDS NodeExecution, TLAPS

USE DEF NoCall, Exited

\* No call has begun: everything holds.
LEMMA InitIInv == Init => IInv
  <1> SUFFICES ASSUME Init PROVE IInv
    OBVIOUS
  <1> USE ExecutionAssumption DEF Init, Pooled
  <1>1. TypeOK
    BY DEF TypeOK, Contents
  <1>2. CallsConsistent
    BY DEF CallsConsistent
  <1>3. Isolated
    BY DEF Isolated
  <1>4. NothingStranded /\ NoLateStart
    BY DEF NothingStranded, NoLateStart
  <1> QED BY <1>1, <1>2, <1>3, <1>4 DEF IInv

\* Types; the queue never holds more than max_pending.
LEMMA StepTypeOK == IInv /\ [Next]_vars => TypeOK'
  <1> SUFFICES ASSUME IInv, [Next]_vars PROVE TypeOK'
    OBVIOUS
  <1> USE ExecutionAssumption DEF IInv, TypeOK, Contents,
          Goto, Return, Resolve, Leave, Working, Pooled, Loop
  <1>1. ASSUME NEW c \in Calls, StartInline(c) PROVE TypeOK'
    BY <1>1 DEF StartInline
  <1>2. ASSUME NEW c \in Calls, TooLate(c) PROVE TypeOK'
    BY <1>2 DEF TooLate
  <1>3. ASSUME NEW c \in Calls, Submit(c) PROVE TypeOK'
    BY <1>3 DEF Submit, Room, Accepting
  <1>4. ASSUME NEW c \in Calls, RejectFull(c) PROVE TypeOK'
    BY <1>4 DEF RejectFull, Room, Accepting
  <1>5. ASSUME NEW c \in Calls, RejectClosed(c) PROVE TypeOK'
    BY <1>5 DEF RejectClosed, Accepting
  <1>6. ASSUME NEW c \in Calls, Spawn(c) PROVE TypeOK'
    BY <1>6 DEF Spawn, Write
  <1>7. ASSUME NEW c \in Calls, EndInline(c) PROVE TypeOK'
    BY <1>7 DEF EndInline
  <1>8. ASSUME NEW c \in Calls, Commit(c) PROVE TypeOK'
    BY <1>8 DEF Commit
  <1>9. ASSUME NEW c \in Calls, Raise(c) PROVE TypeOK'
    BY <1>9 DEF Raise
  <1>10. ASSUME NEW c \in Calls, GiveUp(c) PROVE TypeOK'
    BY <1>10 DEF GiveUp, CancelPending
  <1>11. ASSUME NEW c \in Calls, ChainCancel(c) PROVE TypeOK'
    BY <1>11 DEF ChainCancel, CancelPending
  <1>12. ASSUME NEW c \in Calls, EndCoroutine(c) PROVE TypeOK'
    BY <1>12 DEF EndCoroutine, Write
  <1>13. ASSUME NEW c \in Calls, Stopped(c) PROVE TypeOK'
    BY <1>13 DEF Stopped
  <1>14. ASSUME NEW c \in Calls, TimeOutSync(c) PROVE TypeOK'
    BY <1>14 DEF TimeOutSync
  <1>15. ASSUME NEW c \in Calls, TimeOutAsync(c) PROVE TypeOK'
    BY <1>15 DEF TimeOutAsync
  <1>16. ASSUME NEW c \in Calls, CancelAsync(c) PROVE TypeOK'
    BY <1>16 DEF CancelAsync
  <1>17. ASSUME NEW c \in Calls, StopCoroutine(c) PROVE TypeOK'
    BY <1>17 DEF StopCoroutine
  <1>18. ASSUME NEW t \in Threads, Take(t) PROVE TypeOK'
    BY <1>18 DEF Take
  <1>19. ASSUME NEW t \in Threads, Run(t) PROVE TypeOK'
    BY <1>19 DEF Run, Write
  <1>20. ASSUME NEW t \in Threads, Skip(t) PROVE TypeOK'
    BY <1>20 DEF Skip
  <1>21. ASSUME NEW t \in Threads, CancelTaken(t) PROVE TypeOK'
    BY <1>21 DEF CancelTaken, CancelPending
  <1>22. ASSUME NEW t \in Threads, Finish(t) PROVE TypeOK'
    BY <1>22 DEF Finish, Write
  <1>23. ASSUME NEW t \in Threads, Break(t) PROVE TypeOK'
    BY <1>23 DEF Break
  <1>24. ASSUME NEW t \in Threads, Exit(t) PROVE TypeOK'
    BY <1>24 DEF Exit
  <1>25. CASE Shutdown
    BY <1>25 DEF Shutdown
  <1>26. CASE Drain
    BY <1>26 DEF Drain, CancelPending
  <1>27. CASE Drained
    BY <1>27 DEF Drained
  <1>28. ASSUME NEW c \in Calls, BreakInline(c) PROVE TypeOK'
    BY <1>28 DEF BreakInline
  <1>29. CASE UNCHANGED vars
    BY <1>29 DEF vars
  <1> QED
    BY <1>1, <1>2, <1>3, <1>4, <1>5, <1>6, <1>7, <1>8, <1>9, <1>10,
       <1>11, <1>12, <1>13, <1>14, <1>15, <1>16, <1>17, <1>18, <1>19, <1>20,
       <1>21, <1>22, <1>23, <1>24, <1>25, <1>26, <1>27, <1>28, <1>29
       DEF Next, Begin, End, ThreadStep

\* What a caller's place says stays true.
LEMMA StepCallsConsistent == IInv /\ [Next]_vars => CallsConsistent'
  <1> SUFFICES ASSUME IInv, [Next]_vars PROVE CallsConsistent'
    OBVIOUS
  <1> USE ExecutionAssumption DEF IInv, TypeOK, CallsConsistent,
          Goto, Return, Resolve, Leave, Working, Pooled, Loop
  <1>1. ASSUME NEW c \in Calls, StartInline(c) PROVE CallsConsistent'
    BY <1>1 DEF StartInline
  <1>2. ASSUME NEW c \in Calls, TooLate(c) PROVE CallsConsistent'
    BY <1>2 DEF TooLate
  <1>3. ASSUME NEW c \in Calls, Submit(c) PROVE CallsConsistent'
    BY <1>3 DEF Submit, Room, Accepting
  <1>4. ASSUME NEW c \in Calls, RejectFull(c) PROVE CallsConsistent'
    BY <1>4 DEF RejectFull, Room, Accepting
  <1>5. ASSUME NEW c \in Calls, RejectClosed(c) PROVE CallsConsistent'
    BY <1>5 DEF RejectClosed, Accepting
  <1>6. ASSUME NEW c \in Calls, Spawn(c) PROVE CallsConsistent'
    BY <1>6 DEF Spawn, Write
  <1>7. ASSUME NEW c \in Calls, EndInline(c) PROVE CallsConsistent'
    BY <1>7 DEF EndInline
  <1>8. ASSUME NEW c \in Calls, Commit(c) PROVE CallsConsistent'
    BY <1>8 DEF Commit
  <1>9. ASSUME NEW c \in Calls, Raise(c) PROVE CallsConsistent'
    BY <1>9 DEF Raise
  <1>10. ASSUME NEW c \in Calls, GiveUp(c) PROVE CallsConsistent'
    BY <1>10 DEF GiveUp, CancelPending
  <1>11. ASSUME NEW c \in Calls, ChainCancel(c) PROVE CallsConsistent'
    BY <1>11 DEF ChainCancel, CancelPending
  <1>12. ASSUME NEW c \in Calls, EndCoroutine(c) PROVE CallsConsistent'
    BY <1>12 DEF EndCoroutine, Write
  <1>13. ASSUME NEW c \in Calls, Stopped(c) PROVE CallsConsistent'
    BY <1>13 DEF Stopped
  <1>14. ASSUME NEW c \in Calls, TimeOutSync(c) PROVE CallsConsistent'
    BY <1>14 DEF TimeOutSync
  <1>15. ASSUME NEW c \in Calls, TimeOutAsync(c) PROVE CallsConsistent'
    BY <1>15 DEF TimeOutAsync
  <1>16. ASSUME NEW c \in Calls, CancelAsync(c) PROVE CallsConsistent'
    BY <1>16 DEF CancelAsync
  <1>17. ASSUME NEW c \in Calls, StopCoroutine(c) PROVE CallsConsistent'
    BY <1>17 DEF StopCoroutine
  <1>18. ASSUME NEW t \in Threads, Take(t) PROVE CallsConsistent'
    BY <1>18 DEF Take
  <1>19. ASSUME NEW t \in Threads, Run(t) PROVE CallsConsistent'
    BY <1>19 DEF Run, Write
  <1>20. ASSUME NEW t \in Threads, Skip(t) PROVE CallsConsistent'
    BY <1>20 DEF Skip
  <1>21. ASSUME NEW t \in Threads, CancelTaken(t) PROVE CallsConsistent'
    BY <1>21 DEF CancelTaken, CancelPending
  <1>22. ASSUME NEW t \in Threads, Finish(t) PROVE CallsConsistent'
    BY <1>22 DEF Finish, Write
  <1>23. ASSUME NEW t \in Threads, Break(t) PROVE CallsConsistent'
    BY <1>23 DEF Break
  <1>24. ASSUME NEW t \in Threads, Exit(t) PROVE CallsConsistent'
    BY <1>24 DEF Exit
  <1>25. CASE Shutdown
    BY <1>25 DEF Shutdown
  <1>26. CASE Drain
    BY <1>26 DEF Drain, CancelPending
  <1>27. CASE Drained
    BY <1>27 DEF Drained
  <1>28. ASSUME NEW c \in Calls, BreakInline(c) PROVE CallsConsistent'
    BY <1>28 DEF BreakInline
  <1>29. CASE UNCHANGED vars
    BY <1>29 DEF vars
  <1> QED
    BY <1>1, <1>2, <1>3, <1>4, <1>5, <1>6, <1>7, <1>8, <1>9, <1>10,
       <1>11, <1>12, <1>13, <1>14, <1>15, <1>16, <1>17, <1>18, <1>19, <1>20,
       <1>21, <1>22, <1>23, <1>24, <1>25, <1>26, <1>27, <1>28, <1>29
       DEF Next, Begin, End, ThreadStep

\* Nobody but the call itself writes to its envelope.
LEMMA StepIsolated == IInv /\ [Next]_vars => Isolated'
  <1> SUFFICES ASSUME IInv, [Next]_vars PROVE Isolated'
    OBVIOUS
  <1> USE ExecutionAssumption DEF IInv, TypeOK, CallsConsistent, Isolated,
          Goto, Return, Resolve, Leave, Working, Pooled, Loop
  <1>1. ASSUME NEW c \in Calls, StartInline(c) PROVE Isolated'
    BY <1>1 DEF StartInline
  <1>2. ASSUME NEW c \in Calls, TooLate(c) PROVE Isolated'
    BY <1>2 DEF TooLate
  <1>3. ASSUME NEW c \in Calls, Submit(c) PROVE Isolated'
    BY <1>3 DEF Submit, Room, Accepting
  <1>4. ASSUME NEW c \in Calls, RejectFull(c) PROVE Isolated'
    BY <1>4 DEF RejectFull, Room, Accepting
  <1>5. ASSUME NEW c \in Calls, RejectClosed(c) PROVE Isolated'
    BY <1>5 DEF RejectClosed, Accepting
  <1>6. ASSUME NEW c \in Calls, Spawn(c) PROVE Isolated'
    BY <1>6 DEF Spawn, Write
  <1>7. ASSUME NEW c \in Calls, EndInline(c) PROVE Isolated'
    BY <1>7 DEF EndInline
  <1>8. ASSUME NEW c \in Calls, Commit(c) PROVE Isolated'
    BY <1>8 DEF Commit
  <1>9. ASSUME NEW c \in Calls, Raise(c) PROVE Isolated'
    BY <1>9 DEF Raise
  <1>10. ASSUME NEW c \in Calls, GiveUp(c) PROVE Isolated'
    BY <1>10 DEF GiveUp, CancelPending
  <1>11. ASSUME NEW c \in Calls, ChainCancel(c) PROVE Isolated'
    BY <1>11 DEF ChainCancel, CancelPending
  <1>12. ASSUME NEW c \in Calls, EndCoroutine(c) PROVE Isolated'
    BY <1>12 DEF EndCoroutine, Write
  <1>13. ASSUME NEW c \in Calls, Stopped(c) PROVE Isolated'
    BY <1>13 DEF Stopped
  <1>14. ASSUME NEW c \in Calls, TimeOutSync(c) PROVE Isolated'
    BY <1>14 DEF TimeOutSync
  <1>15. ASSUME NEW c \in Calls, TimeOutAsync(c) PROVE Isolated'
    BY <1>15 DEF TimeOutAsync
  <1>16. ASSUME NEW c \in Calls, CancelAsync(c) PROVE Isolated'
    BY <1>16 DEF CancelAsync
  <1>17. ASSUME NEW c \in Calls, StopCoroutine(c) PROVE Isolated'
    BY <1>17 DEF StopCoroutine
  <1>18. ASSUME NEW t \in Threads, Take(t) PROVE Isolated'
    BY <1>18 DEF Take
  <1>19. ASSUME NEW t \in Threads, Run(t) PROVE Isolated'
    BY <1>19 DEF Run, Write
  <1>20. ASSUME NEW t \in Threads, Skip(t) PROVE Isolated'
    BY <1>20 DEF Skip
  <1>21. ASSUME NEW t \in Threads, CancelTaken(t) PROVE Isolated'
    BY <1>21 DEF CancelTaken, CancelPending
  <1>22. ASSUME NEW t \in Threads, Finish(t) PROVE Isolated'
    BY <1>22 DEF Finish, Write
  <1>23. ASSUME NEW t \in Threads, Break(t) PROVE Isolated'
    BY <1>23 DEF Break
  <1>24. ASSUME NEW t \in Threads, Exit(t) PROVE Isolated'
    BY <1>24 DEF Exit
  <1>25. CASE Shutdown
    BY <1>25 DEF Shutdown
  <1>26. CASE Drain
    BY <1>26 DEF Drain, CancelPending
  <1>27. CASE Drained
    BY <1>27 DEF Drained
  <1>28. ASSUME NEW c \in Calls, BreakInline(c) PROVE Isolated'
    BY <1>28 DEF BreakInline
  <1>29. CASE UNCHANGED vars
    BY <1>29 DEF vars
  <1> QED
    BY <1>1, <1>2, <1>3, <1>4, <1>5, <1>6, <1>7, <1>8, <1>9, <1>10,
       <1>11, <1>12, <1>13, <1>14, <1>15, <1>16, <1>17, <1>18, <1>19, <1>20,
       <1>21, <1>22, <1>23, <1>24, <1>25, <1>26, <1>27, <1>28, <1>29
       DEF Next, Begin, End, ThreadStep

\* Work that has not started stays in the queue or in a thread's hands.
LEMMA StepNothingStranded == IInv /\ [Next]_vars => NothingStranded'
  <1> SUFFICES ASSUME IInv, [Next]_vars PROVE NothingStranded'
    OBVIOUS
  <1> USE ExecutionAssumption DEF IInv, TypeOK, NothingStranded,
          Goto, Return, Resolve, Leave, Working, Pooled, Loop
  <1>1. ASSUME NEW c \in Calls, StartInline(c) PROVE NothingStranded'
    BY <1>1 DEF StartInline
  <1>2. ASSUME NEW c \in Calls, TooLate(c) PROVE NothingStranded'
    BY <1>2 DEF TooLate
  <1>3. ASSUME NEW c \in Calls, Submit(c) PROVE NothingStranded'
    <2>1. /\ queue' = Append(queue, c) /\ fut' = [fut EXCEPT ![c] = "pending"]
          /\ thread' = thread /\ gate' = gate /\ gate = "open"
      BY <1>3 DEF Submit, Accepting
    <2>2. queue'[Len(queue) + 1] = c /\ Len(queue) + 1 \in DOMAIN queue'
      BY <2>1
    <2>3. \A i \in DOMAIN queue : i \in DOMAIN queue' /\ queue'[i] = queue[i]
      BY <2>1
    <2> QED BY <2>1, <2>2, <2>3
  <1>4. ASSUME NEW c \in Calls, RejectFull(c) PROVE NothingStranded'
    BY <1>4 DEF RejectFull, Room, Accepting
  <1>5. ASSUME NEW c \in Calls, RejectClosed(c) PROVE NothingStranded'
    BY <1>5 DEF RejectClosed, Accepting
  <1>6. ASSUME NEW c \in Calls, Spawn(c) PROVE NothingStranded'
    BY <1>6 DEF Spawn, Write
  <1>7. ASSUME NEW c \in Calls, EndInline(c) PROVE NothingStranded'
    BY <1>7 DEF EndInline
  <1>8. ASSUME NEW c \in Calls, Commit(c) PROVE NothingStranded'
    BY <1>8 DEF Commit
  <1>9. ASSUME NEW c \in Calls, Raise(c) PROVE NothingStranded'
    BY <1>9 DEF Raise
  <1>10. ASSUME NEW c \in Calls, GiveUp(c) PROVE NothingStranded'
    BY <1>10 DEF GiveUp, CancelPending
  <1>11. ASSUME NEW c \in Calls, ChainCancel(c) PROVE NothingStranded'
    BY <1>11 DEF ChainCancel, CancelPending
  <1>12. ASSUME NEW c \in Calls, EndCoroutine(c) PROVE NothingStranded'
    BY <1>12 DEF EndCoroutine, Write
  <1>13. ASSUME NEW c \in Calls, Stopped(c) PROVE NothingStranded'
    BY <1>13 DEF Stopped
  <1>14. ASSUME NEW c \in Calls, TimeOutSync(c) PROVE NothingStranded'
    BY <1>14 DEF TimeOutSync
  <1>15. ASSUME NEW c \in Calls, TimeOutAsync(c) PROVE NothingStranded'
    BY <1>15 DEF TimeOutAsync
  <1>16. ASSUME NEW c \in Calls, CancelAsync(c) PROVE NothingStranded'
    BY <1>16 DEF CancelAsync
  <1>17. ASSUME NEW c \in Calls, StopCoroutine(c) PROVE NothingStranded'
    BY <1>17 DEF StopCoroutine
  <1>18. ASSUME NEW t \in Threads, Take(t) PROVE NothingStranded'
    <2>1. /\ queue # <<>> /\ queue' = Tail(queue) /\ fut' = fut /\ gate' = gate
          /\ thread[t] = "none" /\ thread' = [thread EXCEPT ![t] = Head(queue)]
      BY <1>18 DEF Take
    <2>2. \A i \in DOMAIN queue : i = 1 \/ (i - 1 \in DOMAIN queue' /\ queue'[i - 1] = queue[i])
      BY <2>1
    <2>3. thread'[t] = queue[1]
      BY <2>1
    <2>4. \A d \in Pooled : \A u \in Threads : thread[u] = d => thread'[u] = d
      BY <2>1
    <2>5. ASSUME NEW d \in Pooled, fut'[d] = "pending"
          PROVE  \/ \E i \in DOMAIN queue' : queue'[i] = d
                 \/ \E u \in Threads : thread'[u] = d
      <3>1. CASE \E i \in DOMAIN queue : queue[i] = d
        BY <2>2, <2>3, <3>1
      <3>2. CASE \E u \in Threads : thread[u] = d
        BY <2>4, <3>2
      <3> QED BY <2>1, <2>5, <3>1, <3>2
    <2>6. gate' # "closed"  \/ queue' = <<>>
      BY <2>1
    <2> QED BY <2>5, <2>6
  <1>19. ASSUME NEW t \in Threads, Run(t) PROVE NothingStranded'
    BY <1>19 DEF Run, Write
  <1>20. ASSUME NEW t \in Threads, Skip(t) PROVE NothingStranded'
    BY <1>20 DEF Skip
  <1>21. ASSUME NEW t \in Threads, CancelTaken(t) PROVE NothingStranded'
    BY <1>21 DEF CancelTaken, CancelPending
  <1>22. ASSUME NEW t \in Threads, Finish(t) PROVE NothingStranded'
    BY <1>22 DEF Finish, Write
  <1>23. ASSUME NEW t \in Threads, Break(t) PROVE NothingStranded'
    BY <1>23 DEF Break
  <1>24. ASSUME NEW t \in Threads, Exit(t) PROVE NothingStranded'
    BY <1>24 DEF Exit
  <1>25. CASE Shutdown
    BY <1>25 DEF Shutdown
  <1>26. CASE Drain
    <2>1. /\ queue # <<>> /\ queue' = Tail(queue) /\ thread' = thread
          /\ gate = "closing" /\ gate' = gate
          /\ fut' = [fut EXCEPT ![Head(queue)] = IF @ = "pending" THEN "cancelled" ELSE @]
      BY <1>26 DEF Drain, CancelPending
    <2>2. \A i \in DOMAIN queue : i = 1 \/ (i - 1 \in DOMAIN queue' /\ queue'[i - 1] = queue[i])
      BY <2>1
    <2>3. \A d \in Pooled : fut'[d] = "pending" => fut[d] = "pending" /\ d # queue[1]
      BY <2>1
    <2>4. ASSUME NEW d \in Pooled, fut'[d] = "pending"
          PROVE  \/ \E i \in DOMAIN queue' : queue'[i] = d
                 \/ \E u \in Threads : thread'[u] = d
      <3>1. CASE \E i \in DOMAIN queue : queue[i] = d
        BY <2>2, <2>3, <2>4, <3>1
      <3>2. CASE \E u \in Threads : thread[u] = d
        BY <2>1, <3>2
      <3> QED BY <2>3, <2>4, <3>1, <3>2
    <2> QED BY <2>1, <2>4
  <1>27. CASE Drained
    BY <1>27 DEF Drained
  <1>28. ASSUME NEW c \in Calls, BreakInline(c) PROVE NothingStranded'
    BY <1>28 DEF BreakInline
  <1>29. CASE UNCHANGED vars
    BY <1>29 DEF vars
  <1> QED
    BY <1>1, <1>2, <1>3, <1>4, <1>5, <1>6, <1>7, <1>8, <1>9, <1>10,
       <1>11, <1>12, <1>13, <1>14, <1>15, <1>16, <1>17, <1>18, <1>19, <1>20,
       <1>21, <1>22, <1>23, <1>24, <1>25, <1>26, <1>27, <1>28, <1>29
       DEF Next, Begin, End, ThreadStep

\* A call that returns has cancelled what has not started.
LEMMA StepNoLateStart == IInv /\ [Next]_vars => NoLateStart'
  <1> SUFFICES ASSUME IInv, [Next]_vars PROVE NoLateStart'
    OBVIOUS
  <1> USE ExecutionAssumption DEF IInv, TypeOK, CallsConsistent, NoLateStart,
          Goto, Return, Resolve, Leave, Working, Pooled, Loop
  <1>1. ASSUME NEW c \in Calls, StartInline(c) PROVE NoLateStart'
    BY <1>1 DEF StartInline
  <1>2. ASSUME NEW c \in Calls, TooLate(c) PROVE NoLateStart'
    BY <1>2 DEF TooLate
  <1>3. ASSUME NEW c \in Calls, Submit(c) PROVE NoLateStart'
    BY <1>3 DEF Submit, Room, Accepting
  <1>4. ASSUME NEW c \in Calls, RejectFull(c) PROVE NoLateStart'
    BY <1>4 DEF RejectFull, Room, Accepting
  <1>5. ASSUME NEW c \in Calls, RejectClosed(c) PROVE NoLateStart'
    BY <1>5 DEF RejectClosed, Accepting
  <1>6. ASSUME NEW c \in Calls, Spawn(c) PROVE NoLateStart'
    BY <1>6 DEF Spawn, Write
  <1>7. ASSUME NEW c \in Calls, EndInline(c) PROVE NoLateStart'
    BY <1>7 DEF EndInline
  <1>8. ASSUME NEW c \in Calls, Commit(c) PROVE NoLateStart'
    BY <1>8 DEF Commit
  <1>9. ASSUME NEW c \in Calls, Raise(c) PROVE NoLateStart'
    BY <1>9 DEF Raise
  <1>10. ASSUME NEW c \in Calls, GiveUp(c) PROVE NoLateStart'
    BY <1>10 DEF GiveUp, CancelPending
  <1>11. ASSUME NEW c \in Calls, ChainCancel(c) PROVE NoLateStart'
    BY <1>11 DEF ChainCancel, CancelPending
  <1>12. ASSUME NEW c \in Calls, EndCoroutine(c) PROVE NoLateStart'
    BY <1>12 DEF EndCoroutine, Write
  <1>13. ASSUME NEW c \in Calls, Stopped(c) PROVE NoLateStart'
    BY <1>13 DEF Stopped
  <1>14. ASSUME NEW c \in Calls, TimeOutSync(c) PROVE NoLateStart'
    BY <1>14 DEF TimeOutSync
  <1>15. ASSUME NEW c \in Calls, TimeOutAsync(c) PROVE NoLateStart'
    BY <1>15 DEF TimeOutAsync
  <1>16. ASSUME NEW c \in Calls, CancelAsync(c) PROVE NoLateStart'
    BY <1>16 DEF CancelAsync
  <1>17. ASSUME NEW c \in Calls, StopCoroutine(c) PROVE NoLateStart'
    BY <1>17 DEF StopCoroutine
  <1>18. ASSUME NEW t \in Threads, Take(t) PROVE NoLateStart'
    BY <1>18 DEF Take
  <1>19. ASSUME NEW t \in Threads, Run(t) PROVE NoLateStart'
    BY <1>19 DEF Run, Write
  <1>20. ASSUME NEW t \in Threads, Skip(t) PROVE NoLateStart'
    BY <1>20 DEF Skip
  <1>21. ASSUME NEW t \in Threads, CancelTaken(t) PROVE NoLateStart'
    BY <1>21 DEF CancelTaken, CancelPending
  <1>22. ASSUME NEW t \in Threads, Finish(t) PROVE NoLateStart'
    BY <1>22 DEF Finish, Write
  <1>23. ASSUME NEW t \in Threads, Break(t) PROVE NoLateStart'
    BY <1>23 DEF Break
  <1>24. ASSUME NEW t \in Threads, Exit(t) PROVE NoLateStart'
    BY <1>24 DEF Exit
  <1>25. CASE Shutdown
    BY <1>25 DEF Shutdown
  <1>26. CASE Drain
    BY <1>26 DEF Drain, CancelPending
  <1>27. CASE Drained
    BY <1>27 DEF Drained
  <1>28. ASSUME NEW c \in Calls, BreakInline(c) PROVE NoLateStart'
    BY <1>28 DEF BreakInline
  <1>29. CASE UNCHANGED vars
    BY <1>29 DEF vars
  <1> QED
    BY <1>1, <1>2, <1>3, <1>4, <1>5, <1>6, <1>7, <1>8, <1>9, <1>10,
       <1>11, <1>12, <1>13, <1>14, <1>15, <1>16, <1>17, <1>18, <1>19, <1>20,
       <1>21, <1>22, <1>23, <1>24, <1>25, <1>26, <1>27, <1>28, <1>29
       DEF Next, Begin, End, ThreadStep

\* The inductive invariant of node execution holds in every reachable state.
THEOREM InductiveInvariant == Spec => []IInv
  <1>1. IInv /\ [Next]_vars => IInv'
    BY StepTypeOK, StepCallsConsistent, StepIsolated, StepNothingStranded, StepNoLateStart
       DEF IInv
  <1> QED BY InitIInv, <1>1, PTL DEF Spec

\* Every reachable state is well typed, and the queue within its bound.
THEOREM TypeCorrect == Spec => []TypeOK
  BY InductiveInvariant, PTL DEF IInv

\* A node never touches the envelope of its caller, who gets the whole outcome
\* or none of it (commit_envelope of the working copy).
THEOREM Isolation == Spec => []Isolated
  BY InductiveInvariant, PTL DEF IInv

\* shutdown leaves no work behind that nobody will start or cancel.
THEOREM NoStrandedWork == Spec => []NothingStranded
  BY InductiveInvariant, PTL DEF IInv

\* What a timed-out or cancelled call submitted cannot start any more once its
\* cancellation has arrived.
THEOREM NoLateWork == Spec => []NoLateStart
  BY InductiveInvariant, PTL DEF IInv

-----------------------------------------------------------------------------
\* Callers that have returned are left alone by every action.
LEMMA StepNeverLate == IInv /\ [Next]_vars => Untouched
  <1> SUFFICES ASSUME IInv, [Next]_vars PROVE Untouched
    OBVIOUS
  <1> USE ExecutionAssumption DEF IInv, TypeOK, CallsConsistent, Untouched,
          Goto, Return, Resolve, Leave, Working, Pooled, Loop
  <1>1. ASSUME NEW c \in Calls, StartInline(c) PROVE Untouched
    BY <1>1 DEF StartInline
  <1>2. ASSUME NEW c \in Calls, TooLate(c) PROVE Untouched
    BY <1>2 DEF TooLate
  <1>3. ASSUME NEW c \in Calls, Submit(c) PROVE Untouched
    BY <1>3 DEF Submit, Room, Accepting
  <1>4. ASSUME NEW c \in Calls, RejectFull(c) PROVE Untouched
    BY <1>4 DEF RejectFull, Room, Accepting
  <1>5. ASSUME NEW c \in Calls, RejectClosed(c) PROVE Untouched
    BY <1>5 DEF RejectClosed, Accepting
  <1>6. ASSUME NEW c \in Calls, Spawn(c) PROVE Untouched
    BY <1>6 DEF Spawn, Write
  <1>7. ASSUME NEW c \in Calls, EndInline(c) PROVE Untouched
    BY <1>7 DEF EndInline
  <1>8. ASSUME NEW c \in Calls, Commit(c) PROVE Untouched
    BY <1>8 DEF Commit
  <1>9. ASSUME NEW c \in Calls, Raise(c) PROVE Untouched
    BY <1>9 DEF Raise
  <1>10. ASSUME NEW c \in Calls, GiveUp(c) PROVE Untouched
    BY <1>10 DEF GiveUp, CancelPending
  <1>11. ASSUME NEW c \in Calls, ChainCancel(c) PROVE Untouched
    BY <1>11 DEF ChainCancel, CancelPending
  <1>12. ASSUME NEW c \in Calls, EndCoroutine(c) PROVE Untouched
    BY <1>12 DEF EndCoroutine, Write
  <1>13. ASSUME NEW c \in Calls, Stopped(c) PROVE Untouched
    BY <1>13 DEF Stopped
  <1>14. ASSUME NEW c \in Calls, TimeOutSync(c) PROVE Untouched
    BY <1>14 DEF TimeOutSync
  <1>15. ASSUME NEW c \in Calls, TimeOutAsync(c) PROVE Untouched
    BY <1>15 DEF TimeOutAsync
  <1>16. ASSUME NEW c \in Calls, CancelAsync(c) PROVE Untouched
    BY <1>16 DEF CancelAsync
  <1>17. ASSUME NEW c \in Calls, StopCoroutine(c) PROVE Untouched
    BY <1>17 DEF StopCoroutine
  <1>18. ASSUME NEW t \in Threads, Take(t) PROVE Untouched
    BY <1>18 DEF Take
  <1>19. ASSUME NEW t \in Threads, Run(t) PROVE Untouched
    BY <1>19 DEF Run, Write
  <1>20. ASSUME NEW t \in Threads, Skip(t) PROVE Untouched
    BY <1>20 DEF Skip
  <1>21. ASSUME NEW t \in Threads, CancelTaken(t) PROVE Untouched
    BY <1>21 DEF CancelTaken, CancelPending
  <1>22. ASSUME NEW t \in Threads, Finish(t) PROVE Untouched
    BY <1>22 DEF Finish, Write
  <1>23. ASSUME NEW t \in Threads, Break(t) PROVE Untouched
    BY <1>23 DEF Break
  <1>24. ASSUME NEW t \in Threads, Exit(t) PROVE Untouched
    BY <1>24 DEF Exit
  <1>25. CASE Shutdown
    BY <1>25 DEF Shutdown
  <1>26. CASE Drain
    BY <1>26 DEF Drain, CancelPending
  <1>27. CASE Drained
    BY <1>27 DEF Drained
  <1>28. ASSUME NEW c \in Calls, BreakInline(c) PROVE Untouched
    BY <1>28 DEF BreakInline
  <1>29. CASE UNCHANGED vars
    BY <1>29 DEF vars
  <1> QED
    BY <1>1, <1>2, <1>3, <1>4, <1>5, <1>6, <1>7, <1>8, <1>9, <1>10,
       <1>11, <1>12, <1>13, <1>14, <1>15, <1>16, <1>17, <1>18, <1>19, <1>20,
       <1>21, <1>22, <1>23, <1>24, <1>25, <1>26, <1>27, <1>28, <1>29
       DEF Next, Begin, End, ThreadStep

\* A node that ends after its call has returned, by timeout or cancellation,
\* commits nothing.
THEOREM NoLateCommit == Spec => NeverLate
  <1>1. IInv /\ [Next]_vars => [Untouched]_vars
    BY StepNeverLate
  <1> QED BY InductiveInvariant, <1>1, PTL DEF Spec, NeverLate
=============================================================================
