------------------- MODULE RedisStreamsTransport_proofs -------------------
(***************************************************************************)
(* Proofs about RedisStreamsTransport, for any number of messages,         *)
(* consumers, slots and attempts, with stops and crashes at any time.      *)
(***************************************************************************)
EXTENDS RedisStreamsTransport, FiniteSetTheorems, TLAPS

\* The types of all but the handlers.  The group comes before the first entry is
\* read: it cannot be set back later.
StreamTyped ==
    /\ life \in [Consumers -> {"down", "started", "reading", "draining"}]
    /\ group \in BOOLEAN
    /\ stream \in Seq([msg : Messages, attempt : Attempts])
    /\ delivered \in 0..Len(stream)
    /\ pel \subseteq 1..delivered
    /\ fetched \in [Consumers -> 0..delivered]
    /\ entryIds \in [Consumers -> [Messages -> 0..delivered]]
    /\ settled \subseteq Messages
    /\ failures \in [Messages -> 0..MaxAttempts]
    /\ faults \in 0..MaxFaults
    /\ \A c \in Consumers : life[c] = "reading" => group
    /\ ~group => delivered = 0

\* The handlers of a consumer are no more than its slots.
Fits(S) == /\ S \subseteq Delivery /\ IsFiniteSet(S) /\ Cardinality(S) <= Slots
           /\ \A d \in S : d.id <= delivered

HandsTyped == hand \in [Consumers -> SUBSET Delivery] /\ \A c \in Consumers : Fits(hand[c])

\* An entry is fetched by one dispatcher, or in the hands of one handler.
HandsApart ==
    /\ \A c, b \in Consumers : fetched[c] # 0 /\ fetched[c] = fetched[b] => c = b
    /\ HandedOutOnce

\* What a transport has noted for a message is an entry of that message, and who
\* is about to acknowledge has settled it, unless it retries.
EntriesNoted ==
    /\ \A c \in Consumers, m \in Messages :
          entryIds[c][m] # 0 => stream[entryIds[c][m]].msg = m
    /\ \A c \in Consumers : \A d \in hand[c] : d.step = "acking" => MsgOf(d) \in settled

\* An attempt beyond MaxAttempts stands for a failed publication, and one that is
\* about to be followed by another is below what the failures allow.
AttemptsCounted ==
    /\ \A i \in Ids : stream[i].attempt <= MaxAttempts + failures[stream[i].msg]
    /\ \A c \in Consumers : \A d \in hand[c] : d.step = "unpublished" =>
          /\ stream[d.id].attempt < MaxAttempts + failures[MsgOf(d)]
          /\ stream[d.id].attempt + 1 \in Attempts

\* The entries of m that are still to be acknowledged, and those whose retry is
\* published and which are about to be: each of these may take one of the former
\* away, and not always its own.
Outstanding(m) == {i \in Ids : stream[i].msg = m /\ (i > delivered \/ i \in pel)}
Retrying(m) ==
    {i \in Ids : /\ stream[i].msg = m
                 /\ \E c \in Consumers : [id |-> i, step |-> "retrying"] \in hand[c]}

\* There are always more to be acknowledged than will be on account of retries.
Covered ==
    \A m \in Published \ settled : Cardinality(Retrying(m)) < Cardinality(Outstanding(m))

IInv ==
    StreamTyped /\ HandsTyped /\ HandsApart /\ EntriesNoted /\ AttemptsCounted /\ Covered

-----------------------------------------------------------------------------
\* The entries of the stream, and those that handlers work on.
LEMMA EntryTyped ==
    ASSUME StreamTyped, NEW i \in Ids
    PROVE  /\ stream[i] \in [msg : Messages, attempt : Attempts]
           /\ stream[i].msg \in Messages /\ i \in Nat \ {0}
<1> DEFINE R == [msg : Messages, attempt : Attempts]
<1>1. stream \in Seq(R) /\ i \in 1..Len(stream)
  BY DEF StreamTyped, Ids
<1> HIDE DEF R
<1>2. stream[i] \in R /\ i \in Nat \ {0}
  BY <1>1
<1> QED
  BY <1>2 DEF R

LEMMA HandTyped ==
    ASSUME StreamTyped, HandsTyped, NEW c \in Consumers, NEW d \in hand[c]
    PROVE  d \in Delivery /\ d.id \in 1..delivered /\ d.id \in Ids /\ MsgOf(d) \in Messages
<1>1. d \in Delivery /\ d.id \in Nat \ {0} /\ d.id <= delivered
  BY DEF HandsTyped, Fits, Delivery
<1>2. delivered \in Nat /\ delivered <= Len(stream)
  BY DEF StreamTyped
<1>3. d.id \in 1..delivered /\ d.id \in Ids
  BY <1>1, <1>2 DEF Ids
<1> QED
  BY <1>1, <1>3, EntryTyped DEF MsgOf

\* The entry of a retry.
LEMMA RetryTyped ==
    ASSUME NEW e \in [msg : Messages, attempt : Attempts], e.attempt + 1 \in Attempts
    PROVE  [e EXCEPT !.attempt = @ + 1] \in [msg : Messages, attempt : Attempts]
<1>1. e.msg \in Messages
  OBVIOUS
<1> QED
  BY <1>1

\* The first attempt is one, and so is the one after a retry.
LEMMA AttemptTyped ==
    ASSUME TransportAssumption
    PROVE  1 \in Attempts /\ Attempts \subseteq Nat
BY DEF TransportAssumption, OptionsAccepted, Attempts

LEMMA NextAttempt ==
    ASSUME StreamTyped, HandsTyped, AttemptsCounted, TransportAssumption,
           NEW c \in Consumers, NEW d \in hand[c], Retries(d)
    PROVE  /\ stream[d.id].attempt + 1 \in Attempts
           /\ stream[d.id].attempt + 1 <= MaxAttempts + failures[MsgOf(d)]
<1>1. /\ stream[d.id].attempt \in Attempts /\ MaxAttempts \in Nat \ {0}
      /\ failures[MsgOf(d)] \in 0..MaxAttempts
  BY HandTyped, EntryTyped DEF StreamTyped, TransportAssumption, OptionsAccepted
<1>2. CASE stream[d.id].attempt < MaxAttempts
  BY <1>1, <1>2 DEF Attempts
<1>3. CASE d.step = "unpublished"
  <2>1. /\ stream[d.id].attempt < MaxAttempts + failures[MsgOf(d)]
        /\ stream[d.id].attempt + 1 \in Attempts
    BY <1>3 DEF AttemptsCounted
  <2>2. stream[d.id].attempt \in Nat
    BY <1>1 DEF Attempts
  <2> QED
    BY <1>1, <2>1, <2>2
<1> QED
  BY <1>2, <1>3 DEF Retries

\* What a failed publication leaves.
LEMMA FailedPublication ==
    ASSUME NEW c, NEW d, PublicationFails(c, d)
    PROVE  /\ UNCHANGED <<life, group, stream, delivered, pel, fetched, entryIds, faults>>
           /\ \/ Move(c, d, "unpublished") /\ settled' = settled
              \/ Move(c, d, "acking") /\ settled' = settled \cup {MsgOf(d)}
           /\ \E n \in 1..MaxAttempts : failures' = [failures EXCEPT ![MsgOf(d)] = n]
  BY DEF PublicationFails

\* Every step keeps the stream, the group and the transports in their types.
LEMMA StepStream == IInv /\ [Next]_vars => StreamTyped'
<1> SUFFICES ASSUME IInv, [Next]_vars PROVE StreamTyped'
  OBVIOUS
<1> USE TransportAssumption DEF IInv, StreamTyped, OptionsAccepted
<1>1. ASSUME NEW m \in Messages, Publish(m) PROVE StreamTyped'
  BY <1>1, AttemptTyped DEF Publish
<1>2. ASSUME NEW c \in Consumers, Start(c) PROVE StreamTyped'
  BY <1>2 DEF Start
<1>3. ASSUME NEW c \in Consumers, EnsureGroup(c) PROVE StreamTyped'
  BY <1>3 DEF EnsureGroup
<1>4. ASSUME NEW c \in Consumers, Read(c) PROVE StreamTyped'
  <2>1. /\ delivered' = delivered + 1 /\ delivered + 1 \in 0..Len(stream)
        /\ fetched' = [fetched EXCEPT ![c] = delivered + 1]
        /\ pel' = pel \cup {delivered + 1}
        /\ UNCHANGED <<life, group, stream, entryIds, settled, failures, faults>> /\ group
    BY <1>4 DEF Read
  <2>2. fetched' \in [Consumers -> 0..delivered'] /\ pel' \subseteq 1..delivered'
    BY <2>1
  <2>3. entryIds' \in [Consumers -> [Messages -> 0..delivered']]
    BY <2>1
  <2> QED
    BY <2>1, <2>2, <2>3
<1>5. ASSUME NEW c \in Consumers, Dispatch(c) PROVE StreamTyped'
  <2>1. fetched[c] \in 1..delivered /\ fetched[c] \in Ids
    BY <1>5 DEF Dispatch, Ids
  <2>2. stream[fetched[c]].msg \in Messages
    BY <2>1, EntryTyped
  <2>3. entryIds' \in [Consumers -> [Messages -> 0..delivered]]
    BY <1>5, <2>1, <2>2 DEF Dispatch
  <2> QED
    BY <1>5, <2>3 DEF Dispatch
<1>6. ASSUME NEW c \in Consumers, NEW d \in hand[c], Settle(c, d) PROVE StreamTyped'
  <2>1. MsgOf(d) \in Messages
    BY HandTyped
  <2> QED
    BY <1>6, <2>1 DEF Settle
<1>7. ASSUME NEW c \in Consumers, NEW d \in hand[c], Acknowledge(c, d) PROVE StreamTyped'
  BY <1>7 DEF Acknowledge, Xack
<1>8. ASSUME NEW c \in Consumers, NEW d \in hand[c], RetryPublish(c, d) PROVE StreamTyped'
  <2>1. stream[d.id] \in [msg : Messages, attempt : Attempts]
    BY HandTyped, EntryTyped
  <2>2. /\ stream' = Append(stream, [stream[d.id] EXCEPT !.attempt = @ + 1])
        /\ stream[d.id].attempt + 1 \in Attempts
    BY <1>8, NextAttempt, TransportAssumption DEF RetryPublish
  <2>3. [stream[d.id] EXCEPT !.attempt = @ + 1] \in [msg : Messages, attempt : Attempts]
    BY <2>1, <2>2, RetryTyped
  <2>4. /\ stream' \in Seq([msg : Messages, attempt : Attempts])
        /\ Len(stream') = Len(stream) + 1 /\ Len(stream) \in Nat
    <3> DEFINE Entry == [msg : Messages, attempt : Attempts]
    <3> DEFINE next == [stream[d.id] EXCEPT !.attempt = @ + 1]
    <3>1. stream \in Seq(Entry) /\ next \in Entry /\ stream' = Append(stream, next)
      BY <2>2, <2>3
    <3> HIDE DEF Entry, next, StreamTyped
    <3>2. /\ stream' \in Seq(Entry)
          /\ Len(stream') = Len(stream) + 1 /\ Len(stream) \in Nat
      BY <3>1
    <3> QED
      BY <3>2 DEF Entry
  <2>5. delivered \in 0..Len(stream')
    BY <2>4
  <2> HIDE DEF StreamTyped
  <2>6. UNCHANGED <<life, group, delivered, pel, fetched, entryIds, settled, failures, faults>>
    BY <1>8 DEF RetryPublish
  <2> QED
    BY <2>4, <2>5, <2>6 DEF StreamTyped
<1>9. ASSUME NEW c \in Consumers, NEW d \in hand[c], RetryAcknowledge(c, d) PROVE StreamTyped'
  BY <1>9 DEF RetryAcknowledge, Xack
<1>10. ASSUME NEW c \in Consumers, NEW d \in hand[c], Abandon(c, d) PROVE StreamTyped'
  BY <1>10 DEF Abandon, Fault
<1>11. ASSUME NEW c \in Consumers, Stop(c) PROVE StreamTyped'
  BY <1>11 DEF Stop, Fault
<1>12. ASSUME NEW c \in Consumers, Stopped(c) PROVE StreamTyped'
  BY <1>12 DEF Stopped
<1>13. ASSUME NEW c \in Consumers, Crash(c) PROVE StreamTyped'
  BY <1>13 DEF Crash, Fault
<1>15. ASSUME NEW c \in Consumers, NEW d \in hand[c], PublicationFails(c, d) PROVE StreamTyped'
  <2>1. MsgOf(d) \in Messages
    BY HandTyped
  <2>2. PICK n \in 1..MaxAttempts : failures' = [failures EXCEPT ![MsgOf(d)] = n]
    BY <1>15, FailedPublication
  <2>3. failures' \in [Messages -> 0..MaxAttempts]
    BY <2>1, <2>2
  <2>4. /\ UNCHANGED <<life, group, stream, delivered, pel, fetched, entryIds, faults>>
        /\ settled' = settled \/ settled' = settled \cup {MsgOf(d)}
    BY <1>15, FailedPublication
  <2> QED
    BY <2>1, <2>3, <2>4
<1>14. CASE UNCHANGED vars
  BY <1>14 DEF vars
<1> QED
  BY <1>1, <1>2, <1>3, <1>4, <1>5, <1>6, <1>7, <1>8, <1>9, <1>10, <1>11, <1>12, <1>13,
     <1>14, <1>15 DEF Next, ConsumerStep

\* A handler that goes on to its next step takes no more room than before, nor
\* does one that ends, or all of them.
LEMMA MoveFits ==
    ASSUME NEW S, Fits(S), NEW d \in S, NEW step \in {"handling", "unpublished", "retrying", "acking"},
           TransportAssumption
    PROVE  Fits((S \ {d}) \cup {[d EXCEPT !.step = step]})
<1> DEFINE e == [d EXCEPT !.step = step]
<1>1. d \in Delivery /\ e \in Delivery /\ e.id = d.id
  BY DEF Fits, Delivery
<1>2. IsFiniteSet(S) /\ Cardinality(S) <= Slots
  BY DEF Fits
<1> HIDE DEF e
<1>3. IsFiniteSet(S \ {d}) /\ Cardinality(S \ {d}) = Cardinality(S) - 1
  BY <1>2, FS_RemoveElement
<1>4. Cardinality(S \ {d}) \in Nat /\ Cardinality(S) \in Nat
  BY <1>2, <1>3, FS_CardinalityType
<1>5. /\ IsFiniteSet((S \ {d}) \cup {e})
      /\ Cardinality((S \ {d}) \cup {e}) \in {Cardinality(S \ {d}), Cardinality(S \ {d}) + 1}
  BY <1>3, FS_AddElement
<1>6. Cardinality((S \ {d}) \cup {e}) <= Slots
  BY <1>2, <1>3, <1>4, <1>5, TransportAssumption DEF OptionsAccepted
<1>7. Fits((S \ {d}) \cup {e})
  BY <1>1, <1>5, <1>6 DEF Fits
<1> QED
  BY <1>7 DEF e

LEMMA LessFits ==
    ASSUME NEW S, Fits(S), NEW T \in SUBSET S, TransportAssumption
    PROVE  Fits(T)
<1>1. IsFiniteSet(T) /\ Cardinality(T) <= Cardinality(S)
  BY FS_Subset DEF Fits
<1>2. Cardinality(T) \in Nat /\ Cardinality(S) \in Nat
  BY <1>1, FS_CardinalityType DEF Fits
<1> QED
  BY <1>1, <1>2, TransportAssumption DEF Fits, OptionsAccepted

\* Every step keeps the handlers of each consumer within its slots.
LEMMA StepHands == IInv /\ [Next]_vars => HandsTyped'
<1> SUFFICES ASSUME IInv, [Next]_vars PROVE HandsTyped'
  OBVIOUS
<1>f. ASSUME NEW c \in Consumers, NEW T, Fits(T), hand' = [hand EXCEPT ![c] = T],
             delivered' = delivered
      PROVE  HandsTyped'
  BY <1>f DEF HandsTyped, Fits, IInv
<1>u. ASSUME UNCHANGED <<hand, delivered>> PROVE HandsTyped'
  BY <1>u DEF HandsTyped, Fits, IInv
<1>h. \A c \in Consumers : Fits(hand[c])
  BY DEF IInv, HandsTyped
<1>m. ASSUME NEW c \in Consumers, NEW d \in hand[c],
             NEW step \in {"handling", "unpublished", "retrying", "acking"}, Move(c, d, step),
             delivered' = delivered
      PROVE  HandsTyped'
  BY <1>f, <1>h, <1>m, MoveFits, TransportAssumption DEF Move
<1>e. ASSUME NEW c \in Consumers, NEW d \in hand[c], End(c, d), delivered' = delivered
      PROVE  HandsTyped'
  <2>1. Fits(hand[c] \ {d})
    BY <1>h, LessFits, TransportAssumption
  <2> QED
    BY <1>e, <1>f, <2>1 DEF End
<1>n. ASSUME NEW c \in Consumers, hand' = [hand EXCEPT ![c] = {}], delivered' = delivered
      PROVE  HandsTyped'
  <2>1. Fits({})
    BY <1>h, LessFits, TransportAssumption
  <2> QED
    BY <1>f, <1>n, <2>1
<1>1. ASSUME NEW m \in Messages, Publish(m) PROVE HandsTyped'
  BY <1>1, <1>u DEF Publish
<1>2. ASSUME NEW c \in Consumers, Start(c) PROVE HandsTyped'
  BY <1>2, <1>u DEF Start
<1>3. ASSUME NEW c \in Consumers, EnsureGroup(c) PROVE HandsTyped'
  BY <1>3, <1>u DEF EnsureGroup, IInv, StreamTyped
<1>4. ASSUME NEW c \in Consumers, Read(c) PROVE HandsTyped'
  <2>1. hand' = hand /\ delivered' = delivered + 1 /\ delivered \in Int
    BY <1>4 DEF Read, IInv, StreamTyped
  <2> QED
    BY <2>1 DEF IInv, HandsTyped, Fits, Delivery
<1>5. ASSUME NEW c \in Consumers, Dispatch(c) PROVE HandsTyped'
  <2> DEFINE new == [id |-> fetched[c], step |-> "handling"]
  <2>1. new \in Delivery /\ new.id <= delivered
    BY <1>5 DEF Dispatch, IInv, StreamTyped, Delivery
  <2>2. Fits(hand[c]) /\ Cardinality(hand[c]) < Slots
    BY <1>5, <1>h DEF Dispatch, SlotFree
  <2> HIDE DEF new
  <2>3. /\ IsFiniteSet(hand[c] \cup {new}) /\ Cardinality(hand[c]) \in Nat
        /\ Cardinality(hand[c] \cup {new}) \in {Cardinality(hand[c]), Cardinality(hand[c]) + 1}
    BY <2>2, FS_AddElement, FS_CardinalityType DEF Fits
  <2>4. Cardinality(hand[c] \cup {new}) <= Slots
    BY <2>2, <2>3, TransportAssumption DEF OptionsAccepted
  <2>5. Fits(hand[c] \cup {new})
    BY <2>1, <2>2, <2>3, <2>4 DEF Fits
  <2>6. hand' = [hand EXCEPT ![c] = hand[c] \cup {new}] /\ delivered' = delivered
    BY <1>5 DEF Dispatch, new
  <2> QED
    BY <1>f, <2>5, <2>6
<1>6. ASSUME NEW c \in Consumers, NEW d \in hand[c], Settle(c, d) PROVE HandsTyped'
  BY <1>6, <1>m DEF Settle
<1>7. ASSUME NEW c \in Consumers, NEW d \in hand[c], Acknowledge(c, d) PROVE HandsTyped'
  BY <1>7, <1>e DEF Acknowledge
<1>8. ASSUME NEW c \in Consumers, NEW d \in hand[c], RetryPublish(c, d) PROVE HandsTyped'
  BY <1>8, <1>m DEF RetryPublish
<1>9. ASSUME NEW c \in Consumers, NEW d \in hand[c], RetryAcknowledge(c, d) PROVE HandsTyped'
  BY <1>9, <1>e DEF RetryAcknowledge
<1>10. ASSUME NEW c \in Consumers, NEW d \in hand[c], Abandon(c, d) PROVE HandsTyped'
  BY <1>10, <1>e DEF Abandon
<1>11. ASSUME NEW c \in Consumers, Stop(c) PROVE HandsTyped'
  <2>1. delivered' = delivered /\ (hand' = hand \/ hand' = [hand EXCEPT ![c] = {}])
    BY <1>11 DEF Stop
  <2> QED
    BY <1>n, <1>u, <2>1
<1>12. ASSUME NEW c \in Consumers, Stopped(c) PROVE HandsTyped'
  BY <1>12, <1>u DEF Stopped
<1>13. ASSUME NEW c \in Consumers, Crash(c) PROVE HandsTyped'
  BY <1>13, <1>n DEF Crash
<1>15. ASSUME NEW c \in Consumers, NEW d \in hand[c], PublicationFails(c, d) PROVE HandsTyped'
  <2>1. delivered' = delivered /\ (Move(c, d, "unpublished") \/ Move(c, d, "acking"))
    BY <1>15, FailedPublication
  <2> QED
    BY <1>m, <2>1
<1>14. CASE UNCHANGED vars
  BY <1>14, <1>u DEF vars
<1> QED
  BY <1>1, <1>2, <1>3, <1>4, <1>5, <1>6, <1>7, <1>8, <1>9, <1>10, <1>11, <1>12, <1>13,
     <1>14, <1>15 DEF Next, ConsumerStep

\* Every step keeps entries apart: what is fetched is new, and is handed on once.
LEMMA StepApart == IInv /\ [Next]_vars => HandsApart'
<1> SUFFICES ASSUME IInv, [Next]_vars PROVE HandsApart'
  OBVIOUS
<1>t. \A c \in Consumers : \A d \in hand[c] : d.id \in 1..delivered
  BY HandTyped DEF IInv
<1>w. fetched \in [Consumers -> 0..delivered] /\ hand \in [Consumers -> SUBSET Delivery]
  BY DEF IInv, StreamTyped, HandsTyped
<1>l. ASSUME \A c \in Consumers : /\ fetched'[c] \in {0, fetched[c]}
                                  /\ hand'[c] \subseteq hand[c]
      PROVE  HandsApart'
  <2>1. \A c \in Consumers : \A d \in hand[c] : d.id # 0
    BY <1>t
  <2> QED
    BY <1>l, <2>1 DEF IInv, HandsApart, HandedOutOnce
<1>m. ASSUME NEW c \in Consumers, NEW d \in hand[c], NEW step, Move(c, d, step), fetched' = fetched
      PROVE  HandsApart'
  <2> DEFINE e == [d EXCEPT !.step = step]
  <2>1. e.id = d.id
    BY <1>w DEF Delivery
  <2>2. hand' = [hand EXCEPT ![c] = (@ \ {d}) \cup {e}]
    BY <1>m DEF Move
  <2> HIDE DEF e
  <2>3. \A b \in Consumers : \A x \in hand'[b] :
           (x \in hand[b] /\ ~(b = c /\ x = d)) \/ (b = c /\ x = e)
    BY <1>w, <2>2
  <2> QED
    BY <1>m, <2>1, <2>3 DEF IInv, HandsApart, HandedOutOnce
<1>e. ASSUME NEW c \in Consumers, NEW d \in hand[c], End(c, d), fetched' = fetched
      PROVE  HandsApart'
  BY <1>e, <1>l, <1>w DEF End
<1>1. ASSUME NEW m \in Messages, Publish(m) PROVE HandsApart'
  BY <1>1, <1>l DEF Publish
<1>2. ASSUME NEW c \in Consumers, Start(c) PROVE HandsApart'
  BY <1>2, <1>l DEF Start
<1>3. ASSUME NEW c \in Consumers, EnsureGroup(c) PROVE HandsApart'
  BY <1>3, <1>l DEF EnsureGroup
<1>4. ASSUME NEW c \in Consumers, Read(c) PROVE HandsApart'
  <2>1. /\ fetched' = [fetched EXCEPT ![c] = delivered + 1] /\ hand' = hand
        /\ delivered \in Nat /\ fetched \in [Consumers -> 0..delivered]
    BY <1>4 DEF Read, IInv, StreamTyped
  <2>2. \A b \in Consumers : fetched[b] # delivered + 1
    BY <2>1
  <2>3. \A b \in Consumers : \A d \in hand[b] : d.id # delivered + 1
    BY <1>t, <2>1
  <2> QED
    BY <2>1, <2>2, <2>3 DEF IInv, HandsApart, HandedOutOnce
<1>5. ASSUME NEW c \in Consumers, Dispatch(c) PROVE HandsApart'
  <2> DEFINE new == [id |-> fetched[c], step |-> "handling"]
  <2>1. /\ fetched' = [fetched EXCEPT ![c] = 0] /\ fetched[c] # 0
        /\ hand' = [hand EXCEPT ![c] = @ \cup {new}]
        /\ fetched \in [Consumers -> 0..delivered] /\ hand \in [Consumers -> SUBSET Delivery]
    BY <1>5 DEF Dispatch, IInv, StreamTyped, HandsTyped
  <2>2. new.id = fetched[c]
    OBVIOUS
  <2> HIDE DEF new
  <2>3. \A b \in Consumers : \A d \in hand'[b] : d \in hand[b] \/ (b = c /\ d = new)
    BY <2>1
  <2>4. \A b \in Consumers : fetched'[b] = IF b = c THEN 0 ELSE fetched[b]
    BY <2>1
  <2>5. \A b \in Consumers : \A d \in hand'[b] : d.id # 0
    BY <1>t, <2>1, <2>2, <2>3
  <2> QED
    BY <2>1, <2>2, <2>3, <2>4, <2>5 DEF IInv, HandsApart, HandedOutOnce
<1>6. ASSUME NEW c \in Consumers, NEW d \in hand[c], Settle(c, d) PROVE HandsApart'
  BY <1>6, <1>m DEF Settle
<1>7. ASSUME NEW c \in Consumers, NEW d \in hand[c], Acknowledge(c, d) PROVE HandsApart'
  BY <1>7, <1>e DEF Acknowledge
<1>8. ASSUME NEW c \in Consumers, NEW d \in hand[c], RetryPublish(c, d) PROVE HandsApart'
  BY <1>8, <1>m DEF RetryPublish
<1>9. ASSUME NEW c \in Consumers, NEW d \in hand[c], RetryAcknowledge(c, d) PROVE HandsApart'
  BY <1>9, <1>e DEF RetryAcknowledge
<1>10. ASSUME NEW c \in Consumers, NEW d \in hand[c], Abandon(c, d) PROVE HandsApart'
  BY <1>10, <1>e DEF Abandon
<1>11. ASSUME NEW c \in Consumers, Stop(c) PROVE HandsApart'
  <2>1. /\ fetched' = [fetched EXCEPT ![c] = 0]
        /\ hand' = hand \/ hand' = [hand EXCEPT ![c] = {}]
    BY <1>11 DEF Stop
  <2> QED
    BY <1>l, <1>w, <2>1
<1>12. ASSUME NEW c \in Consumers, Stopped(c) PROVE HandsApart'
  BY <1>12, <1>l DEF Stopped
<1>13. ASSUME NEW c \in Consumers, Crash(c) PROVE HandsApart'
  BY <1>13, <1>l, <1>w DEF Crash
<1>15. ASSUME NEW c \in Consumers, NEW d \in hand[c], PublicationFails(c, d) PROVE HandsApart'
  <2>1. fetched' = fetched /\ (Move(c, d, "unpublished") \/ Move(c, d, "acking"))
    BY <1>15, FailedPublication
  <2> QED
    BY <1>m, <2>1
<1>14. CASE UNCHANGED vars
  BY <1>14, <1>l DEF vars
<1> QED
  BY <1>1, <1>2, <1>3, <1>4, <1>5, <1>6, <1>7, <1>8, <1>9, <1>10, <1>11, <1>12, <1>13,
     <1>14, <1>15 DEF Next, ConsumerStep

\* Every step keeps the attempts within what failed publications allow.
LEMMA StepCounted == IInv /\ [Next]_vars => AttemptsCounted'
<1> SUFFICES ASSUME IInv, [Next]_vars PROVE AttemptsCounted'
  OBVIOUS
<1>s. /\ stream \in Seq([msg : Messages, attempt : Attempts]) /\ Len(stream) \in Nat
      /\ failures \in [Messages -> 0..MaxAttempts] /\ hand \in [Consumers -> SUBSET Delivery]
      /\ MaxAttempts \in Nat \ {0}
  BY TransportAssumption DEF IInv, StreamTyped, HandsTyped, OptionsAccepted
<1>i. \A c \in Consumers : \A d \in hand[c] : d.id \in Ids
  BY HandTyped DEF IInv
<1>e. \A i \in Ids : stream[i].attempt \in Nat /\ stream[i].msg \in Messages
  BY EntryTyped, AttemptTyped, TransportAssumption DEF IInv
<1>l. ASSUME \A i \in Ids : stream'[i] = stream[i],
             \A i \in Ids' \ Ids : stream'[i].attempt <= MaxAttempts + failures[stream'[i].msg],
             failures' = failures,
             \A c \in Consumers : \A d \in hand'[c] : d.step = "unpublished" => d \in hand[c]
      PROVE  AttemptsCounted'
  BY <1>i, <1>l DEF IInv, AttemptsCounted, MsgOf
<1>k. ASSUME stream' = stream, failures' = failures,
             \A c \in Consumers : \A d \in hand'[c] : d.step = "unpublished" => d \in hand[c]
      PROVE  AttemptsCounted'
  BY <1>k, <1>l DEF Ids
<1>1. ASSUME NEW m \in Messages, Publish(m) PROVE AttemptsCounted'
  <2>1. /\ \A i \in Ids : stream'[i] = stream[i]
        /\ Ids' \ Ids = {Len(stream) + 1}
        /\ stream'[Len(stream) + 1] = [msg |-> m, attempt |-> 1]
    BY <1>1, <1>s DEF Publish, Ids
  <2>2. \A i \in Ids' \ Ids : stream'[i].attempt <= MaxAttempts + failures[stream'[i].msg]
    BY <1>s, <2>1
  <2>3. UNCHANGED <<failures, hand>>
    BY <1>1 DEF Publish
  <2> QED
    BY <1>l, <2>1, <2>2, <2>3
<1>2. ASSUME NEW c \in Consumers, Start(c) PROVE AttemptsCounted'
  BY <1>2, <1>k DEF Start
<1>3. ASSUME NEW c \in Consumers, EnsureGroup(c) PROVE AttemptsCounted'
  BY <1>3, <1>k DEF EnsureGroup
<1>4. ASSUME NEW c \in Consumers, Read(c) PROVE AttemptsCounted'
  BY <1>4, <1>k DEF Read
<1>5. ASSUME NEW c \in Consumers, Dispatch(c) PROVE AttemptsCounted'
  BY <1>5, <1>k, <1>s DEF Dispatch
<1>6. ASSUME NEW c \in Consumers, NEW d \in hand[c], Settle(c, d) PROVE AttemptsCounted'
  BY <1>6, <1>k, <1>s DEF Settle, Move, Delivery
<1>7. ASSUME NEW c \in Consumers, NEW d \in hand[c], Acknowledge(c, d) PROVE AttemptsCounted'
  BY <1>7, <1>k, <1>s DEF Acknowledge, End
<1>8. ASSUME NEW c \in Consumers, NEW d \in hand[c], RetryPublish(c, d) PROVE AttemptsCounted'
  <2> DEFINE next == [stream[d.id] EXCEPT !.attempt = @ + 1]
  <2>1. d.id \in Ids /\ stream[d.id] \in [msg : Messages, attempt : Attempts]
    BY <1>i, EntryTyped DEF IInv
  <2>2. next.msg = MsgOf(d) /\ next.attempt = stream[d.id].attempt + 1
    BY <2>1 DEF MsgOf
  <2>3. stream' = Append(stream, next) /\ Retries(d) /\ failures' = failures
    BY <1>8 DEF RetryPublish
  <2>4. next.attempt <= MaxAttempts + failures[next.msg]
    BY <2>2, <2>3, NextAttempt, TransportAssumption DEF IInv
  <2> HIDE DEF next
  <2>5. /\ \A i \in Ids : stream'[i] = stream[i]
        /\ Ids' \ Ids = {Len(stream) + 1} /\ stream'[Len(stream) + 1] = next
    BY <1>s, <2>3 DEF Ids
  <2>6. \A i \in Ids' \ Ids : stream'[i].attempt <= MaxAttempts + failures[stream'[i].msg]
    BY <2>4, <2>5
  <2>7. \A b \in Consumers : \A x \in hand'[b] : x.step = "unpublished" => x \in hand[b]
    BY <1>8, <1>s DEF RetryPublish, Move, Delivery
  <2> QED
    BY <1>l, <2>3, <2>5, <2>6, <2>7
<1>9. ASSUME NEW c \in Consumers, NEW d \in hand[c], RetryAcknowledge(c, d)
      PROVE  AttemptsCounted'
  BY <1>9, <1>k, <1>s DEF RetryAcknowledge, End
<1>10. ASSUME NEW c \in Consumers, NEW d \in hand[c], Abandon(c, d) PROVE AttemptsCounted'
  BY <1>10, <1>k, <1>s DEF Abandon, End
<1>11. ASSUME NEW c \in Consumers, Stop(c) PROVE AttemptsCounted'
  <2>1. /\ UNCHANGED <<stream, failures>>
        /\ hand' = hand \/ hand' = [hand EXCEPT ![c] = {}]
    BY <1>11 DEF Stop
  <2> QED
    BY <1>k, <1>s, <2>1
<1>12. ASSUME NEW c \in Consumers, Stopped(c) PROVE AttemptsCounted'
  BY <1>12, <1>k DEF Stopped
<1>13. ASSUME NEW c \in Consumers, Crash(c) PROVE AttemptsCounted'
  BY <1>13, <1>k, <1>s DEF Crash
<1>15. ASSUME NEW c \in Consumers, NEW d \in hand[c], PublicationFails(c, d)
       PROVE  AttemptsCounted'
  <2>1. PICK n \in 1..MaxAttempts :
           /\ n > failures[MsgOf(d)] \/ n = MaxAttempts
           /\ failures' = [failures EXCEPT ![MsgOf(d)] = n]
           /\ \/ n < MaxAttempts /\ Move(c, d, "unpublished")
              \/ n = MaxAttempts /\ Move(c, d, "acking")
    BY <1>15 DEF PublicationFails
  <2>2. stream' = stream /\ MsgOf(d) \in Messages /\ d.id \in Ids
    BY <1>15, <1>i, HandTyped DEF PublicationFails, IInv
  <2>3. \A m \in Messages : failures[m] <= failures'[m] /\ failures[m] \in Nat /\ failures'[m] \in Nat
    BY <1>s, <2>1, <2>2
  <2>4. \A b \in Consumers : \A x \in hand'[b] : x.step = "unpublished" =>
           x \in hand[b] \/ (x.id = d.id /\ n < MaxAttempts)
    <3>1. CASE n < MaxAttempts /\ Move(c, d, "unpublished")
      <4>1. \A b \in Consumers : \A x \in hand'[b] : x \in hand[b] \/ x.id = d.id
        BY <1>s, <3>1 DEF Move, Delivery
      <4> QED
        BY <3>1, <4>1
    <3>2. CASE Move(c, d, "acking")
      <4>1. \A b \in Consumers : \A x \in hand'[b] : x \in hand[b] \/ x.step = "acking"
        BY <1>s, <3>2 DEF Move, Delivery
      <4> QED
        BY <4>1
    <3> QED
      BY <2>1, <3>1, <3>2
  <2>5. stream[d.id].attempt <= MaxAttempts + failures[MsgOf(d)]
    BY <2>2 DEF IInv, AttemptsCounted, MsgOf
  <2>6. n < MaxAttempts => /\ stream[d.id].attempt < MaxAttempts + failures'[MsgOf(d)]
                           /\ stream[d.id].attempt + 1 \in Attempts
    <3>1. n < MaxAttempts => n > failures[MsgOf(d)] /\ failures'[MsgOf(d)] = n
      BY <1>s, <2>1, <2>2
    <3>2. stream[d.id].attempt \in Nat /\ failures[MsgOf(d)] \in Nat
      BY <1>e, <2>2, <2>3
    <3>3. stream[d.id].attempt \in Attempts /\ n \in Nat /\ MaxAttempts \in Nat
      BY <1>s, <2>2, EntryTyped DEF IInv
    <3>4. ASSUME n < MaxAttempts PROVE stream[d.id].attempt < MaxAttempts + n
      BY <2>5, <3>1, <3>2, <3>3, <3>4
    <3>5. ASSUME n < MaxAttempts PROVE stream[d.id].attempt + 1 <= 2 * MaxAttempts - 1
      BY <3>2, <3>3, <3>4, <3>5
    <3>6. ASSUME n < MaxAttempts PROVE stream[d.id].attempt + 1 \in Attempts
      BY <3>2, <3>3, <3>5, <3>6 DEF Attempts
    <3> QED
      BY <3>1, <3>4, <3>6
  <2>7. \A i \in Ids : stream[i].attempt <= MaxAttempts + failures'[stream[i].msg]
    <3> SUFFICES ASSUME NEW i \in Ids
                 PROVE  stream[i].attempt <= MaxAttempts + failures'[stream[i].msg]
      OBVIOUS
    <3>1. stream[i].attempt <= MaxAttempts + failures[stream[i].msg]
      BY DEF IInv, AttemptsCounted
    <3> QED
      BY <1>e, <1>s, <2>3, <3>1
  <2>8. ASSUME NEW b \in Consumers, NEW x \in hand'[b], x.step = "unpublished"
        PROVE  /\ stream[x.id].attempt < MaxAttempts + failures'[MsgOf(x)]
               /\ stream[x.id].attempt + 1 \in Attempts
    <3>1. CASE x \in hand[b]
      <4>1. /\ stream[x.id].attempt < MaxAttempts + failures[MsgOf(x)]
            /\ stream[x.id].attempt + 1 \in Attempts
        BY <2>8, <3>1 DEF IInv, AttemptsCounted
      <4>2. x.id \in Ids /\ MsgOf(x) \in Messages
        BY <1>e, <1>i, <3>1 DEF MsgOf
      <4> QED
        BY <1>e, <1>s, <2>3, <4>1, <4>2
    <3>2. CASE x.id = d.id /\ n < MaxAttempts
      BY <2>6, <3>2 DEF MsgOf
    <3> QED
      BY <2>4, <2>8, <3>1, <3>2
  <2> QED
    BY <2>2, <2>7, <2>8 DEF AttemptsCounted, MsgOf, Ids
<1>14. CASE UNCHANGED vars
  BY <1>14, <1>k DEF vars
<1> QED
  BY <1>1, <1>2, <1>3, <1>4, <1>5, <1>6, <1>7, <1>8, <1>9, <1>10, <1>11, <1>12, <1>13,
     <1>14, <1>15 DEF Next, ConsumerStep

\* Every step keeps the noted entries right, and who acknowledges has settled.
LEMMA StepNoted == IInv /\ [Next]_vars => EntriesNoted'
<1> SUFFICES ASSUME IInv, [Next]_vars PROVE EntriesNoted'
  OBVIOUS
<1>s. stream \in Seq([msg : Messages, attempt : Attempts])
  BY DEF IInv, StreamTyped
<1>w. /\ hand \in [Consumers -> SUBSET Delivery]
      /\ entryIds \in [Consumers -> [Messages -> 0..delivered]]
  BY DEF IInv, StreamTyped, HandsTyped
<1>i. /\ \A c \in Consumers : \A d \in hand[c] : d.id \in Ids
      /\ \A c \in Consumers, m \in Messages : entryIds[c][m] # 0 => entryIds[c][m] \in Ids
  <2>1. delivered \in 0..Len(stream) /\ Len(stream) \in Nat
    BY DEF IInv, StreamTyped
  <2> QED
    BY <1>w, <2>1, HandTyped DEF IInv, Ids
<1>l. ASSUME \A i \in Ids : stream'[i] = stream[i],
             \A c \in Consumers, m \in Messages : entryIds'[c][m] \in {0, entryIds[c][m]},
             \A c \in Consumers : hand'[c] \subseteq hand[c],
             settled' = settled
      PROVE  EntriesNoted'
  BY <1>i, <1>l DEF IInv, EntriesNoted, MsgOf
<1>1. ASSUME NEW m \in Messages, Publish(m) PROVE EntriesNoted'
  <2>1. \A i \in Ids : stream'[i] = stream[i]
    BY <1>1, <1>s DEF Publish, Ids
  <2> QED
    BY <1>1, <1>l, <2>1 DEF Publish
<1>2. ASSUME NEW c \in Consumers, Start(c) PROVE EntriesNoted'
  BY <1>2, <1>l DEF Start
<1>3. ASSUME NEW c \in Consumers, EnsureGroup(c) PROVE EntriesNoted'
  BY <1>3, <1>l DEF EnsureGroup
<1>4. ASSUME NEW c \in Consumers, Read(c) PROVE EntriesNoted'
  BY <1>4, <1>l DEF Read
<1>5. ASSUME NEW c \in Consumers, Dispatch(c) PROVE EntriesNoted'
  <2> DEFINE new == [id |-> fetched[c], step |-> "handling"]
  <2>1. /\ entryIds' = [entryIds EXCEPT ![c][stream[fetched[c]].msg] = fetched[c]]
        /\ hand' = [hand EXCEPT ![c] = @ \cup {new}]
        /\ stream' = stream /\ settled' = settled
    BY <1>5 DEF Dispatch
  <2>2. new.step # "acking"
    OBVIOUS
  <2> HIDE DEF new
  <2>3. \A b \in Consumers : \A d \in hand'[b] : d \in hand[b] \/ d = new
    BY <1>w, <2>1
  <2>4. \A b \in Consumers, m \in Messages : entryIds'[b][m] # 0 =>
           stream'[entryIds'[b][m]].msg = m
    BY <1>w, <2>1 DEF IInv, EntriesNoted
  <2>5. \A b \in Consumers : \A d \in hand'[b] : d.step = "acking" => MsgOf(d)' \in settled'
    BY <2>1, <2>2, <2>3 DEF IInv, EntriesNoted, MsgOf
  <2> QED
    BY <2>4, <2>5 DEF EntriesNoted
<1>6. ASSUME NEW c \in Consumers, NEW d \in hand[c], Settle(c, d) PROVE EntriesNoted'
  <2>1. stream' = stream /\ entryIds' = entryIds /\ settled' = settled \cup {MsgOf(d)}
    BY <1>6 DEF Settle
  <2>2. \A b \in Consumers : \A x \in hand'[b] : x \in hand[b] \/ x.id = d.id
    BY <1>6, <1>w DEF Settle, Move, Delivery
  <2>3. \A b \in Consumers : \A x \in hand'[b] : x.step = "acking" => MsgOf(x)' \in settled'
    BY <2>1, <2>2 DEF IInv, EntriesNoted, MsgOf
  <2> QED
    BY <2>1, <2>3 DEF IInv, EntriesNoted
<1>7. ASSUME NEW c \in Consumers, NEW d \in hand[c], Acknowledge(c, d) PROVE EntriesNoted'
  BY <1>7, <1>l, <1>w DEF Acknowledge, End
<1>8. ASSUME NEW c \in Consumers, NEW d \in hand[c], RetryPublish(c, d) PROVE EntriesNoted'
  <2>1. \A i \in Ids : stream'[i] = stream[i]
    BY <1>8, <1>s DEF RetryPublish, Ids
  <2>2. entryIds' = entryIds /\ settled' = settled
    BY <1>8 DEF RetryPublish
  <2>3. \A b \in Consumers : \A x \in hand'[b] : x \in hand[b] \/ x.step # "acking"
    BY <1>8, <1>w DEF RetryPublish, Move, Delivery
  <2>4. \A b \in Consumers : \A x \in hand'[b] : x.step = "acking" => MsgOf(x)' \in settled'
    BY <1>i, <2>1, <2>2, <2>3 DEF IInv, EntriesNoted, MsgOf
  <2>5. \A b \in Consumers, m \in Messages : entryIds'[b][m] # 0 =>
           stream'[entryIds'[b][m]].msg = m
    BY <1>i, <2>1, <2>2 DEF IInv, EntriesNoted
  <2> QED
    BY <2>4, <2>5 DEF EntriesNoted
<1>9. ASSUME NEW c \in Consumers, NEW d \in hand[c], RetryAcknowledge(c, d) PROVE EntriesNoted'
  BY <1>9, <1>l, <1>w DEF RetryAcknowledge, End
<1>10. ASSUME NEW c \in Consumers, NEW d \in hand[c], Abandon(c, d) PROVE EntriesNoted'
  BY <1>10, <1>l, <1>w DEF Abandon, End
<1>11. ASSUME NEW c \in Consumers, Stop(c) PROVE EntriesNoted'
  <2>1. /\ UNCHANGED <<stream, entryIds, settled>>
        /\ hand' = hand \/ hand' = [hand EXCEPT ![c] = {}]
    BY <1>11 DEF Stop
  <2> QED
    BY <1>l, <1>w, <2>1
<1>12. ASSUME NEW c \in Consumers, Stopped(c) PROVE EntriesNoted'
  BY <1>12, <1>l DEF Stopped
<1>13. ASSUME NEW c \in Consumers, Crash(c) PROVE EntriesNoted'
  <2>1. /\ UNCHANGED <<stream, settled>> /\ hand' = [hand EXCEPT ![c] = {}]
        /\ entryIds' = [entryIds EXCEPT ![c] = [m \in Messages |-> 0]]
    BY <1>13 DEF Crash
  <2> QED
    BY <1>l, <1>w, <2>1
<1>15. ASSUME NEW c \in Consumers, NEW d \in hand[c], PublicationFails(c, d) PROVE EntriesNoted'
  <2>1. /\ stream' = stream /\ entryIds' = entryIds
        /\ \/ Move(c, d, "unpublished") /\ settled' = settled
           \/ Move(c, d, "acking") /\ settled' = settled \cup {MsgOf(d)}
    BY <1>15, FailedPublication
  <2>2. CASE Move(c, d, "unpublished") /\ settled' = settled
    <3>1. \A b \in Consumers : \A x \in hand'[b] : x \in hand[b] \/ x.step # "acking"
      BY <1>w, <2>2 DEF Move, Delivery
    <3>2. \A b \in Consumers : \A x \in hand'[b] : x.step = "acking" => MsgOf(x)' \in settled'
      BY <2>1, <2>2, <3>1 DEF IInv, EntriesNoted, MsgOf
    <3> QED
      BY <2>1, <3>2 DEF IInv, EntriesNoted
  <2>3. CASE Move(c, d, "acking") /\ settled' = settled \cup {MsgOf(d)}
    <3>1. \A b \in Consumers : \A x \in hand'[b] : x \in hand[b] \/ x.id = d.id
      BY <1>w, <2>3 DEF Move, Delivery
    <3>2. \A b \in Consumers : \A x \in hand'[b] : x.step = "acking" => MsgOf(x)' \in settled'
      BY <2>1, <2>3, <3>1 DEF IInv, EntriesNoted, MsgOf
    <3> QED
      BY <2>1, <3>2 DEF IInv, EntriesNoted
  <2> QED
    BY <2>1, <2>2, <2>3
<1>14. CASE UNCHANGED vars
  BY <1>14, <1>l DEF vars
<1> QED
  BY <1>1, <1>2, <1>3, <1>4, <1>5, <1>6, <1>7, <1>8, <1>9, <1>10, <1>11, <1>12, <1>13,
     <1>14, <1>15 DEF Next, ConsumerStep

-----------------------------------------------------------------------------
\* Retries and what is outstanding are finite, as the stream is.
LEMMA Finite ==
    ASSUME StreamTyped, NEW m
    PROVE  /\ IsFiniteSet(Retrying(m)) /\ IsFiniteSet(Outstanding(m))
           /\ Cardinality(Retrying(m)) \in Nat /\ Cardinality(Outstanding(m)) \in Nat
<1>1. IsFiniteSet(Ids)
  BY FS_Interval DEF StreamTyped, Ids
<1>2. Retrying(m) \in SUBSET Ids /\ Outstanding(m) \in SUBSET Ids
  BY DEF Retrying, Outstanding
<1> QED
  BY <1>1, <1>2, FS_Subset, FS_CardinalityType

\* Fewer retries or more that is outstanding keep the balance; so do one more of
\* each, and one less of each.
LEMMA BalanceKept ==
    ASSUME NEW R, NEW O, NEW P, NEW Q, IsFiniteSet(R), IsFiniteSet(O), IsFiniteSet(Q),
           Cardinality(R) < Cardinality(O), P \subseteq R, O \subseteq Q
    PROVE  Cardinality(P) < Cardinality(Q)
<1>1. Cardinality(P) <= Cardinality(R) /\ Cardinality(O) <= Cardinality(Q) /\ IsFiniteSet(P)
  BY FS_Subset
<1>2. {Cardinality(P), Cardinality(R), Cardinality(O), Cardinality(Q)} \subseteq Nat
  BY <1>1, FS_CardinalityType
<1> QED
  BY <1>1, <1>2

LEMMA BalanceUp ==
    ASSUME NEW R, NEW O, IsFiniteSet(R), IsFiniteSet(O),
           Cardinality(R) < Cardinality(O), NEW r, NEW o, o \notin O
    PROVE  Cardinality(R \cup {r}) < Cardinality(O \cup {o})
<1>1. Cardinality(R \cup {r}) \in {Cardinality(R), Cardinality(R) + 1}
  BY FS_AddElement
<1>2. Cardinality(O \cup {o}) = Cardinality(O) + 1
  BY FS_AddElement
<1>3. Cardinality(R) \in Nat /\ Cardinality(O) \in Nat
  BY FS_CardinalityType
<1> QED
  BY <1>1, <1>2, <1>3

LEMMA BalanceDown ==
    ASSUME NEW R, NEW O, IsFiniteSet(R), IsFiniteSet(O),
           Cardinality(R) < Cardinality(O), NEW r \in R, NEW o
    PROVE  Cardinality(R \ {r}) < Cardinality(O \ {o})
<1>1. Cardinality(R \ {r}) = Cardinality(R) - 1
  BY FS_RemoveElement
<1>2. Cardinality(O \ {o}) \in {Cardinality(O), Cardinality(O) - 1}
  BY FS_RemoveElement
<1>3. Cardinality(R) \in Nat /\ Cardinality(O) \in Nat
  BY FS_CardinalityType
<1> QED
  BY <1>1, <1>2, <1>3

\* Every step keeps more outstanding than is being retried.
LEMMA StepCovered == IInv /\ [Next]_vars => Covered'
<1> SUFFICES ASSUME IInv, [Next]_vars PROVE Covered'
  OBVIOUS
<1>w. /\ hand \in [Consumers -> SUBSET Delivery]
      /\ delivered \in 0..Len(stream) /\ Len(stream) \in Nat
      /\ stream \in Seq([msg : Messages, attempt : Attempts])
      /\ (~group => delivered = 0)
  BY DEF IInv, StreamTyped, HandsTyped
<1>h. \A c \in Consumers : \A d \in hand[c] : d \in Delivery /\ d.id \in Ids
  BY HandTyped DEF IInv
<1>f. /\ \A n : /\ IsFiniteSet(Retrying(n)) /\ IsFiniteSet(Outstanding(n))
                /\ Cardinality(Retrying(n)) \in Nat /\ Cardinality(Outstanding(n)) \in Nat
      /\ \A n : /\ IsFiniteSet(Retrying(n)') /\ IsFiniteSet(Outstanding(n)')
                /\ Cardinality(Retrying(n)') \in Nat /\ Cardinality(Outstanding(n)') \in Nat
  <2>1. StreamTyped /\ StreamTyped'
    BY StepStream DEF IInv
  <2>2. ASSUME NEW n
        PROVE  /\ IsFiniteSet(Retrying(n)) /\ IsFiniteSet(Outstanding(n))
               /\ Cardinality(Retrying(n)) \in Nat /\ Cardinality(Outstanding(n)) \in Nat
    BY <2>1, Finite
  <2>3. IsFiniteSet(Ids')
    BY <2>1, FS_Interval DEF StreamTyped, Ids
  <2>4. ASSUME NEW n
        PROVE  /\ IsFiniteSet(Retrying(n)') /\ IsFiniteSet(Outstanding(n)')
               /\ Cardinality(Retrying(n)') \in Nat /\ Cardinality(Outstanding(n)') \in Nat
    <3>1. Retrying(n)' \in SUBSET Ids' /\ Outstanding(n)' \in SUBSET Ids'
      BY DEF Retrying, Outstanding
    <3> QED
      BY <2>3, <3>1, FS_Subset, FS_CardinalityType
  <2> QED
    BY <2>2, <2>4
<1>x. \A c \in Consumers : \A d \in hand[c] :
         entryIds[c][MsgOf(d)] # 0 => stream[entryIds[c][MsgOf(d)]].msg = MsgOf(d)
  BY HandTyped DEF IInv, EntriesNoted
<1>k. \A n : n \in Published \ settled /\ Retrying(n)' \subseteq Retrying(n)
                /\ Outstanding(n) \subseteq Outstanding(n)' =>
             Cardinality(Retrying(n)') < Cardinality(Outstanding(n)')
  BY <1>f, BalanceKept DEF IInv, Covered
<1>r. ASSUME stream' = stream, settled \subseteq settled',
             \A c \in Consumers : \A d \in hand'[c] : d.step = "retrying" => d \in hand[c],
             \A n : n \notin settled' => Outstanding(n) \subseteq Outstanding(n)'
      PROVE  Covered'
  <2>1. \A n : Retrying(n)' \subseteq Retrying(n)
    BY <1>r DEF Retrying, Ids
  <2>2. Published' = Published
    BY <1>r DEF Published, Ids
  <2> QED
    BY <1>k, <1>r, <2>1, <2>2 DEF Covered
<1>s. ASSUME stream' = stream, settled' = settled, pel' = pel, delivered' = delivered,
             \A c \in Consumers : hand'[c] \subseteq hand[c]
      PROVE  Covered'
  <2>1. \A n : Outstanding(n)' = Outstanding(n)
    BY <1>s DEF Outstanding, Ids
  <2> QED
    BY <1>r, <1>s, <2>1
<1>1. ASSUME NEW m \in Messages, Publish(m) PROVE Covered'
  <2>1. /\ stream' = Append(stream, [msg |-> m, attempt |-> 1])
        /\ UNCHANGED <<delivered, pel, hand, settled>> /\ m \notin Published
    BY <1>1 DEF Publish
  <2>2. /\ \A i \in Ids : stream'[i] = stream[i]
        /\ Ids' = Ids \cup {Len(stream) + 1} /\ stream'[Len(stream) + 1].msg = m
        /\ Len(stream) + 1 \notin Ids /\ Len(stream) + 1 > delivered
    BY <1>w, <2>1 DEF Ids
  <2>3. ASSUME NEW n \in Published' \ settled'
        PROVE  Cardinality(Retrying(n)') < Cardinality(Outstanding(n)')
    <3>1. CASE n = m
      <4>1. Retrying(n)' = {}
        BY <1>h, <2>1, <2>2, <3>1 DEF Retrying, Published
      <4>2. Len(stream) + 1 \in Outstanding(n)'
        BY <2>1, <2>2, <3>1 DEF Outstanding
      <4> QED
        BY <1>f, <4>1, <4>2, FS_EmptySet, FS_CardinalityType
    <3>2. CASE n # m
      <4>1. n \in Published \ settled
        BY <2>1, <2>2, <2>3, <3>2 DEF Published
      <4>2. Retrying(n)' \subseteq Retrying(n)
        <5> SUFFICES ASSUME NEW i \in Retrying(n)' PROVE i \in Retrying(n)
          OBVIOUS
        <5>1. i \in Ids /\ stream[i].msg = n
          BY <2>2, <3>2 DEF Retrying
        <5> QED
          BY <2>1, <5>1 DEF Retrying
      <4>3. Outstanding(n) \subseteq Outstanding(n)'
        BY <2>1, <2>2 DEF Outstanding
      <4> QED
        BY <1>k, <4>1, <4>2, <4>3
    <3> QED
      BY <3>1, <3>2
  <2> QED
    BY <2>3 DEF Covered
<1>2. ASSUME NEW c \in Consumers, Start(c) PROVE Covered'
  BY <1>2, <1>s DEF Start
<1>3. ASSUME NEW c \in Consumers, EnsureGroup(c) PROVE Covered'
  BY <1>3, <1>s, <1>w DEF EnsureGroup
<1>4. ASSUME NEW c \in Consumers, Read(c) PROVE Covered'
  <2>1. /\ delivered' = delivered + 1 /\ pel' = pel \cup {delivered + 1}
        /\ UNCHANGED <<stream, hand, settled>>
    BY <1>4 DEF Read
  <2>2. \A n : Outstanding(n) \subseteq Outstanding(n)'
    BY <1>w, <2>1 DEF Outstanding, Ids
  <2> QED
    BY <1>r, <2>1, <2>2
<1>5. ASSUME NEW c \in Consumers, Dispatch(c) PROVE Covered'
  <2>1. /\ UNCHANGED <<stream, delivered, pel, settled>>
        /\ hand' = [hand EXCEPT ![c] = @ \cup {[id |-> fetched[c], step |-> "handling"]}]
    BY <1>5 DEF Dispatch
  <2>2. \A b \in Consumers : \A x \in hand'[b] : x.step = "retrying" => x \in hand[b]
    BY <1>w, <2>1
  <2>3. \A n : Outstanding(n)' = Outstanding(n)
    BY <2>1 DEF Outstanding, Ids
  <2> QED
    BY <1>r, <2>1, <2>2, <2>3
<1>6. ASSUME NEW c \in Consumers, NEW d \in hand[c], Settle(c, d) PROVE Covered'
  <2>1. UNCHANGED <<stream, delivered, pel>> /\ settled \subseteq settled'
    BY <1>6 DEF Settle
  <2>2. \A b \in Consumers : \A x \in hand'[b] : x.step = "retrying" => x \in hand[b]
    BY <1>6, <1>w DEF Settle, Move, Delivery
  <2>3. \A n : Outstanding(n)' = Outstanding(n)
    BY <2>1 DEF Outstanding, Ids
  <2> QED
    BY <1>r, <2>1, <2>2, <2>3
<1>7. ASSUME NEW c \in Consumers, NEW d \in hand[c], Acknowledge(c, d) PROVE Covered'
  <2>1. /\ UNCHANGED <<stream, delivered, settled>> /\ MsgOf(d) \in settled
        /\ pel' = pel \ {entryIds[c][MsgOf(d)]}
    BY <1>7 DEF Acknowledge, Xack, IInv, EntriesNoted
  <2>2. \A b \in Consumers : hand'[b] \subseteq hand[b]
    BY <1>7, <1>w DEF Acknowledge, End
  <2>3. \A n : n \notin settled => Outstanding(n)' = Outstanding(n)
    BY <1>x, <2>1 DEF Outstanding, Ids
  <2> QED
    BY <1>r, <2>1, <2>2, <2>3
<1>8. ASSUME NEW c \in Consumers, NEW d \in hand[c], RetryPublish(c, d) PROVE Covered'
  <2>1. /\ stream' = Append(stream, [stream[d.id] EXCEPT !.attempt = @ + 1])
        /\ hand' = [hand EXCEPT ![c] = (@ \ {d}) \cup {[d EXCEPT !.step = "retrying"]}]
        /\ UNCHANGED <<delivered, pel, settled>>
    BY <1>8 DEF RetryPublish, Move
  <2>2. d.id \in Ids /\ stream[d.id] \in [msg : Messages, attempt : Attempts]
    BY <1>h, EntryTyped DEF IInv
  <2>3. /\ \A i \in Ids : stream'[i] = stream[i]
        /\ Ids' = Ids \cup {Len(stream) + 1} /\ stream'[Len(stream) + 1].msg = MsgOf(d)
        /\ Len(stream) + 1 \notin Ids /\ Len(stream) + 1 > delivered
    BY <1>w, <2>1, <2>2 DEF Ids, MsgOf
  <2>4. \A b \in Consumers : \A x \in hand'[b] : x \in hand[b] \/ x.id = d.id
    BY <1>w, <2>1 DEF Delivery
  <2>5. ASSUME NEW n \in Published' \ settled'
        PROVE  Cardinality(Retrying(n)') < Cardinality(Outstanding(n)')
    <3>1. n \in Published \ settled
      BY <2>1, <2>2, <2>3, <2>5 DEF Published, MsgOf
    <3>2. Cardinality(Retrying(n)) < Cardinality(Outstanding(n))
      BY <3>1 DEF IInv, Covered
    <3>3. CASE n = MsgOf(d)
      <4>1. Retrying(n)' \subseteq Retrying(n) \cup {d.id}
        BY <1>h, <2>3, <2>4 DEF Retrying
      <4>2. Outstanding(n)' = Outstanding(n) \cup {Len(stream) + 1}
        BY <2>1, <2>3, <3>3 DEF Outstanding
      <4>3. Len(stream) + 1 \notin Outstanding(n)
        BY <2>3 DEF Outstanding
      <4>4. Cardinality(Retrying(n) \cup {d.id}) < Cardinality(Outstanding(n)')
        BY <1>f, <3>2, <4>2, <4>3, BalanceUp
      <4>5. IsFiniteSet(Retrying(n) \cup {d.id})
        BY <1>f, FS_AddElement
      <4> QED
        BY <1>f, <4>1, <4>4, <4>5, BalanceKept
    <3>4. CASE n # MsgOf(d)
      <4>1. Retrying(n)' \subseteq Retrying(n)
        BY <1>h, <2>3, <2>4, <3>4 DEF Retrying, MsgOf
      <4>2. Outstanding(n) \subseteq Outstanding(n)'
        BY <2>1, <2>3 DEF Outstanding
      <4> QED
        BY <1>f, <3>2, <4>1, <4>2, BalanceKept
    <3> QED
      BY <3>3, <3>4
  <2> QED
    BY <2>5 DEF Covered
<1>9. ASSUME NEW c \in Consumers, NEW d \in hand[c], RetryAcknowledge(c, d) PROVE Covered'
  <2>1. /\ UNCHANGED <<stream, delivered, settled>> /\ d.step = "retrying"
        /\ pel' = pel \ {entryIds[c][MsgOf(d)]}
        /\ hand' = [hand EXCEPT ![c] = @ \ {d}]
    BY <1>9 DEF RetryAcknowledge, Xack, End
  <2>2. \A b \in Consumers : hand'[b] \subseteq hand[b]
    BY <1>w, <2>1
  <2>3. ASSUME NEW n \in Published' \ settled'
        PROVE  Cardinality(Retrying(n)') < Cardinality(Outstanding(n)')
    <3>1. Cardinality(Retrying(n)) < Cardinality(Outstanding(n))
      BY <2>1, <2>3 DEF IInv, Covered, Published, Ids
    <3>2. CASE n = MsgOf(d)
      <4>1. d.id \in Retrying(n)
        BY <1>h, <2>1, <3>2 DEF Retrying, MsgOf, Delivery
      <4>2. \A b \in Consumers : \A x \in hand'[b] : x.id # d.id
        BY <1>w, <2>1 DEF IInv, HandsApart, HandedOutOnce
      <4>3. Retrying(n)' \subseteq Retrying(n) \ {d.id}
        BY <2>1, <2>2, <4>2 DEF Retrying, Ids
      <4>4. Outstanding(n) \ {entryIds[c][MsgOf(d)]} \subseteq Outstanding(n)'
        BY <2>1 DEF Outstanding, Ids
      <4>5. Cardinality(Retrying(n) \ {d.id})
              < Cardinality(Outstanding(n) \ {entryIds[c][MsgOf(d)]})
        BY <1>f, <3>1, <4>1, BalanceDown
      <4>6. /\ IsFiniteSet(Retrying(n) \ {d.id})
            /\ IsFiniteSet(Outstanding(n) \ {entryIds[c][MsgOf(d)]})
        BY <1>f, FS_RemoveElement
      <4> QED
        BY <1>f, <4>3, <4>4, <4>5, <4>6, BalanceKept
    <3>3. CASE n # MsgOf(d)
      <4>1. Retrying(n)' \subseteq Retrying(n)
        BY <2>1, <2>2 DEF Retrying, Ids
      <4>2. Outstanding(n) \subseteq Outstanding(n)'
        BY <1>x, <2>1, <3>3 DEF Outstanding, Ids
      <4> QED
        BY <1>f, <3>1, <4>1, <4>2, BalanceKept
    <3> QED
      BY <3>2, <3>3
  <2> QED
    BY <2>3 DEF Covered
<1>10. ASSUME NEW c \in Consumers, NEW d \in hand[c], Abandon(c, d) PROVE Covered'
  BY <1>10, <1>s, <1>w DEF Abandon, End
<1>11. ASSUME NEW c \in Consumers, Stop(c) PROVE Covered'
  <2>1. /\ UNCHANGED <<stream, delivered, pel, settled>>
        /\ hand' = hand \/ hand' = [hand EXCEPT ![c] = {}]
    BY <1>11 DEF Stop
  <2> QED
    BY <1>s, <1>w, <2>1
<1>12. ASSUME NEW c \in Consumers, Stopped(c) PROVE Covered'
  BY <1>12, <1>s DEF Stopped
<1>13. ASSUME NEW c \in Consumers, Crash(c) PROVE Covered'
  BY <1>13, <1>s, <1>w DEF Crash
<1>15. ASSUME NEW c \in Consumers, NEW d \in hand[c], PublicationFails(c, d) PROVE Covered'
  <2>1. /\ UNCHANGED <<stream, delivered, pel>> /\ settled \subseteq settled'
        /\ Move(c, d, "unpublished") \/ Move(c, d, "acking")
    BY <1>15, FailedPublication
  <2>2. \A b \in Consumers : \A x \in hand'[b] : x.step = "retrying" => x \in hand[b]
    BY <1>w, <2>1 DEF Move, Delivery
  <2>3. \A n : Outstanding(n)' = Outstanding(n)
    BY <2>1 DEF Outstanding, Ids
  <2> QED
    BY <1>r, <2>1, <2>2, <2>3
<1>14. CASE UNCHANGED vars
  BY <1>14, <1>s DEF vars
<1> QED
  BY <1>1, <1>2, <1>3, <1>4, <1>5, <1>6, <1>7, <1>8, <1>9, <1>10, <1>11, <1>12, <1>13,
     <1>14, <1>15 DEF Next, ConsumerStep

-----------------------------------------------------------------------------
\* At first there are no entries and no handlers.
LEMMA InitIInv == Init => IInv
<1> SUFFICES ASSUME Init PROVE IInv
  OBVIOUS
<1>1. StreamTyped
  <2>1. stream = <<>> /\ Len(stream) = 0 /\ delivered = 0 /\ faults = 0
    BY DEF Init
  <2>2. stream \in Seq([msg : Messages, attempt : Attempts])
    <3> DEFINE Entry == [msg : Messages, attempt : Attempts]
    <3> HIDE DEF Entry
    <3>1. <<>> \in Seq(Entry)
      OBVIOUS
    <3> QED
      BY <2>1, <3>1 DEF Entry
  <2>3. fetched \in [Consumers -> 0..delivered]
    BY <2>1 DEF Init
  <2>4. entryIds \in [Consumers -> [Messages -> 0..delivered]]
    BY <2>1 DEF Init
  <2>5. /\ delivered \in 0..Len(stream) /\ faults \in 0..MaxFaults
        /\ failures \in [Messages -> 0..MaxAttempts]
    BY <2>1, TransportAssumption DEF Init, OptionsAccepted
  <2> QED
    BY <2>2, <2>3, <2>4, <2>5 DEF Init, StreamTyped
<1>2. HandsTyped
  BY FS_EmptySet, TransportAssumption DEF Init, HandsTyped, Fits, OptionsAccepted
<1>3. HandsApart /\ EntriesNoted
  BY DEF Init, HandsApart, HandedOutOnce, EntriesNoted
<1>5. AttemptsCounted
  BY DEF Init, AttemptsCounted, Ids
<1>4. Covered
  BY DEF Init, Covered, Published, Ids
<1> QED
  BY <1>1, <1>2, <1>3, <1>4, <1>5 DEF IInv

\* The inductive invariant of the transport, for any number of messages,
\* consumers, slots, attempts and failures.
THEOREM InductiveInvariant == Spec => []IInv
<1>1. IInv /\ [Next]_vars => IInv'
  BY StepStream, StepHands, StepApart, StepNoted, StepCounted, StepCovered DEF IInv
<1> QED
  BY InitIInv, <1>1, PTL DEF Spec

\* Every reachable state is well typed, no consumer has more handlers than slots
\* (the semaphore of _consume), and no delivery carries an attempt above MaxAttempts
\* but for publications that failed, so none of 2 * MaxAttempts or more
\* (process_message, _retry).
THEOREM TypeCorrect == Spec => []TypeOK
<1>1. IInv => TypeOK
  BY DEF IInv, TypeOK, StreamTyped, HandsTyped, Fits, AttemptsCounted
<1> QED
  BY <1>1, InductiveInvariant, PTL

\* No retry, acknowledgement of another delivery, stop or crash makes a message
\* vanish before it is settled.
THEOREM NothingLost == Spec => []NothingVanishes
<1>1. ASSUME IInv PROVE NothingVanishes
  <2>1. ASSUME NEW m \in Published \ settled PROVE Outstanding(m) # {}
    <3>1. Cardinality(Retrying(m)) \in Nat
      BY <1>1, Finite DEF IInv
    <3> QED
      BY <1>1, <3>1, FS_EmptySet DEF IInv, Covered
  <2> QED
    BY <2>1 DEF NothingVanishes, Outstanding
<1> QED
  BY <1>1, InductiveInvariant, PTL

\* consume hands every entry to one handler of one consumer.
THEOREM NoDoubleHandling == Spec => []HandedOutOnce
<1>1. IInv => HandedOutOnce
  BY DEF IInv, HandsApart
<1> QED
  BY <1>1, InductiveInvariant, PTL
=============================================================================
