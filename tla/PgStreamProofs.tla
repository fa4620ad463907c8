--------------------------- MODULE PgStreamProofs ---------------------------
(***************************************************************************)
(* The proofs about PgStream, for every log and every keepalive: the       *)
(* stream's own invariant, and at-least-once delivery up to the first      *)
(* event pushed whose end is not exact.                                    *)
(***************************************************************************)
EXTENDS PgStream, FiniteSetTheorems, TLAPS

-----------------------------------------------------------------------------
(* The inductive invariant, in layers. *)

\* e is sent before f.
Before(e, f) == e[1] < f[1] \/ (e[1] = f[1] /\ e[2] < f[2])

\* The order in which a transaction's messages are sent: Begin is <<i, 0>>, and
\* Commit follows the last change.
CursorOK == next \in (Nat \ {0}) \X Nat

\* An event is with the reader exactly while it emits, and with the consumer
\* while the loop's body or its acknowledgement is under way.
Hands ==
  /\ reader = "loop" => pending = NoEvent
  /\ reader = "emit" => pending \in Events
  /\ consumer = "range" => hand = NoEvent
  /\ consumer \in {"body", "ack"} => hand \in Events
  /\ consumer = "ack" => hand \in processed

\* What is between the connection and the consumer has been received, and the
\* counters are in order.
Received ==
  /\ flushed <= received
  /\ hand # NoEvent => End(hand) <= received
  /\ pending # NoEvent => End(pending) <= received
  /\ \A k \in 1 .. Len(events) : End(events[k]) <= received

\* The reader has let go before the connection is closed, and its last status
\* confirms what was flushed when it left its loop.
Ending ==
  /\ connClosed => reader = "done"
  /\ reader \in {"final", "done"} => finished <= flushed
  /\ reader = "done" /\ connected => confirmed >= finished

StreamInv == TypeOK /\ CursorOK /\ Hands /\ Received /\ Ending

\* hand, the channel and pending, in this order, are in the order of the log,
\* and the cursor is past them.
InOrder ==
  /\ hand # NoEvent => Before(hand, next)
  /\ pending # NoEvent => Before(pending, next)
  /\ hand # NoEvent /\ pending # NoEvent => Before(hand, pending)
  /\ \A k \in 1 .. Len(events) :
       /\ Before(events[k], next)
       /\ hand # NoEvent => Before(hand, events[k])
       /\ pending # NoEvent => Before(events[k], pending)
  /\ \A j, k \in 1 .. Len(events) : j < k => Before(events[j], events[k])

InChannel(e) == \E k \in 1 .. Len(events) : events[k] = e

\* As long as no inexact event was pushed, none is on its way to the consumer.
OnTheWay(e) == e = hand \/ e = pending \/ InChannel(e)
Marked == ~inexact => \A e \in Events : OnTheWay(e) => Exact(e)

\* Nothing the cursor has passed is lost: it has been processed, by this stream
\* or before it, or is on its way to the consumer.
NothingLost ==
  \A e \in Events : Before(e, next) =>
    e \in processed \/ InChannel(e) \/ e = pending \/ e = hand

\* lastPushed is the end of the newest event that is still on its way.
NewestPushed ==
  /\ pending # NoEvent => lastPushed = End(pending)
  /\ pending = NoEvent /\ events # << >> => lastPushed = End(events[Len(events)])
  /\ pending = NoEvent /\ events = << >> /\ hand # NoEvent /\ hand \notin processed
       => lastPushed = End(hand)

\* flushed is where it began, a keepalive's position or the end of an event that
\* was processed.
FlushedIsEarned ==
  flushed = 0 \/ flushed \in Keepalives
    \/ \E e \in processed : e \in Events /\ flushed = End(e)

\* A transaction that commits before p has been processed to its last change.
Through(p) == \A i \in Txns : Log[i].commit < p => Changes(i) \subseteq processed

Delivery ==
  /\ InOrder /\ NothingLost /\ NewestPushed /\ FlushedIsEarned
  /\ Through(flushed) /\ Through(confirmed)

-----------------------------------------------------------------------------
(* Facts about the log. *)

\* What an event is: a transaction's number and that of one of its changes.
LEMMA EventParts ==
  /\ \A e \in Events : /\ e[1] \in Txns /\ e[2] \in 1 .. Len(Log[e[1]].changes)
                       /\ e = <<e[1], e[2]>> /\ e \in Changes(e[1])
  /\ \A i \in Txns : \A k \in 1 .. Len(Log[i].changes) : <<i, k>> \in Events
  /\ \A i \in Txns : Changes(i) \subseteq Events
  /\ NoEvent \notin Events
BY DEF Events, Changes, Txns, NoEvent

\* The positions in the log are numbers.
LEMMA Positions ==
  /\ Len(Log) \in Nat
  /\ \A i \in Txns : /\ Log[i].commit \in Nat /\ Len(Log[i].changes) \in Nat
                     /\ Log[i].commit <= WalEnd
  /\ \A e \in Events : End(e) \in Nat /\ End(e) > 0 /\ e[1] \in Nat /\ e[2] \in Nat
  /\ \A i, j \in Txns : i < j => Log[i].commit < Log[j].commit
  /\ WalEnd \in Nat /\ Keepalives \subseteq Nat
<1> DEFINE Row == [lsn : Nat, len : Nat]
           Txn == [commit : Nat, changes : Seq(Row)]
<1>1. Log \in Seq(Txn)
  BY PgStreamAssumption
<1>2. Len(Log) \in Nat /\ \A i \in Txns : Log[i] \in Txn
  <2> HIDE DEF Txn
  <2> QED
    BY <1>1 DEF Txns
<1>3. \A i \in Txns : /\ Log[i].commit \in Nat /\ Log[i].changes \in Seq(Row)
                      /\ Len(Log[i].changes) \in Nat
  BY <1>2
<1>4. \A i \in Txns : \A k \in 1 .. Len(Log[i].changes) :
        /\ Log[i].changes[k].lsn \in Nat /\ Log[i].changes[k].len \in Nat
        /\ Log[i].changes[k].lsn > 0
  <2> SUFFICES ASSUME NEW i \in Txns, NEW k \in 1 .. Len(Log[i].changes)
               PROVE  /\ Log[i].changes[k].lsn \in Nat /\ Log[i].changes[k].len \in Nat
                      /\ Log[i].changes[k].lsn > 0
    OBVIOUS
  <2>1. Log[i].changes[k] \in Row
    <3> HIDE DEF Row
    <3> QED
      BY <1>3
  <2>2. Log[i].changes[k].lsn \in 1 .. Log[i].commit - 1
    BY PgStreamAssumption
  <2> QED
    BY <2>1, <2>2, <1>3
<1>5. \A e \in Events : End(e) \in Nat /\ End(e) > 0
  BY <1>4, EventParts DEF End
<1>6. \A e \in Events : e[1] \in Nat /\ e[2] \in Nat
  BY EventParts, <1>2, <1>3 DEF Txns
<1> QED
  BY <1>2, <1>3, <1>5, <1>6, PgStreamAssumption

\* A stream from position p begins with the first transaction that commits there
\* or later.
LEMMA ResumeSkips ==
  ASSUME NEW p \in Nat
  PROVE  /\ Resume(p) \in (Nat \ {0}) \X Nat
         /\ \A e \in Events : Before(e, Resume(p)) => Log[e[1]].commit < p
<1> DEFINE S == {i \in Txns : Log[i].commit < p}
<1>1. IsFiniteSet(S) /\ Cardinality(S) \in Nat
  <2>1. IsFiniteSet(Txns)
    BY Positions, FS_Interval DEF Txns
  <2> QED
    BY <2>1, FS_Subset, FS_CardinalityType
<1>2. ASSUME NEW i \in Txns, i <= Cardinality(S)
      PROVE  Log[i].commit < p
  <2>1. SUFFICES ASSUME ~(Log[i].commit < p) PROVE FALSE
    OBVIOUS
  <2>2. S \subseteq 1 .. (i - 1)
    BY <2>1, <1>2, Positions DEF Txns
  <2>3. /\ IsFiniteSet(1 .. (i - 1))
        /\ Cardinality(1 .. (i - 1)) = i - 1
    <3>1. i \in Int /\ i - 1 \in Int /\ i >= 1
      BY Positions DEF Txns
    <3> QED
      BY <3>1, FS_Interval
  <2>4. Cardinality(S) <= i - 1
    BY <2>2, <2>3, FS_Subset
  <2> QED
    BY <2>4, <1>2, <1>1, Positions DEF Txns
<1>3. Resume(p) = <<1 + Cardinality(S), 0>>
  BY DEF Resume
<1> HIDE DEF S
<1>4. ASSUME NEW e \in Events, Before(e, Resume(p))
      PROVE  Log[e[1]].commit < p
  <2>1. e[1] \in Txns /\ e[1] \in Nat /\ e[2] \in Nat
    BY EventParts, Positions
  <2>2. e[1] <= Cardinality(S)
    BY <2>1, <1>4, <1>3, <1>1 DEF Before
  <2> QED
    BY <2>1, <2>2, <1>2
<1> QED
  BY <1>1, <1>3, <1>4

\* The end of the message that comes next is a number.
LEMMA MessageEnds ==
  ASSUME CursorOK
  PROVE  MessageEnd \in Nat
<1>1. CASE next \in Events
  BY <1>1, Positions DEF MessageEnd
<1>2. CASE next \notin Events
  BY <1>2, Positions DEF MessageEnd
<1> QED
  BY <1>1, <1>2

\* The order of the log is transitive and has no cycle.
LEMMA BeforeOrder ==
  /\ \A a, b, c \in Nat \X Nat : Before(a, b) /\ Before(b, c) => Before(a, c)
  /\ \A a, b \in Nat \X Nat : Before(a, b) => ~Before(b, a) /\ a # b
BY DEF Before

-----------------------------------------------------------------------------
(* The stream's own invariant. *)

\* A new stream has zero positions and empty hands.
LEMMA StreamInit == Init => StreamInv
<1> SUFFICES ASSUME Init PROVE StreamInv
  OBVIOUS
<1>1. TypeOK
  <2>1. << >> \in Seq(Events) /\ Len(<< >>) = 0 /\ 0 <= Buffer /\ 0 \in 0 .. MaxRestarts
    BY PgStreamAssumption
  <2> QED
    BY <2>1 DEF Init, TypeOK
<1>2. CursorOK
  BY ResumeSkips DEF Init, CursorOK
<1>3. Hands /\ Received /\ Ending
  BY DEF Init, Hands, Received, Ending
<1> QED
  BY <1>1, <1>2, <1>3 DEF StreamInv

\* Every step keeps the stream's own invariant.
LEMMA StreamStep == StreamInv /\ [Next]_vars => StreamInv'
<1> SUFFICES ASSUME StreamInv, [Next]_vars PROVE StreamInv'
  OBVIOUS
<1>i. TypeOK /\ CursorOK /\ Hands /\ Received /\ Ending
  BY DEF StreamInv
<1>t. /\ confirmed \in Nat /\ received \in Nat /\ lastPushed \in Nat
      /\ flushed \in Nat /\ finished \in Nat
  BY <1>i DEF TypeOK
<1>1. CASE ReaderStops
  <2>1. TypeOK' /\ CursorOK'
    BY <1>1, <1>i DEF ReaderStops, LeaveLoop, TypeOK, CursorOK
  <2>2. Hands'
    BY <1>1, <1>i, <1>t DEF ReaderStops, LeaveLoop, Hands, TypeOK, Stopping
  <2>3. Received'
    BY <1>1, <1>i DEF ReaderStops, LeaveLoop, Received
  <2>4. Ending'
    BY <1>1, <1>i, <1>t DEF ReaderStops, LeaveLoop, Ending, TypeOK, Stopping
  <2> QED
    BY <2>1, <2>2, <2>3, <2>4 DEF StreamInv
<1>2. CASE EmitFails
  <2>1. TypeOK' /\ CursorOK'
    BY <1>2, <1>i DEF EmitFails, LeaveLoop, TypeOK, CursorOK
  <2>2. Hands'
    BY <1>2, <1>i, <1>t DEF EmitFails, LeaveLoop, Hands, TypeOK
  <2>3. Received'
    BY <1>2, <1>i DEF EmitFails, LeaveLoop, Received
  <2>4. Ending'
    BY <1>2, <1>i, <1>t DEF EmitFails, LeaveLoop, Ending, TypeOK
  <2> QED
    BY <2>1, <2>2, <2>3, <2>4 DEF StreamInv
<1>3. CASE RangeEnds
  <2>1. TypeOK' /\ CursorOK'
    BY <1>3, <1>i DEF RangeEnds, TypeOK, CursorOK
  <2>2. Hands'
    BY <1>3, <1>i, <1>t DEF RangeEnds, Hands, TypeOK
  <2>3. Received'
    BY <1>3, <1>i DEF RangeEnds, Received
  <2>4. Ending'
    BY <1>3, <1>i, <1>t DEF RangeEnds, Ending, TypeOK
  <2> QED
    BY <2>1, <2>2, <2>3, <2>4 DEF StreamInv
<1>4. CASE BodyBreaks
  <2>1. TypeOK' /\ CursorOK'
    BY <1>4, <1>i DEF BodyBreaks, TypeOK, CursorOK
  <2>2. Hands'
    BY <1>4, <1>i, <1>t DEF BodyBreaks, Hands, TypeOK
  <2>3. Received'
    BY <1>4, <1>i DEF BodyBreaks, Received
  <2>4. Ending'
    BY <1>4, <1>i, <1>t DEF BodyBreaks, Ending, TypeOK
  <2> QED
    BY <2>1, <2>2, <2>3, <2>4 DEF StreamInv
<1>5. CASE Cancel
  <2>1. TypeOK' /\ CursorOK'
    BY <1>5, <1>i DEF Cancel, TypeOK, CursorOK
  <2>2. Hands'
    BY <1>5, <1>i, <1>t DEF Cancel, Hands, TypeOK
  <2>3. Received'
    BY <1>5, <1>i DEF Cancel, Received
  <2>4. Ending'
    BY <1>5, <1>i, <1>t DEF Cancel, Ending, TypeOK
  <2> QED
    BY <2>1, <2>2, <2>3, <2>4 DEF StreamInv
<1>6. CASE CloseConn
  <2>1. TypeOK' /\ CursorOK'
    BY <1>6, <1>i DEF CloseConn, TypeOK, CursorOK
  <2>2. Hands'
    BY <1>6, <1>i, <1>t DEF CloseConn, Hands, TypeOK
  <2>3. Received'
    BY <1>6, <1>i DEF CloseConn, Received
  <2>4. Ending'
    BY <1>6, <1>i, <1>t DEF CloseConn, Ending, TypeOK, ReaderGone
  <2> QED
    BY <2>1, <2>2, <2>3, <2>4 DEF StreamInv
<1>7. CASE CloseReturns
  <2>1. TypeOK' /\ CursorOK'
    BY <1>7, <1>i DEF CloseReturns, TypeOK, CursorOK
  <2>2. Hands'
    BY <1>7, <1>i, <1>t DEF CloseReturns, Hands, TypeOK
  <2>3. Received'
    BY <1>7, <1>i DEF CloseReturns, Received
  <2>4. Ending'
    BY <1>7, <1>i, <1>t DEF CloseReturns, Ending, TypeOK
  <2> QED
    BY <2>1, <2>2, <2>3, <2>4 DEF StreamInv
<1>8. CASE LinkFails
  <2>1. TypeOK' /\ CursorOK'
    BY <1>8, <1>i DEF LinkFails, TypeOK, CursorOK
  <2>2. Hands'
    BY <1>8, <1>i, <1>t DEF LinkFails, Hands, TypeOK
  <2>3. Received'
    BY <1>8, <1>i DEF LinkFails, Received
  <2>4. Ending'
    BY <1>8, <1>i, <1>t DEF LinkFails, Ending, TypeOK
  <2> QED
    BY <2>1, <2>2, <2>3, <2>4 DEF StreamInv
<1>9. CASE RecvOther
  <2>1. next' \in (Nat \ {0}) \X Nat
    BY <1>9, <1>i, Positions DEF RecvOther, CursorOK
  <2>2. received' \in Nat /\ received <= received'
    BY <1>9, <1>t, MessageEnds DEF RecvOther, advance, MaxOf
  <2>3. TypeOK' /\ CursorOK'
    BY <1>9, <1>i, <2>1, <2>2 DEF RecvOther, TypeOK, CursorOK
  <2>4. Hands'
    BY <1>9, <1>i DEF RecvOther, Hands
  <2>5. Received'
    <3>1. UNCHANGED <<flushed, hand, pending, events>>
      BY <1>9 DEF RecvOther
    <3>2. ASSUME NEW e \in Events, End(e) <= received PROVE End(e) <= received'
      BY <3>2, <2>2, <1>t, Positions
    <3>3. hand # NoEvent => hand \in Events
      BY <1>i DEF TypeOK
    <3>4. pending # NoEvent => pending \in Events
      BY <1>i DEF TypeOK
    <3>5. \A k \in 1 .. Len(events) : events[k] \in Events
      BY <1>i DEF TypeOK
    <3>6. flushed <= received'
      BY <2>2, <1>t, <1>i DEF Received
    <3> QED
      BY <3>1, <3>2, <3>3, <3>4, <3>5, <3>6, <1>i DEF Received
  <2>6. Ending'
    BY <1>9, <1>i DEF RecvOther, Ending
  <2> QED
    BY <2>3, <2>4, <2>5, <2>6 DEF StreamInv
<1>10. CASE RecvChange
  <2>1. next \in Events /\ next[1] \in Nat /\ next[2] \in Nat /\ End(next) \in Nat
    BY <1>10, Positions DEF RecvChange
  <2>2. /\ received' \in Nat /\ received <= received' /\ End(next) <= received'
        /\ lastPushed' \in Nat
    BY <1>10, <1>t, <2>1 DEF RecvChange, advance, MaxOf, Pushed
  <2>3. next' \in (Nat \ {0}) \X Nat
    BY <1>10, <1>i, <2>1 DEF RecvChange, CursorOK
  <2>4. TypeOK' /\ CursorOK'
    BY <1>10, <1>i, <2>1, <2>2, <2>3 DEF RecvChange, TypeOK, CursorOK
  <2>5. Hands'
    BY <1>10, <1>i, <2>1 DEF RecvChange, Hands
  <2>6. Received'
    <3>1. UNCHANGED <<flushed, hand, events>> /\ pending' = next
      BY <1>10 DEF RecvChange
    <3>2. ASSUME NEW e \in Events, End(e) <= received PROVE End(e) <= received'
      BY <3>2, <2>2, <1>t, Positions
    <3>3. hand # NoEvent => hand \in Events
      BY <1>i DEF TypeOK
    <3>4. \A k \in 1 .. Len(events) : events[k] \in Events
      BY <1>i DEF TypeOK
    <3>5. flushed <= received'
      BY <2>2, <1>t, <1>i DEF Received
    <3> QED
      BY <3>1, <3>2, <3>3, <3>4, <3>5, <2>2, <1>i DEF Received
  <2>7. Ending'
    BY <1>10, <1>i DEF RecvChange, Ending, Receiving
  <2> QED
    BY <2>4, <2>5, <2>6, <2>7 DEF StreamInv
<1>11. CASE EmitSend
  <2>1. pending \in Events /\ pending # NoEvent
    BY <1>11, <1>i, EventParts DEF EmitSend, Hands
  <2>2. events \in Seq(Events) /\ events' = Append(events, pending)
    BY <1>11, <1>i DEF EmitSend, TypeOK
  <2>3. events' \in Seq(Events) /\ Len(events') = Len(events) + 1
    BY <2>1, <2>2
  <2>4. TypeOK' /\ CursorOK'
    BY <1>11, <1>i, <2>2, <2>3, PgStreamAssumption DEF EmitSend, TypeOK, CursorOK
  <2>5. Hands'
    BY <1>11, <1>i DEF EmitSend, Hands
  <2>6. Received'
    BY <1>11, <1>i, <2>1, <2>2 DEF EmitSend, Received
  <2>7. Ending'
    BY <1>11, <1>i DEF EmitSend, Ending
  <2> QED
    BY <2>4, <2>5, <2>6, <2>7 DEF StreamInv
<1>12. CASE SendFinalStatus
  <2>1. confirmed' \in Nat /\ (connected => flushed <= confirmed')
    BY <1>12, <1>i, <1>t
    DEF SendFinalStatus, Confirm, writeStatus, advance, MaxOf, MinOf, Received
  <2>2. TypeOK' /\ CursorOK'
    BY <1>12, <1>i, <2>1 DEF SendFinalStatus, TypeOK, CursorOK
  <2>3. Hands' /\ Received'
    BY <1>12, <1>i DEF SendFinalStatus, Hands, Received
  <2>4. Ending'
    BY <1>12, <1>i, <1>t, <2>1 DEF SendFinalStatus, Ending
  <2> QED
    BY <2>2, <2>3, <2>4 DEF StreamInv
<1>13. CASE SendStatus
  <2>1. confirmed' \in Nat /\ confirmed <= confirmed'
    BY <1>13, <1>t DEF SendStatus, Confirm, writeStatus, advance, MaxOf, MinOf
  <2>2. TypeOK' /\ CursorOK'
    BY <1>13, <1>i, <2>1 DEF SendStatus, stream, TypeOK, CursorOK
  <2>3. Hands' /\ Received'
    BY <1>13, <1>i DEF SendStatus, stream, Hands, Received
  <2>4. Ending'
    BY <1>13, <1>i, <1>t, <2>1 DEF SendStatus, stream, Ending
  <2> QED
    BY <2>2, <2>3, <2>4 DEF StreamInv
<1>14. ASSUME NEW s \in Keepalives, Keepalive(s) PROVE StreamInv'
  <2>1. s \in Nat
    BY Positions
  <2>2. /\ received' \in Nat /\ received <= received' /\ s <= received'
        /\ flushed' \in Nat /\ flushed <= flushed' /\ lastPushed' \in Nat
        /\ flushed' = flushed \/ flushed' = s
    BY <1>14, <2>1, <1>t DEF Keepalive, advance, MaxOf, Drained
  <2>3. TypeOK' /\ CursorOK'
    BY <1>14, <1>i, <2>2 DEF Keepalive, TypeOK, CursorOK
  <2>4. Hands'
    BY <1>14, <1>i DEF Keepalive, Hands
  <2>5. Received'
    <3>1. UNCHANGED <<hand, pending, events>>
      BY <1>14 DEF Keepalive
    <3>2. ASSUME NEW e \in Events, End(e) <= received PROVE End(e) <= received'
      BY <3>2, <2>2, <1>t, Positions
    <3>3. hand # NoEvent => hand \in Events
      BY <1>i DEF TypeOK
    <3>4. pending # NoEvent => pending \in Events
      BY <1>i DEF TypeOK
    <3>5. \A k \in 1 .. Len(events) : events[k] \in Events
      BY <1>i DEF TypeOK
    <3>6. flushed' <= received'
      BY <2>1, <2>2, <1>t, <1>i DEF Received
    <3> QED
      BY <3>1, <3>2, <3>3, <3>4, <3>5, <3>6, <1>i DEF Received
  <2>6. Ending'
    BY <1>14, <1>i, <1>t, <2>2 DEF Keepalive, Ending
  <2> QED
    BY <2>3, <2>4, <2>5, <2>6 DEF StreamInv
<1>15. CASE Take
  <2>1. events \in Seq(Events) /\ events # << >>
    BY <1>15, <1>i DEF Take, TypeOK
  <2>2. /\ Head(events) = events[1] /\ 1 \in 1 .. Len(events) /\ events[1] \in Events
        /\ Tail(events) \in Seq(Events) /\ Len(Tail(events)) = Len(events) - 1
        /\ \A k \in 1 .. Len(Tail(events)) :
             Tail(events)[k] = events[k + 1] /\ k + 1 \in 1 .. Len(events)
    BY <2>1
  <2>3. hand' = events[1] /\ events' = Tail(events)
    BY <1>15, <2>2 DEF Take
  <2>4. TypeOK' /\ CursorOK'
    BY <1>15, <1>i, <2>2, <2>3, PgStreamAssumption DEF Take, TypeOK, CursorOK
  <2>5. Hands'
    BY <1>15, <1>i, <2>2, <2>3 DEF Take, Hands
  <2>6. Received'
    BY <1>15, <1>i, <2>2, <2>3 DEF Take, Received
  <2>7. Ending'
    BY <1>15, <1>i DEF Take, Ending
  <2> QED
    BY <2>4, <2>5, <2>6, <2>7 DEF StreamInv
<1>16. CASE BodyReturns
  <2>1. hand \in Events
    BY <1>16, <1>i DEF BodyReturns, Hands
  <2>2. TypeOK' /\ CursorOK'
    BY <1>16, <1>i, <2>1 DEF BodyReturns, TypeOK, CursorOK
  <2>3. Hands'
    BY <1>16, <1>i, <2>1 DEF BodyReturns, Hands
  <2>4. Received' /\ Ending'
    BY <1>16, <1>i DEF BodyReturns, Received, Ending
  <2> QED
    BY <2>2, <2>3, <2>4 DEF StreamInv
<1>17. CASE Ack
  <2>1. hand \in Events /\ hand # NoEvent /\ End(hand) \in Nat
    BY <1>17, <1>i, EventParts, Positions DEF Ack, Hands
  <2>2. flushed' \in Nat /\ flushed <= flushed' /\ flushed' <= received
    BY <1>17, <1>i, <1>t, <2>1 DEF Ack, advance, MaxOf, Received
  <2>3. TypeOK' /\ CursorOK'
    BY <1>17, <1>i, <2>2 DEF Ack, TypeOK, CursorOK
  <2>4. Hands'
    BY <1>17, <1>i DEF Ack, Hands
  <2>5. Received'
    BY <1>17, <1>i, <2>2 DEF Ack, Received
  <2>6. Ending'
    BY <1>17, <1>i, <1>t, <2>2 DEF Ack, Ending
  <2> QED
    BY <2>3, <2>4, <2>5, <2>6 DEF StreamInv
<1>18. CASE Restart
  <2>1. TypeOK'
    <3>1. << >> \in Seq(Events) /\ Len(<< >>) = 0 /\ 0 <= Buffer
      BY PgStreamAssumption
    <3>2. restarts' \in 0 .. MaxRestarts
      BY <1>18, <1>i, PgStreamAssumption DEF Restart, TypeOK
    <3> QED
      BY <1>18, <1>i, <3>1, <3>2 DEF Restart, TypeOK
  <2>2. CursorOK'
    BY <1>18, <1>t, ResumeSkips DEF Restart, CursorOK
  <2>3. Hands' /\ Received' /\ Ending'
    BY <1>18 DEF Restart, Hands, Received, Ending
  <2> QED
    BY <2>1, <2>2, <2>3 DEF StreamInv
<1>19. CASE RecvGarbled
  <2>1. received' \in Nat /\ received <= received'
    BY <1>19, <1>i, <1>t, MessageEnds DEF RecvGarbled, advance, MaxOf
  <2>2. TypeOK' /\ CursorOK'
    BY <1>19, <1>i, <1>t, <2>1 DEF RecvGarbled, LeaveLoop, TypeOK, CursorOK
  <2>3. Hands'
    BY <1>19, <1>i DEF RecvGarbled, LeaveLoop, Receiving, Hands
  <2>4. Received'
    <3>1. UNCHANGED <<flushed, hand, pending, events>>
      BY <1>19 DEF RecvGarbled
    <3>2. ASSUME NEW e \in Events, End(e) <= received PROVE End(e) <= received'
      BY <3>2, <2>1, <1>t, Positions
    <3>3. hand # NoEvent => hand \in Events
      BY <1>i DEF TypeOK
    <3>4. pending # NoEvent => pending \in Events
      BY <1>i DEF TypeOK
    <3>5. \A k \in 1 .. Len(events) : events[k] \in Events
      BY <1>i DEF TypeOK
    <3>6. flushed <= received'
      BY <2>1, <1>t, <1>i DEF Received
    <3> QED
      BY <3>1, <3>2, <3>3, <3>4, <3>5, <3>6, <1>i DEF Received
  <2>5. Ending'
    BY <1>19, <1>i, <1>t DEF RecvGarbled, LeaveLoop, Receiving, Ending
  <2> QED
    BY <2>2, <2>3, <2>4, <2>5 DEF StreamInv
<1>20. CASE UNCHANGED vars
  BY <1>20, <1>i DEF vars, stream, StreamInv, TypeOK, CursorOK, Hands, Received, Ending
<1> QED
  BY <1>1, <1>2, <1>3, <1>4, <1>5, <1>6, <1>7, <1>8, <1>9, <1>10, <1>11, <1>12,
     <1>13, <1>14, <1>15, <1>16, <1>17, <1>18, <1>19, <1>20
  DEF Next, ReaderStep, ConsumerStep

\* The layers above hold of every reachable state of every log
\* (run, emit, All and Close of event_stream.go).
THEOREM StreamInvHolds == Spec => []StreamInv
BY StreamInit, StreamStep, PTL DEF Spec

\* Types, the order of the positions and the end of a stream (writeStatus:341, run's
\* deferred calls:139-141, Close:115-132), for every log, buffer and keepalive.
THEOREM StreamIsSound == Spec => []Inv
<1>1. StreamInv => Inv
  BY DEF StreamInv, Inv, Received, Ending, FlushedWasReceived, ConnHasOneOwner,
         FinishedIsConfirmed
<1> QED
  BY <1>1, StreamInvHolds, PTL

-----------------------------------------------------------------------------
(* At-least-once delivery. *)

\* Before the first message there is nothing to lose.
LEMMA DeliveryInit == Init => Delivery
<1> SUFFICES ASSUME Init PROVE Delivery
  OBVIOUS
<1>1. \A i \in Txns : ~(Log[i].commit < 0)
  BY Positions
<1>2. NothingLost
  <2>1. \A e \in Events : ~Before(e, next)
    <3> SUFFICES ASSUME NEW e \in Events, Before(e, Resume(0)) PROVE FALSE
      BY DEF Init
    <3>1. Log[e[1]].commit < 0
      BY ResumeSkips
    <3> QED
      BY <3>1, <1>1, EventParts
  <2> QED
    BY <2>1 DEF NothingLost
<1>3. InOrder /\ NewestPushed /\ FlushedIsEarned
  BY DEF Init, InOrder, NewestPushed, FlushedIsEarned
<1>4. Through(flushed) /\ Through(confirmed)
  BY <1>1 DEF Init, Through
<1> QED
  BY <1>2, <1>3, <1>4 DEF Delivery

\* Events and the cursor are pairs of numbers.
LEMMA Pairs ==
  ASSUME StreamInv
  PROVE  /\ Events \subseteq Nat \X Nat /\ next \in Nat \X Nat
         /\ hand # NoEvent => hand \in Events
         /\ pending # NoEvent => pending \in Events
         /\ events \in Seq(Events) /\ Len(events) \in Nat
         /\ \A k \in 1 .. Len(events) : events[k] \in Events
<1>1. Events \subseteq Nat \X Nat
  BY EventParts, Positions
<1>2. next \in Nat \X Nat
  BY DEF StreamInv, CursorOK
<1> QED
  BY <1>1, <1>2 DEF StreamInv, TypeOK

\* What the consumer and the reader do around the events without moving one, and
\* without a new position, keeps all of it.
LEMMA DeliveryFrame ==
  ASSUME Delivery,
         UNCHANGED <<next, lastPushed, flushed, events, pending, hand, processed>>,
         confirmed' = confirmed \/ confirmed' = flushed
  PROVE  Delivery'
<1>1. InOrder' /\ NothingLost' /\ NewestPushed' /\ FlushedIsEarned'
  BY DEF Delivery, InOrder, NothingLost, InChannel, NewestPushed, FlushedIsEarned
<1>2. Through(flushed)' /\ Through(confirmed)'
  BY DEF Delivery, Through
<1> QED
  BY <1>1, <1>2 DEF Delivery

\* The position a status reports is the old one, or flushed.
LEMMA ConfirmedIsFlushed ==
  ASSUME StreamInv, Confirm
  PROVE  confirmed' = confirmed \/ confirmed' = flushed
BY DEF StreamInv, TypeOK, Received, Confirm, writeStatus, advance, MaxOf, MinOf

\* While the consumer acknowledges an event, all that was sent before it has been
\* processed.
LEMMA BeforeHand ==
  ASSUME StreamInv, Delivery, hand # NoEvent, NEW e \in Events, Before(e, hand)
  PROVE  e \in processed
<1>1. e \in Nat \X Nat /\ hand \in Nat \X Nat /\ next \in Nat \X Nat
  BY Pairs
<1>2. Before(hand, next)
  BY DEF Delivery, InOrder
<1>3. Before(e, next)
  BY <1>1, <1>2, BeforeOrder
<1>4. e # hand
  BY <1>1, BeforeOrder
<1>5. e # pending
  <2> SUFFICES ASSUME e = pending PROVE FALSE
    OBVIOUS
  <2>1. pending # NoEvent
    BY EventParts
  <2>2. Before(hand, e)
    BY <2>1 DEF Delivery, InOrder
  <2> QED
    BY <2>2, <1>1, BeforeOrder
<1>6. ~InChannel(e)
  <2> SUFFICES ASSUME NEW k \in 1 .. Len(events), events[k] = e PROVE FALSE
    BY DEF InChannel
  <2>1. Before(hand, e)
    BY DEF Delivery, InOrder
  <2> QED
    BY <2>1, <1>1, BeforeOrder
<1> QED
  BY <1>3, <1>4, <1>5, <1>6 DEF Delivery, NothingLost

\* Only RecvChange puts an event on its way, and it takes note of the end.
LEMMA MarkedStep ==
  ASSUME StreamInv, Marked, [Next]_vars
  PROVE  Marked' /\ (inexact => inexact')
<1>p. /\ events \in Seq(Events) /\ pending # NoEvent => pending \in Events
      /\ inexact \in BOOLEAN /\ NoEvent \notin Events
  BY EventParts DEF StreamInv, TypeOK
<1>f. ASSUME inexact' = inexact, \A e \in Events : OnTheWay(e)' => OnTheWay(e)
      PROVE  Marked' /\ (inexact => inexact')
  <2>1. \A e \in Events : Exact(e)' = Exact(e)
    BY DEF Exact, End
  <2> QED
    BY <1>f, <2>1 DEF Marked
<1>1. CASE UNCHANGED <<events, pending, hand, inexact>>
  BY <1>1, <1>f DEF OnTheWay, InChannel
<1>2. CASE RecvChange
  <2>1. /\ UNCHANGED <<events, hand>> /\ pending' = next
        /\ inexact' = (inexact \/ ~Exact(next))
    BY <1>2 DEF RecvChange
  <2>2. \A e \in Events : OnTheWay(e)' => OnTheWay(e) \/ e = next
    BY <2>1 DEF OnTheWay, InChannel
  <2>3. \A e \in Events : Exact(e)' = Exact(e)
    BY DEF Exact, End
  <2> QED
    BY <2>1, <2>2, <2>3, <1>p DEF Marked
<1>3. CASE EmitSend
  <2>1. /\ UNCHANGED <<hand, inexact>> /\ events' = Append(events, pending)
        /\ pending \in Events
    BY <1>3, EventParts DEF EmitSend, StreamInv, Hands
  <2>2. \A k \in 1 .. Len(events') : events'[k] = pending \/
          (k \in 1 .. Len(events) /\ events'[k] = events[k])
    BY <2>1, <1>p
  <2>3. \A e \in Events : OnTheWay(e)' => OnTheWay(e)
    BY <2>1, <2>2, <1>3, <1>p DEF OnTheWay, InChannel, EmitSend
  <2> QED
    BY <2>1, <2>3, <1>f
<1>4. CASE Take
  <2>1. /\ UNCHANGED <<pending, inexact>> /\ events # << >>
        /\ hand' = Head(events) /\ events' = Tail(events)
    BY <1>4 DEF Take
  <2>2. /\ Head(events) = events[1] /\ 1 \in 1 .. Len(events)
        /\ \A k \in 1 .. Len(Tail(events)) :
             Tail(events)[k] = events[k + 1] /\ k + 1 \in 1 .. Len(events)
    BY <2>1, <1>p
  <2>3. \A e \in Events : OnTheWay(e)' => OnTheWay(e)
    BY <2>1, <2>2 DEF OnTheWay, InChannel
  <2> QED
    BY <2>1, <2>3, <1>f
<1>5. CASE Ack
  <2>1. UNCHANGED <<events, pending, inexact>> /\ hand' = NoEvent
    BY <1>5 DEF Ack
  <2> QED
    BY <2>1, <1>f, <1>p DEF OnTheWay, InChannel
<1>6. CASE Restart
  <2>1. /\ events' = << >> /\ pending' = NoEvent /\ hand' = NoEvent
        /\ inexact' = inexact
    BY <1>6 DEF Restart
  <2>2. \A e \in Events : ~OnTheWay(e)'
    BY <2>1, <1>p DEF OnTheWay, InChannel
  <2> QED
    BY <2>1, <2>2, <1>f
<1>7. CASE ReaderStops \/ EmitFails \/ RecvGarbled \/ RangeEnds \/ BodyBreaks \/ BodyReturns
  BY <1>7, <1>1 DEF ReaderStops, EmitFails, RecvGarbled, RangeEnds, BodyBreaks, BodyReturns
<1>8. CASE Cancel \/ CloseConn \/ CloseReturns \/ LinkFails \/ RecvOther \/ SendFinalStatus
  BY <1>8, <1>1 DEF Cancel, CloseConn, CloseReturns, LinkFails, RecvOther, SendFinalStatus
<1>9. CASE SendStatus \/ UNCHANGED vars \/ \E s \in Keepalives : Keepalive(s)
  BY <1>9, <1>1 DEF SendStatus, vars, stream, Keepalive
<1> QED
  BY <1>2, <1>3, <1>4, <1>5, <1>6, <1>7, <1>8, <1>9 DEF Next, ReaderStep, ConsumerStep

\* catchUp's test is right: what it calls drained has been processed, up to the
\* message that comes next.  The consumer may be at work on an event then, but only
\* on one that was processed before.
LEMMA DrainedIsProcessed ==
  ASSUME StreamInv, Marked, ~inexact, Delivery, Receiving, NEW s \in Keepalives, Drained(s),
         NEW e \in Events, Before(e, next)
  PROVE  e \in processed
<1>1. pending = NoEvent /\ events = << >> /\ lastPushed = flushed
  BY DEF StreamInv, Hands, Receiving, Drained
<1>2. ~InChannel(e) /\ e # pending
  BY <1>1, EventParts DEF InChannel
<1>3. CASE e # hand
  BY <1>2, <1>3 DEF Delivery, NothingLost
<1>4. CASE e = hand /\ e \notin processed
  <2>1. hand # NoEvent /\ hand \notin processed
    BY <1>4, EventParts
  <2>2. flushed = End(e)
    BY <1>1, <1>4, <2>1 DEF Delivery, NewestPushed
  <2>0. Exact(e)
    BY <1>4 DEF Marked, OnTheWay
  <2>3. flushed # 0 /\ flushed \notin Keepalives
    BY <2>0, <2>2, Positions DEF Exact
  <2>4. PICK f \in processed : f \in Events /\ flushed = End(f)
    BY <2>3 DEF Delivery, FlushedIsEarned
  <2>5. f = e
    BY <2>0, <2>2, <2>4 DEF Exact
  <2> QED
    BY <2>5, <2>4, <1>4
<1> QED
  BY <1>3, <1>4

\* Each step keeps the invariant of the delivery, up to the first inexact event.
LEMMA DeliveryStep ==
  ASSUME StreamInv, Marked, ~inexact, Delivery, [Next]_vars
  PROVE  Delivery'
<1>p. /\ Events \subseteq Nat \X Nat /\ next \in Nat \X Nat
      /\ hand # NoEvent => hand \in Events
      /\ pending # NoEvent => pending \in Events
      /\ events \in Seq(Events) /\ Len(events) \in Nat
      /\ \A k \in 1 .. Len(events) : events[k] \in Events
  BY Pairs
<1>d. /\ InOrder /\ NothingLost /\ NewestPushed /\ FlushedIsEarned
      /\ Through(flushed) /\ Through(confirmed)
  BY DEF Delivery
<1>1. CASE ReaderStops \/ EmitFails \/ RecvGarbled \/ RangeEnds \/ BodyBreaks
  BY <1>1, DeliveryFrame DEF ReaderStops, EmitFails, RecvGarbled, RangeEnds, BodyBreaks
<1>2. CASE Cancel \/ CloseConn \/ CloseReturns \/ LinkFails
  BY <1>2, DeliveryFrame DEF Cancel, CloseConn, CloseReturns, LinkFails
<1>3. CASE SendStatus
  <2>1. confirmed' = confirmed \/ confirmed' = flushed
    BY <1>3, ConfirmedIsFlushed DEF SendStatus
  <2> QED
    BY <1>3, <2>1, DeliveryFrame DEF SendStatus, stream
<1>4. CASE SendFinalStatus
  <2>1. confirmed' = confirmed \/ confirmed' = flushed
    BY <1>4, ConfirmedIsFlushed DEF SendFinalStatus
  <2> QED
    BY <1>4, <2>1, DeliveryFrame DEF SendFinalStatus
<1>5. CASE RecvOther
  <2>1. /\ UNCHANGED <<lastPushed, flushed, events, pending, hand, processed, confirmed>>
        /\ next[1] \in Txns
        /\ \/ next[2] = 0 /\ next' = <<next[1], 1>>
           \/ next[2] = Len(Log[next[1]].changes) + 1 /\ next' = <<next[1] + 1, 0>>
    BY <1>5 DEF RecvOther
  <2>2. next' \in Nat \X Nat /\ Len(Log[next[1]].changes) \in Nat
    BY <2>1, <1>p, Positions
  <2>3. Before(next, next')
    BY <2>1, <2>2, <1>p DEF Before
  <2>4. ASSUME NEW e \in Events PROVE Before(e, next) => Before(e, next')
    BY <2>2, <2>3, <1>p, BeforeOrder
  <2>5. ASSUME NEW e \in Events, Before(e, next') PROVE Before(e, next)
    <3>1. e[1] \in Nat /\ e[2] \in 1 .. Len(Log[e[1]].changes)
      BY EventParts, Positions
    <3>2. CASE next' = <<next[1], 1>>
      BY <3>1, <3>2, <2>1, <2>5, <1>p DEF Before
    <3>3. CASE next[2] = Len(Log[next[1]].changes) + 1 /\ next' = <<next[1] + 1, 0>>
      <4>1. next[1] \in Nat /\ e[1] < next[1] + 1
        BY <3>1, <3>3, <2>5, <1>p DEF Before
      <4>2. CASE e[1] = next[1]
        BY <4>2, <3>1, <3>3, <2>2, <1>p DEF Before
      <4>3. CASE e[1] # next[1]
        BY <4>1, <4>3, <3>1 DEF Before
      <4> QED
        BY <4>2, <4>3
    <3> QED
      BY <3>2, <3>3, <2>1
  <2>6. InOrder'
    BY <2>1, <2>4, <1>p, <1>d DEF InOrder
  <2>7. NothingLost'
    BY <2>1, <2>5, <1>d DEF NothingLost, InChannel
  <2>8. NewestPushed' /\ FlushedIsEarned' /\ Through(flushed)' /\ Through(confirmed)'
    BY <2>1, <1>d DEF NewestPushed, FlushedIsEarned, Through
  <2> QED
    BY <2>6, <2>7, <2>8 DEF Delivery
<1>6. CASE RecvChange
  <2>1. /\ UNCHANGED <<flushed, events, hand, processed, confirmed>>
        /\ next \in Events /\ pending' = next /\ lastPushed' = End(next)
        /\ next' = <<next[1], next[2] + 1>>
    BY <1>6 DEF RecvChange, Pushed
  <2>2. pending = NoEvent /\ next # NoEvent
    BY <1>6, <2>1, EventParts DEF RecvChange, Receiving, StreamInv, Hands
  <2>3. next' \in Nat \X Nat /\ Before(next, next')
    BY <2>1, <1>p DEF Before
  <2>4. ASSUME NEW e \in Events PROVE Before(e, next) => Before(e, next')
    BY <2>3, <1>p, BeforeOrder
  <2>5. ASSUME NEW e \in Events, Before(e, next') PROVE Before(e, next) \/ e = next
    BY <2>1, <2>3, <2>5, <1>p, EventParts, Positions DEF Before
  <2>6. InOrder'
    BY <2>1, <2>2, <2>3, <2>4, <1>p, <1>d DEF InOrder
  <2>7. NothingLost'
    BY <2>1, <2>2, <2>5, EventParts, <1>d DEF NothingLost, InChannel
  <2>8. NewestPushed' /\ FlushedIsEarned' /\ Through(flushed)' /\ Through(confirmed)'
    BY <2>1, <2>2, <1>d DEF NewestPushed, FlushedIsEarned, Through
  <2> QED
    BY <2>6, <2>7, <2>8 DEF Delivery
<1>7. CASE EmitSend
  <2>1. /\ UNCHANGED <<next, lastPushed, flushed, hand, processed, confirmed>>
        /\ events' = Append(events, pending) /\ pending' = NoEvent
    BY <1>7 DEF EmitSend
  <2>2. pending \in Events /\ pending # NoEvent
    BY <1>7, EventParts DEF EmitSend, StreamInv, Hands
  <2>3. /\ Len(events') = Len(events) + 1 /\ events'[Len(events')] = pending
        /\ \A k \in 1 .. Len(events) : events'[k] = events[k]
        /\ \A k \in 1 .. Len(events') : k \in 1 .. Len(events) \/ k = Len(events) + 1
        /\ events' # << >>
    BY <2>1, <2>2, <1>p
  <2>4. InOrder'
    BY <2>1, <2>2, <2>3, <1>p, <1>d DEF InOrder
  <2>5. NothingLost'
    <3> SUFFICES ASSUME NEW e \in Events, Before(e, next)
                 PROVE  e \in processed \/ InChannel(e)' \/ e = hand
      BY <2>1 DEF NothingLost
    <3>1. e \in processed \/ InChannel(e) \/ e = pending \/ e = hand
      BY <1>d DEF NothingLost
    <3>2. InChannel(e) => InChannel(e)'
      BY <2>3, <1>p DEF InChannel
    <3>3. e = pending => InChannel(e)'
      <4>1. Len(events') \in 1 .. Len(events')
        BY <2>3, <1>p
      <4> QED
        BY <4>1, <2>3 DEF InChannel
    <3> QED
      BY <3>1, <3>2, <3>3
  <2>6. NewestPushed' /\ FlushedIsEarned' /\ Through(flushed)' /\ Through(confirmed)'
    BY <2>1, <2>2, <2>3, <1>d DEF NewestPushed, FlushedIsEarned, Through
  <2> QED
    BY <2>4, <2>5, <2>6 DEF Delivery
<1>8. ASSUME NEW s \in Keepalives, Keepalive(s) PROVE Delivery'
  <2>1. /\ UNCHANGED <<next, events, pending, hand, processed, confirmed>>
        /\ Receiving
        /\ flushed' = IF Drained(s) THEN s ELSE flushed
        /\ lastPushed' = IF Drained(s) THEN s ELSE lastPushed
        /\ s <= IF next[1] \in Txns THEN Log[next[1]].commit ELSE WalEnd
    BY <1>8 DEF Keepalive
  <2>2. CASE ~Drained(s)
    BY <2>1, <2>2, DeliveryFrame
  <2>3. CASE Drained(s)
    <3>1. \A e \in Events : Before(e, next) => e \in processed
      BY <2>1, <2>3, DrainedIsProcessed
    <3>2. Through(flushed)'
      <4> SUFFICES ASSUME NEW i \in Txns, Log[i].commit < s, NEW e \in Changes(i)
                   PROVE  e \in processed
        BY <2>1, <2>3 DEF Through
      <4>1. i \in Nat /\ next[1] \in Nat /\ s \in Nat /\ Len(Log) \in Nat
        BY Positions, <1>p DEF Txns
      <4>2. i < next[1]
        <5>1. CASE next[1] \in Txns
          BY <5>1, <4>1, <2>1, Positions
        <5>2. CASE next[1] \notin Txns
          <6>1. next[1] # 0
            BY DEF StreamInv, CursorOK
          <6> QED
            BY <5>2, <6>1, <4>1 DEF Txns
        <5> QED
          BY <5>1, <5>2
      <4>3. e \in Events /\ e[1] = i
        BY EventParts DEF Changes
      <4> QED
        BY <3>1, <4>2, <4>3 DEF Before
    <3>3. InOrder' /\ NothingLost'
      BY <2>1, <1>d DEF InOrder, NothingLost, InChannel
    <3>4. NewestPushed'
      <4>1. pending = NoEvent /\ events = << >>
        BY <2>1, <2>3 DEF Receiving, Drained, StreamInv, Hands
      <4>2. hand # NoEvent => hand \in processed
        BY <3>1, <1>p, <1>d DEF InOrder
      <4> QED
        BY <2>1, <4>1, <4>2 DEF NewestPushed
    <3>5. FlushedIsEarned' /\ Through(confirmed)'
      BY <2>1, <2>3, <1>d DEF FlushedIsEarned, Through
    <3> QED
      BY <3>2, <3>3, <3>4, <3>5 DEF Delivery
  <2> QED
    BY <2>2, <2>3
<1>9. CASE Take
  <2>1. /\ UNCHANGED <<next, lastPushed, flushed, pending, processed, confirmed>>
        /\ events # << >> /\ hand' = Head(events) /\ events' = Tail(events)
        /\ hand = NoEvent
    BY <1>9 DEF Take, StreamInv, Hands
  <2>2. PICK q \in Seq(Events) : q = events'
    <3>1. events \in Seq(Events) /\ events # << >>
      BY <2>1, <1>p
    <3>2. Tail(events) \in Seq(Events)
      BY <3>1
    <3> QED
      BY <2>1, <3>2
  <2>3. /\ 1 \in 1 .. Len(events) /\ hand' = events[1]
        /\ Len(q) = Len(events) - 1 /\ Len(q) \in Nat /\ Len(events) \in Nat
        /\ \A k \in 1 .. Len(q) : q[k] = events[k + 1]
        /\ q = << >> => Len(events) = 1
        /\ q # << >> => Len(q) >= 1
    <3>1. events \in Seq(Events) /\ events # << >> /\ q = Tail(events)
          /\ hand' = Head(events)
      BY <2>1, <2>2, <1>p
    <3>2. /\ Len(events) \in Nat /\ Len(events) >= 1 /\ Head(events) = events[1]
          /\ Len(q) = Len(events) - 1
      BY <3>1
    <3>3. \A k \in 1 .. Len(q) : q[k] = events[k + 1]
      BY <3>1
    <3>4. (q = << >> => Len(q) = 0) /\ (q # << >> => Len(q) # 0)
      BY <2>2
    <3> QED
      BY <3>1, <3>2, <3>3, <3>4
  <2>4. InOrder'
    <3>1. Before(hand', next) /\ (pending # NoEvent => Before(hand', pending))
      BY <2>3, <1>d DEF InOrder
    <3>2. ASSUME NEW k \in 1 .. Len(q)
          PROVE  /\ Before(q[k], next) /\ Before(hand', q[k])
                 /\ pending # NoEvent => Before(q[k], pending)
      <4>1. k + 1 \in 1 .. Len(events) /\ 1 < k + 1 /\ q[k] = events[k + 1]
        BY <2>3
      <4> QED
        BY <4>1, <2>3, <1>d DEF InOrder
    <3>3. ASSUME NEW j \in 1 .. Len(q), NEW k \in 1 .. Len(q), j < k
          PROVE  Before(q[j], q[k])
      <4>1. /\ k + 1 \in 1 .. Len(events) /\ j + 1 \in 1 .. Len(events)
            /\ j + 1 < k + 1 /\ q[k] = events[k + 1] /\ q[j] = events[j + 1]
        BY <2>3, <3>3
      <4> QED
        BY <4>1, <1>d DEF InOrder
    <3> QED
      BY <2>1, <2>2, <3>1, <3>2, <3>3, <1>d DEF InOrder
  <2>5. NothingLost'
    <3> SUFFICES ASSUME NEW e \in Events, Before(e, next)
                 PROVE  e \in processed \/ InChannel(e)' \/ e = pending \/ e = hand'
      BY <2>1 DEF NothingLost
    <3>1. e \in processed \/ InChannel(e) \/ e = pending
      BY <2>1, EventParts, <1>d DEF NothingLost
    <3>2. ASSUME NEW k \in 1 .. Len(events), events[k] = e
          PROVE  InChannel(e)' \/ e = hand'
      <4>1. CASE k = 1
        BY <4>1, <3>2, <2>3
      <4>2. CASE k # 1
        <5>1. k - 1 \in 1 .. Len(q) /\ (k - 1) + 1 = k
          BY <4>2, <2>3, <1>p
        <5>2. q[k - 1] = e
          BY <5>1, <3>2, <2>3
        <5> QED
          BY <5>1, <5>2, <2>2 DEF InChannel
      <4> QED
        BY <4>1, <4>2
    <3> QED
      BY <3>1, <3>2 DEF InChannel
  <2>6. NewestPushed'
    <3>1. CASE pending # NoEvent
      BY <3>1, <2>1, <1>d DEF NewestPushed
    <3>2. CASE pending = NoEvent
      <4>1. lastPushed = End(events[Len(events)])
        BY <3>2, <2>1, <1>d DEF NewestPushed
      <4>2. CASE q = << >>
        BY <4>1, <4>2, <3>2, <2>1, <2>2, <2>3 DEF NewestPushed
      <4>3. CASE q # << >>
        <5>1. Len(q) \in 1 .. Len(q) /\ Len(q) + 1 = Len(events)
          BY <4>3, <2>3, <1>p
        <5>2. q[Len(q)] = events[Len(events)]
          BY <5>1, <2>3
        <5> QED
          BY <5>2, <4>1, <4>3, <3>2, <2>1, <2>2 DEF NewestPushed
      <4> QED
        BY <4>2, <4>3
    <3> QED
      BY <3>1, <3>2
  <2>7. FlushedIsEarned' /\ Through(flushed)' /\ Through(confirmed)'
    BY <2>1, <1>d DEF FlushedIsEarned, Through
  <2> QED
    BY <2>4, <2>5, <2>6, <2>7 DEF Delivery
<1>10. CASE BodyReturns
  <2>1. /\ UNCHANGED <<next, lastPushed, flushed, events, pending, hand, confirmed>>
        /\ processed' = processed \cup {hand}
    BY <1>10 DEF BodyReturns
  <2>2. InOrder' /\ NothingLost' /\ NewestPushed' /\ FlushedIsEarned'
    BY <2>1, <1>d DEF InOrder, NothingLost, InChannel, NewestPushed, FlushedIsEarned
  <2>3. Through(flushed)' /\ Through(confirmed)'
    BY <2>1, <1>d DEF Through
  <2> QED
    BY <2>2, <2>3 DEF Delivery
<1>11. CASE Ack
  <2>1. /\ UNCHANGED <<next, lastPushed, events, pending, processed, confirmed>>
        /\ hand \in Events /\ hand # NoEvent /\ hand \in processed /\ hand' = NoEvent
        /\ flushed' = advance(flushed, End(hand))
    BY <1>11, EventParts DEF Ack, StreamInv, Hands
  <2>2. flushed' = flushed \/ flushed' = End(hand)
    BY <2>1 DEF advance, MaxOf
  <2>3. Through(End(hand))
    <3> SUFFICES ASSUME NEW i \in Txns, Log[i].commit < End(hand), NEW e \in Changes(i)
                 PROVE  e \in processed
      BY DEF Through
    <3>1. End(hand) <= Log[hand[1]].commit /\ hand[1] \in Txns
      BY <2>1, EventParts DEF Marked, OnTheWay, Exact
    <3>2. i < hand[1]
      <4>1. /\ i \in Nat /\ hand[1] \in Nat /\ End(hand) \in Nat
            /\ Log[i].commit \in Nat /\ Log[hand[1]].commit \in Nat
        BY <3>1, <2>1, Positions DEF Txns
      <4>2. Log[i].commit < Log[hand[1]].commit
        BY <3>1, <4>1
      <4>3. i # hand[1] /\ ~(hand[1] < i)
        BY <4>1, <4>2, <3>1, Positions
      <4> QED
        BY <4>1, <4>3
    <3>3. e \in Events /\ e[1] = i
      BY EventParts DEF Changes
    <3> QED
      BY <3>2, <3>3, <2>1, BeforeHand DEF Before
  <2>4. Through(flushed)' /\ Through(confirmed)'
    BY <2>1, <2>2, <2>3, <1>d DEF Through
  <2>5. InOrder' /\ NothingLost' /\ NewestPushed'
    BY <2>1, <1>d DEF InOrder, NothingLost, InChannel, NewestPushed
  <2>6. FlushedIsEarned'
    BY <2>1, <2>2, <1>d DEF FlushedIsEarned
  <2> QED
    BY <2>4, <2>5, <2>6 DEF Delivery
<1>12. CASE Restart
  <2>1. /\ next' = Resume(confirmed) /\ flushed' = 0 /\ events' = << >>
        /\ pending' = NoEvent /\ hand' = NoEvent
        /\ UNCHANGED <<confirmed, processed>>
    BY <1>12 DEF Restart
  <2>2. InOrder' /\ NewestPushed' /\ FlushedIsEarned'
    BY <2>1 DEF InOrder, NewestPushed, FlushedIsEarned
  <2>3. NothingLost'
    <3> SUFFICES ASSUME NEW e \in Events, Before(e, Resume(confirmed))
                 PROVE  e \in processed
      BY <2>1 DEF NothingLost
    <3>1. Log[e[1]].commit < confirmed
      BY ResumeSkips DEF StreamInv, TypeOK
    <3> QED
      BY <3>1, <1>d, EventParts DEF Through
  <2>4. Through(flushed)' /\ Through(confirmed)'
    BY <2>1, <1>d, Positions DEF Through
  <2> QED
    BY <2>2, <2>3, <2>4 DEF Delivery
<1>13. CASE UNCHANGED vars
  BY <1>13, DeliveryFrame DEF vars, stream
<1> QED
  BY <1>1, <1>2, <1>3, <1>4, <1>5, <1>6, <1>7, <1>8, <1>9, <1>10, <1>11, <1>12, <1>13
  DEF Next, ReaderStep, ConsumerStep

\* Up to the first inexact event pushed, nothing the cursor has passed is lost, and
\* neither flushed nor confirmed gets ahead of what was processed (emit, All, catchUp).
THEOREM DeliveryHolds == Spec => [](Marked /\ (inexact \/ Delivery))
<1>1. Init => Marked /\ (inexact \/ Delivery)
  <2>1. Init => Marked
    BY EventParts DEF Init, Marked, OnTheWay, InChannel
  <2> QED
    BY <2>1, DeliveryInit
<1>2. /\ StreamInv /\ Marked /\ (inexact \/ Delivery) /\ [Next]_vars
      => Marked' /\ (inexact' \/ Delivery')
  BY MarkedStep, DeliveryStep
<1> QED
  BY <1>1, <1>2, StreamInvHolds, PTL DEF Spec

\* "Delivery is at-least-once" (gpool/cdc/event_stream.go): for every log, whatever
\* is interleaved, lost, garbled or restarted, a transaction the server will not send
\* again has been processed to its last change, up to the first inexact event.
THEOREM DeliveryIsAtLeastOnce == Spec => []AtLeastOnce
<1>1. Marked /\ (inexact \/ Delivery) => AtLeastOnce
  BY DEF Delivery, Through, AtLeastOnce, NothingSkipped
<1> QED
  BY <1>1, DeliveryHolds, PTL
=============================================================================
