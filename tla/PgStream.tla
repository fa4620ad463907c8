------------------------------ MODULE PgStream ------------------------------
(***************************************************************************)
(* A PostgreSQL change stream (pkg/vendors/postgres/cdc/event_stream.go):  *)
(* the reader goroutine that owns the replication connection, the consumer *)
(* that ranges over All, Close, and the replication slot that decides what *)
(* is sent again after a crash or a reconnect.                             *)
(*                                                                         *)
(* The server is external and modelled by what the stream relies on: it    *)
(* sends whole transactions in commit order, changes at the positions they *)
(* were written at, keepalives with a position up to which everything was  *)
(* sent; and a new stream starts with the first transaction that commits   *)
(* at or after the slot's confirmed position (event.go: "PostgreSQL        *)
(* replays from the transaction containing the change").                   *)
(*                                                                         *)
(* Rows, columns and relations are left out; so is the text of positions.  *)
(***************************************************************************)
EXTENDS Integers, Sequences, FiniteSets

CONSTANTS
  Log,          \* the WAL's transactions, in commit order: the position of the
                \* commit, and each change's position and message length
  WalEnd,       \* where the WAL ends, past every commit
  Keepalives,   \* positions a keepalive may carry
  Buffer,       \* Config.Buffer
  MayFail,      \* whether the connection can fail, or anyone close the stream
  MaxRestarts   \* bound: how often the stream is started again

Txns == 1 .. Len(Log)
Changes(i) == {<<i, k>> : k \in 1 .. Len(Log[i].changes)}
Events == UNION {Changes(i) : i \in Txns}

ASSUME PgStreamAssumption ==
  /\ Log \in Seq([commit : Nat, changes : Seq([lsn : Nat, len : Nat])])
  /\ \A i \in Txns : /\ Log[i].commit \in 1 .. WalEnd
                     /\ \A k \in 1 .. Len(Log[i].changes) :
                          Log[i].changes[k].lsn \in 1 .. Log[i].commit - 1
  /\ \A i, j \in Txns : i < j => Log[i].commit < Log[j].commit
  /\ WalEnd \in Nat /\ Keepalives \subseteq 0 .. WalEnd
  /\ Buffer \in Nat \ {0} /\ MaxRestarts \in Nat /\ MayFail \in BOOLEAN

VARIABLES
  confirmed,    \* the slot's confirmed_flush_lsn, at the server
  next,         \* <<i, k>>: the k-th message of transaction i is sent next
  received, lastPushed, flushed,        \* the stream's three positions
  events,       \* the channel
  pending,      \* the event emit is handing over
  reader,       \* where run stands
  consumer,     \* where the loop over All stands
  hand,         \* the event in the loop's body
  cancelled,    \* s.ctx is done
  connected,    \* the connection works
  connClosed,   \* Close has closed it
  processed,    \* events some loop body has finished with
  finished,     \* flushed as it was when the reader left its loop
  inexact,      \* an event was pushed whose end is not exact
  restarts

stream == <<next, received, lastPushed, flushed, events, pending, reader,
            consumer, hand, cancelled, connected, connClosed, finished>>
vars == <<stream, confirmed, processed, restarts, inexact>>

\* A change's end as the stream computes it: its position in the WAL plus the
\* length of its message.
End(e) == Log[e[1]].changes[e[2]].lsn + Log[e[1]].changes[e[2]].len
NoEvent == <<0, 0>>

\* The end of e is a position of its own: not past its transaction's commit, no
\* other change's, and no keepalive's.
Exact(e) ==
  /\ End(e) <= Log[e[1]].commit /\ End(e) \notin Keepalives
  /\ \A f \in Events : End(f) = End(e) => f = e

MaxOf(a, b) == IF a >= b THEN a ELSE b
MinOf(a, b) == IF a <= b THEN a ELSE b

TypeOK ==
  /\ confirmed \in Nat /\ received \in Nat /\ lastPushed \in Nat /\ flushed \in Nat
  /\ events \in Seq(Events) /\ Len(events) <= Buffer
  /\ pending \in Events \cup {NoEvent} /\ hand \in Events \cup {NoEvent}
  /\ reader \in {"loop", "emit", "final", "done"}
  /\ consumer \in {"range", "body", "ack", "close", "out"}
  /\ cancelled \in BOOLEAN /\ connected \in BOOLEAN /\ connClosed \in BOOLEAN
  /\ processed \subseteq Events /\ finished \in Nat /\ inexact \in BOOLEAN
  /\ restarts \in 0 .. MaxRestarts

\* The first transaction a stream from position p is sent.
Resume(p) == <<1 + Cardinality({i \in Txns : Log[i].commit < p}), 0>>

\* newEventStream: all three positions are zero, whatever the slot's.
Init ==
  /\ confirmed = 0
  /\ next = Resume(0)
  /\ received = 0 /\ lastPushed = 0 /\ flushed = 0
  /\ events = << >> /\ pending = NoEvent
  /\ reader = "loop" /\ consumer = "range" /\ hand = NoEvent
  /\ cancelled = FALSE /\ connected = TRUE /\ connClosed = FALSE
  /\ finished = 0
  /\ processed = {}
  /\ inexact = FALSE
  /\ restarts = 0

\* advance: a position never goes back.
advance(p, lsn) == MaxOf(p, lsn)

-----------------------------------------------------------------------------
(* The reader: run. *)

\* writeStatus: what the server is told is flushed.  It ignores a zero, and
\* does not take a confirmation back.
writeStatus == MinOf(flushed, received)

Confirm == confirmed' = advance(confirmed, writeStatus)

Receiving == reader = "loop" /\ connected /\ ~cancelled

\* The ticker fires in the loop, or while emit waits for the consumer.
SendStatus ==
  /\ reader \in {"loop", "emit"} /\ connected /\ ~cancelled
  /\ Confirm
  /\ UNCHANGED <<stream, processed, restarts, inexact>>

\* How far the server's next message takes received.
MessageEnd ==
  CASE next \in Events -> End(next)
    [] next[1] \in Txns /\ next \notin Events /\ next[2] > 0 -> Log[next[1]].commit + 1
    [] OTHER -> 0

\* Begin, Relation and Commit messages only raise received.
RecvOther ==
  LET i == next[1] IN
  /\ Receiving /\ i \in Txns
  /\ \/ next[2] = 0 /\ next' = <<i, 1>>
     \/ next[2] = Len(Log[i].changes) + 1 /\ next' = <<i + 1, 0>>
  /\ received' = advance(received, MessageEnd)
  /\ UNCHANGED <<confirmed, lastPushed, flushed, events, pending, reader, consumer,
                 hand, cancelled, connected, connClosed, finished, processed,
                 restarts, inexact>>

\* Mutant: emit does not publish lastPushed.
PushedUnpublished(e) == lastPushed

Pushed(e) == End(e)

\* handleXLogData with a change: lastPushed is stored before the send.
RecvChange ==
  /\ Receiving /\ next \in Events
  /\ received' = advance(received, End(next))
  /\ lastPushed' = Pushed(next)
  /\ pending' = next
  /\ reader' = "emit"
  /\ next' = <<next[1], next[2] + 1>>
  /\ inexact' = (inexact \/ ~Exact(next))
  /\ UNCHANGED <<confirmed, flushed, events, consumer, hand, cancelled, connected,
                 connClosed, finished, processed, restarts>>

\* emit: the channel has room.
EmitSend ==
  /\ reader = "emit" /\ Len(events) < Buffer
  /\ events' = Append(events, pending)
  /\ pending' = NoEvent
  /\ reader' = "loop"
  /\ UNCHANGED <<confirmed, next, received, lastPushed, flushed, consumer, hand,
                 cancelled, connected, connClosed, finished, processed,
                 restarts, inexact>>

\* Nothing buffered, the last event pushed acknowledged, the server ahead.
Drained(s) == events = << >> /\ lastPushed = flushed /\ s > lastPushed

\* handleKeepalive, catchUp included.  Only the reader fills the channel and moves
\* lastPushed, so no step of the consumer can undo what catchUp has tested.
Keepalive(s) ==
  /\ Receiving
  /\ s <= IF next[1] \in Txns THEN Log[next[1]].commit ELSE WalEnd
  /\ received' = advance(received, s)
  /\ flushed' = IF Drained(s) THEN s ELSE flushed
  /\ lastPushed' = IF Drained(s) THEN s ELSE lastPushed
  /\ UNCHANGED <<confirmed, next, events, pending, reader, consumer, hand,
                 cancelled, connected, connClosed, finished, processed,
                 restarts, inexact>>

\* Mutant: emit waits for the consumer alone.
StoppingInLoop == reader = "loop" /\ (cancelled \/ ~connected)

Stopping == \/ reader = "loop" /\ (cancelled \/ ~connected)
            \/ reader = "emit" /\ cancelled

\* run returns, and close(events) is the first of its deferred calls.
LeaveLoop == reader' = "final" /\ finished' = flushed

\* A failed receive or write, or the context.
ReaderStops ==
  /\ Stopping
  /\ LeaveLoop
  /\ UNCHANGED <<confirmed, next, received, lastPushed, flushed, events, pending,
                 consumer, hand, cancelled, connected, connClosed, processed,
                 restarts, inexact>>

\* A keepalive, the frame of a message or the message in it cannot be parsed:
\* the reader leaves a connection that works, and nobody has cancelled it.
RecvGarbled ==
  /\ MayFail /\ Receiving
  /\ received' \in {received, advance(received, MessageEnd)}
  /\ LeaveLoop
  /\ UNCHANGED <<confirmed, next, lastPushed, flushed, events, pending, consumer,
                 hand, cancelled, connected, connClosed, processed, restarts,
                 inexact>>

\* emit's status update fails.
EmitFails ==
  /\ reader = "emit" /\ ~connected
  /\ LeaveLoop
  /\ UNCHANGED <<confirmed, next, received, lastPushed, flushed, events, pending,
                 consumer, hand, cancelled, connected, connClosed, processed,
                 restarts, inexact>>

\* Mutant: run exits without the last status update.
ExitSilently ==
  /\ reader = "final"
  /\ reader' = "done"
  /\ UNCHANGED <<confirmed, next, received, lastPushed, flushed, events, pending,
                 consumer, hand, cancelled, connected, connClosed, finished,
                 processed, restarts, inexact>>

\* sendFinalStatus, then close(done).
SendFinalStatus ==
  /\ reader = "final"
  /\ reader' = "done"
  /\ IF connected THEN Confirm ELSE UNCHANGED confirmed
  /\ UNCHANGED <<next, received, lastPushed, flushed, events, pending, consumer,
                 hand, cancelled, connected, connClosed, finished, processed,
                 restarts, inexact>>

-----------------------------------------------------------------------------
(* The consumer: All. *)

Take ==
  /\ consumer = "range" /\ events # << >>
  /\ hand' = Head(events)
  /\ events' = Tail(events)
  /\ consumer' = "body"
  /\ UNCHANGED <<confirmed, next, received, lastPushed, flushed, pending, reader,
                 cancelled, connected, connClosed, finished, processed,
                 restarts, inexact>>

RangeEnds ==
  /\ consumer = "range" /\ events = << >> /\ reader \in {"final", "done"}
  /\ consumer' = "close"
  /\ UNCHANGED <<confirmed, next, received, lastPushed, flushed, events, pending,
                 reader, hand, cancelled, connected, connClosed, finished,
                 processed, restarts, inexact>>

BodyReturns ==
  /\ consumer = "body"
  /\ processed' = processed \cup {hand}
  /\ consumer' = "ack"
  /\ UNCHANGED <<confirmed, next, received, lastPushed, flushed, events, pending,
                 reader, hand, cancelled, connected, connClosed, finished,
                 restarts, inexact>>

BodyBreaks ==
  /\ MayFail
  /\ consumer = "body"
  /\ consumer' = "close"
  /\ UNCHANGED <<confirmed, next, received, lastPushed, flushed, events, pending,
                 reader, hand, cancelled, connected, connClosed, finished,
                 processed, restarts, inexact>>

\* Only now is the event's position counted as flushed.
Ack ==
  /\ consumer = "ack"
  /\ flushed' = advance(flushed, End(hand))
  /\ hand' = NoEvent
  /\ consumer' = "range"
  /\ UNCHANGED <<confirmed, next, received, lastPushed, events, pending, reader,
                 cancelled, connected, connClosed, finished, processed,
                 restarts, inexact>>

-----------------------------------------------------------------------------
(* Close, by the consumer on its way out or by anyone else; closeOnce.     *)

Cancel ==
  /\ consumer = "close" \/ MayFail
  /\ ~cancelled
  /\ cancelled' = TRUE
  /\ UNCHANGED <<confirmed, next, received, lastPushed, flushed, events, pending,
                 reader, consumer, hand, connected, connClosed, finished, processed,
                 restarts, inexact>>

ReaderGone == reader = "done"

CloseConn ==
  /\ cancelled /\ ReaderGone /\ ~connClosed
  /\ connClosed' = TRUE
  /\ UNCHANGED <<confirmed, next, received, lastPushed, flushed, events, pending,
                 reader, consumer, hand, cancelled, connected, finished, processed,
                 restarts, inexact>>

CloseReturns ==
  /\ consumer = "close" /\ connClosed
  /\ consumer' = "out"
  /\ UNCHANGED <<confirmed, next, received, lastPushed, flushed, events, pending,
                 reader, hand, cancelled, connected, connClosed, finished,
                 processed, restarts, inexact>>

-----------------------------------------------------------------------------
(* The world. *)

LinkFails ==
  /\ MayFail /\ connected
  /\ connected' = FALSE
  /\ UNCHANGED <<confirmed, next, received, lastPushed, flushed, events, pending,
                 reader, consumer, hand, cancelled, connClosed, finished, processed,
                 restarts, inexact>>

\* The process crashes, or the stream has ended, and Subscribe starts another.
\* All that remains is the slot, and what was really processed.
Restart ==
  /\ restarts < MaxRestarts
  /\ restarts' = restarts + 1
  /\ next' = Resume(confirmed)
  /\ received' = 0 /\ lastPushed' = 0 /\ flushed' = 0
  /\ events' = << >> /\ pending' = NoEvent
  /\ reader' = "loop" /\ consumer' = "range" /\ hand' = NoEvent
  /\ cancelled' = FALSE /\ connected' = TRUE /\ connClosed' = FALSE
  /\ finished' = 0
  /\ UNCHANGED <<confirmed, processed, inexact>>

ReaderStep == RecvOther \/ RecvChange \/ EmitSend \/ ReaderStops \/ EmitFails
              \/ SendFinalStatus \/ RecvGarbled
ConsumerStep == Take \/ RangeEnds \/ BodyReturns \/ Ack \/ CloseReturns
                \/ (consumer = "close" /\ (Cancel \/ CloseConn))

Next ==
  \/ ReaderStep \/ SendStatus
  \/ \E s \in Keepalives : Keepalive(s)
  \/ ConsumerStep \/ BodyBreaks
  \/ Cancel \/ CloseConn
  \/ LinkFails \/ Restart

Spec == Init /\ [][Next]_vars

\* The reader and the consumer run, a started Close goes on, the server keeps
\* sending keepalives up to its end and the status ticker keeps firing.
FairSpec ==
  /\ Spec
  /\ WF_vars(ReaderStep) /\ WF_vars(ConsumerStep) /\ WF_vars(CloseConn)
  /\ SF_vars(SendStatus)
  /\ \A s \in Keepalives : SF_vars(Keepalive(s))

-----------------------------------------------------------------------------
\* A transaction the server will not send again has been processed to its last
\* change.
NothingSkipped ==
  \A i \in Txns : Log[i].commit < confirmed => Changes(i) \subseteq processed

\* "Delivery is at-least-once" (gpool/cdc/event_stream.go), through crashes,
\* restarts and keepalives, until the stream has pushed an event whose computed end
\* (event_stream.go:226) is not a position of its own; README.md, 3, tells what
\* happens then.
AtLeastOnce == ~inexact => NothingSkipped

\* The cap in writeStatus is the safety net its comment says it is (340): the
\* counters by themselves never get past what was received.
FlushedWasReceived == flushed <= received

\* Close (115): the connection "is never touched from two goroutines": when it is
\* closed, the reader has sent its last status.
ConnHasOneOwner == connClosed => reader = "done"

\* run (136): the last status comes after the loop, so what the consumer had
\* acknowledged when the reader left it, for whatever reason, the server knows once
\* the reader is done.
FinishedIsConfirmed == reader = "done" /\ connected => confirmed >= finished

\* Types; the positions keep their order, and the end of a stream: the reader lets
\* go of the connection before Close closes it, and only after it has reported
\* what the consumer finished (run's deferred calls, 135-148; Close, 115-132).
Inv == TypeOK /\ FlushedWasReceived /\ ConnHasOneOwner /\ FinishedIsConfirmed

\* Close (116): "work the consumer already finished is not replayed": when the loop's
\* own Close has returned, the server knows all it acknowledged.  It does not when
\* the reader went first (README.md, 3).
FinishedIsNotReplayed == consumer = "out" /\ connected => confirmed >= flushed

\* catchUp (296): on a connection that stays up the slot reaches the server's end,
\* so a quiet publication does not hold WAL back.
CatchesUp == []<>(cancelled \/ ~connected \/ confirmed = WalEnd)

\* Close never hangs: the reader, blocked on a full channel or not, lets go.
CloseEnds == (consumer = "close") ~> (consumer # "close")
=============================================================================
