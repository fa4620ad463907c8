----------------------------- MODULE MSSQLStream -----------------------------
(***************************************************************************)
(* The SQL Server subscriber and its stream (vendors/mssql/cdc:            *)
(* subscriber.go, event_stream.go, decoder.go, position.go): the goroutine *)
(* that polls the change tables window by window, the consumer that ranges *)
(* over All and records Event.Position itself, table management that       *)
(* enables and disables capture at the server, and Close.                  *)
(*                                                                         *)
(* The server is external: transactions become visible in LSN order as the *)
(* capture job runs, one change table per captured table, which the        *)
(* cleanup job shortens and disabling capture drops.  The LSN of a         *)
(* transaction is its number.  Every query is a step of its own, so that   *)
(* the server and table management move between a poll's queries.          *)
(***************************************************************************)
EXTENDS Integers, Sequences, FiniteSets, SequencesExt

CONSTANTS
  Log,          \* per transaction, the tables of its changes
  Tables,       \* table names
  Configured,   \* Config.Tables; capture is enabled on them to begin with
  Buffer,       \* Config.Buffer
  MayClose,     \* whether anybody closes the subscriber
  MayClean,     \* whether the cleanup job runs
  MaxManaged,   \* bound: calls of AddTables, RemoveTables and SyncTables
  MaxFailures   \* bound: crashes, failed queries and abandoned loops

ASSUME MSSQLStreamAssumption ==
  /\ IsFiniteSet(Tables) /\ Log \in Seq(Seq(Tables))
  /\ Configured \subseteq Tables /\ Buffer \in Nat \ {0}
  /\ MayClose \in BOOLEAN /\ MayClean \in BOOLEAN
  /\ MaxManaged \in Nat /\ MaxFailures \in Nat

VARIABLES
  captured,     \* the maximum LSN, 0 when there is none
  inst,         \* tables with a capture instance
  oldest,       \* each instance's minimum LSN, 0 when there is none
  hist,         \* the rows in the change tables
  closed, streaming, stream,  \* the subscriber's fields; stream: it is not nil
  tables,       \* s.tables; empty means every captured table
  db,           \* s.db is open
  admin,        \* table management: what is left of the call, and how many calls
  st,           \* the stream (see NoStream)
  pc, hand,     \* the consumer and Close; the loop body's row or the start
  check,        \* checkRetained (see NoCheck)
  recorded,     \* the LSN the consumer has stored durably, 0 for none
  processed,    \* rows whose loop body has finished
  excused,      \* rows discarded at the server, rows of a table not tracked when
                \* its window was read, and rows before the first position
  cleaned,      \* rows the cleanup job has discarded from a present instance
  failures

server == <<captured, inst, oldest, hist, cleaned>>
sub == <<closed, streaming, stream, tables, db>>
durable == <<recorded, processed, excused, failures>>
vars == <<server, sub, admin, st, pc, hand, check, durable>>

RowsOf(i) == {<<i, k>> : k \in DOMAIN Log[i]}
Rows == UNION {RowsOf(i) : i \in DOMAIN Log}
TableOf(r) == Log[r[1]][r[2]]
RowsIn(t) == {r \in Rows : TableOf(r) = t}

\* lessThan: by start LSN, then by sequence value.
LessThan(r, q) == r[1] < q[1] \/ (r[1] = q[1] /\ r[2] < q[2])

\* once: closeOnce.  reader: where run and poll stand.  from: the first LSN of
\* the next poll.  to: its last.  todo: instances still to be read.  low: the
\* instance whose minimum was read, and the start of its window.  batch: what was
\* read.  late: the poll's deadline has passed.  sent: rows handed over so far.
NoStream ==
  [once |-> "done", reader |-> "none", cancelled |-> FALSE, from |-> 0, to |-> 0,
   todo |-> {}, low |-> <<>>, batch |-> {}, late |-> FALSE, events |-> <<>>, sent |-> <<>>]

\* listed: the instances to ask.  todo: those not asked yet.  since: rows the
\* cleanup job has discarded from one of the others, since it was asked.
NoCheck == [listed |-> {}, todo |-> {}, since |-> {}]

Init ==
  /\ captured = 0 /\ inst = Configured /\ oldest = [t \in Tables |-> 0]
  /\ hist = {} /\ cleaned = {}
  /\ closed = FALSE /\ streaming = FALSE /\ stream = FALSE /\ tables = Configured /\ db = TRUE
  /\ admin = [todo |-> <<>>, step |-> "server", calls |-> 0]
  /\ st = NoStream
  /\ pc = [consumer |-> "idle", closer |-> "none"] /\ hand = <<>> /\ check = NoCheck
  /\ recorded = 0 /\ processed = {} /\ excused = {} /\ failures = 0

Consumer(from, to) == pc.consumer = from /\ pc' = [pc EXCEPT !.consumer = to]
Tracked == {t \in inst : tables = {} \/ t \in tables}

\* requireCDC, on a database that has it.
RequireCDC == ~closed

\* maxLSN: how far the capture job has come, 0 for nothing yet.
MaxLSN == captured

\* pair: every row of a transaction carries the transaction's LSN, as its Position
\* and as its Transaction.
Position(r) == r[1]

\* incrementLSN.
NextFrom(to) == to + 1

-------------------------------------------------------------------------------
\* Subscribe: one past the maximum LSN (0 when nothing was captured yet).
ReadMax ==
  /\ Consumer("idle", "start") /\ recorded = 0 /\ RequireCDC
  /\ hand' = <<IF MaxLSN = 0 THEN 0 ELSE NextFrom(MaxLSN)>>
  /\ excused' = excused \cup UNION {RowsOf(i) : i \in 1 .. captured}
  /\ UNCHANGED <<server, sub, admin, st, check, recorded, processed, failures>>

\* SubscribeFrom(recorded), and checkRetained: the instances are listed first.
CheckRetained ==
  /\ Consumer("idle", "check") /\ recorded # 0 /\ RequireCDC /\ hand' = <<recorded>>
  /\ check' = [NoCheck EXCEPT !.listed = Tracked, !.todo = Tracked]
  /\ UNCHANGED <<server, sub, admin, st, durable>>

\* Mutant: an instance with no minimum ends the loop.
AskInstanceLast(t) ==
  /\ pc.consumer = "check" /\ t \in check.todo /\ db
  /\ \/ /\ oldest[t] <= hand[1] /\ UNCHANGED <<pc, hand>>
        /\ check' = [check EXCEPT !.todo = IF oldest[t] = 0 THEN {} ELSE @ \ {t}]
     \/ oldest[t] > hand[1] /\ Consumer("check", "idle") /\ hand' = <<>> /\ check' = NoCheck
  /\ UNCHANGED <<server, sub, admin, st, durable>>

\* Each is asked for its minimum: the position is refused when it is before one.
AskInstance(t) ==
  /\ pc.consumer = "check" /\ t \in check.todo /\ db
  /\ \/ /\ oldest[t] <= hand[1] /\ UNCHANGED <<pc, hand>>
        /\ check' = [check EXCEPT !.todo = @ \ {t}]
     \/ oldest[t] > hand[1] /\ Consumer("check", "idle") /\ hand' = <<>> /\ check' = NoCheck
  /\ UNCHANGED <<server, sub, admin, st, durable>>
AskedAll ==
  /\ Consumer("check", "start") /\ check.todo = {}
  /\ UNCHANGED <<server, sub, admin, st, hand, check, durable>>

\* A query of checkRetained fails: its connection breaks, or Close has closed it.
CheckFails ==
  /\ Consumer("check", "idle") /\ hand' = <<>> /\ check' = NoCheck
  /\ IF db THEN failures < MaxFailures /\ failures' = failures + 1 ELSE UNCHANGED failures
  /\ UNCHANGED <<server, sub, admin, st, recorded, processed, excused>>

\* newEventStream, and subscribe.
NewStream(from) == [NoStream EXCEPT !.once = "new", !.reader = "max", !.from = from]
Subscribe ==
  /\ Consumer("start", "range") /\ ~closed /\ ~streaming
  /\ stream' = TRUE /\ streaming' = TRUE /\ hand' = <<>> /\ check' = NoCheck
  /\ st' = NewStream(hand[1])
  /\ UNCHANGED <<server, closed, tables, db, admin, durable>>
SubscribeFails ==
  /\ Consumer("start", "idle") /\ (closed \/ streaming) /\ hand' = <<>> /\ check' = NoCheck
  /\ UNCHANGED <<server, sub, admin, st, durable>>

-------------------------------------------------------------------------------
\* poll: the maximum LSN is read first, and bounds the window.
PollMax ==
  /\ st.reader = "max"
  /\ st' = IF MaxLSN = 0 \/ MaxLSN < st.from
           THEN [st EXCEPT !.reader = "wait"]
           ELSE [st EXCEPT !.reader = "instances", !.to = MaxLSN]
  /\ UNCHANGED <<server, sub, admin, pc, hand, check, durable>>

\* trackedInstances.
PollInstances ==
  /\ st.reader = "instances"
  /\ st' = [st EXCEPT !.reader = "read", !.todo = Tracked]
  /\ excused' = excused \cup {r \in Rows : r[1] <= st.to /\ TableOf(r) \notin Tracked}
  /\ UNCHANGED <<server, sub, admin, pc, hand, check, recorded, processed, failures>>

\* readInstance, first query: the window is clamped to what the instance holds.  An
\* instance that is gone has no minimum the code would take for none.
Clamped(t) == IF t \in inst /\ st.from < oldest[t] THEN oldest[t] ELSE st.from
ReadMinimum(t) ==
  /\ st.reader = "read" /\ st.low = <<>> /\ t \in st.todo
  /\ st' = IF (t \in inst /\ oldest[t] = 0) \/ Clamped(t) > st.to
           THEN [st EXCEPT !.todo = @ \ {t}]
           ELSE [st EXCEPT !.low = <<t, Clamped(t)>>]
  /\ UNCHANGED <<server, sub, admin, pc, hand, check, durable>>

\* Mutant: the window of an instance begins after its first LSN.
WindowShort(t, from) == {r \in hist \cap RowsIn(t) : from < r[1] /\ r[1] <= st.to}

\* Second query: the changes.  The server refuses a window that begins before the
\* instance's minimum, and one of an instance that is gone.
Window(t, from) == {r \in hist \cap RowsIn(t) : from <= r[1] /\ r[1] <= st.to}
Answers(t, from) == t \in inst /\ oldest[t] \in 1 .. from
ReadInstance(t) ==
  /\ st.reader = "read" /\ st.low # <<>> /\ t = st.low[1] /\ Answers(t, st.low[2])
  /\ st' = [st EXCEPT !.todo = @ \ {t}, !.low = <<>>, !.batch = @ \cup Window(t, st.low[2])]
  /\ UNCHANGED <<server, sub, admin, pc, hand, check, durable>>

\* Mutant: the instances' changes are delivered one instance after the other.
OrderedByTable(batch) == {r \in batch : \A q \in batch : TableOf(q) = TableOf(r) => ~LessThan(q, r)}

\* orderChanges: the next change to deliver.
Ordered(batch) == {r \in batch : \A q \in batch : ~LessThan(q, r)}

\* Mutant: the poll's deadline ends the delivery.
DeliverUntilDeadline ==
  /\ st.reader = "read" /\ st.todo = {} /\ st.batch # {}
  /\ \/ /\ ~st.late /\ Len(st.events) < Buffer
        /\ \E r \in Ordered(st.batch) :
             st' = [st EXCEPT !.events = Append(@, r), !.sent = Append(@, r), !.batch = @ \ {r}]
     \/ (st.cancelled \/ st.late) /\ st' = [st EXCEPT !.reader = "ended"]
  /\ UNCHANGED <<server, sub, admin, pc, hand, check, durable>>

\* Each change goes to the channel, however long the consumer takes; only the
\* stream's own context ends the wait.
Deliver ==
  /\ st.reader = "read" /\ st.todo = {} /\ st.batch # {}
  /\ \/ /\ Len(st.events) < Buffer
        /\ \E r \in Ordered(st.batch) :
             st' = [st EXCEPT !.events = Append(@, r), !.sent = Append(@, r), !.batch = @ \ {r}]
     \/ st.cancelled /\ st' = [st EXCEPT !.reader = "ended"]
  /\ UNCHANGED <<server, sub, admin, pc, hand, check, durable>>

\* The poll's deadline, which covers the delivery too, passes meanwhile.
DeadlinePasses ==
  /\ st.reader = "read" /\ st.todo = {} /\ st.batch # {} /\ ~st.late
  /\ st' = [st EXCEPT !.late = TRUE]
  /\ UNCHANGED <<server, sub, admin, pc, hand, check, durable>>

\* The end of a poll: incrementLSN, on the poll's context, moves the window on.
EndPoll ==
  /\ st.reader = "read" /\ st.todo = {} /\ st.batch = {}
  /\ st' = IF st.late \/ st.cancelled THEN [st EXCEPT !.reader = "ended"]
           ELSE [st EXCEPT !.reader = "wait", !.from = NextFrom(st.to)]
  /\ UNCHANGED <<server, sub, admin, pc, hand, check, durable>>

\* run waits for the ticker, or ends.
Tick ==
  /\ st.reader = "wait" /\ st' = [st EXCEPT !.reader = IF st.cancelled THEN "ended" ELSE "max"]
  /\ UNCHANGED <<server, sub, admin, pc, hand, check, durable>>

\* A query fails: the context ended, or since its minimum was read an instance was
\* cleaned up or disabled; or the connection breaks.
QueryFails ==
  /\ \/ st.reader = "read" /\ st.low # <<>> /\ ~Answers(st.low[1], st.low[2])
     \/ st.cancelled /\ st.reader \in {"max", "instances", "read"} /\ st.batch = {}
  /\ st' = [st EXCEPT !.reader = "ended", !.batch = {}, !.low = <<>>]
  /\ UNCHANGED <<server, sub, admin, pc, hand, check, durable>>
ConnectionFails ==
  /\ failures < MaxFailures /\ failures' = failures + 1
  /\ st.reader \in {"max", "instances", "read"} /\ (st.reader = "read" => st.todo # {})
  /\ st' = [st EXCEPT !.reader = "ended", !.batch = {}, !.low = <<>>]
  /\ UNCHANGED <<server, sub, admin, pc, hand, check, recorded, processed, excused>>

-------------------------------------------------------------------------------
\* The loop over All: the body records the event's position, then processes it.
Receive ==
  /\ Consumer("range", "record") /\ st.events # <<>>
  /\ hand' = Head(st.events) /\ st' = [st EXCEPT !.events = Tail(@)]
  /\ UNCHANGED <<server, sub, admin, check, durable>>
Record ==
  /\ Consumer("record", "process") /\ recorded' = Position(hand)
  /\ UNCHANGED <<server, sub, admin, st, hand, check, processed, excused, failures>>
Process ==
  /\ Consumer("process", "range") /\ processed' = processed \cup {hand} /\ hand' = <<>>
  /\ UNCHANGED <<server, sub, admin, st, check, recorded, excused, failures>>
LoopEnds ==
  /\ Consumer("range", "once") /\ st.events = <<>> /\ st.reader \in {"ended", "none"}
  /\ UNCHANGED <<server, sub, admin, st, hand, check, durable>>
LoopBreaks ==
  /\ Consumer("range", "once") /\ failures < MaxFailures /\ failures' = failures + 1
  /\ UNCHANGED <<server, sub, admin, st, hand, check, recorded, processed, excused>>

\* The stream's Close, by the consumer or by the subscriber's Close (p).
Returned(p) == IF p = "consumer" THEN "idle" ELSE "db"
Once(p) ==
  /\ pc[p] = "once"
  /\ \/ /\ st.once = "new" /\ st' = [st EXCEPT !.once = "busy", !.cancelled = TRUE]
        /\ pc' = [pc EXCEPT ![p] = "release"]
     \/ st.once = "done" /\ pc' = [pc EXCEPT ![p] = Returned(p)] /\ UNCHANGED st
  /\ UNCHANGED <<server, sub, admin, hand, check, durable>>

\* <-s.done, then releaseStream.
ReleaseStream(p) ==
  /\ pc[p] = "release" /\ st.reader = "ended" /\ pc' = [pc EXCEPT ![p] = Returned(p)]
  /\ st' = [st EXCEPT !.once = "done"] /\ stream' = FALSE /\ streaming' = FALSE
  /\ UNCHANGED <<server, closed, tables, db, admin, hand, check, durable>>

\* Close: the stream, outside the lock, and then the connection.
Close ==
  /\ MayClose /\ pc.closer = "none" /\ ~closed
  /\ closed' = TRUE /\ stream' = FALSE
  /\ pc' = [pc EXCEPT !.closer = IF stream THEN "once" ELSE "db"]
  /\ UNCHANGED <<server, streaming, tables, db, admin, st, hand, check, durable>>
CloseDB ==
  /\ pc.closer = "db" /\ pc' = [pc EXCEPT !.closer = "closed"] /\ db' = FALSE
  /\ UNCHANGED <<server, closed, streaming, stream, tables, admin, st, hand, check, durable>>

-------------------------------------------------------------------------------
\* AddTables, RemoveTables and SyncTables: each table in turn, at the server and
\* then in s.tables.  SyncTables disables what it does not want and enables the
\* rest.
Manage(todo) ==
  /\ ~closed /\ admin.todo = <<>> /\ admin.calls < MaxManaged
  /\ admin' = [todo |-> todo, step |-> "server", calls |-> admin.calls + 1]
  /\ UNCHANGED <<server, sub, st, pc, hand, check, durable>>
Each(op, ts) == [i \in 1 .. Cardinality(ts) |-> [op |-> op, table |-> SetToSeq(ts)[i]]]
AddTables(given) == given # {} /\ Manage(Each("add", given))
RemoveTables(given) == given # {} /\ Manage(Each("remove", given))
SyncTables(wanted) == Manage(Each("remove", Tracked \ wanted) \o Each("add", wanted))

\* enableTable, or the statement that disables capture and discards the history.
ManageServer ==
  LET t == Head(admin.todo).table IN
  /\ admin.todo # <<>> /\ admin.step = "server"
  /\ IF ~db THEN admin' = [admin EXCEPT !.todo = <<>>] /\ UNCHANGED <<inst, oldest, hist, cleaned, excused>>
     ELSE /\ admin' = [admin EXCEPT !.step = "local"]
          /\ IF Head(admin.todo).op = "add"
             THEN inst' = inst \cup {t} /\ UNCHANGED <<oldest, hist, cleaned, excused>>
             ELSE /\ inst' = inst \ {t} /\ oldest' = [oldest EXCEPT ![t] = 0]
                  /\ hist' = hist \ RowsIn(t) /\ cleaned' = cleaned \ RowsIn(t)
                  /\ excused' = excused \cup (hist \cap RowsIn(t))
  /\ UNCHANGED <<captured, sub, st, pc, hand, check, recorded, processed, failures>>

\* track and untrack.
ManageLocal ==
  LET t == Head(admin.todo).table IN
  /\ admin.todo # <<>> /\ admin.step = "local"
  /\ tables' = IF Head(admin.todo).op = "add" THEN tables \cup {t} ELSE tables \ {t}
  /\ admin' = [admin EXCEPT !.step = "server", !.todo = Tail(@)]
  /\ UNCHANGED <<server, closed, streaming, stream, db, st, pc, hand, check, durable>>

-------------------------------------------------------------------------------
\* The capture job makes the next transaction visible; rows of other tables are
\* not recorded.
Capture ==
  /\ captured < Len(Log) /\ captured' = captured + 1
  /\ oldest' = [t \in Tables |-> IF t \in inst /\ oldest[t] = 0 THEN captured' ELSE oldest[t]]
  /\ hist' = hist \cup {r \in RowsOf(captured') : TableOf(r) \in inst}
  /\ excused' = excused \cup {r \in RowsOf(captured') : TableOf(r) \notin inst}
  /\ UNCHANGED <<inst, cleaned, sub, admin, st, pc, hand, check, recorded, processed, failures>>

\* The cleanup job discards every transaction up to one.
Cleanup ==
  /\ MayClean /\ \E i \in 1 .. captured :
       LET gone == {r \in hist : r[1] <= i} IN
       /\ \E t \in inst : oldest[t] \in 1 .. i
       /\ oldest' = [t \in Tables |-> IF oldest[t] \in 1 .. i THEN i + 1 ELSE oldest[t]]
       /\ hist' = hist \ gone /\ cleaned' = cleaned \cup gone /\ excused' = excused \cup gone
       /\ check' = [check EXCEPT !.since = @ \cup
                     {r \in gone : TableOf(r) \in check.listed \ check.todo}]
  /\ UNCHANGED <<captured, inst, sub, admin, st, pc, hand, recorded, processed, failures>>

\* The consumer's process dies and a new one starts: what it recorded remains.
Crash ==
  /\ failures < MaxFailures /\ failures' = failures + 1
  /\ closed' = FALSE /\ streaming' = FALSE /\ stream' = FALSE /\ tables' = Configured /\ db' = TRUE
  /\ admin' = [admin EXCEPT !.todo = <<>>, !.step = "server"]
  /\ st' = NoStream
  /\ pc' = [consumer |-> "idle", closer |-> "none"] /\ hand' = <<>> /\ check' = NoCheck
  /\ UNCHANGED <<server, recorded, processed, excused>>

Closing(p) == Once(p) \/ ReleaseStream(p) \/ (p = "closer" /\ CloseDB)
Consuming == \/ ReadMax \/ CheckRetained \/ (\E t \in Tables : AskInstance(t)) \/ AskedAll
             \/ Subscribe \/ SubscribeFails
             \/ Receive \/ Record \/ Process \/ LoopEnds
Polling == \/ PollMax \/ PollInstances \/ (\E t \in Tables : ReadMinimum(t) \/ ReadInstance(t))
           \/ Deliver \/ EndPoll \/ Tick \/ QueryFails
Managing == ManageServer \/ ManageLocal

Next ==
  \/ Consuming \/ CheckFails \/ LoopBreaks \/ Polling \/ DeadlinePasses \/ ConnectionFails
  \/ \E p \in {"consumer", "closer"} : Closing(p)
  \/ Close \/ Managing
  \/ \E given \in SUBSET Tables : AddTables(given) \/ RemoveTables(given) \/ SyncTables(given)
  \/ Capture \/ Cleanup \/ Crash

Spec == Init /\ [][Next]_vars

\* The consumer keeps consuming and subscribing again, the reader keeps polling
\* and the capture job keeps running.  The deadline may pass in every poll.
FairSpec ==
  /\ Spec /\ WF_vars(Consuming) /\ WF_vars(Polling) /\ WF_vars(Capture) /\ WF_vars(Managing)
  /\ \A p \in {"consumer", "closer"} : WF_vars(Closing(p))

-------------------------------------------------------------------------------
\* Types; the channel stays within its buffer, and the poll's first LSN at most one
\* past the last the server has (event_stream.go:161-166).
TypeOK ==
  /\ captured \in 0 .. Len(Log) /\ inst \subseteq Tables
  /\ oldest \in [Tables -> 0 .. Len(Log) + 1] /\ hist \cup cleaned \subseteq Rows
  /\ {closed, streaming, stream, db, st.cancelled, st.late} \subseteq BOOLEAN
  /\ tables \subseteq Tables
  /\ st.once \in {"new", "busy", "done"} /\ st.batch \subseteq Rows
  /\ st.todo \subseteq Tables /\ st.low \in {<<>>} \cup (st.todo \X (st.from .. st.to))
  /\ check.listed \subseteq Tables /\ check.todo \subseteq check.listed
  /\ check.since \subseteq Rows
  /\ st.reader \in {"none", "max", "instances", "read", "wait", "ended"}
  /\ st.from \in 0 .. Len(Log) + 1 /\ st.to \in 0 .. Len(Log) /\ Len(st.events) <= Buffer
  /\ pc.consumer \in {"idle", "check", "start", "range", "record", "process", "once", "release"}
  /\ pc.closer \in {"none", "once", "release", "db", "closed"}
  /\ recorded \in 0 .. Len(Log) /\ processed \subseteq Rows /\ excused \subseteq Rows
  /\ failures \in 0 .. MaxFailures /\ admin.calls \in 0 .. MaxManaged

\* "a crash resumes from whatever was last recorded" (event_stream.go:66): the
\* next stream begins with the recorded transaction, so every change before it
\* has been processed, unless its table was not tracked or captured then, or the
\* server has discarded it.
AtLeastOnce == \A i \in 1 .. recorded - 1 : RowsOf(i) \subseteq processed \cup excused

\* "one order, and (start_lsn, seqval) is the order the server committed them in"
\* (decoder.go:166-168), and "a window that is inclusive at both ends does not
\* redeliver its last change on the next poll" (statement.go:45-46).
CommitOrder == \A i \in 1 .. Len(st.sent) - 1 : LessThan(st.sent[i], st.sent[i + 1])

\* The reader never polls on a connection Close has closed, nor for a subscriber
\* that believes it has no stream.
StreamOutlivesReader == st.reader \notin {"none", "ended"} => db /\ streaming

\* Types; changes arrive in commit order, each once in a stream; the stream ends
\* before the connection it polls on.
Inv == TypeOK /\ CommitOrder /\ StreamOutlivesReader

\* A position from which the cleanup job has discarded changes "is refused rather
\* than quietly started from whatever remains" (subscriber.go:107): when a stream
\* starts from a recorded position, every change of a listed instance from there on
\* that was discarded was discarded after checkRetained had asked that instance.
ResumeIsRetained ==
  [][pc.consumer = "start" /\ pc'.consumer = "range"
     => \A r \in cleaned : \/ r[1] < hand[1] \/ TableOf(r) \notin check.listed
                           \/ r \in check.since]_vars

\* The claim without the last clause, which fails: the cleanup job may run between
\* the query and the start.
StartIsRetained ==
  [][pc.consumer = "start" /\ pc'.consumer = "range"
     => \A r \in cleaned : r[1] < hand[1] \/ TableOf(r) \notin check.listed]_vars

\* The recorded position is refused: the cleanup job has passed it, or a table was
\* added since (its instance retains nothing before its first LSN either).
Refused == recorded # 0 /\ \E t \in Tracked : oldest[t] > recorded

\* Every change is processed in the end, whatever fails in between and even if
\* a slow consumer lets every poll's deadline pass: the failed poll has
\* delivered its window.
Delivered ==
  \A r \in Rows : <>(r \in processed \cup excused \/ closed \/ Refused)
=============================================================================
