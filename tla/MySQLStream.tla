----------------------------- MODULE MySQLStream -----------------------------
(***************************************************************************)
(* The MySQL subscriber and its stream (vendors/mysql/cdc: subscriber.go,  *)
(* event_stream.go, filter.go, position.go): the reader of the binary log, *)
(* the consumer that ranges over All and records Event.Position itself,    *)
(* table management that takes effect on a running stream, and Close.      *)
(*                                                                         *)
(* The source is external: a log of transactions and file rotations, which *)
(* grows at one end and expires, file by file, at the other.  From a GTID  *)
(* set it sends every transaction not in the set, from a file and offset   *)
(* everything after it, and it refuses a start whose transactions have     *)
(* expired.                                                                *)
(*                                                                         *)
(* m.mu protects single steps only (the dial under it is one), so it has   *)
(* no variable.  An offset is written as the event it follows.             *)
(***************************************************************************)
EXTENDS Integers, Sequences, FiniteSets

CONSTANTS
  Log,          \* the binary log: [kind |-> "txn", rows |-> the tables of its
                \* row events], [kind |-> "ddl"] or [kind |-> "rotate"]
  Tables,       \* table names
  Configured,   \* Config.Tables
  Buffer,       \* Config.Buffer
  MayPurge,     \* whether the source expires its log
  MayClose,     \* whether anybody closes the subscriber
  MaxFailures   \* bound: crashes, broken connections and abandoned loops

ASSUME MySQLStreamAssumption ==
  /\ Log \in Seq([kind : {"ddl", "rotate"}] \cup [kind : {"txn"}, rows : Seq(Tables)])
  /\ Log # << >>
  /\ Configured \subseteq Tables /\ Buffer \in Nat \ {0} /\ MaxFailures \in Nat
  /\ MayPurge \in BOOLEAN /\ MayClose \in BOOLEAN

VARIABLES
  gtidOn,       \* the source uses GTIDs
  written, purged,            \* the log holds the elements purged + 1 .. written
  closed, streaming, stream,  \* the subscriber's fields; stream: it is not nil
  filter,       \* the captured set; the empty set captures everything
  st,           \* the stream (see NoStream)
  pc, hand,     \* the consumer and the subscriber's Close; the loop body's event
  recorded,     \* the position the consumer has stored durably
  processed, filtered,        \* rows whose loop body has finished, rows the
                \* filter dropped
  skipped,      \* transactions before the first position
  failures      \* how many of these so far

source == <<gtidOn, written, purged>>
sub == <<closed, streaming, stream, filter>>
durable == <<recorded, processed, filtered, skipped, failures>>
vars == <<source, sub, st, pc, hand, durable>>

\* Event 0 of an element is its GTID event (or the rotation itself), events
\* 1, 2, ... its row events or its query, and the last one ends it.
Last(i) == CASE Log[i].kind = "txn" -> Len(Log[i].rows) + 1
             [] Log[i].kind = "ddl" -> 1
             [] OTHER -> 0
Txns(n) == {i \in 1 .. n : Log[i].kind # "rotate"}
FileAfter(i) == Cardinality({j \in 1 .. i : Log[j].kind = "rotate"})

\* cdc.NoPosition and the two notations of a position.
NoPosition == [kind |-> "none"]
GTID(set) == [kind |-> "gtid", set |-> set]
File(f) == [kind |-> "file", name |-> f.name, pos |-> f.pos]

\* currentPosition: the executed set where there is one, else file and offset.
CurrentPosition ==
  IF gtidOn /\ Txns(written) # {} THEN GTID(Txns(written))
  ELSE File([name |-> FileAfter(written),
             pos |-> IF written = 0 THEN <<0, 0>> ELSE <<written, Last(written)>>])

\* The transactions a start position leaves out.
Covered(p) == CASE p.kind = "gtid" -> p.set
                [] p.kind = "file" -> Txns(p.pos[1])
                [] OTHER -> {}

\* A file and offset that name the end of an element of the log.
InLog(p) ==
  p.kind = "file" => /\ p.name = FileAfter(p.pos[1])
                     /\ p.pos[2] = (IF p.pos[1] = 0 THEN 0 ELSE Last(p.pos[1]))

\* What the source serves: nothing expired may be missing from the start, a file
\* has not expired itself, and there is such an offset in it.
Served(p) ==
  /\ Txns(purged) \subseteq Covered(p) /\ InLog(p)
  /\ p.kind = "file" => p.name >= FileAfter(purged)

NextElement(i, out) ==
  CHOOSE j \in i + 1 .. Len(Log) + 1 :
    /\ j > purged /\ j \notin out
    /\ \A h \in i + 1 .. j - 1 : h <= purged \/ h \in out

\* once: closeOnce.  syncer: the binlog connection is open.  reader: "none",
\* "read", "push" (handing a row over) or "ended".  excluded: transactions the
\* source does not send.  at: event k of element i is read next.  tracker and
\* resume: run's locals.  pend: the row being handed over.  events: the channel.
\* delivered: every <<transaction, Event.Transaction>> so far.
NoStream ==
  [once |-> "done", syncer |-> FALSE, reader |-> "none", cancelled |-> FALSE,
   excluded |-> {}, at |-> <<1, 0>>, resume |-> NoPosition,
   tracker |-> [gtid |-> {}, on |-> FALSE, next |-> 0,
                file |-> [name |-> 0, pos |-> <<0, 0>>]],
   pend |-> <<>>, events |-> <<>>, delivered |-> {}]

\* New.
Init ==
  /\ gtidOn \in BOOLEAN /\ written \in 0 .. 1 /\ purged = 0
  /\ closed = FALSE /\ streaming = FALSE /\ stream = FALSE /\ filter = Configured
  /\ st = NoStream
  /\ pc = [consumer |-> "idle", closer |-> "none"] /\ hand = <<>>
  /\ recorded = NoPosition /\ processed = {} /\ filtered = {} /\ skipped = {}
  /\ failures = 0

Consumer(from, to) == pc.consumer = from /\ pc' = [pc EXCEPT !.consumer = to]

-------------------------------------------------------------------------------
\* Subscribe reads the current position before it takes the lock.
ReadPosition ==
  /\ Consumer("idle", "start") /\ recorded = NoPosition /\ hand' = CurrentPosition
  /\ UNCHANGED <<source, sub, st, durable>>

\* newTracker: a GTID set, or else a file and offset, to carry on from.
NewTracker(p) ==
  [NoStream.tracker EXCEPT
     !.on = p.kind = "gtid",
     !.gtid = IF p.kind = "gtid" THEN p.set ELSE {},
     !.file = IF p.kind = "file" THEN [name |-> p.name, pos |-> p.pos] ELSE @]

\* newEventStream, on a sync the source has begun.
NewStream(p) ==
  [NoStream EXCEPT
     !.once = "new", !.syncer = TRUE, !.reader = "read", !.excluded = Covered(p),
     !.at = <<NextElement(0, Covered(p)), 0>>, !.resume = p, !.tracker = NewTracker(p)]

\* Mutant: the closed flag is not looked at again under the lock.
StartUnchecked(p) ==
  /\ ~streaming /\ Served(p)
  /\ stream' = TRUE /\ streaming' = TRUE /\ hand' = <<>>
  /\ st' = NewStream(p)
  /\ UNCHANGED <<source, closed, filter, recorded, processed, filtered, failures>>

\* subscribe and startSync: refused when closed or streaming, or
\* by the source.
Start(p) ==
  /\ ~closed /\ ~streaming /\ Served(p)
  /\ stream' = TRUE /\ streaming' = TRUE /\ hand' = <<>>
  /\ st' = NewStream(p)
  /\ UNCHANGED <<source, closed, filter, recorded, processed, filtered, failures>>

Subscribe == /\ Consumer("start", "range") /\ Start(hand)
             /\ skipped' = skipped \cup Covered(hand)
SubscribeFrom == /\ Consumer("idle", "range") /\ recorded # NoPosition /\ Start(recorded)
                 /\ UNCHANGED skipped
SubscribeFails ==
  /\ Consumer("start", "idle") /\ (closed \/ streaming \/ ~Served(hand)) /\ hand' = <<>>
  /\ UNCHANGED <<source, sub, st, durable>>

-------------------------------------------------------------------------------
NextGTID(i, k, was) == IF k = 0 /\ gtidOn /\ Log[i].kind # "rotate" THEN i ELSE was

\* Mutant: a rotation does not change the file the tracker is in.
ObserveNoRotate(t, i, k) ==
  [t EXCEPT !.next = NextGTID(i, k, @), !.file.pos = <<i, k>>]

\* tracker.observe: a GTID event names the transaction, a rotation the file, and
\* every event moves the offset.
Observe(t, i, k) ==
  [t EXCEPT !.next = NextGTID(i, k, @),
            !.file = [name |-> IF Log[i].kind = "rotate" THEN FileAfter(i) ELSE @.name,
                      pos |-> <<i, k>>]]

\* Mutant: a row event ends a transaction.
CommitsEarly(i, k) == Log[i].kind = "txn" /\ k >= 1

\* An XID event, or a query that is a literal COMMIT, ends a transaction; the
\* query of a DDL statement is neither.
Commits(i, k) == Log[i].kind = "txn" /\ k = Last(i)

\* tracker.commit: the set with the transaction folded in, or file and offset.
Commit(t) == IF t.on /\ t.next # 0
             THEN [t EXCEPT !.gtid = @ \cup {t.next}, !.next = 0] ELSE t
CommitPosition(t) == IF t.on /\ t.next # 0 THEN GTID(t.gtid \cup {t.next}) ELSE File(t.file)

\* filter.allows.
Allows(table) == filter = {} \/ table \in filter
IsRow(i, k) == Log[i].kind = "txn" /\ k \in 1 .. Len(Log[i].rows)

\* decodeRows: a change, with its Position, which is its Transaction too.
Change(r, at) == [row |-> r, position |-> at]

\* One turn of run: GetEvent, observe, then a commit, or handleRows up to the
\* send.  A change carries resume.
ReadEvent ==
  LET i == st.at[1]
      k == st.at[2]
      t == Observe(st.tracker, i, k)
      row == IsRow(i, k) /\ Allows(Log[i].rows[k])
  IN
  /\ st.reader = "read" /\ i \in purged + 1 .. written
  /\ st' = [st EXCEPT
       !.at = IF k < Last(i) THEN <<i, k + 1>> ELSE <<NextElement(i, st.excluded), 0>>,
       !.tracker = IF Commits(i, k) THEN Commit(t) ELSE t,
       !.resume = IF Commits(i, k) THEN CommitPosition(t) ELSE @,
       !.pend = IF row THEN <<Change(st.at, st.resume)>> ELSE @,
       !.reader = IF row THEN "push" ELSE @]
  /\ filtered' = IF IsRow(i, k) /\ ~row THEN filtered \cup {st.at} ELSE filtered
  /\ UNCHANGED <<source, sub, pc, hand, recorded, processed, skipped, failures>>

\* Delivery to the channel, abandoned when the stream is closed.
Push ==
  /\ st.reader = "push"
  /\ \/ /\ Len(st.events) < Buffer
        /\ st' = [st EXCEPT !.events = @ \o st.pend, !.pend = <<>>, !.reader = "read",
                    !.delivered = @ \cup {<<st.pend[1].row[1], st.pend[1].position>>}]
     \/ st.cancelled /\ st' = [st EXCEPT !.reader = "ended", !.pend = <<>>]
  /\ UNCHANGED <<source, sub, pc, hand, durable>>

\* GetEvent fails: the stream is cancelled, the log expired under the reader,
\* or the connection broke (or columns.names cannot name the columns).  The
\* reader returns and closes the channel.
ReaderStops ==
  /\ st.reader = "read" /\ (st.cancelled \/ st.at[1] <= purged)
  /\ st' = [st EXCEPT !.reader = "ended"]
  /\ UNCHANGED <<source, sub, pc, hand, durable>>
ReaderFails ==
  /\ st.reader = "read" /\ failures < MaxFailures
  /\ st' = [st EXCEPT !.reader = "ended"] /\ failures' = failures + 1
  /\ UNCHANGED <<source, sub, pc, hand, recorded, processed, filtered, skipped>>

-------------------------------------------------------------------------------
\* The loop over All: the body records the event's position, then processes it.
Receive ==
  /\ Consumer("range", "record") /\ st.events # <<>>
  /\ hand' = Head(st.events) /\ st' = [st EXCEPT !.events = Tail(@)]
  /\ UNCHANGED <<source, sub, durable>>
Record ==
  /\ Consumer("record", "process") /\ recorded' = hand.position
  /\ UNCHANGED <<source, sub, st, hand, processed, filtered, skipped, failures>>
Process ==
  /\ Consumer("process", "range") /\ processed' = processed \cup {hand.row} /\ hand' = <<>>
  /\ UNCHANGED <<source, sub, st, recorded, filtered, skipped, failures>>

\* The channel is closed and empty, or the body breaks off: the deferred Close.
LoopEnds ==
  /\ Consumer("range", "once") /\ st.events = <<>> /\ st.reader \in {"ended", "none"}
  /\ UNCHANGED <<source, sub, st, hand, durable>>
LoopBreaks ==
  /\ Consumer("range", "once") /\ failures < MaxFailures /\ failures' = failures + 1
  /\ UNCHANGED <<source, sub, st, hand, recorded, processed, filtered, skipped>>

\* The stream's Close, run by the consumer or by the subscriber's Close (p): the
\* first one cancels, waits for the reader, closes the syncer and tells the
\* subscriber; the other waits for it.
Returned(p) == IF p = "consumer" THEN "idle" ELSE "closed"
Once(p) ==
  /\ pc[p] = "once"
  /\ \/ /\ st.once = "new" /\ st' = [st EXCEPT !.once = "busy", !.cancelled = TRUE]
        /\ pc' = [pc EXCEPT ![p] = "stop"]
     \/ st.once = "done" /\ pc' = [pc EXCEPT ![p] = Returned(p)] /\ UNCHANGED st
  /\ UNCHANGED <<source, sub, hand, durable>>

Stop(p) ==
  /\ pc[p] = "stop" /\ st.reader = "ended" /\ pc' = [pc EXCEPT ![p] = "release"]
  /\ st' = [st EXCEPT !.syncer = FALSE]
  /\ UNCHANGED <<source, sub, hand, durable>>

\* Mutant: streaming stays set.
ReleaseStreamForgets(p) ==
  /\ pc[p] = "release" /\ pc' = [pc EXCEPT ![p] = Returned(p)]
  /\ st' = [st EXCEPT !.once = "done"] /\ stream' = FALSE
  /\ UNCHANGED <<source, closed, streaming, filter, hand, durable>>

ReleaseStream(p) ==
  /\ pc[p] = "release" /\ pc' = [pc EXCEPT ![p] = Returned(p)]
  /\ st' = [st EXCEPT !.once = "done"] /\ stream' = FALSE /\ streaming' = FALSE
  /\ UNCHANGED <<source, closed, filter, hand, durable>>

\* Close of the subscriber: it takes the stream under the lock and closes it
\* outside.
Close ==
  /\ MayClose /\ pc.closer = "none" /\ ~closed
  /\ closed' = TRUE /\ stream' = FALSE
  /\ pc' = [pc EXCEPT !.closer = IF stream THEN "once" ELSE "closed"]
  /\ UNCHANGED <<source, streaming, filter, st, hand, durable>>

\* AddTables, RemoveTables and SyncTables change the filter a stream shares.
SetFilter(f) ==
  /\ ~closed /\ f # filter /\ filter' = f
  /\ UNCHANGED <<source, closed, streaming, stream, st, pc, hand, durable>>
AddTables(given) == given # {} /\ SetFilter(filter \cup given)
RemoveTables(given) == given # {} /\ SetFilter(filter \ given)
SyncTables(given) == SetFilter(given)

-------------------------------------------------------------------------------
\* The consumer's process dies and a new one starts: what it recorded remains.
Crash ==
  /\ failures < MaxFailures /\ failures' = failures + 1
  /\ closed' = FALSE /\ streaming' = FALSE /\ stream' = FALSE /\ filter' = Configured
  /\ st' = NoStream
  /\ pc' = [consumer |-> "idle", closer |-> "none"] /\ hand' = <<>>
  /\ UNCHANGED <<source, recorded, processed, filtered, skipped>>

Write == /\ written < Len(Log) /\ written' = written + 1
         /\ UNCHANGED <<gtidOn, purged, sub, st, pc, hand, durable>>
Purge == /\ MayPurge /\ \E i \in purged + 1 .. written : Log[i].kind = "rotate" /\ purged' = i
         /\ UNCHANGED <<gtidOn, written, sub, st, pc, hand, durable>>

Closing(p) == Once(p) \/ Stop(p) \/ ReleaseStream(p)
Consuming == \/ ReadPosition \/ Subscribe \/ SubscribeFrom \/ SubscribeFails
             \/ Receive \/ Record \/ Process \/ LoopEnds
Reading == ReadEvent \/ Push \/ ReaderStops

Next ==
  \/ Consuming \/ LoopBreaks \/ Reading \/ ReaderFails
  \/ \E p \in {"consumer", "closer"} : Closing(p)
  \/ Close
  \/ \E given \in SUBSET Tables : AddTables(given) \/ RemoveTables(given) \/ SyncTables(given)
  \/ Crash \/ Write \/ Purge

Spec == Init /\ [][Next]_vars

\* The consumer keeps consuming and subscribing again, the reader keeps reading
\* and the source keeps writing; nothing is assumed of failures and Close.
FairSpec ==
  /\ Spec /\ WF_vars(Consuming) /\ WF_vars(Reading) /\ WF_vars(Write)
  /\ \A p \in {"consumer", "closer"} : WF_vars(Closing(p))

-------------------------------------------------------------------------------
RowsOf(i) == {<<i, k>> : k \in 1 .. (IF Log[i].kind = "txn" THEN Len(Log[i].rows) ELSE 0)}
Rows == UNION {RowsOf(i) : i \in DOMAIN Log}

IsPosition(p) ==
  \/ p = NoPosition
  \/ p.kind = "gtid" /\ p.set \subseteq Txns(Len(Log))
  \/ p.kind = "file" /\ p.name \in 0 .. Len(Log) /\ p.pos[1] \in 0 .. Len(Log)

\* Types; the channel holds at most Buffer events, and a reader that is pushing has
\* exactly the event it could not place yet (event_stream.go:178-185).
TypeOK ==
  /\ gtidOn \in BOOLEAN /\ written \in 0 .. Len(Log) /\ purged \in 0 .. written
  /\ {closed, streaming, stream, st.syncer, st.cancelled} \subseteq BOOLEAN
  /\ filter \subseteq Tables /\ st.once \in {"new", "busy", "done"}
  /\ st.reader \in {"none", "read", "push", "ended"}
  /\ IsPosition(st.resume) /\ IsPosition(recorded)
  /\ Len(st.events) <= Buffer /\ Len(st.pend) = (IF st.reader = "push" THEN 1 ELSE 0)
  /\ pc.consumer \in {"idle", "start", "range", "record", "process", "once", "stop", "release"}
  /\ pc.closer \in {"none", "once", "stop", "release", "closed"}
  /\ processed \subseteq Rows /\ filtered \subseteq Rows /\ failures \in 0 .. MaxFailures

\* "a crash resumes from whatever was last recorded" (event_stream.go:72-73)
\* and nothing is lost by it: a transaction that the recorded position keeps
\* out of the next stream has had each change processed, or dropped by the
\* filter.  Changes carry the position before their transaction (run, 119-123).
AtLeastOnce ==
  \A i \in Covered(recorded) \ skipped : RowsOf(i) \subseteq processed \cup filtered

\* "every change from one transaction reports the same value and the next
\* transaction reports a different one" (decoder.go:20-22), within a stream.
TransactionIsIdentity ==
  \A d, e \in st.delivered : d[1] = e[1] <=> d[2] = e[2]

\* A position a change carried names a place in the log that exists, so that
\* SubscribeFrom can only be refused because the log has expired.
PositionIsServed == InLog(recorded)

\* "the syncer is not safe to close underneath a goroutine still reading from
\* it" (event_stream.go:101-103).
SyncerOutlivesReader == st.reader \in {"read", "push"} => st.syncer

\* "Close stops any open stream" (subscriber.go:358), whatever Subscribe or the
\* stream's own Close were doing: when it has returned no reader is left.
CloseStops == pc.closer = "closed" => st.reader \in {"none", "ended"} /\ ~st.syncer

\* Types; a transaction and its position are one and the same to a consumer; and
\* the stream ends in order: reader, syncer, and nothing left after Close.
Inv == TypeOK /\ TransactionIsIdentity /\ SyncerOutlivesReader /\ CloseStops

\* Every change in the log is processed, dropped by the filter or older than the
\* first position, through crashes, failures and restarts of the stream, unless
\* the subscriber is closed or the log expires.
Delivered ==
  \A r \in Rows : <>(r \in processed \cup filtered \/ r[1] \in skipped \/ closed \/ purged > 0)
=============================================================================
