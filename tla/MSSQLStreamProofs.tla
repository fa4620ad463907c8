------------------------- MODULE MSSQLStreamProofs --------------------------
(***************************************************************************)
(* What the SQL Server stream promises, for every history of transactions, *)
(* every set of tables, every buffer and every number of failures.         *)
(*                                                                         *)
(* The invariant follows a row from its change table to the consumer.      *)
(* Retention says what the change tables and their minimum LSNs still      *)
(* hold.  Coverage says that a poll's window leaves nothing behind: before *)
(* it every row is settled or on its way, in it a row is also in the batch *)
(* or in an instance still to be read.  Order and Flow keep what was sent, *)
(* and what is on its way, in commit order, so that a position recorded    *)
(* from the hand has only settled rows behind it (Starts).  Ending is the  *)
(* order in which a stream goes away.  Reading carries a poll's window from *)
(* the query for an instance's minimum to the query for its changes, and   *)
(* Checking a retention check through its queries.                         *)
(***************************************************************************)
EXTENDS MSSQLStream, FiniteSetTheorems, SequenceTheorems, TLAPS

-----------------------------------------------------------------------------
(* The inductive invariant. *)

Tasks == [op : {"add", "remove"}, table : Tables]
Admins == [todo : Seq(Tasks), step : {"server", "local"}, calls : 0 .. MaxManaged]
Streams ==
  [once : {"new", "busy", "done"}, reader : {"none", "max", "instances", "read", "wait", "ended"},
   cancelled : BOOLEAN, from : 0 .. Len(Log) + 1, to : 0 .. Len(Log), todo : SUBSET Tables,
   low : {<<>>} \cup (Tables \X Nat), batch : SUBSET Rows, late : BOOLEAN, events : Seq(Rows), sent : Seq(Rows)]
PCs == [consumer : {"idle", "check", "start", "range", "record", "process", "once", "release"},
        closer : {"none", "once", "release", "db", "closed"}]

InHand == pc.consumer \in {"record", "process"}
Live == st.reader \notin {"none", "ended"}

Types ==
  /\ captured \in 0 .. Len(Log) /\ inst \subseteq Tables
  /\ oldest \in [Tables -> 0 .. Len(Log) + 1] /\ hist \subseteq Rows /\ cleaned \subseteq Rows
  /\ closed \in BOOLEAN /\ streaming \in BOOLEAN /\ stream \in BOOLEAN /\ db \in BOOLEAN
  /\ tables \subseteq Tables /\ admin \in Admins /\ st \in Streams /\ pc \in PCs
  /\ recorded \in 0 .. Len(Log) /\ processed \subseteq Rows /\ excused \subseteq Rows
  /\ failures \in 0 .. MaxFailures
  /\ pc.consumer \in {"check", "start"} => hand[1] \in 0 .. Len(Log) + 1
  /\ InHand => hand \in Rows
  /\ Len(st.events) <= Buffer

\* The change tables: every captured row is there or accounted for, none is older
\* than its instance's minimum, and what was cleaned up is.
Retention ==
  /\ \A r \in Rows : r[1] <= captured => r \in hist \cup excused
  /\ \A r \in hist : oldest[TableOf(r)] \in 1 .. r[1]
  /\ \A r \in cleaned : r[1] < oldest[TableOf(r)]
  /\ \A t \in Tables : oldest[t] <= captured + 1

\* The end of a stream: a live reader has its connection, and whoever closes the
\* subscriber finds its stream.
Ending ==
  /\ closed <=> pc.closer # "none"
  /\ ~closed => db
  /\ Live => /\ db /\ streaming /\ (stream \/ closed)
             /\ pc.closer \notin {"db", "closed"} /\ st.once # "done"

\* A row is settled when the consumer is done with it, and out when it is settled
\* or on its way to the consumer.
Settled == processed \cup excused
Out == Settled \cup {r \in Rows : InHand /\ r = hand} \cup {st.events[i] : i \in DOMAIN st.events}

\* The window: nothing before it is still to be read, nothing in it is forgotten,
\* and nothing was handed over ahead of an earlier transaction.
Coverage ==
  /\ st.to <= captured
  /\ \A r \in Rows : r[1] < st.from => r \in Out
  /\ \A k \in DOMAIN st.sent : \A r \in Rows : r[1] < st.sent[k][1] => r \in Out
  /\ st.reader = "read" =>
       \A r \in Rows : st.from <= r[1] /\ r[1] <= st.to =>
         r \in Out \/ r \in st.batch \/ TableOf(r) \in st.todo

\* Between the two queries of an instance: what the clamped window leaves out is
\* not to be read any more.
Reading ==
  st.low # <<>> =>
    /\ st.reader = "read"
    /\ \E t \in st.todo, f \in st.from .. st.to :
         /\ st.low = <<t, f>>
         /\ \A r \in Rows : TableOf(r) = t /\ st.from <= r[1] /\ r[1] < f => r \in Out

\* The order of delivery, within a window and from one to the next.
Order ==
  /\ \A i, j \in DOMAIN st.sent : i < j => LessThan(st.sent[i], st.sent[j])
  /\ st.reader \in {"max", "instances", "wait"} \/ (st.reader = "read" /\ st.todo # {}) =>
       \A k \in DOMAIN st.sent : st.sent[k][1] < st.from
  /\ st.reader \in {"instances", "read"} => \A k \in DOMAIN st.sent : st.sent[k][1] <= st.to
  /\ st.reader = "read" =>
       \A b \in st.batch : /\ st.from <= b[1] /\ b[1] <= st.to
                           /\ \A k \in DOMAIN st.sent : LessThan(st.sent[k], b)
  /\ st.reader \notin {"read", "ended"} => st.batch = {}

\* What is on its way is the end of what was sent, in its order.
Flow ==
  /\ Len(st.events) + (IF InHand THEN 1 ELSE 0) <= Len(st.sent)
  /\ \A i \in DOMAIN st.events : st.events[i] = st.sent[Len(st.sent) - Len(st.events) + i]
  /\ InHand => hand = st.sent[Len(st.sent) - Len(st.events)]

\* Where streams begin: behind the recorded position everything is settled.
Starts ==
  /\ \A r \in Rows : r[1] < recorded => r \in Settled
  /\ pc.consumer \in {"check", "start"} => \A r \in Rows : r[1] < hand[1] => r \in Settled

\* checkRetained: of the instances it has asked, the position has lost only what the
\* cleanup job discarded since.
Checks == [listed : SUBSET Tables, todo : SUBSET Tables, since : SUBSET Rows]
Checking ==
  /\ check \in Checks /\ check.todo \subseteq check.listed
  /\ pc.consumer \notin {"check", "start"} => check = NoCheck
  /\ pc.consumer = "start" => check.todo = {}
  /\ \A r \in cleaned : TableOf(r) \in check.listed \ check.todo => r[1] < hand[1] \/ r \in check.since

StreamInv ==
  Types /\ Retention /\ Ending /\ Coverage /\ Reading /\ Order /\ Flow /\ Starts /\ Checking

-----------------------------------------------------------------------------
(* Rows, sequences and records. *)

\* A row names a transaction of the log and one of its changes.
LEMMA RowIs ==
  /\ \A r \in Rows : r[1] \in 1 .. Len(Log) /\ r[1] \in Int /\ r[2] \in Int /\ TableOf(r) \in Tables
  /\ \A r \in Rows : r \in RowsOf(r[1])
  /\ \A i \in 1 .. Len(Log) : RowsOf(i) \subseteq Rows /\ \A r \in RowsOf(i) : r[1] = i
  /\ \A t \in Tables : RowsIn(t) \subseteq Rows
<1>1. Log \in Seq(Seq(Tables))
  BY MSSQLStreamAssumption
<1>2. Len(Log) \in Nat /\ DOMAIN Log = 1 .. Len(Log)
  BY <1>1, LenProperties
<1>3. \A i \in 1 .. Len(Log) : Log[i] \in Seq(Tables)
  BY <1>1, <1>2, ElementOfSeq
<1>4. \A i \in 1 .. Len(Log) : /\ DOMAIN Log[i] = 1 .. Len(Log[i]) /\ Len(Log[i]) \in Nat
                               /\ \A k \in DOMAIN Log[i] : Log[i][k] \in Tables
  BY <1>3, LenProperties, ElementOfSeq
<1>5. ASSUME NEW i \in 1 .. Len(Log), NEW r \in RowsOf(i)
      PROVE  /\ r[1] = i /\ r[2] \in DOMAIN Log[i] /\ r \in Rows
  <2>1. PICK k \in DOMAIN Log[i] : r = <<i, k>>
    BY DEF RowsOf
  <2>2. r \in Rows
    BY <1>2 DEF Rows
  <2> QED BY <2>1, <2>2
<1>6. ASSUME NEW r \in Rows
      PROVE  r[1] \in 1 .. Len(Log) /\ r \in RowsOf(r[1])
  <2>1. PICK i \in DOMAIN Log : r \in RowsOf(i)
    BY DEF Rows
  <2> QED BY <1>2, <1>5, <2>1
<1>7. \A r \in Rows : r[1] \in Int /\ r[2] \in Int /\ TableOf(r) \in Tables
  BY <1>2, <1>4, <1>5, <1>6 DEF TableOf
<1> QED BY <1>5, <1>6, <1>7 DEF RowsIn

\* Commit order is strict.
LEMMA LessThanIs ==
  ASSUME NEW p \in Rows, NEW q \in Rows, NEW r \in Rows
  PROVE  /\ LessThan(p, q) /\ LessThan(q, r) => LessThan(p, r)
         /\ LessThan(p, q) => p[1] <= q[1]
         /\ p[1] < q[1] => LessThan(p, q)
BY RowIs DEF LessThan

\* Two rows of one LSN and one sequence value are the same row.
LEMMA RowsDiffer ==
  ASSUME NEW p \in Rows, NEW q \in Rows, ~LessThan(p, q), ~LessThan(q, p)
  PROVE  p = q
<1>1. p[1] = q[1] /\ p[2] = q[2]
  BY RowIs DEF LessThan
<1>2. ASSUME NEW r \in Rows PROVE r = <<r[1], r[2]>>
  <2>1. r \in RowsOf(r[1])
    BY RowIs
  <2>2. PICK k \in DOMAIN Log[r[1]] : r = <<r[1], k>>
    BY <2>1 DEF RowsOf
  <2> QED BY <2>2
<1> QED BY <1>1, <1>2

\* The list a table management call works through.
LEMMA EachIs ==
  ASSUME NEW op \in {"add", "remove"}, NEW ts \in SUBSET Tables
  PROVE  Each(op, ts) \in Seq(Tasks)
<1>1. IsFiniteSet(ts)
  BY MSSQLStreamAssumption, FS_Subset
<1>2. Cardinality(ts) \in Nat /\ ExistsBijection(1 .. Cardinality(ts), ts)
  BY <1>1, FS_CardinalityType
<1>3. \E f \in [1 .. Cardinality(ts) -> ts] : IsInjective(f)
  BY <1>2 DEF ExistsBijection, Bijection, Injection, IsInjective
<1>4. SetToSeq(ts) \in [1 .. Cardinality(ts) -> ts]
  BY <1>3 DEF SetToSeq
<1>5. Each(op, ts) \in [1 .. Cardinality(ts) -> Tasks]
  BY <1>4 DEF Each, Tasks
<1> QED BY <1>2, <1>5, SeqDef

\* Moving the consumer.
LEMMA ConsumerIs ==
  ASSUME pc \in PCs, NEW f, NEW t \in {"idle", "check", "start", "range", "record", "process", "once", "release"},
         Consumer(f, t)
  PROVE  pc.consumer = f /\ pc'.consumer = t /\ pc'.closer = pc.closer /\ pc' \in PCs
BY DEF Consumer, PCs

\* Moving the consumer or Close.
LEMMA MoverIs ==
  ASSUME pc \in PCs, NEW p \in {"consumer", "closer"},
         NEW x, pc' = [pc EXCEPT ![p] = x],
         p = "consumer" => x \in {"idle", "check", "start", "range", "record", "process", "once", "release"},
         p = "closer" => x \in {"none", "once", "release", "db", "closed"}
  PROVE  /\ pc' \in PCs
         /\ pc'.consumer = (IF p = "consumer" THEN x ELSE pc.consumer)
         /\ pc'.closer = (IF p = "closer" THEN x ELSE pc.closer)
<1>1. CASE p = "consumer"
  BY <1>1 DEF PCs
<1>2. CASE p = "closer"
  BY <1>2 DEF PCs
<1> QED BY <1>1, <1>2

\* No stream.
LEMMA NoStreamIs ==
  /\ NoStream \in Streams
  /\ NoStream.once = "done" /\ NoStream.reader = "none" /\ NoStream.from = 0 /\ NoStream.to = 0
  /\ NoStream.todo = {} /\ NoStream.low = <<>> /\ NoStream.batch = {} /\ NoStream.events = <<>> /\ NoStream.sent = <<>>
<1>1. <<>> \in Seq(Rows)
  BY EmptySeq
<1>2. Len(Log) \in Nat
  BY MSSQLStreamAssumption, LenProperties
<1> QED BY <1>1, <1>2 DEF NoStream, Streams

\* A new stream.
LEMMA NewStreamIs ==
  ASSUME NEW n \in 0 .. Len(Log) + 1, NEW z, z = NewStream(n)
  PROVE  /\ z \in Streams
         /\ z.once = "new" /\ z.reader = "max" /\ z.from = n /\ z.to = 0
         /\ z.todo = {} /\ z.low = <<>> /\ z.batch = {} /\ z.events = <<>> /\ z.sent = <<>>
<1>1. z = [NoStream EXCEPT !.once = "new", !.reader = "max", !.from = n]
  BY DEF NewStream
<1>2. z \in Streams
  BY <1>1, NoStreamIs DEF Streams
<1> QED BY <1>1, <1>2, NoStreamIs DEF Streams

-----------------------------------------------------------------------------
(* What the steps of the poll do to the stream. *)

\* The window and what was sent stay.
Kept == /\ st'.once = st.once /\ st'.cancelled = st.cancelled /\ st'.from = st.from
        /\ st'.events = st.events /\ st'.sent = st.sent

\* The reader moves and nothing else.
LEMMA ReaderMoves ==
  ASSUME st \in Streams, NEW x \in {"none", "max", "instances", "read", "wait", "ended"},
         st' = [st EXCEPT !.reader = x]
  PROVE  /\ st' \in Streams /\ st'.reader = x /\ Kept
         /\ st'.to = st.to /\ st'.todo = st.todo /\ st'.low = st.low /\ st'.batch = st.batch
BY DEF Streams, Kept

\* The reader ends and drops what it had read.
LEMMA ReaderEnds ==
  ASSUME st \in Streams, st' = [st EXCEPT !.reader = "ended", !.batch = {}, !.low = <<>>]
  PROVE  /\ st' \in Streams /\ st'.reader = "ended" /\ Kept
         /\ st'.to = st.to /\ st'.todo = st.todo /\ st'.low = <<>>
BY DEF Streams, Kept

\* PollMax sets the end of the window, or there is nothing new.
LEMMA PollMaxIs ==
  ASSUME Types, PollMax
  PROVE  /\ st' \in Streams /\ Kept /\ st.reader = "max"
         /\ st'.todo = st.todo /\ st'.low = st.low /\ st'.batch = st.batch
         /\ \/ st'.reader = "wait" /\ st'.to = st.to
            \/ st'.reader = "instances" /\ st'.to = captured /\ st.from <= captured
<1>1. st \in Streams /\ captured \in 0 .. Len(Log) /\ st.from \in 0 .. Len(Log) + 1
      /\ Len(Log) \in Nat
  BY MSSQLStreamAssumption, LenProperties DEF Types, Streams
<1>2. CASE MaxLSN = 0 \/ MaxLSN < st.from
  <2>1. st' = [st EXCEPT !.reader = "wait"]
    BY <1>2 DEF PollMax
  <2> QED BY <1>1, <2>1, ReaderMoves DEF PollMax
<1>3. CASE ~(MaxLSN = 0 \/ MaxLSN < st.from)
  <2>1. st' = [st EXCEPT !.reader = "instances", !.to = captured]
    BY <1>3 DEF PollMax, MaxLSN
  <2>2. st' \in Streams /\ Kept /\ st'.reader = "instances" /\ st'.to = captured
        /\ st'.todo = st.todo /\ st'.low = st.low /\ st'.batch = st.batch
    BY <1>1, <2>1 DEF Streams, Kept
  <2> QED BY <1>1, <1>3, <2>2 DEF MaxLSN, PollMax
<1> QED BY <1>2, <1>3

\* PollInstances lists the instances to read.
LEMMA PollInstancesIs ==
  ASSUME Types, PollInstances
  PROVE  /\ st' \in Streams /\ Kept /\ st.reader = "instances" /\ st'.reader = "read"
         /\ st'.todo = Tracked /\ st'.low = st.low /\ st'.batch = st.batch /\ st'.to = st.to
<1>1. st \in Streams /\ Tracked \subseteq Tables
  BY DEF Types, Tracked
<1>2. st' = [st EXCEPT !.reader = "read", !.todo = Tracked] /\ st.reader = "instances"
  BY DEF PollInstances
<1>3. PICK ts : ts = Tracked
  OBVIOUS
<1>4. st' = [st EXCEPT !.reader = "read", !.todo = ts] /\ ts \subseteq Tables
  BY <1>1, <1>2, <1>3
<1> QED BY <1>1, <1>2, <1>3, <1>4 DEF Streams, Kept

\* ReadMinimum clamps the window of an instance, or has nothing to read there.
LEMMA ReadMinimumIs ==
  ASSUME Types, NEW t \in Tables, ReadMinimum(t)
  PROVE  /\ st' \in Streams /\ Kept /\ st.reader = "read" /\ st'.reader = "read"
         /\ t \in st.todo /\ st.low = <<>> /\ st'.to = st.to /\ st'.batch = st.batch
         /\ Clamped(t) \in Nat /\ st.from <= Clamped(t)
         /\ \/ /\ (t \in inst /\ oldest[t] = 0) \/ Clamped(t) > st.to
               /\ st'.todo = st.todo \ {t} /\ st'.low = <<>>
            \/ /\ Clamped(t) <= st.to /\ st'.todo = st.todo /\ st'.low = <<t, Clamped(t)>>
<1>1. st \in Streams /\ t \in st.todo /\ st.reader = "read" /\ st.low = <<>>
  BY DEF Types, ReadMinimum
<1>2. st.from \in Nat /\ st.to \in Nat /\ oldest[t] \in Nat
  BY <1>1, MSSQLStreamAssumption, LenProperties DEF Types, Streams
<1>3. PICK c : c = Clamped(t)
  OBVIOUS
<1>4. c \in Nat /\ st.from <= c
  BY <1>2, <1>3 DEF Clamped
<1>5. CASE (t \in inst /\ oldest[t] = 0) \/ c > st.to
  <2>1. PICK ts : ts = st.todo \ {t}
    OBVIOUS
  <2>2. st' = [st EXCEPT !.todo = ts] /\ ts \subseteq Tables
    BY <1>1, <1>3, <1>5, <2>1 DEF ReadMinimum, Streams
  <2>3. st' \in Streams /\ Kept /\ st'.reader = st.reader /\ st'.to = st.to /\ st'.batch = st.batch
        /\ st'.todo = ts /\ st'.low = st.low
    BY <1>1, <2>2 DEF Streams, Kept
  <2> QED BY <1>1, <1>3, <1>4, <1>5, <2>1, <2>3
<1>6. CASE ~((t \in inst /\ oldest[t] = 0) \/ c > st.to)
  <2>1. PICK w : w = <<t, c>>
    OBVIOUS
  <2>2. w \in {<<>>} \cup (Tables \X Nat)
    BY <1>4, <2>1
  <2>3. st' = [st EXCEPT !.low = w]
    BY <1>3, <1>6, <2>1 DEF ReadMinimum
  <2>4. st' \in Streams /\ Kept /\ st'.reader = st.reader /\ st'.to = st.to /\ st'.batch = st.batch
        /\ st'.todo = st.todo /\ st'.low = w
    BY <1>1, <2>2, <2>3 DEF Streams, Kept
  <2> QED BY <1>1, <1>2, <1>3, <1>4, <1>6, <2>1, <2>4
<1> QED BY <1>5, <1>6

\* ReadInstance adds one instance's window to the batch.
LEMMA ReadInstanceIs ==
  ASSUME Types, NEW t \in Tables, ReadInstance(t)
  PROVE  /\ st' \in Streams /\ Kept /\ st.reader = "read" /\ st'.reader = "read"
         /\ st.low # <<>> /\ st.low[1] = t /\ st'.low = <<>>
         /\ st'.todo = st.todo \ {t} /\ st'.to = st.to
         /\ st'.batch = st.batch \cup Window(t, st.low[2])
<1>1. /\ st \in Streams /\ Window(t, st.low[2]) \subseteq Rows /\ st.reader = "read"
      /\ st.low # <<>> /\ st.low[1] = t
  BY RowIs DEF Types, Window, ReadInstance
<1>2. PICK b : b = st.batch \cup Window(t, st.low[2])
  OBVIOUS
<1>3. b \subseteq Rows
  BY <1>1, <1>2 DEF Streams
<1>4. st' = [st EXCEPT !.todo = st.todo \ {t}, !.low = <<>>, !.batch = b]
  BY <1>2 DEF ReadInstance
<1>5. PICK ts, e : ts = st.todo \ {t} /\ e = <<>>
  OBVIOUS
<1>6. st' = [st EXCEPT !.todo = ts, !.low = e, !.batch = b] /\ ts \subseteq Tables
      /\ e \in {<<>>} \cup (Tables \X Nat)
  BY <1>1, <1>4, <1>5 DEF Streams
<1>7. /\ st' \in Streams /\ Kept /\ st'.reader = st.reader /\ st'.to = st.to
      /\ st'.todo = ts /\ st'.low = e /\ st'.batch = b
  BY <1>1, <1>3, <1>6 DEF Streams, Kept
<1> QED BY <1>1, <1>2, <1>5, <1>7

\* The next change of the batch goes to the channel.
Pushed(r) ==
  /\ st.reader = "read" /\ st.todo = {} /\ r \in st.batch /\ r \in Rows
  /\ \A q \in st.batch : ~LessThan(q, r)
  /\ Len(st.events) < Buffer
  /\ st'.once = st.once /\ st'.cancelled = st.cancelled
  /\ st'.reader = "read" /\ st'.from = st.from /\ st'.to = st.to /\ st'.todo = {}
  /\ st'.low = st.low /\ st'.batch = st.batch \ {r}
  /\ st'.events = Append(st.events, r) /\ st'.sent = Append(st.sent, r)

\* Deliver hands over the first row of the batch, or the stream is cancelled.
LEMMA DeliverIs ==
  ASSUME Types, Deliver
  PROVE  /\ st' \in Streams /\ st.reader = "read"
         /\ \/ \E r \in Rows : Pushed(r)
            \/ /\ Kept /\ st'.reader = "ended" /\ st'.to = st.to /\ st'.todo = st.todo
               /\ st'.low = st.low /\ st'.batch = st.batch /\ st.todo = {}
<1>1. st \in Streams /\ st.reader = "read" /\ st.todo = {}
  BY DEF Types, Deliver
<1>2. CASE st' = [st EXCEPT !.reader = "ended"]
  BY <1>1, <1>2, ReaderMoves
<1>3. ASSUME NEW r \in Ordered(st.batch), Len(st.events) < Buffer,
             st' = [st EXCEPT !.events = Append(@, r), !.sent = Append(@, r), !.batch = @ \ {r}]
      PROVE  st' \in Streams /\ \E q \in Rows : Pushed(q)
  <2>1. r \in Rows /\ r \in st.batch /\ \A q \in st.batch : ~LessThan(q, r)
    BY <1>1, <1>3 DEF Ordered, Streams
  <2>2. PICK e, s, b : e = Append(st.events, r) /\ s = Append(st.sent, r) /\ b = st.batch \ {r}
    OBVIOUS
  <2>3. e \in Seq(Rows) /\ s \in Seq(Rows) /\ b \subseteq Rows
    BY <1>1, <2>1, <2>2, AppendProperties DEF Streams
  <2>4. st' = [st EXCEPT !.events = e, !.sent = s, !.batch = b]
    BY <1>3, <2>2
  <2>5. /\ st' \in Streams /\ st'.events = e /\ st'.sent = s /\ st'.batch = b
        /\ st'.once = st.once /\ st'.cancelled = st.cancelled
        /\ st'.reader = st.reader /\ st'.from = st.from /\ st'.to = st.to /\ st'.todo = st.todo
        /\ st'.low = st.low
    BY <1>1, <2>3, <2>4 DEF Streams
  <2>6. Pushed(r)
    BY <1>1, <1>3, <2>1, <2>2, <2>5 DEF Pushed
  <2> QED BY <2>1, <2>5, <2>6
<1> QED BY <1>1, <1>2, <1>3 DEF Deliver

\* EndPoll moves the window on, or the poll's deadline has passed.
LEMMA EndPollIs ==
  ASSUME Types, EndPoll
  PROVE  /\ st' \in Streams /\ st.reader = "read" /\ st.todo = {} /\ st.batch = {}
         /\ st'.todo = {} /\ st'.low = st.low /\ st'.batch = {} /\ st'.to = st.to
         /\ \/ Kept /\ st'.reader = "ended"
            \/ /\ st'.reader = "wait" /\ st'.from = st.to + 1 /\ st'.once = st.once
               /\ st'.events = st.events /\ st'.sent = st.sent
<1>1. st \in Streams /\ st.reader = "read" /\ st.todo = {} /\ st.batch = {}
  BY DEF Types, EndPoll
<1>2. CASE st' = [st EXCEPT !.reader = "ended"]
  BY <1>1, <1>2, ReaderMoves
<1>3. CASE st' = [st EXCEPT !.reader = "wait", !.from = NextFrom(st.to)]
  <2>1. PICK n : n = st.to + 1
    OBVIOUS
  <2>2. Len(Log) \in Nat /\ st.to \in 0 .. Len(Log)
    BY <1>1, MSSQLStreamAssumption, LenProperties DEF Streams
  <2>3. n \in 0 .. Len(Log) + 1
    BY <2>1, <2>2
  <2>4. st' = [st EXCEPT !.reader = "wait", !.from = n]
    BY <1>3, <2>1 DEF NextFrom
  <2>5. /\ st' \in Streams /\ st'.reader = "wait" /\ st'.from = n /\ st'.to = st.to
        /\ st'.events = st.events /\ st'.sent = st.sent /\ st'.todo = st.todo
        /\ st'.low = st.low /\ st'.batch = st.batch /\ st'.once = st.once
    BY <1>1, <2>3, <2>4 DEF Streams
  <2> QED BY <1>1, <2>1, <2>5
<1> QED BY <1>1, <1>2, <1>3 DEF EndPoll

\* The consumer takes a row from the channel.
LEMMA ReceiveIs ==
  ASSUME Types, Receive
  PROVE  /\ st' \in Streams /\ st.events # <<>> /\ hand' = Head(st.events) /\ hand' \in Rows
         /\ st'.events = Tail(st.events) /\ st'.sent = st.sent
         /\ st'.once = st.once /\ st'.reader = st.reader /\ st'.from = st.from /\ st'.to = st.to
         /\ st'.todo = st.todo /\ st'.low = st.low /\ st'.batch = st.batch
         /\ pc.consumer = "range" /\ pc'.consumer = "record" /\ pc'.closer = pc.closer /\ pc' \in PCs
<1>1. st \in Streams /\ st.events # <<>> /\ st.events \in Seq(Rows) /\ hand' = Head(st.events)
  BY DEF Types, Streams, Receive
<1>2. PICK e : e = Tail(st.events)
  OBVIOUS
<1>3. e \in Seq(Rows) /\ hand' \in Rows
  BY <1>1, <1>2, HeadTailProperties
<1>4. st' = [st EXCEPT !.events = e]
  BY <1>2 DEF Receive
<1>5. /\ st' \in Streams /\ st'.events = e /\ st'.sent = st.sent
      /\ st'.once = st.once /\ st'.reader = st.reader /\ st'.from = st.from /\ st'.to = st.to
      /\ st'.todo = st.todo /\ st'.low = st.low /\ st'.batch = st.batch
  BY <1>1, <1>3, <1>4 DEF Streams
<1>6. pc \in PCs /\ Consumer("range", "record")
  BY DEF Types, Receive
<1> QED BY <1>1, <1>2, <1>3, <1>5, <1>6, ConsumerIs

-----------------------------------------------------------------------------
(* Steps that leave the rows and their way to the consumer alone. *)

Quiet ==
  /\ st' \in Streams /\ pc' \in PCs
  /\ st'.from = st.from /\ st'.to = st.to /\ st'.todo = st.todo
  /\ st'.events = st.events /\ st'.sent = st.sent
  /\ \/ st'.reader = st.reader /\ st'.low = st.low /\ st'.batch = st.batch
     \/ st'.reader = "ended" /\ (st'.low = <<>> \/ ((st.todo = {} \/ st.reader = "wait") /\ st'.low = st.low))
     \/ /\ st.reader \in {"max", "wait"} /\ st'.reader \in {"max", "wait"}
        /\ st'.low = st.low /\ st'.batch = st.batch
  /\ InHand' = InHand /\ (InHand => hand' = hand)
  /\ pc'.consumer \in {"check", "start"} => pc.consumer \in {"check", "start"} /\ hand' = hand
  /\ UNCHANGED <<captured, oldest, hist, cleaned, recorded, processed, excused>>

\* checkRetained asks an instance.
LEMMA AskIs ==
  ASSUME Types, NEW t \in Tables, AskInstance(t)
  PROVE  /\ pc.consumer = "check" /\ t \in check.todo /\ pc' \in PCs /\ pc'.closer = pc.closer
         /\ UNCHANGED <<server, sub, admin, st, durable>>
         /\ \/ /\ pc' = pc /\ hand' = hand /\ oldest[t] <= hand[1]
               /\ check' = [check EXCEPT !.todo = @ \ {t}]
            \/ pc'.consumer = "idle" /\ check' = NoCheck
<1>1. pc \in PCs
  BY DEF Types
<1>2. CASE oldest[t] <= hand[1] /\ UNCHANGED <<pc, hand>> /\ check' = [check EXCEPT !.todo = @ \ {t}]
  BY <1>1, <1>2 DEF AskInstance
<1>3. CASE Consumer("check", "idle") /\ check' = NoCheck
  BY <1>1, <1>3, ConsumerIs DEF AskInstance
<1> QED BY <1>2, <1>3 DEF AskInstance

\* The consumer goes on without touching the stream's rows.
LEMMA ConsumerQuiet ==
  ASSUME Types, \/ SubscribeFails \/ LoopEnds \/ LoopBreaks
                \/ (\E t \in Tables : AskInstance(t)) \/ AskedAll \/ CheckFails
  PROVE  Quiet /\ st' = st /\ pc'.closer = pc.closer
<1>1. st' = st /\ UNCHANGED <<server, recorded, processed, excused>>
  BY DEF SubscribeFails, LoopEnds, LoopBreaks, AskInstance, AskedAll, CheckFails, durable
<1>2. /\ pc.consumer \in {"check", "start", "range"}
      /\ pc'.consumer \in {"idle", "once", "check", "start"}
      /\ pc' \in PCs /\ pc'.closer = pc.closer
      /\ pc'.consumer \in {"check", "start"} => pc.consumer = "check" /\ hand' = hand
  <2>1. pc \in PCs
    BY DEF Types
  <2>2. CASE SubscribeFails
    BY <2>1, <2>2, ConsumerIs DEF SubscribeFails
  <2>3. CASE LoopEnds
    BY <2>1, <2>3, ConsumerIs DEF LoopEnds
  <2>4. CASE LoopBreaks
    BY <2>1, <2>4, ConsumerIs DEF LoopBreaks
  <2>5. CASE \E t \in Tables : AskInstance(t)
    BY <2>5, AskIs
  <2>6. CASE AskedAll
    BY <2>1, <2>6, ConsumerIs DEF AskedAll
  <2>7. CASE CheckFails
    BY <2>1, <2>7, ConsumerIs DEF CheckFails
  <2> QED BY <2>2, <2>3, <2>4, <2>5, <2>6, <2>7
<1>3. InHand' = FALSE /\ InHand = FALSE
  BY <1>2 DEF InHand
<1> QED BY <1>1, <1>2, <1>3 DEF Quiet, server, Types

\* The stream's Close, and the subscriber's.
LEMMA OnceIs ==
  ASSUME Types, NEW p \in {"consumer", "closer"}, Once(p)
  PROVE  /\ Quiet /\ UNCHANGED <<closed, streaming, stream, tables, db>>
         /\ pc[p] = "once" /\ st'.reader = st.reader
         /\ pc'.consumer = (IF p = "consumer" THEN pc'[p] ELSE pc.consumer)
         /\ pc'.closer = (IF p = "closer" THEN pc'[p] ELSE pc.closer)
         /\ \/ st.once = "new" /\ st'.once = "busy" /\ pc'[p] = "release"
            \/ st.once = "done" /\ st'.once = "done" /\ pc'[p] = Returned(p)
<1>1. pc \in PCs /\ st \in Streams /\ pc[p] = "once"
  BY DEF Types, Once
<1>2. /\ UNCHANGED <<closed, streaming, stream, tables, db, hand>>
      /\ UNCHANGED <<captured, oldest, hist, cleaned, recorded, processed, excused>>
  BY DEF Once, sub, server, durable
<1>3. CASE st.once = "new" /\ st' = [st EXCEPT !.once = "busy", !.cancelled = TRUE]
           /\ pc' = [pc EXCEPT ![p] = "release"]
  <2>1. /\ st' \in Streams /\ st'.once = "busy" /\ st'.reader = st.reader /\ st'.from = st.from
        /\ st'.to = st.to /\ st'.todo = st.todo /\ st'.low = st.low /\ st'.batch = st.batch
        /\ st'.events = st.events /\ st'.sent = st.sent
    BY <1>1, <1>3 DEF Streams
  <2>2. /\ pc' \in PCs /\ pc'.consumer = (IF p = "consumer" THEN "release" ELSE pc.consumer)
        /\ pc'.closer = (IF p = "closer" THEN "release" ELSE pc.closer)
    BY <1>1, <1>3, MoverIs
  <2>3. pc'[p] = "release"
    BY <2>2
  <2>4. InHand' = InHand
    BY <1>1, <2>2 DEF InHand
  <2> QED BY <1>1, <1>2, <1>3, <2>1, <2>2, <2>3, <2>4 DEF Quiet
<1>4. CASE st.once = "done" /\ pc' = [pc EXCEPT ![p] = Returned(p)] /\ UNCHANGED st
  <2>1. PICK x : x = Returned(p)
    OBVIOUS
  <2>2. /\ p = "consumer" => x = "idle"
        /\ p = "closer" => x = "db"
    BY <2>1 DEF Returned
  <2>3. /\ pc' \in PCs /\ pc'.consumer = (IF p = "consumer" THEN x ELSE pc.consumer)
        /\ pc'.closer = (IF p = "closer" THEN x ELSE pc.closer)
    BY <1>1, <1>4, <2>1, <2>2, MoverIs
  <2>4. pc'[p] = x
    BY <2>3
  <2>5. InHand' = InHand
    BY <1>1, <2>2, <2>3 DEF InHand
  <2> QED BY <1>1, <1>2, <1>4, <2>1, <2>2, <2>3, <2>4, <2>5 DEF Quiet
<1> QED BY <1>1, <1>3, <1>4 DEF Once

\* releaseStream, once the reader has ended.
LEMMA ReleaseIs ==
  ASSUME Types, NEW p \in {"consumer", "closer"}, ReleaseStream(p)
  PROVE  /\ Quiet /\ UNCHANGED <<closed, tables, db>> /\ stream' = FALSE /\ streaming' = FALSE
         /\ pc[p] = "release" /\ st.reader = "ended" /\ st'.reader = "ended"
         /\ pc'.consumer = (IF p = "consumer" THEN "idle" ELSE pc.consumer)
         /\ pc'.closer = (IF p = "closer" THEN "db" ELSE pc.closer)
<1>1. pc \in PCs /\ st \in Streams /\ pc[p] = "release" /\ st.reader = "ended"
      /\ st' = [st EXCEPT !.once = "done"] /\ stream' = FALSE /\ streaming' = FALSE
  BY DEF Types, ReleaseStream
<1>2. /\ UNCHANGED <<closed, tables, db, hand>>
      /\ UNCHANGED <<captured, oldest, hist, cleaned, recorded, processed, excused>>
  BY DEF ReleaseStream, server, durable
<1>3. /\ st' \in Streams /\ st'.once = "done" /\ st'.reader = st.reader /\ st'.from = st.from
      /\ st'.to = st.to /\ st'.todo = st.todo /\ st'.low = st.low /\ st'.batch = st.batch
      /\ st'.events = st.events /\ st'.sent = st.sent
  BY <1>1 DEF Streams
<1>4. PICK x : x = Returned(p)
  OBVIOUS
<1>5. /\ p = "consumer" => x = "idle"
      /\ p = "closer" => x = "db"
  BY <1>4 DEF Returned
<1>6. pc' = [pc EXCEPT ![p] = x]
  BY <1>4 DEF ReleaseStream
<1>7. /\ pc' \in PCs /\ pc'.consumer = (IF p = "consumer" THEN x ELSE pc.consumer)
      /\ pc'.closer = (IF p = "closer" THEN x ELSE pc.closer)
  BY <1>1, <1>5, <1>6, MoverIs
<1>8. InHand' = InHand
  BY <1>1, <1>5, <1>7 DEF InHand
<1> QED BY <1>1, <1>2, <1>3, <1>5, <1>7, <1>8 DEF Quiet

\* The subscriber's Close, and the end of its connection.
LEMMA CloseIs ==
  ASSUME Types, Close \/ CloseDB
  PROVE  /\ Quiet /\ st' = st /\ UNCHANGED <<streaming, tables>> /\ pc'.consumer = pc.consumer
         /\ \/ /\ pc.closer = "none" /\ closed' = TRUE /\ db' = db
               /\ pc'.closer = (IF stream THEN "once" ELSE "db")
               /\ stream' = FALSE /\ ~closed
            \/ /\ pc.closer = "db" /\ pc'.closer = "closed" /\ db' = FALSE
               /\ UNCHANGED <<closed, stream>>
<1>1. pc \in PCs /\ st \in Streams
  BY DEF Types
<1>2. /\ UNCHANGED <<st, streaming, tables, hand>>
      /\ UNCHANGED <<captured, oldest, hist, cleaned, recorded, processed, excused>>
  BY DEF Close, CloseDB, server, durable
<1>3. CASE Close
  <2>1. PICK x : x = IF stream THEN "once" ELSE "db"
    OBVIOUS
  <2>2. pc' = [pc EXCEPT !.closer = x] /\ x \in {"once", "db"}
    BY <1>3, <2>1 DEF Close
  <2>3. pc' \in PCs /\ pc'.closer = x /\ pc'.consumer = pc.consumer
    BY <1>1, <2>2 DEF PCs
  <2>4. InHand' = InHand
    BY <2>3 DEF InHand
  <2> QED BY <1>1, <1>2, <1>3, <2>1, <2>3, <2>4 DEF Quiet, Close
<1>4. CASE CloseDB
  <2>1. pc' \in PCs /\ pc'.closer = "closed" /\ pc'.consumer = pc.consumer
    BY <1>1, <1>4 DEF PCs, CloseDB
  <2>2. InHand' = InHand
    BY <2>1 DEF InHand
  <2> QED BY <1>1, <1>2, <1>4, <2>1, <2>2 DEF Quiet, CloseDB
<1> QED BY <1>3, <1>4

\* The poll's steps that move the reader only.
LEMMA ReaderQuiet ==
  ASSUME Types, \/ Tick \/ QueryFails \/ ConnectionFails \/ DeadlinePasses
                \/ (PollMax /\ st'.reader = "wait") \/ (Deliver /\ st'.reader = "ended")
                \/ (EndPoll /\ st'.reader = "ended")
  PROVE  /\ Quiet /\ st'.once = st.once /\ UNCHANGED <<sub, pc>>
         /\ Live' => Live
<1>1. st \in Streams /\ pc \in PCs
  BY DEF Types
<1>2. /\ UNCHANGED <<sub, pc, hand>>
      /\ UNCHANGED <<captured, oldest, hist, cleaned, recorded, processed, excused>>
  BY DEF Tick, QueryFails, ConnectionFails, DeadlinePasses, PollMax, Deliver, EndPoll, server, durable
<1>3. InHand' = InHand
  BY <1>2 DEF InHand
<1> DEFINE Moves == /\ st' \in Streams /\ st'.once = st.once
                    /\ st'.from = st.from /\ st'.to = st.to /\ st'.todo = st.todo
                    /\ st'.events = st.events /\ st'.sent = st.sent
                    /\ \/ st'.reader = st.reader /\ st'.low = st.low /\ st'.batch = st.batch
                       \/ /\ st'.reader = "ended"
                          /\ st'.low = <<>> \/ ((st.todo = {} \/ st.reader = "wait") /\ st'.low = st.low)
                       \/ /\ st.reader \in {"max", "wait"} /\ st'.reader \in {"max", "wait"}
                          /\ st'.low = st.low /\ st'.batch = st.batch
<1>4. ASSUME Tick PROVE Moves
  <2>1. PICK x : x = IF st.cancelled THEN "ended" ELSE "max"
    OBVIOUS
  <2>2. st' = [st EXCEPT !.reader = x] /\ x \in {"ended", "max"} /\ st.reader = "wait"
    BY <1>4, <2>1 DEF Tick
  <2> QED BY <1>1, <2>2, ReaderMoves DEF Kept
<1>5. ASSUME QueryFails \/ ConnectionFails PROVE Moves
  BY <1>1, <1>5, ReaderEnds DEF QueryFails, ConnectionFails, Kept
<1>6. ASSUME DeadlinePasses PROVE Moves
  BY <1>1, <1>6 DEF DeadlinePasses, Streams
<1>7. ASSUME PollMax /\ st'.reader = "wait" PROVE Moves
  BY <1>7, PollMaxIs DEF Kept
<1>8. ASSUME Deliver /\ st'.reader = "ended" PROVE Moves
  BY <1>8, DeliverIs DEF Kept, Pushed
<1>9. ASSUME EndPoll /\ st'.reader = "ended" PROVE Moves
  BY <1>9, EndPollIs DEF Kept
<1>10. Moves
  BY <1>4, <1>5, <1>6, <1>7, <1>8, <1>9
<1> QED BY <1>1, <1>2, <1>3, <1>10 DEF Quiet, Live

\* Table management, but for the history that disabling capture discards.
LEMMA ManageQuiet ==
  ASSUME Types, \/ (\E given \in SUBSET Tables : AddTables(given) \/ RemoveTables(given) \/ SyncTables(given))
                \/ ManageLocal \/ (ManageServer /\ oldest' = oldest /\ hist' = hist
                                   /\ cleaned' = cleaned /\ excused' = excused)
  PROVE  Quiet /\ UNCHANGED <<closed, streaming, stream, db, st, pc>>
<1>1. st \in Streams /\ pc \in PCs
  BY DEF Types
<1>2. /\ UNCHANGED <<closed, streaming, stream, db, st, pc, hand>>
      /\ UNCHANGED <<captured, oldest, hist, cleaned, recorded, processed, excused>>
  BY DEF AddTables, RemoveTables, SyncTables, Manage, ManageLocal, ManageServer, sub, server, durable
<1>3. InHand' = InHand
  BY <1>2 DEF InHand
<1> QED BY <1>1, <1>2, <1>3 DEF Quiet

-----------------------------------------------------------------------------
(* Types. *)

\* The initial state has the types.
LEMMA InitTypes ==
  ASSUME Init PROVE Types
<1>1. Len(Log) \in Nat /\ MaxManaged \in Nat /\ MaxFailures \in Nat /\ Buffer \in Nat
      /\ Configured \subseteq Tables
  BY MSSQLStreamAssumption, LenProperties
<1>2. st = NoStream /\ st \in Streams /\ st.events = <<>> /\ Len(st.events) = 0
  BY NoStreamIs, EmptySeq DEF Init
<1>3. pc \in PCs /\ pc.consumer = "idle"
  BY DEF Init, PCs
<1>4. admin \in Admins
  <2>1. <<>> \in Seq(Tasks)
    BY EmptySeq
  <2> QED BY <1>1, <2>1 DEF Init, Admins
<1>5. oldest \in [Tables -> 0 .. Len(Log) + 1]
  BY <1>1 DEF Init
<1>6. /\ hist = {} /\ cleaned = {} /\ inst = Configured /\ tables = Configured
      /\ processed = {} /\ excused = {}
  BY DEF Init
<1>7. /\ captured = 0 /\ recorded = 0 /\ failures = 0
      /\ closed = FALSE /\ streaming = FALSE /\ stream = FALSE /\ db = TRUE
  BY DEF Init
<1>8. ~InHand
  BY <1>3 DEF InHand
<1>9. 0 \in 0 .. Len(Log) /\ 0 \in 0 .. MaxFailures /\ 0 <= Buffer
  BY <1>1
<1>10. /\ closed \in BOOLEAN /\ streaming \in BOOLEAN /\ stream \in BOOLEAN /\ db \in BOOLEAN
       /\ captured \in 0 .. Len(Log) /\ recorded \in 0 .. Len(Log) /\ failures \in 0 .. MaxFailures
  BY <1>7, <1>9
<1>11. /\ inst \subseteq Tables /\ tables \subseteq Tables /\ hist \subseteq Rows /\ cleaned \subseteq Rows
       /\ processed \subseteq Rows /\ excused \subseteq Rows
  BY <1>1, <1>6
<1>12. Len(st.events) <= Buffer
  BY <1>2, <1>9
<1> QED BY <1>2, <1>3, <1>4, <1>5, <1>8, <1>10, <1>11, <1>12, Zenon DEF Types

\* What table management may change.
ManageTypes ==
  /\ inst' \subseteq Tables /\ tables' \subseteq Tables /\ admin' \in Admins

\* A quiet step keeps them, if it keeps those of the other variables.
LEMMA QuietTypes ==
  ASSUME Types, Quiet, ManageTypes, failures' \in 0 .. MaxFailures,
         closed' \in BOOLEAN, streaming' \in BOOLEAN, stream' \in BOOLEAN, db' \in BOOLEAN
  PROVE  Types'
BY DEF Types, Quiet, ManageTypes

\* A failure is counted.
LEMMA FailureCounted ==
  ASSUME Types, failures < MaxFailures, failures' = failures + 1
  PROVE  failures' \in 0 .. MaxFailures
BY MSSQLStreamAssumption DEF Types

\* The consumer's quiet steps.
LEMMA ConsumerTypes ==
  ASSUME Types, \/ SubscribeFails \/ LoopEnds \/ LoopBreaks
                \/ (\E t \in Tables : AskInstance(t)) \/ AskedAll \/ CheckFails
  PROVE  Types'
<1>1. Quiet
  BY ConsumerQuiet
<1>2. failures' \in 0 .. MaxFailures
  BY FailureCounted DEF SubscribeFails, LoopEnds, LoopBreaks, AskInstance, AskedAll, CheckFails,
     durable, Types
<1>3. UNCHANGED <<inst, sub, admin>>
  BY DEF SubscribeFails, LoopEnds, LoopBreaks, AskInstance, AskedAll, CheckFails, server
<1> QED BY <1>1, <1>2, <1>3, QuietTypes DEF ManageTypes, Types, sub

\* The reader's.
LEMMA ReaderTypes ==
  ASSUME Types, \/ Tick \/ QueryFails \/ ConnectionFails \/ DeadlinePasses
                \/ (PollMax /\ st'.reader = "wait") \/ (Deliver /\ st'.reader = "ended")
                \/ (EndPoll /\ st'.reader = "ended")
  PROVE  Types'
<1>1. Quiet
  BY ReaderQuiet
<1>2. failures' \in 0 .. MaxFailures
  BY FailureCounted DEF Tick, QueryFails, ConnectionFails, DeadlinePasses, PollMax, Deliver, EndPoll,
     durable, Types
<1>3. UNCHANGED <<inst, sub, admin>>
  BY DEF Tick, QueryFails, ConnectionFails, DeadlinePasses, PollMax, Deliver, EndPoll, server
<1> QED BY <1>1, <1>2, <1>3, QuietTypes DEF ManageTypes, Types, sub

\* Those of the two Close.
LEMMA ClosingTypes ==
  ASSUME Types, Close \/ CloseDB \/ \E p \in {"consumer", "closer"} : Once(p) \/ ReleaseStream(p)
  PROVE  Types'
<1>1. Quiet /\ UNCHANGED tables
      /\ closed' \in BOOLEAN /\ streaming' \in BOOLEAN /\ stream' \in BOOLEAN /\ db' \in BOOLEAN
  BY CloseIs, OnceIs, ReleaseIs DEF Types
<1>2. UNCHANGED <<inst, admin, failures>>
  BY DEF Close, CloseDB, Once, ReleaseStream, server, durable
<1> QED BY <1>1, <1>2, QuietTypes DEF ManageTypes, Types

\* A call of AddTables, RemoveTables or SyncTables starts.
LEMMA CallTypes ==
  ASSUME Types, NEW given \in SUBSET Tables, AddTables(given) \/ RemoveTables(given) \/ SyncTables(given)
  PROVE  admin' \in Admins /\ UNCHANGED <<inst, sub, failures>>
<1>1. admin \in Admins /\ Tracked \subseteq Tables
  BY DEF Types, Tracked
<1>2. ASSUME NEW todo \in Seq(Tasks), Manage(todo)
      PROVE  admin' \in Admins /\ UNCHANGED <<inst, sub, failures>>
  <2>1. admin.calls \in 0 .. MaxManaged /\ MaxManaged \in Nat /\ admin.calls < MaxManaged
    BY <1>1, <1>2, MSSQLStreamAssumption DEF Admins, Manage
  <2>2. admin.calls + 1 \in 0 .. MaxManaged
    BY <2>1
  <2>3. admin' = [todo |-> todo, step |-> "server", calls |-> admin.calls + 1]
    BY <1>2 DEF Manage
  <2>4. admin' \in Admins
    BY <2>2, <2>3 DEF Admins
  <2> QED BY <1>2, <2>4 DEF Manage, server, durable
<1>3. /\ Each("add", given) \in Seq(Tasks) /\ Each("remove", given) \in Seq(Tasks)
      /\ Each("remove", Tracked \ given) \in Seq(Tasks)
  BY <1>1, EachIs
<1>4. Each("remove", Tracked \ given) \o Each("add", given) \in Seq(Tasks)
  BY <1>3, ConcatProperties
<1> QED BY <1>2, <1>3, <1>4 DEF AddTables, RemoveTables, SyncTables

\* One table of such a call, at the server and in s.tables.
LEMMA TaskIs ==
  ASSUME Types, admin.todo # <<>>
  PROVE  /\ Head(admin.todo) \in Tasks /\ Head(admin.todo).table \in Tables
         /\ \A z : z = [admin EXCEPT !.todo = <<>>] => z \in Admins
         /\ \A z : z = [admin EXCEPT !.step = "local"] => z \in Admins
         /\ \A z : z = [admin EXCEPT !.step = "server", !.todo = Tail(@)] => z \in Admins
         /\ \A z : z = [admin EXCEPT !.todo = <<>>, !.step = "server"] => z \in Admins
<1>1. admin \in Admins /\ admin.todo \in Seq(Tasks)
  BY DEF Types, Admins
<1>2. Head(admin.todo) \in Tasks /\ Tail(admin.todo) \in Seq(Tasks) /\ <<>> \in Seq(Tasks)
  BY <1>1, HeadTailProperties, EmptySeq
<1>3. PICK tl : tl = Tail(admin.todo)
  OBVIOUS
<1>4. PICK e : e = <<>>
  OBVIOUS
<1>5. e \in Seq(Tasks) /\ tl \in Seq(Tasks)
  BY <1>2, <1>3, <1>4
<1>6. /\ \A z : z = [admin EXCEPT !.todo = e] => z \in Admins
      /\ \A z : z = [admin EXCEPT !.step = "local"] => z \in Admins
      /\ \A z : z = [admin EXCEPT !.step = "server", !.todo = tl] => z \in Admins
      /\ \A z : z = [admin EXCEPT !.todo = e, !.step = "server"] => z \in Admins
  BY <1>1, <1>5 DEF Admins
<1> QED BY <1>2, <1>3, <1>4, <1>6 DEF Tasks

\* What a table costs at the server: nothing, or its history.
LEMMA ManageServerIs ==
  ASSUME Types, ManageServer
  PROVE  /\ inst' \subseteq Tables /\ admin' \in Admins
         /\ UNCHANGED <<captured, sub, st, pc, hand, recorded, processed, failures>>
         /\ \/ UNCHANGED <<oldest, hist, cleaned, excused>>
            \/ \E t \in Tables : /\ oldest' = [oldest EXCEPT ![t] = 0]
                                 /\ hist' = hist \ RowsIn(t) /\ cleaned' = cleaned \ RowsIn(t)
                                 /\ excused' = excused \cup (hist \cap RowsIn(t))
<1> DEFINE t == Head(admin.todo).table
<1>1. t \in Tables /\ inst \subseteq Tables
  BY TaskIs DEF ManageServer, Types
<1>2. /\ admin.todo # <<>>
      /\ \/ admin' = [admin EXCEPT !.todo = <<>>] \/ admin' = [admin EXCEPT !.step = "local"]
  BY DEF ManageServer
<1>3. admin' \in Admins
  BY <1>2, TaskIs
<1>4. \/ UNCHANGED <<inst, oldest, hist, cleaned, excused>>
      \/ inst' = inst \cup {t} /\ UNCHANGED <<oldest, hist, cleaned, excused>>
      \/ /\ inst' = inst \ {t} /\ oldest' = [oldest EXCEPT ![t] = 0]
         /\ hist' = hist \ RowsIn(t) /\ cleaned' = cleaned \ RowsIn(t)
         /\ excused' = excused \cup (hist \cap RowsIn(t))
  BY DEF ManageServer
<1>5. inst' \subseteq Tables
  BY <1>1, <1>4
<1> HIDE DEF t
<1> QED BY <1>1, <1>3, <1>4, <1>5 DEF ManageServer

\* Table management.
LEMMA ManageTypesHold ==
  ASSUME Types, \/ (\E given \in SUBSET Tables : AddTables(given) \/ RemoveTables(given) \/ SyncTables(given))
                \/ ManageLocal \/ ManageServer
  PROVE  Types'
<1>1. CASE \E given \in SUBSET Tables : AddTables(given) \/ RemoveTables(given) \/ SyncTables(given)
  BY <1>1, CallTypes, ManageQuiet, QuietTypes DEF ManageTypes, Types, sub
<1>2. CASE ManageLocal
  <2>1. Quiet /\ UNCHANGED <<closed, streaming, stream, db>>
    BY <1>2, ManageQuiet
  <2>2. admin.todo # <<>> /\ Head(admin.todo).table \in Tables /\ admin' \in Admins
    BY <1>2, TaskIs DEF ManageLocal
  <2>3. tables' \subseteq Tables /\ UNCHANGED <<inst, failures>>
    BY <1>2, <2>2 DEF ManageLocal, Types, server, durable
  <2> QED BY <2>1, <2>2, <2>3, QuietTypes DEF ManageTypes, Types
<1>3. CASE ManageServer
  <2>1. /\ hist' \subseteq Rows /\ cleaned' \subseteq Rows /\ excused' \subseteq Rows
        /\ oldest' \in [Tables -> 0 .. Len(Log) + 1]
    <3>1. Len(Log) \in Nat
      BY MSSQLStreamAssumption, LenProperties
    <3> QED BY <1>3, <3>1, ManageServerIs DEF Types
  <2>2. InHand' = InHand
    BY <1>3, ManageServerIs DEF InHand
  <2> QED BY <1>3, <2>1, <2>2, ManageServerIs DEF Types, sub
<1> QED BY <1>1, <1>2, <1>3

\* The poll's queries and the delivery.
LEMMA PollTypes ==
  ASSUME Types, \/ PollMax \/ PollInstances \/ (\E t \in Tables : ReadMinimum(t) \/ ReadInstance(t))
                \/ Deliver \/ EndPoll
  PROVE  Types'
<1>1. UNCHANGED <<server, sub, admin, pc, hand, recorded, processed, failures>>
  BY DEF PollMax, PollInstances, ReadMinimum, ReadInstance, Deliver, EndPoll, durable
<1>2. excused' \subseteq Rows
  BY DEF PollMax, PollInstances, ReadMinimum, ReadInstance, Deliver, EndPoll, durable, Types
<1>3. InHand' = InHand
  BY <1>1 DEF InHand
<1>4. st' \in Streams /\ Len(st'.events) <= Buffer
  <2>1. CASE \E r \in Rows : Pushed(r)
    <3>1. PICK r \in Rows : Pushed(r)
      BY <2>1
    <3>2. st.events \in Seq(Rows) /\ Buffer \in Nat
      BY MSSQLStreamAssumption DEF Types, Streams
    <3>3. Len(st.events) \in Nat /\ Len(st'.events) = Len(st.events) + 1 /\ Len(st.events) < Buffer
      BY <3>1, <3>2, AppendProperties, LenProperties DEF Pushed
    <3>4. Deliver => st' \in Streams
      BY DeliverIs
    <3>5. st.reader = "read" /\ st.todo = {} /\ st.batch # {}
      BY <3>1 DEF Pushed
    <3>6. ~PollMax /\ ~PollInstances /\ ~EndPoll /\ \A t \in Tables : ~ReadMinimum(t)
      BY <3>5 DEF PollMax, PollInstances, EndPoll, ReadMinimum
    <3>7. \A t \in Tables : ~ReadInstance(t)
      <4>1. st'.events # st.events
        BY <3>3
      <4> QED BY <4>1, ReadInstanceIs DEF Kept
    <3> QED BY <3>2, <3>3, <3>4, <3>6, <3>7
  <2>2. CASE ~\E r \in Rows : Pushed(r)
    <3>1. st' \in Streams /\ st'.events = st.events
      BY <2>2, PollMaxIs, PollInstancesIs, ReadMinimumIs, ReadInstanceIs, DeliverIs, EndPollIs DEF Kept
    <3> QED BY <3>1 DEF Types
  <2> QED BY <2>1, <2>2
<1> QED BY <1>1, <1>2, <1>3, <1>4 DEF Types, server, sub

\* The steps of a subscription.
LEMMA SubscribeTypes ==
  ASSUME Types, ReadMax \/ CheckRetained \/ Subscribe
  PROVE  Types'
<1>1. Len(Log) \in Nat /\ Buffer \in Nat /\ pc \in PCs
  BY MSSQLStreamAssumption, LenProperties DEF Types
<1>2. CASE ReadMax
  <2>1. pc' \in PCs /\ pc'.consumer = "start" /\ ~InHand'
    BY <1>1, <1>2, ConsumerIs DEF ReadMax, InHand
  <2>2. captured \in 0 .. Len(Log)
    BY DEF Types
  <2>3. PICK n : n = IF MaxLSN = 0 THEN 0 ELSE NextFrom(MaxLSN)
    OBVIOUS
  <2>4. n \in 0 .. Len(Log) + 1
    BY <1>1, <2>2, <2>3 DEF MaxLSN, NextFrom
  <2>5. hand' = <<n>>
    BY <1>2, <2>3 DEF ReadMax
  <2>6. hand'[1] \in 0 .. Len(Log) + 1
    BY <2>4, <2>5
  <2>7. excused' \subseteq Rows
    <3>1. \A i \in 1 .. captured : RowsOf(i) \subseteq Rows
      BY <1>1, <2>2, RowIs
    <3> QED BY <1>2, <3>1 DEF ReadMax, Types
  <2>8. UNCHANGED <<server, sub, admin, st, recorded, processed, failures>>
    BY <1>2 DEF ReadMax
  <2> QED BY <2>1, <2>6, <2>7, <2>8 DEF Types, server, sub
<1>3. CASE CheckRetained
  <2>1. pc' \in PCs /\ pc'.consumer = "check" /\ ~InHand'
    BY <1>1, <1>3, ConsumerIs DEF CheckRetained, InHand
  <2>2. hand'[1] \in 0 .. Len(Log) + 1
    BY <1>1, <1>3 DEF CheckRetained, Types
  <2>3. UNCHANGED <<server, sub, admin, st, durable>>
    BY <1>3 DEF CheckRetained
  <2> QED BY <2>1, <2>2, <2>3 DEF Types, server, sub, durable
<1>4. CASE Subscribe
  <2>1. pc.consumer = "start" /\ pc' \in PCs /\ pc'.consumer = "range" /\ ~InHand'
    BY <1>1, <1>4, ConsumerIs DEF Subscribe, InHand
  <2>2. PICK n : n = hand[1]
    OBVIOUS
  <2>3. n \in 0 .. Len(Log) + 1
    BY <2>1, <2>2 DEF Types
  <2>4. st' = NewStream(n)
    BY <1>4, <2>2 DEF Subscribe
  <2>5. st' \in Streams /\ st'.events = <<>>
    BY <2>3, <2>4, NewStreamIs
  <2>6. Len(st'.events) <= Buffer
    BY <1>1, <2>5, EmptySeq
  <2>7. stream' = TRUE /\ streaming' = TRUE /\ UNCHANGED <<server, closed, tables, db, admin, durable>>
    BY <1>4 DEF Subscribe
  <2> QED BY <2>1, <2>5, <2>6, <2>7 DEF Types, server, durable
<1> QED BY <1>2, <1>3, <1>4

\* The loop over All.
LEMMA ConsumeTypes ==
  ASSUME Types, Receive \/ Record \/ Process
  PROVE  Types'
<1>1. CASE Receive
  <2>1. InHand' /\ pc'.consumer \notin {"check", "start"}
    BY <1>1, ReceiveIs DEF InHand
  <2>2. UNCHANGED <<server, sub, admin, durable>>
    BY <1>1 DEF Receive
  <2>3. Len(st'.events) <= Buffer
    <3>1. st.events \in Seq(Rows) /\ st.events # <<>> /\ Buffer \in Nat /\ Len(st.events) <= Buffer
      BY <1>1, ReceiveIs, MSSQLStreamAssumption DEF Types, Streams
    <3>2. Len(st.events) \in Nat /\ Len(Tail(st.events)) = Len(st.events) - 1
      BY <3>1, HeadTailProperties, LenProperties
    <3>3. st'.events = Tail(st.events)
      BY <1>1, ReceiveIs
    <3> QED BY <3>1, <3>2, <3>3
  <2> QED BY <1>1, <2>1, <2>2, <2>3, ReceiveIs DEF Types, server, sub, durable
<1>2. CASE Record
  <2>1. pc.consumer = "record" /\ pc'.consumer = "process" /\ pc' \in PCs /\ InHand /\ InHand'
    BY <1>2, ConsumerIs DEF Record, Types, InHand
  <2>2. hand \in Rows /\ recorded' = hand[1]
    BY <1>2, <2>1 DEF Record, Types, Position
  <2>3. recorded' \in 0 .. Len(Log)
    BY <2>2, RowIs
  <2>4. UNCHANGED <<server, sub, admin, st, hand, processed, excused, failures>>
    BY <1>2 DEF Record
  <2> QED BY <2>1, <2>2, <2>3, <2>4 DEF Types, server, sub
<1>3. CASE Process
  <2>1. pc.consumer = "process" /\ pc'.consumer = "range" /\ pc' \in PCs /\ InHand /\ ~InHand'
    BY <1>3, ConsumerIs DEF Process, Types, InHand
  <2>2. hand \in Rows /\ processed' = processed \cup {hand}
    BY <1>3, <2>1 DEF Process, Types
  <2>3. UNCHANGED <<server, sub, admin, st, recorded, excused, failures>>
    BY <1>3 DEF Process
  <2> QED BY <2>1, <2>2, <2>3 DEF Types, server, sub
<1> QED BY <1>1, <1>2, <1>3

\* The capture and the cleanup job.
LEMMA ServerTypes ==
  ASSUME Types, Capture \/ Cleanup
  PROVE  Types'
<1>1. UNCHANGED <<inst, sub, admin, st, pc, hand, recorded, processed, failures>>
  BY DEF Capture, Cleanup
<1>2. InHand' = InHand
  BY <1>1 DEF InHand
<1>3. Len(Log) \in Nat /\ captured \in 0 .. Len(Log) /\ oldest \in [Tables -> 0 .. Len(Log) + 1]
  BY MSSQLStreamAssumption, LenProperties DEF Types
<1>4. CASE Capture
  <2>1. captured' = captured + 1 /\ captured' \in 1 .. Len(Log)
    BY <1>3, <1>4 DEF Capture
  <2>2. RowsOf(captured') \subseteq Rows
    BY <2>1, RowIs
  <2>3. oldest' \in [Tables -> 0 .. Len(Log) + 1]
    BY <1>3, <1>4, <2>1 DEF Capture
  <2>4. hist' \subseteq Rows /\ excused' \subseteq Rows /\ cleaned' = cleaned
    BY <1>4, <2>2 DEF Capture, Types
  <2> QED BY <1>1, <1>2, <2>1, <2>3, <2>4 DEF Types, sub
<1>5. CASE Cleanup
  <2>1. PICK i \in 1 .. captured :
          LET gone == {r \in hist : r[1] <= i} IN
          /\ oldest' = [t \in Tables |-> IF oldest[t] \in 1 .. i THEN i + 1 ELSE oldest[t]]
          /\ hist' = hist \ gone /\ cleaned' = cleaned \cup gone /\ excused' = excused \cup gone
    BY <1>5 DEF Cleanup
  <2>2. oldest' \in [Tables -> 0 .. Len(Log) + 1]
    BY <1>3, <2>1
  <2>3. hist' \subseteq Rows /\ excused' \subseteq Rows /\ cleaned' \subseteq Rows
    BY <2>1 DEF Types
  <2> QED BY <1>1, <1>2, <1>5, <2>2, <2>3 DEF Types, sub, Cleanup
<1> QED BY <1>4, <1>5

\* A crash.
LEMMA CrashTypes ==
  ASSUME Types, Crash
  PROVE  Types'
<1>1. failures' \in 0 .. MaxFailures
  BY FailureCounted DEF Crash
<1>2. admin' \in Admins
  <2>1. admin \in Admins
    BY DEF Types
  <2>2. PICK e : e = <<>>
    OBVIOUS
  <2>3. e \in Seq(Tasks)
    BY <2>2, EmptySeq
  <2>4. admin' = [admin EXCEPT !.todo = e, !.step = "server"]
    BY <2>2 DEF Crash
  <2> QED BY <2>1, <2>3, <2>4 DEF Admins
<1>3. pc' \in PCs /\ pc'.consumer = "idle" /\ ~InHand'
  BY DEF Crash, PCs, InHand
<1>4. st' \in Streams /\ Len(st'.events) <= Buffer
  BY NoStreamIs, EmptySeq, MSSQLStreamAssumption DEF Crash
<1>5. /\ closed' = FALSE /\ streaming' = FALSE /\ stream' = FALSE /\ tables' = Configured /\ db' = TRUE
      /\ UNCHANGED <<server, recorded, processed, excused>>
  BY DEF Crash
<1>6. Configured \subseteq Tables
  BY MSSQLStreamAssumption
<1> QED BY <1>1, <1>2, <1>3, <1>4, <1>5, <1>6 DEF Types, server

\* Every step keeps the types.
LEMMA StepTypes ==
  ASSUME Types, Next
  PROVE  Types'
BY ConsumerTypes, ReaderTypes, ClosingTypes, ManageTypesHold, PollTypes, SubscribeTypes, ConsumeTypes,
   ServerTypes, CrashTypes DEF Next, Consuming, Polling, Managing, Closing

-----------------------------------------------------------------------------
(* How a stream goes away. *)

\* Steps of the reader and of the consumer's loop, which touch neither the
\* subscriber's fields nor who closes.
LEMMA EndingKept ==
  ASSUME Ending, UNCHANGED sub, pc'.closer = pc.closer, st'.once = st.once, Live' => Live
  PROVE  Ending'
BY DEF Ending, sub, Live

\* Every step keeps the order in which a stream goes away.
LEMMA StepEnding ==
  ASSUME Types, Ending, Next
  PROVE  Ending'
<1>1. CASE \/ SubscribeFails \/ LoopEnds \/ LoopBreaks
           \/ (\E t \in Tables : AskInstance(t)) \/ AskedAll \/ CheckFails
  <2>1. UNCHANGED sub
    BY <1>1 DEF SubscribeFails, LoopEnds, LoopBreaks, AskInstance, AskedAll, CheckFails
  <2> QED BY <1>1, <2>1, ConsumerQuiet, EndingKept DEF Live
<1>2. CASE \/ Tick \/ QueryFails \/ ConnectionFails \/ DeadlinePasses
           \/ (PollMax /\ st'.reader = "wait") \/ (Deliver /\ st'.reader = "ended")
           \/ (EndPoll /\ st'.reader = "ended")
  BY <1>2, ReaderQuiet, EndingKept
<1>3. CASE \/ PollMax \/ PollInstances \/ (\E t \in Tables : ReadMinimum(t) \/ ReadInstance(t))
           \/ Deliver \/ EndPoll
  <2>1. UNCHANGED <<sub, pc>>
    BY <1>3 DEF PollMax, PollInstances, ReadMinimum, ReadInstance, Deliver, EndPoll
  <2>2. st'.once = st.once /\ Live
    BY <1>3, PollMaxIs, PollInstancesIs, ReadMinimumIs, ReadInstanceIs, DeliverIs, EndPollIs
       DEF Kept, Pushed, Live
  <2> QED BY <2>1, <2>2, EndingKept
<1>4. CASE Receive \/ Record \/ Process
  <2>1. UNCHANGED sub
    BY <1>4 DEF Receive, Record, Process
  <2>2. pc \in PCs
    BY DEF Types
  <2>3. pc'.closer = pc.closer /\ st'.once = st.once /\ (Live' => Live)
    BY <1>4, <2>2, ReceiveIs, ConsumerIs DEF Record, Process, Live
  <2> QED BY <2>1, <2>3, EndingKept
<1>5. CASE ReadMax \/ CheckRetained
  <2>1. UNCHANGED <<sub, st>>
    BY <1>5 DEF ReadMax, CheckRetained
  <2>2. pc \in PCs
    BY DEF Types
  <2>3. pc'.closer = pc.closer
    BY <1>5, <2>2, ConsumerIs DEF ReadMax, CheckRetained
  <2> QED BY <2>1, <2>3, EndingKept DEF Live
<1>6. CASE Subscribe
  <2>1. /\ ~closed /\ closed' = closed /\ stream' = TRUE /\ streaming' = TRUE /\ db' = db
        /\ pc \in PCs /\ Consumer("start", "range")
    BY <1>6 DEF Subscribe, Types
  <2>2. pc'.closer = pc.closer /\ pc.consumer = "start"
    BY <2>1, ConsumerIs
  <2>3. PICK n : n = hand[1]
    OBVIOUS
  <2>4. st'.once = "new"
    BY <1>6, <2>2, <2>3, NewStreamIs DEF Subscribe, Types
  <2> QED BY <2>1, <2>2, <2>4 DEF Ending, Live
<1>7. CASE \E p \in {"consumer", "closer"} : Once(p)
  <2>1. PICK p \in {"consumer", "closer"} : Once(p)
    BY <1>7
  <2>2. /\ UNCHANGED <<closed, streaming, stream, db>> /\ st'.reader = st.reader /\ pc[p] = "once"
        /\ pc'.closer = (IF p = "closer" THEN pc'[p] ELSE pc.closer)
        /\ \/ st.once = "new" /\ st'.once = "busy" /\ pc'[p] = "release"
           \/ st.once = "done" /\ st'.once = "done" /\ pc'[p] = Returned(p)
    BY <2>1, OnceIs
  <2>3. pc'.closer = "none" <=> pc.closer = "none"
    BY <2>2 DEF Returned
  <2>4. Live => st.once = "new" /\ pc'[p] = "release" /\ st'.once = "busy"
    BY <2>2 DEF Ending
  <2>5. Live' = Live
    BY <2>2 DEF Live
  <2> QED BY <2>2, <2>3, <2>4, <2>5 DEF Ending
<1>8. CASE \E p \in {"consumer", "closer"} : ReleaseStream(p)
  <2>1. PICK p \in {"consumer", "closer"} : ReleaseStream(p)
    BY <1>8
  <2>2. /\ UNCHANGED <<closed, db>> /\ st'.reader = "ended" /\ pc[p] = "release"
        /\ pc'.closer = (IF p = "closer" THEN "db" ELSE pc.closer)
    BY <2>1, ReleaseIs
  <2> QED BY <2>2 DEF Ending, Live
<1>9. CASE Close \/ CloseDB
  BY <1>9, CloseIs DEF Ending, Live
<1>10. CASE \/ (\E given \in SUBSET Tables : AddTables(given) \/ RemoveTables(given) \/ SyncTables(given))
            \/ ManageLocal \/ ManageServer
  <2>1. UNCHANGED <<closed, streaming, stream, db, st, pc>>
    BY <1>10 DEF AddTables, RemoveTables, SyncTables, Manage, ManageLocal, ManageServer, sub
  <2> QED BY <2>1 DEF Ending, Live
<1>11. CASE Capture \/ Cleanup
  <2>1. UNCHANGED <<sub, st, pc>>
    BY <1>11 DEF Capture, Cleanup
  <2> QED BY <2>1, EndingKept DEF Live
<1>12. CASE Crash
  <2>1. closed' = FALSE /\ db' = TRUE /\ pc'.closer = "none" /\ st'.reader = "none"
    BY <1>12, NoStreamIs DEF Crash
  <2> QED BY <2>1 DEF Ending, Live
<1> QED BY <1>1, <1>2, <1>3, <1>4, <1>5, <1>6, <1>7, <1>8, <1>9, <1>10, <1>11, <1>12
        DEF Next, Consuming, Polling, Managing, Closing

-----------------------------------------------------------------------------
(* Rows on their way. *)

Rest == Retention /\ Coverage /\ Reading /\ Order /\ Flow /\ Starts

\* Positions in what was sent, and in the channel.
LEMMA SentIs ==
  ASSUME Types
  PROVE  /\ Len(Log) \in Nat /\ st \in Streams /\ st.events \in Seq(Rows) /\ st.sent \in Seq(Rows)
         /\ Len(st.events) \in Nat /\ DOMAIN st.events = 1 .. Len(st.events)
         /\ Len(st.sent) \in Nat /\ DOMAIN st.sent = 1 .. Len(st.sent)
         /\ \A k \in DOMAIN st.sent : st.sent[k] \in Rows /\ st.sent[k][1] \in Int
         /\ \A i \in DOMAIN st.events : st.events[i] \in Rows
         /\ st.from \in Int /\ st.to \in Int /\ captured \in Int /\ recorded \in Int
         /\ st.batch \subseteq Rows /\ hist \subseteq Rows
<1>1. Len(Log) \in Nat /\ st \in Streams
  BY MSSQLStreamAssumption, LenProperties DEF Types
<1>2. st.events \in Seq(Rows) /\ st.sent \in Seq(Rows) /\ st.batch \subseteq Rows
  BY <1>1 DEF Streams
<1>3. /\ Len(st.events) \in Nat /\ DOMAIN st.events = 1 .. Len(st.events)
      /\ Len(st.sent) \in Nat /\ DOMAIN st.sent = 1 .. Len(st.sent)
  BY <1>2, LenProperties
<1>4. \A k \in DOMAIN st.sent : st.sent[k] \in Rows
  BY <1>2, <1>3, ElementOfSeq
<1>5. \A i \in DOMAIN st.events : st.events[i] \in Rows
  BY <1>2, <1>3, ElementOfSeq
<1>6. \A k \in DOMAIN st.sent : st.sent[k][1] \in Int
  BY <1>4, RowIs
<1>7. st.from \in Int /\ st.to \in Int /\ captured \in Int /\ recorded \in Int /\ hist \subseteq Rows
  BY <1>1 DEF Types, Streams
<1> QED BY <1>1, <1>2, <1>3, <1>4, <1>5, <1>6, <1>7

\* Nothing that is out comes back.
LEMMA OutGrows ==
  ASSUME Settled \subseteq Settled', st'.events = st.events,
         InHand => (InHand' /\ hand' = hand) \/ hand \in Settled'
  PROVE  Out \subseteq Out'
<1>1. ASSUME NEW r \in Rows, InHand, r = hand PROVE r \in Out'
  BY <1>1 DEF Out
<1> QED BY <1>1 DEF Out

\* The change tables stay as they are.
LEMMA RetentionKept ==
  ASSUME Retention, UNCHANGED <<captured, oldest, hist, cleaned>>, excused \subseteq excused'
  PROVE  Retention'
BY DEF Retention

\* A window that was clamped stays clamped.
LEMMA ReadingKept ==
  ASSUME Reading, Out \subseteq Out', st'.low = st.low, st'.todo = st.todo, st'.from = st.from,
         st'.to = st.to, st'.reader = st.reader
  PROVE  Reading'
BY DEF Reading

\* A quiet step keeps the rest.
LEMMA QuietStep ==
  ASSUME Types, Rest, Quiet
  PROVE  Rest'
<1>1. Retention'
  BY RetentionKept DEF Rest, Quiet
<1>2. Settled' = Settled
  BY DEF Settled, Quiet
<1>3. Out \subseteq Out'
  BY <1>2, OutGrows DEF Quiet
<1>4. Coverage'
  <2>1. st'.reader = "read" => st.reader = "read" /\ st'.batch = st.batch
    BY DEF Quiet
  <2> QED BY <1>3, <2>1 DEF Quiet, Rest, Coverage
<1>8. Reading'
  <2>1. CASE st'.reader = st.reader /\ st'.low = st.low
    BY <1>3, <2>1, ReadingKept DEF Quiet, Rest
  <2>2. CASE st'.low = <<>>
    BY <2>2 DEF Reading
  <2>3. CASE st'.low = st.low /\ (st.todo = {} \/ st.reader \in {"max", "wait"})
    <3>1. st.low = <<>>
      BY <2>3 DEF Rest, Reading
    <3> QED BY <2>3, <3>1 DEF Reading
  <2> QED BY <2>1, <2>2, <2>3 DEF Quiet
<1>5. Order'
  <2>1. \/ st'.reader = "ended"
        \/ st'.reader = st.reader /\ st'.batch = st.batch
        \/ st.reader \in {"max", "wait"} /\ st'.reader \in {"max", "wait"} /\ st'.batch = st.batch
    BY DEF Quiet
  <2> QED BY <2>1 DEF Quiet, Rest, Order
<1>6. Flow'
  BY DEF Quiet, Rest, Flow
<1>7. Starts'
  BY <1>2 DEF Quiet, Rest, Starts
<1> QED BY <1>1, <1>4, <1>5, <1>6, <1>7, <1>8 DEF Rest

\* The server's steps: more is captured, more is excused.
LEMMA ServerStep ==
  ASSUME Types, Rest, Retention', UNCHANGED <<st, pc, hand, recorded, processed>>,
         captured' \in Int, captured <= captured', excused \subseteq excused'
  PROVE  Rest'
<1>1. InHand' = InHand /\ Settled \subseteq Settled'
  BY DEF InHand, Settled
<1>2. Out \subseteq Out'
  BY <1>1, OutGrows
<1>3. st.to \in Int /\ captured \in Int
  BY SentIs
<1>4. Coverage'
  BY <1>2, <1>3 DEF Rest, Coverage
<1>5. Order' /\ Flow' /\ Starts'
  BY <1>1 DEF Rest, Order, Flow, Starts
<1>6. Reading'
  BY <1>2, ReadingKept DEF Rest
<1> QED BY <1>4, <1>5, <1>6 DEF Rest

\* The capture job: a new row is in its change table, or nobody captures its table.
LEMMA CaptureStep ==
  ASSUME Types, Rest, Capture
  PROVE  Rest'
<1>1. /\ UNCHANGED <<inst, cleaned, st, pc, hand, recorded, processed>> /\ captured' = captured + 1
      /\ hist' = hist \cup {r \in RowsOf(captured') : TableOf(r) \in inst}
      /\ excused' = excused \cup {r \in RowsOf(captured') : TableOf(r) \notin inst}
      /\ oldest' = [t \in Tables |-> IF t \in inst /\ oldest[t] = 0 THEN captured' ELSE oldest[t]]
  BY DEF Capture
<1>2. /\ captured \in Int /\ 0 <= captured /\ captured' \in 1 .. Len(Log) /\ Len(Log) \in Nat
      /\ oldest \in [Tables -> 0 .. Len(Log) + 1] /\ hist \subseteq Rows /\ cleaned \subseteq Rows
  BY <1>1, MSSQLStreamAssumption, LenProperties DEF Types, Capture
<1>3. \A t \in Tables : /\ oldest'[t] = (IF t \in inst /\ oldest[t] = 0 THEN captured' ELSE oldest[t])
                        /\ oldest[t] \in Int /\ 0 <= oldest[t] /\ oldest[t] <= captured + 1
  BY <1>1, <1>2 DEF Rest, Retention
<1>4. ASSUME NEW r \in Rows, r[1] <= captured' PROVE r \in hist' \cup excused'
  <2>1. CASE r[1] <= captured
    BY <1>1, <2>1 DEF Rest, Retention
  <2>2. CASE r[1] = captured'
    <3>1. r \in RowsOf(captured')
      BY <2>2, RowIs
    <3> QED BY <1>1, <3>1
  <2> QED BY <1>1, <1>2, <1>4, <2>1, <2>2, RowIs
<1>5. ASSUME NEW r \in hist' PROVE oldest'[TableOf(r)] \in 1 .. r[1]
  <2>1. CASE r \in hist
    <3>1. r \in Rows /\ TableOf(r) \in Tables /\ r[1] \in Int /\ oldest[TableOf(r)] \in 1 .. r[1]
      BY <1>2, <2>1, RowIs DEF Rest, Retention
    <3> QED BY <1>3, <3>1
  <2>2. CASE r \in RowsOf(captured') /\ TableOf(r) \in inst
    <3>1. r \in Rows /\ r[1] = captured' /\ TableOf(r) \in Tables
      BY <1>2, <2>2, RowIs
    <3> QED BY <1>1, <1>2, <1>3, <2>2, <3>1
  <2> QED BY <1>1, <2>1, <2>2
<1>6. ASSUME NEW r \in cleaned' PROVE r[1] < oldest'[TableOf(r)]
  <2>1. r \in Rows /\ TableOf(r) \in Tables /\ r[1] \in 1 .. Len(Log) /\ r[1] < oldest[TableOf(r)]
    BY <1>1, <1>2, RowIs DEF Rest, Retention
  <2>2. r[1] \in Int /\ 1 <= r[1]
    BY <1>2, <2>1
  <2> QED BY <1>3, <2>1, <2>2
<1>7. \A t \in Tables : oldest'[t] <= captured' + 1
  BY <1>1, <1>2, <1>3
<1>8. Retention'
  BY <1>4, <1>5, <1>6, <1>7 DEF Retention
<1>9. captured <= captured' /\ captured' \in Int /\ excused \subseteq excused'
  BY <1>1, <1>2
<1> QED BY <1>1, <1>8, <1>9, ServerStep

\* The cleanup job: what it discards is below the new minimum.
LEMMA CleanupStep ==
  ASSUME Types, Rest, Cleanup
  PROVE  Rest'
<1>1. UNCHANGED <<captured, st, pc, hand, recorded, processed>>
  BY DEF Cleanup
<1>2. PICK i \in 1 .. captured :
        /\ oldest' = [t \in Tables |-> IF oldest[t] \in 1 .. i THEN i + 1 ELSE oldest[t]]
        /\ hist' = hist \ {r \in hist : r[1] <= i}
        /\ cleaned' = cleaned \cup {r \in hist : r[1] <= i}
        /\ excused' = excused \cup {r \in hist : r[1] <= i}
  BY DEF Cleanup
<1>3. /\ captured \in Int /\ i \in Int /\ 1 <= i /\ i <= captured
      /\ oldest \in [Tables -> 0 .. Len(Log) + 1] /\ hist \subseteq Rows /\ cleaned \subseteq Rows
      /\ Len(Log) \in Nat
  BY <1>2, MSSQLStreamAssumption, LenProperties DEF Types
<1>4. \A t \in Tables : /\ oldest'[t] = (IF oldest[t] \in 1 .. i THEN i + 1 ELSE oldest[t])
                        /\ oldest[t] \in Int /\ oldest[t] <= captured + 1
  BY <1>2, <1>3 DEF Rest, Retention
<1>5. \A r \in Rows : r[1] <= captured => r \in hist' \cup excused'
  BY <1>2 DEF Rest, Retention
<1>6. ASSUME NEW r \in hist PROVE
        /\ r \in Rows /\ TableOf(r) \in Tables /\ r[1] \in Int /\ oldest[TableOf(r)] \in 1 .. r[1]
  BY <1>3, RowIs DEF Rest, Retention
<1>7. ASSUME NEW r \in hist' PROVE oldest'[TableOf(r)] \in 1 .. r[1]
  <2>1. r \in hist /\ ~(r[1] <= i)
    BY <1>2
  <2> QED BY <1>3, <1>4, <1>6, <2>1
<1>8. ASSUME NEW r \in cleaned' PROVE r[1] < oldest'[TableOf(r)]
  <2>1. CASE r \in cleaned
    <3>1. TableOf(r) \in Tables /\ r[1] \in Int /\ r[1] < oldest[TableOf(r)]
      BY <1>3, <2>1, RowIs DEF Rest, Retention
    <3> QED BY <1>3, <1>4, <3>1
  <2>2. CASE r \in hist /\ r[1] <= i
    BY <1>3, <1>4, <1>6, <2>2
  <2> QED BY <1>2, <2>1, <2>2
<1>9. \A t \in Tables : oldest'[t] <= captured' + 1
  BY <1>1, <1>3, <1>4
<1>10. Retention'
  BY <1>1, <1>5, <1>7, <1>8, <1>9 DEF Retention
<1> QED BY <1>1, <1>2, <1>3, <1>10, ServerStep

\* Disabling capture of a table discards its history.
LEMMA DisableStep ==
  ASSUME Types, Rest, ManageServer
  PROVE  Rest'
<1>1. CASE UNCHANGED <<oldest, hist, cleaned, excused>>
  BY <1>1, ManageQuiet, QuietStep
<1>2. CASE \E t \in Tables : /\ oldest' = [oldest EXCEPT ![t] = 0]
                             /\ hist' = hist \ RowsIn(t) /\ cleaned' = cleaned \ RowsIn(t)
                             /\ excused' = excused \cup (hist \cap RowsIn(t))
  <2>1. PICK t \in Tables : /\ oldest' = [oldest EXCEPT ![t] = 0]
                            /\ hist' = hist \ RowsIn(t) /\ cleaned' = cleaned \ RowsIn(t)
                            /\ excused' = excused \cup (hist \cap RowsIn(t))
    BY <1>2
  <2>2. /\ UNCHANGED <<captured, st, pc, hand, recorded, processed>> /\ captured \in Int
        /\ captured + 1 >= 0
        /\ oldest \in [Tables -> 0 .. Len(Log) + 1] /\ hist \subseteq Rows /\ cleaned \subseteq Rows
    BY ManageServerIs DEF Types
  <2>3. \A u \in Tables : oldest'[u] = (IF u = t THEN 0 ELSE oldest[u])
    BY <2>1, <2>2
  <2>4. \A r \in hist' \cup cleaned' : TableOf(r) # t /\ TableOf(r) \in Tables
    BY <2>1, <2>2, RowIs DEF RowsIn
  <2>5. Retention'
    <3>1. \A r \in Rows : r[1] <= captured => r \in hist' \cup excused'
      BY <2>1 DEF Rest, Retention
    <3>2. \A r \in hist' : oldest'[TableOf(r)] \in 1 .. r[1]
      BY <2>1, <2>3, <2>4 DEF Rest, Retention
    <3>3. \A r \in cleaned' : r[1] < oldest'[TableOf(r)]
      BY <2>1, <2>3, <2>4 DEF Rest, Retention
    <3>4. \A u \in Tables : oldest'[u] <= captured + 1
      BY <2>2, <2>3 DEF Rest, Retention
    <3> QED BY <2>2, <3>1, <3>2, <3>3, <3>4 DEF Retention
  <2> QED BY <2>1, <2>2, <2>5, ServerStep
<1> QED BY <1>1, <1>2, ManageServerIs

-----------------------------------------------------------------------------
(* The poll. *)

\* The poll's queries touch neither the server's rows nor what is on its way.
LEMMA PollFrame ==
  ASSUME Types, Rest, UNCHANGED <<server, pc, hand, recorded, processed>>, excused \subseteq excused',
         st'.events = st.events, st'.sent = st.sent
  PROVE  Retention' /\ Flow' /\ Starts' /\ Out \subseteq Out'
<1>1. Retention'
  BY RetentionKept DEF server, Rest
<1>2. InHand' = InHand /\ Settled \subseteq Settled'
  BY DEF InHand, Settled
<1>3. Out \subseteq Out'
  BY <1>2, OutGrows
<1>4. Flow' /\ Starts'
  BY <1>2 DEF Flow, Starts, Rest
<1> QED BY <1>1, <1>3, <1>4

\* The window reaches as far as the capture job has come.
LEMMA PollMaxStep ==
  ASSUME Types, Rest, PollMax
  PROVE  Rest'
<1>1. CASE st'.reader = "wait"
  BY <1>1, ReaderQuiet, QuietStep
<1>2. CASE st'.reader # "wait"
  <2>1. /\ st'.from = st.from /\ st'.events = st.events /\ st'.sent = st.sent /\ st.reader = "max"
        /\ st'.todo = st.todo /\ st'.low = st.low /\ st'.batch = st.batch
        /\ st'.reader = "instances" /\ st'.to = captured /\ st.from <= captured
    BY <1>2, PollMaxIs DEF Kept
  <2>2. UNCHANGED <<server, pc, hand, durable>>
    BY DEF PollMax
  <2>3. Retention' /\ Flow' /\ Starts' /\ Out \subseteq Out'
    BY <2>1, <2>2, PollFrame DEF durable
  <2>4. Coverage'
    <3>1. captured \in Int /\ captured' = captured
      BY <2>2, SentIs DEF server
    <3> QED BY <2>1, <2>3, <3>1 DEF Rest, Coverage
  <2>5. Order'
    <3>1. \A k \in DOMAIN st.sent : st.sent[k][1] < st.from
      BY <2>1 DEF Rest, Order
    <3>2. \A k \in DOMAIN st.sent : st.sent[k][1] <= captured
      BY <2>1, <3>1, SentIs
    <3> QED BY <2>1, <3>1, <3>2 DEF Rest, Order
  <2>6. Reading'
    BY <2>1 DEF Rest, Reading
  <2> QED BY <2>3, <2>4, <2>5, <2>6 DEF Rest
<1> QED BY <1>1, <1>2

\* Every row of the window is of a table to be read, or its table is not tracked.
LEMMA PollInstancesStep ==
  ASSUME Types, Rest, PollInstances
  PROVE  Rest'
<1>1. /\ st'.from = st.from /\ st'.events = st.events /\ st'.sent = st.sent /\ st.reader = "instances"
      /\ st'.todo = Tracked /\ st'.low = st.low /\ st'.batch = st.batch /\ st'.to = st.to /\ st'.reader = "read"
  BY PollInstancesIs DEF Kept
<1>2. /\ UNCHANGED <<server, pc, hand, recorded, processed>>
      /\ excused' = excused \cup {r \in Rows : r[1] <= st.to /\ TableOf(r) \notin Tracked}
  BY DEF PollInstances
<1>3. Retention' /\ Flow' /\ Starts' /\ Out \subseteq Out'
  BY <1>1, <1>2, PollFrame
<1>4. \A r \in Rows : r[1] <= st.to => r \in Out' \/ TableOf(r) \in Tracked
  BY <1>2 DEF Out, Settled
<1>5. Coverage'
  BY <1>1, <1>2, <1>3, <1>4 DEF Rest, Coverage, server
<1>6. Order'
  <2>1. st.batch = {} /\ \A k \in DOMAIN st.sent : st.sent[k][1] < st.from /\ st.sent[k][1] <= st.to
    BY <1>1 DEF Rest, Order
  <2> QED BY <1>1, <2>1 DEF Rest, Order
<1>7. Reading'
  BY <1>1 DEF Rest, Reading
<1> QED BY <1>3, <1>5, <1>6, <1>7 DEF Rest

\* What lies before an instance's minimum, the server has discarded.
LEMMA BelowMinimum ==
  ASSUME Types, Rest, NEW r \in Rows, r[1] <= st.to, r[1] < oldest[TableOf(r)] \/ oldest[TableOf(r)] = 0
  PROVE  r \in Out
<1>1. st.to <= captured /\ st.to \in Int /\ captured \in Int /\ r[1] \in Int
  BY SentIs, RowIs DEF Rest, Coverage
<1>2. r \in hist \/ r \in excused
  BY <1>1 DEF Rest, Retention
<1>3. oldest[TableOf(r)] \in Int
  BY RowIs DEF Types
<1>4. r \notin hist
  BY <1>1, <1>3 DEF Rest, Retention
<1> QED BY <1>2, <1>4 DEF Out, Settled

\* An instance with nothing to read in the window is left out; the window of another
\* begins where the instance does.
LEMMA ReadMinimumStep ==
  ASSUME Types, Rest, NEW t \in Tables, ReadMinimum(t)
  PROVE  Rest'
<1>1. /\ st'.from = st.from /\ st'.events = st.events /\ st'.sent = st.sent /\ st.reader = "read"
      /\ st'.reader = "read" /\ t \in st.todo /\ st'.to = st.to /\ st'.batch = st.batch
      /\ Clamped(t) \in Nat /\ st.from <= Clamped(t)
      /\ \/ /\ (t \in inst /\ oldest[t] = 0) \/ Clamped(t) > st.to
            /\ st'.todo = st.todo \ {t} /\ st'.low = <<>>
         \/ /\ Clamped(t) <= st.to /\ st'.todo = st.todo /\ st'.low = <<t, Clamped(t)>>
  BY ReadMinimumIs DEF Kept
<1>2. UNCHANGED <<server, pc, hand, durable>>
  BY DEF ReadMinimum
<1>3. Retention' /\ Flow' /\ Starts' /\ Out \subseteq Out'
  BY <1>1, <1>2, PollFrame DEF durable
<1>4. st.from \in Int /\ st.to \in Int /\ oldest[t] \in Int
  BY SentIs DEF Types
<1>5. ASSUME NEW r \in Rows, st.from <= r[1], r[1] <= st.to, TableOf(r) = t, r[1] < Clamped(t)
      PROVE  r \in Out
  <2>1. r[1] \in Int
    BY RowIs
  <2>2. r[1] < oldest[t]
    BY <1>4, <1>5, <2>1 DEF Clamped
  <2> QED BY <1>5, <2>2, BelowMinimum
<1>6. ASSUME NEW r \in Rows, st.from <= r[1], r[1] <= st.to, TableOf(r) = t, t \notin st'.todo
      PROVE  r \in Out
  <2>1. r[1] \in Int
    BY RowIs
  <2>2. CASE oldest[t] = 0
    BY <1>6, <2>2, BelowMinimum
  <2>3. CASE Clamped(t) > st.to
    <3>1. r[1] < Clamped(t)
      BY <1>1, <1>4, <1>6, <2>1, <2>3
    <3> QED BY <1>5, <1>6, <3>1
  <2> QED BY <1>1, <1>6, <2>2, <2>3
<1>7. Coverage'
  <2>1. ASSUME NEW r \in Rows, st.from <= r[1], r[1] <= st.to
        PROVE  r \in Out' \/ r \in st'.batch \/ TableOf(r) \in st'.todo
    <3>1. r \in Out \/ r \in st.batch \/ TableOf(r) \in st.todo
      BY <1>1, <2>1 DEF Rest, Coverage
    <3>2. CASE TableOf(r) = t
      BY <1>3, <1>6, <2>1, <3>2
    <3>3. CASE TableOf(r) # t
      BY <1>1, <1>3, <3>1, <3>3
    <3> QED BY <3>2, <3>3
  <2> QED BY <1>1, <1>2, <1>3, <2>1 DEF Rest, Coverage, server
<1>8. Order'
  <2>1. \A k \in DOMAIN st.sent : st.sent[k][1] < st.from /\ st.sent[k][1] <= st.to
    BY <1>1 DEF Rest, Order
  <2> QED BY <1>1, <2>1 DEF Rest, Order
<1>9. Reading'
  <2>1. CASE st'.low = <<>>
    BY <2>1 DEF Reading
  <2>2. CASE Clamped(t) <= st.to /\ st'.todo = st.todo /\ st'.low = <<t, Clamped(t)>>
    <3>1. PICK c : c = Clamped(t)
      OBVIOUS
    <3>2. c \in st.from .. st.to
      BY <1>1, <1>4, <2>2, <3>1
    <3>3. \A r \in Rows : TableOf(r) = t /\ st.from <= r[1] /\ r[1] < c => r \in Out
      <4>1. ASSUME NEW r \in Rows, TableOf(r) = t, st.from <= r[1], r[1] < c PROVE r \in Out
        <5>1. r[1] \in Int /\ c \in Int /\ c <= st.to
          BY <1>4, <3>2, RowIs
        <5>2. r[1] <= st.to
          BY <1>4, <4>1, <5>1
        <5> QED BY <1>5, <3>1, <4>1, <5>2
      <4> QED BY <4>1
    <3> QED BY <1>1, <1>3, <2>2, <3>1, <3>2, <3>3 DEF Reading
  <2> QED BY <1>1, <2>1, <2>2
<1> QED BY <1>3, <1>7, <1>8, <1>9 DEF Rest

\* An instance's rows of the window are in the batch once it was read, or the
\* server has discarded them.
LEMMA ReadInstanceStep ==
  ASSUME Types, Rest, NEW t \in Tables, ReadInstance(t)
  PROVE  Rest'
<1> DEFINE from == st.low[2]
<1>1. /\ st'.from = st.from /\ st'.events = st.events /\ st'.sent = st.sent /\ st.reader = "read"
      /\ st'.reader = "read" /\ st'.todo = st.todo \ {t} /\ st'.to = st.to
      /\ st.low # <<>> /\ st.low[1] = t /\ st'.low = <<>>
      /\ st'.batch = st.batch \cup Window(t, from)
  BY ReadInstanceIs DEF Kept
<1>2. UNCHANGED <<server, pc, hand, durable>>
  BY DEF ReadInstance
<1>3. Retention' /\ Flow' /\ Starts' /\ Out \subseteq Out'
  BY <1>1, <1>2, PollFrame DEF durable
<1>10. /\ t \in st.todo /\ from \in Int /\ st.from <= from
       /\ \A r \in Rows : TableOf(r) = t /\ st.from <= r[1] /\ r[1] < from => r \in Out
  <2>1. PICK u \in st.todo, f \in st.from .. st.to :
          /\ st.low = <<u, f>>
          /\ \A r \in Rows : TableOf(r) = u /\ st.from <= r[1] /\ r[1] < f => r \in Out
    BY <1>1 DEF Rest, Reading
  <2>2. u = t /\ f = from
    BY <1>1, <2>1
  <2>3. st.from \in Int /\ st.to \in Int
    BY SentIs
  <2> QED BY <2>1, <2>2, <2>3
<1> HIDE DEF from
<1>4. ASSUME NEW r \in Rows, st.from <= r[1], r[1] <= st.to, TableOf(r) = t
      PROVE  r \in Out' \/ r \in st'.batch
  <2>1. st.to <= captured /\ st.to \in Int /\ captured \in Int /\ r[1] \in Int
    BY SentIs, RowIs DEF Rest, Coverage
  <2>2. r \in hist \/ r \in excused
    BY <1>4, <2>1 DEF Rest, Retention
  <2>3. CASE r \in hist /\ from <= r[1]
    <3>1. r \in Window(t, from)
      BY <1>4, <2>3 DEF Window, RowsIn
    <3> QED BY <1>1, <3>1
  <2>4. CASE r \in excused
    BY <1>3, <2>4 DEF Out, Settled
  <2>5. CASE r[1] < from
    BY <1>3, <1>4, <1>10, <2>5
  <2> QED BY <1>10, <2>1, <2>2, <2>3, <2>4, <2>5
<1>5. Coverage'
  <2>1. ASSUME NEW r \in Rows, st.from <= r[1], r[1] <= st.to
        PROVE  r \in Out' \/ r \in st'.batch \/ TableOf(r) \in st'.todo
    <3>1. r \in Out \/ r \in st.batch \/ TableOf(r) \in st.todo
      BY <1>1, <2>1 DEF Rest, Coverage
    <3> QED BY <1>1, <1>3, <1>4, <2>1, <3>1
  <2> QED BY <1>1, <1>2, <1>3, <2>1 DEF Rest, Coverage, server
<1>6. Order'
  <2>1. \A k \in DOMAIN st.sent : st.sent[k][1] < st.from /\ st.sent[k][1] <= st.to
    BY <1>1, <1>10 DEF Rest, Order
  <2>2. ASSUME NEW b \in st'.batch
        PROVE  /\ st.from <= b[1] /\ b[1] <= st.to
               /\ \A k \in DOMAIN st.sent : LessThan(st.sent[k], b)
    <3>1. CASE b \in st.batch
      BY <1>1, <3>1 DEF Rest, Order
    <3>2. CASE b \in Window(t, from)
      <4>1. b \in Rows /\ from <= b[1] /\ b[1] <= st.to /\ b[1] \in Int /\ st.from \in Int
        BY <3>2, SentIs, RowIs DEF Window
      <4>2. st.from <= b[1]
        BY <1>10, <4>1
      <4>3. \A k \in DOMAIN st.sent : st.sent[k] \in Rows /\ st.sent[k][1] < b[1]
        BY <2>1, <4>1, <4>2, SentIs, RowIs
      <4> QED BY <4>1, <4>2, <4>3, LessThanIs
    <3> QED BY <1>1, <3>1, <3>2
  <2> QED BY <1>1, <2>1, <2>2 DEF Rest, Order
<1>7. Reading'
  BY <1>1 DEF Reading
<1> QED BY <1>3, <1>5, <1>6, <1>7 DEF Rest

\* The first row of the batch goes to the channel, behind everything earlier.
LEMMA PushStep ==
  ASSUME Types, Rest, NEW r \in Rows, Pushed(r), UNCHANGED <<server, pc, hand, durable>>
  PROVE  Rest'
<1> DEFINE m == Len(st.sent)
           n == Len(st.events)
<1>1. /\ st.reader = "read" /\ st.todo = {} /\ r \in st.batch /\ \A q \in st.batch : ~LessThan(q, r)
      /\ st'.reader = "read" /\ st'.from = st.from /\ st'.to = st.to /\ st'.todo = {}
      /\ st'.low = st.low /\ st'.batch = st.batch \ {r}
      /\ st'.events = Append(st.events, r) /\ st'.sent = Append(st.sent, r)
  BY DEF Pushed
<1>2. /\ st.events \in Seq(Rows) /\ st.sent \in Seq(Rows) /\ m \in Nat /\ n \in Nat
      /\ DOMAIN st.sent = 1 .. m /\ DOMAIN st.events = 1 .. n
      /\ \A k \in 1 .. m : st.sent[k] \in Rows /\ st.sent[k][1] \in Int
      /\ st.batch \subseteq Rows /\ st.from \in Int /\ st.to \in Int
  BY SentIs
<1>3. /\ Len(st'.sent) = m + 1 /\ DOMAIN st'.sent = 1 .. m + 1
      /\ \A k \in 1 .. m : st'.sent[k] = st.sent[k]
      /\ st'.sent[m + 1] = r
  BY <1>1, <1>2, AppendProperties, LenProperties
<1>4. /\ Len(st'.events) = n + 1 /\ DOMAIN st'.events = 1 .. n + 1
      /\ \A i \in 1 .. n : st'.events[i] = st.events[i]
      /\ st'.events[n + 1] = r
  BY <1>1, <1>2, AppendProperties, LenProperties
<1> HIDE DEF m, n
<1>5. Retention' /\ InHand' = InHand /\ Settled' = Settled /\ hand' = hand
  BY RetentionKept DEF server, durable, Rest, InHand, Settled
<1>6. Out \subseteq Out' /\ r \in Out'
  <2>1. ASSUME NEW i \in DOMAIN st.events PROVE st.events[i] \in Out'
    BY <1>2, <1>4, <2>1 DEF Out
  <2>2. r \in Out'
    <3>1. n + 1 \in DOMAIN st'.events
      BY <1>2, <1>4
    <3> QED BY <1>4, <3>1 DEF Out
  <2> QED BY <1>5, <2>1, <2>2 DEF Out
<1>7. /\ st.from <= r[1] /\ r[1] <= st.to /\ r[1] \in Int
      /\ \A k \in 1 .. m : LessThan(st.sent[k], r)
  BY <1>1, <1>2, RowIs DEF Rest, Order
<1>8. ASSUME NEW q \in Rows, q[1] < r[1] PROVE q \in Out
  <2>1. q[1] \in Int
    BY RowIs
  <2>2. CASE q[1] < st.from
    BY <2>2 DEF Rest, Coverage
  <2>3. CASE st.from <= q[1]
    <3>1. q[1] <= st.to
      BY <1>2, <1>7, <1>8, <2>1
    <3>2. q \in Out \/ q \in st.batch \/ TableOf(q) \in st.todo
      BY <1>1, <2>3, <3>1 DEF Rest, Coverage
    <3>3. q \notin st.batch
      BY <1>1, <1>8, LessThanIs
    <3> QED BY <1>1, <3>2, <3>3
  <2> QED BY <1>2, <2>1, <2>2, <2>3
<1>9. Coverage'
  <2>1. st'.to <= captured'
    BY <1>1 DEF Rest, Coverage, server
  <2>2. \A q \in Rows : q[1] < st'.from => q \in Out'
    BY <1>1, <1>6 DEF Rest, Coverage
  <2>3. ASSUME NEW k \in 1 .. m + 1, NEW q \in Rows, q[1] < st'.sent[k][1] PROVE q \in Out'
    <3>1. CASE k = m + 1
      BY <1>3, <1>6, <1>8, <2>3, <3>1
    <3>2. CASE k \in 1 .. m
      <4>1. q[1] < st.sent[k][1] /\ k \in DOMAIN st.sent
        BY <1>2, <1>3, <2>3, <3>2
      <4> QED BY <1>6, <4>1 DEF Rest, Coverage
    <3> QED BY <1>2, <2>3, <3>1, <3>2
  <2>4. ASSUME NEW q \in Rows, st.from <= q[1], q[1] <= st.to
        PROVE  q \in Out' \/ q \in st'.batch \/ TableOf(q) \in st'.todo
    <3>1. q \in Out \/ q \in st.batch \/ TableOf(q) \in st.todo
      BY <1>1, <2>4 DEF Rest, Coverage
    <3> QED BY <1>1, <1>6, <3>1
  <2> QED BY <1>1, <1>3, <2>1, <2>2, <2>3, <2>4 DEF Coverage
<1>10. Order'
  <2>1. ASSUME NEW i \in 1 .. m + 1, NEW j \in 1 .. m + 1, i < j
        PROVE  LessThan(st'.sent[i], st'.sent[j])
    <3>1. i \in 1 .. m /\ st'.sent[i] = st.sent[i]
      BY <1>2, <1>3, <2>1
    <3>2. CASE j = m + 1
      BY <1>3, <1>7, <3>1, <3>2
    <3>3. CASE j \in 1 .. m
      <4>1. LessThan(st.sent[i], st.sent[j])
        BY <1>2, <2>1, <3>1, <3>3 DEF Rest, Order
      <4> QED BY <1>3, <3>1, <3>3, <4>1
    <3>4. j = m + 1 \/ j \in 1 .. m
      BY <1>2
    <3> QED BY <3>2, <3>3, <3>4
  <2>2. ASSUME NEW k \in 1 .. m + 1 PROVE st'.sent[k][1] <= st.to
    <3>1. CASE k = m + 1
      BY <1>3, <1>7, <3>1
    <3>2. CASE k \in 1 .. m
      BY <1>1, <1>2, <1>3, <3>2 DEF Rest, Order
    <3> QED BY <1>2, <2>2, <3>1, <3>2
  <2>3. ASSUME NEW b \in st'.batch
        PROVE  /\ st.from <= b[1] /\ b[1] <= st.to
               /\ \A k \in 1 .. m + 1 : LessThan(st'.sent[k], b)
    <3>1. b \in st.batch /\ b # r /\ b \in Rows
      BY <1>1, <1>2
    <3>2. LessThan(r, b)
      BY <1>1, <3>1, RowsDiffer
    <3>3. /\ st.from <= b[1] /\ b[1] <= st.to
          /\ \A k \in 1 .. m : LessThan(st.sent[k], b)
      BY <1>1, <1>2, <3>1 DEF Rest, Order
    <3>4. ASSUME NEW k \in 1 .. m + 1 PROVE LessThan(st'.sent[k], b)
      <4>1. CASE k = m + 1
        BY <1>3, <3>2, <4>1
      <4>2. CASE k \in 1 .. m
        BY <1>3, <3>3, <4>2
      <4> QED BY <1>2, <3>4, <4>1, <4>2
    <3> QED BY <3>3, <3>4
  <2> QED BY <1>1, <1>3, <2>1, <2>2, <2>3 DEF Order
<1>11. Flow'
  <2>1. n + (IF InHand THEN 1 ELSE 0) <= m
    BY DEF Rest, Flow, m, n
  <2>2. \A i \in 1 .. n : st.events[i] = st.sent[m - n + i]
    BY <1>2 DEF Rest, Flow, m, n
  <2>3. InHand => hand = st.sent[m - n]
    BY DEF Rest, Flow, m, n
  <2>4. n + 1 + (IF InHand THEN 1 ELSE 0) <= m + 1
    BY <1>2, <2>1
  <2>5. ASSUME NEW i \in 1 .. n + 1 PROVE st'.events[i] = st'.sent[(m + 1) - (n + 1) + i]
    <3>1. CASE i = n + 1
      <4>1. (m + 1) - (n + 1) + i = m + 1
        BY <1>2, <3>1
      <4> QED BY <1>3, <1>4, <3>1, <4>1
    <3>2. CASE i \in 1 .. n
      <4>1. (m + 1) - (n + 1) + i = m - n + i /\ m - n + i \in 1 .. m
        BY <1>2, <2>1, <3>2
      <4> QED BY <1>3, <1>4, <2>2, <3>2, <4>1
    <3> QED BY <1>2, <2>5, <3>1, <3>2
  <2>6. InHand => hand = st'.sent[(m + 1) - (n + 1)]
    <3>1. InHand => m - n \in 1 .. m /\ (m + 1) - (n + 1) = m - n
      BY <1>2, <2>1
    <3> QED BY <1>3, <2>3, <3>1
  <2> QED BY <1>3, <1>4, <1>5, <2>4, <2>5, <2>6 DEF Flow
<1>12. Starts'
  BY <1>5 DEF Rest, Starts, durable
<1>13. Reading'
  BY <1>1 DEF Rest, Reading
<1> QED BY <1>5, <1>9, <1>10, <1>11, <1>12, <1>13 DEF Rest

\* Deliver pushes, or ends the reader.
LEMMA DeliverStep ==
  ASSUME Types, Rest, Deliver
  PROVE  Rest'
<1>1. CASE \E r \in Rows : Pushed(r)
  BY <1>1, PushStep DEF Deliver
<1>2. CASE ~\E r \in Rows : Pushed(r)
  <2>1. st'.reader = "ended"
    BY <1>2, DeliverIs
  <2> QED BY <2>1, ReaderQuiet, QuietStep
<1> QED BY <1>1, <1>2

\* The next window begins one past this one: all of this one is out.
LEMMA EndPollStep ==
  ASSUME Types, Rest, EndPoll
  PROVE  Rest'
<1>1. CASE st'.reader = "ended"
  BY <1>1, ReaderQuiet, QuietStep
<1>2. CASE st'.reader # "ended"
  <2>1. /\ st.reader = "read" /\ st.todo = {} /\ st.batch = {} /\ st'.todo = {} /\ st'.batch = {}
        /\ st'.low = st.low /\ st'.to = st.to /\ st'.reader = "wait" /\ st'.from = st.to + 1
        /\ st'.events = st.events /\ st'.sent = st.sent
    BY <1>2, EndPollIs
  <2>2. UNCHANGED <<server, pc, hand, durable>>
    BY DEF EndPoll
  <2>3. Retention' /\ Flow' /\ Starts' /\ Out \subseteq Out'
    BY <2>1, <2>2, PollFrame DEF durable
  <2>4. Coverage'
    <3>1. ASSUME NEW q \in Rows, q[1] < st.to + 1 PROVE q \in Out
      <4>1. q[1] \in Int /\ st.from \in Int /\ st.to \in Int
        BY SentIs, RowIs
      <4>2. q[1] < st.from \/ (st.from <= q[1] /\ q[1] <= st.to)
        BY <3>1, <4>1
      <4> QED BY <2>1, <4>2 DEF Rest, Coverage
    <3> QED BY <2>1, <2>2, <2>3, <3>1 DEF Rest, Coverage, server
  <2>5. Order'
    <3>1. \A k \in DOMAIN st.sent : st.sent[k][1] <= st.to
      BY <2>1 DEF Rest, Order
    <3>2. \A k \in DOMAIN st.sent : st.sent[k][1] < st.to + 1
      BY <3>1, SentIs
    <3> QED BY <2>1, <3>2 DEF Rest, Order
  <2>6. Reading'
    BY <2>1 DEF Rest, Reading
  <2> QED BY <2>3, <2>4, <2>5, <2>6 DEF Rest
<1> QED BY <1>1, <1>2

-----------------------------------------------------------------------------
(* The consumer. *)

\* What is on its way comes after the row in hand: behind a position about to be
\* recorded everything is settled.
LEMMA BehindHand ==
  ASSUME Types, Rest, InHand, NEW r \in Rows, r[1] < hand[1]
  PROVE  r \in Settled
<1> DEFINE m == Len(st.sent)
           n == Len(st.events)
<1>1. /\ m \in Nat /\ n \in Nat /\ DOMAIN st.sent = 1 .. m /\ DOMAIN st.events = 1 .. n
      /\ \A k \in 1 .. m : st.sent[k] \in Rows
  BY SentIs
<1>2. n + 1 <= m /\ hand = st.sent[m - n] /\ \A i \in 1 .. n : st.events[i] = st.sent[m - n + i]
  BY <1>1 DEF Rest, Flow
<1> HIDE DEF m, n
<1>3. m - n \in 1 .. m
  BY <1>1, <1>2
<1>4. r[1] < st.sent[m - n][1]
  BY <1>2
<1>5. r \in Out
  BY <1>1, <1>3, <1>4 DEF Rest, Coverage
<1>6. r[1] \in Int /\ hand \in Rows /\ hand[1] \in Int
  BY RowIs DEF Types
<1>7. r # hand
  BY <1>6
<1>8. ASSUME NEW i \in 1 .. n PROVE r # st.events[i]
  <2>1. m - n + i \in 1 .. m /\ m - n < m - n + i
    BY <1>1, <1>2, <1>3
  <2>2. LessThan(st.sent[m - n], st.sent[m - n + i])
    BY <1>1, <1>3, <2>1 DEF Rest, Order
  <2>3. st.sent[m - n + i] \in Rows /\ LessThan(hand, st.sent[m - n + i])
    BY <1>1, <1>2, <2>1, <2>2
  <2>4. hand[1] <= st.sent[m - n + i][1]
    BY <1>6, <2>3, LessThanIs
  <2>5. st.events[i][1] = st.sent[m - n + i][1]
    BY <1>2
  <2> QED BY <1>6, <2>4, <2>5
<1> QED BY <1>1, <1>5, <1>7, <1>8 DEF Out

\* The first row of the channel comes into the hand.
LEMMA ReceiveStep ==
  ASSUME Types, Rest, Receive
  PROVE  Rest'
<1> DEFINE m == Len(st.sent)
           n == Len(st.events)
<1>1. /\ st.events # <<>> /\ hand' = Head(st.events) /\ hand' \in Rows
      /\ st'.events = Tail(st.events) /\ st'.sent = st.sent /\ st'.reader = st.reader
      /\ st'.from = st.from /\ st'.to = st.to /\ st'.todo = st.todo /\ st'.low = st.low
      /\ st'.batch = st.batch /\ pc.consumer = "range" /\ pc'.consumer = "record"
  BY ReceiveIs
<1>2. UNCHANGED <<server, durable>>
  BY DEF Receive
<1>3. /\ st.events \in Seq(Rows) /\ n \in Nat /\ m \in Nat /\ DOMAIN st.events = 1 .. n
  BY SentIs
<1>4. /\ n \in Nat \ {0} /\ hand' = st.events[1] /\ st'.events \in Seq(Rows)
      /\ Len(st'.events) = n - 1
      /\ \A i \in 1 .. n - 1 : st'.events[i] = st.events[i + 1]
  BY <1>1, <1>3, HeadTailProperties, EmptySeq
<1>5. DOMAIN st'.events = 1 .. n - 1
  BY <1>4, LenProperties
<1>6. ~InHand /\ InHand' /\ Settled' = Settled
  BY <1>1, <1>2 DEF InHand, Settled, durable
<1> HIDE DEF m, n
<1>7. Out \subseteq Out'
  <2>1. hand' \in Out'
    BY <1>1, <1>6 DEF Out
  <2>2. ASSUME NEW i \in DOMAIN st.events PROVE st.events[i] \in Out'
    <3>1. CASE i = 1
      BY <1>4, <2>1, <3>1
    <3>2. CASE i # 1
      <4>1. i - 1 \in 1 .. n - 1 /\ (i - 1) + 1 = i
        BY <1>3, <1>4, <2>2, <3>2
      <4>2. st'.events[i - 1] = st.events[i]
        BY <1>4, <4>1
      <4> QED BY <1>5, <4>1, <4>2 DEF Out
    <3> QED BY <3>1, <3>2
  <2> QED BY <1>6, <2>2 DEF Out
<1>8. Retention' /\ Coverage' /\ Order'
  <2>1. Retention'
    BY <1>2, RetentionKept DEF Rest, server, durable
  <2>2. Coverage'
    BY <1>1, <1>2, <1>7 DEF Rest, Coverage, server
  <2>3. Order'
    BY <1>1 DEF Rest, Order
  <2> QED BY <2>1, <2>2, <2>3
<1>9. Flow'
  <2>1. n <= m /\ \A i \in 1 .. n : st.events[i] = st.sent[m - n + i]
    <3>1. n + (IF InHand THEN 1 ELSE 0) <= m
      BY DEF Rest, Flow, m, n
    <3>2. \A i \in 1 .. n : st.events[i] = st.sent[m - n + i]
      BY <1>3 DEF Rest, Flow, m, n
    <3>3. n + 0 <= m
      BY <1>6, <3>1
    <3> QED BY <1>3, <3>2, <3>3
  <2>2. (n - 1) + 1 <= m
    BY <1>3, <1>4, <2>1
  <2>3. ASSUME NEW i \in 1 .. n - 1 PROVE st'.events[i] = st.sent[m - (n - 1) + i]
    <3>1. m - (n - 1) + i = m - n + (i + 1) /\ i + 1 \in 1 .. n
      BY <1>3, <1>4, <2>3
    <3> QED BY <1>4, <2>1, <3>1
  <2>4. hand' = st.sent[m - (n - 1)]
    <3>1. m - (n - 1) = m - n + 1 /\ 1 \in 1 .. n
      BY <1>3, <1>4
    <3> QED BY <1>4, <2>1, <3>1
  <2>5. st'.sent = st.sent /\ Len(st'.sent) = m
    BY <1>1 DEF m
  <2> QED BY <1>4, <1>5, <1>6, <2>2, <2>3, <2>4, <2>5 DEF Flow
<1>10. Starts'
  BY <1>1, <1>2, <1>6 DEF Rest, Starts, durable
<1>11. Reading'
  BY <1>1, <1>7, ReadingKept DEF Rest
<1> QED BY <1>8, <1>9, <1>10, <1>11 DEF Rest

\* The position in hand is recorded: behind it everything is settled.
LEMMA RecordStep ==
  ASSUME Types, Rest, Record
  PROVE  Rest'
<1>1. pc.consumer = "record" /\ pc'.consumer = "process" /\ InHand /\ InHand'
  BY ConsumerIs DEF Record, Types, InHand
<1>2. /\ UNCHANGED <<server, st, hand, processed, excused>> /\ recorded' = hand[1]
  BY DEF Record, Position
<1>3. Settled' = Settled
  BY <1>2 DEF Settled
<1>4. Out \subseteq Out'
  BY <1>1, <1>2, <1>3, OutGrows
<1>5. Retention' /\ Coverage' /\ Order' /\ Flow'
  <2>1. Retention'
    BY <1>2, RetentionKept DEF Rest, server
  <2>2. Coverage'
    BY <1>2, <1>4 DEF Rest, Coverage, server
  <2>3. Order' /\ Flow'
    BY <1>1, <1>2 DEF Rest, Order, Flow
  <2> QED BY <2>1, <2>2, <2>3
<1>6. Starts'
  BY <1>1, <1>2, <1>3, BehindHand DEF Starts
<1>7. Reading'
  BY <1>2, <1>4, ReadingKept DEF Rest
<1> QED BY <1>5, <1>6, <1>7 DEF Rest

\* The row in hand is processed.
LEMMA ProcessStep ==
  ASSUME Types, Rest, Process
  PROVE  Rest'
<1>1. pc.consumer = "process" /\ pc'.consumer = "range" /\ InHand /\ ~InHand'
  BY ConsumerIs DEF Process, Types, InHand
<1>2. UNCHANGED <<server, st, recorded, excused>> /\ processed' = processed \cup {hand}
  BY DEF Process
<1>3. Settled \subseteq Settled' /\ hand \in Settled'
  BY <1>2 DEF Settled
<1>4. Out \subseteq Out'
  BY <1>1, <1>2, <1>3, OutGrows
<1>5. Retention'
  BY <1>2, RetentionKept DEF Rest, server
<1>6. Coverage'
  BY <1>2, <1>4 DEF Rest, Coverage, server
<1>7. Order'
  BY <1>2 DEF Rest, Order
<1>8. Flow'
  <2>1. Len(st.events) \in Nat /\ Len(st.sent) \in Nat
    BY SentIs
  <2> QED BY <1>1, <1>2, <2>1 DEF Rest, Flow
<1>9. Starts'
  BY <1>1, <1>2, <1>3 DEF Rest, Starts
<1>10. Reading'
  BY <1>2, <1>4, ReadingKept DEF Rest
<1> QED BY <1>5, <1>6, <1>7, <1>8, <1>9, <1>10 DEF Rest

\* A first subscription is excused what was captured before it, a later one begins
\* with what was recorded.
LEMMA StartStep ==
  ASSUME Types, Rest, ReadMax \/ CheckRetained
  PROVE  Rest'
<1>1. /\ pc.consumer = "idle" /\ pc'.consumer \in {"check", "start"}
      /\ UNCHANGED <<server, st, recorded, processed>>
      /\ excused \subseteq excused'
  BY ConsumerIs DEF ReadMax, CheckRetained, Types, durable
<1>2. Settled \subseteq Settled' /\ ~InHand /\ ~InHand'
  BY <1>1 DEF Settled, InHand
<1>3. Out \subseteq Out'
  BY <1>1, <1>2, OutGrows
<1>4. Retention'
  BY <1>1, RetentionKept DEF Rest, server
<1>5. Coverage'
  BY <1>1, <1>3 DEF Rest, Coverage, server
<1>6. Order'
  BY <1>1 DEF Rest, Order
<1>7. Flow'
  BY <1>1, <1>2 DEF Rest, Flow
<1>8. \A r \in Rows : r[1] < hand'[1] => r \in Settled'
  <2>1. CASE ReadMax
    <3>1. PICK n : n = IF MaxLSN = 0 THEN 0 ELSE NextFrom(MaxLSN)
      OBVIOUS
    <3>2. hand' = <<n>>
      BY <2>1, <3>1 DEF ReadMax
    <3>3. captured \in 0 .. Len(Log) /\ n <= captured + 1 /\ n \in Int
      BY <3>1, SentIs DEF MaxLSN, NextFrom, Types
    <3>4. ASSUME NEW r \in Rows, r[1] < n PROVE r \in Settled'
      <4>1. r[1] \in 1 .. captured /\ r \in RowsOf(r[1])
        BY <3>3, <3>4, RowIs
      <4>2. r \in excused'
        BY <2>1, <4>1 DEF ReadMax
      <4> QED BY <4>2 DEF Settled
    <3> QED BY <3>2, <3>4
  <2>2. CASE CheckRetained
    <3>1. hand'[1] = recorded
      BY <2>2 DEF CheckRetained
    <3> QED BY <1>2, <3>1 DEF Rest, Starts
  <2> QED BY <2>1, <2>2
<1>9. Starts'
  BY <1>1, <1>2, <1>8 DEF Rest, Starts
<1>10. Reading'
  BY <1>1, <1>3, ReadingKept DEF Rest
<1> QED BY <1>4, <1>5, <1>6, <1>7, <1>9, <1>10 DEF Rest

\* A new stream begins where it was told to; after a crash there is none.
LEMMA NewStep ==
  ASSUME Types, Rest, Subscribe \/ Crash
  PROVE  Rest'
<1>1. /\ UNCHANGED <<server, recorded, processed, excused>> /\ pc'.consumer \in {"idle", "range"}
  BY ConsumerIs DEF Subscribe, Crash, durable, Types
<1>2. ~InHand' /\ Settled' = Settled
  BY <1>1 DEF InHand, Settled
<1>3. /\ st'.reader \in {"none", "max"} /\ st'.to = 0 /\ st'.low = <<>>
      /\ st'.batch = {} /\ st'.events = <<>> /\ st'.sent = <<>>
      /\ \A r \in Rows : r[1] < st'.from => r \in Settled
  <2>1. CASE Crash
    BY <2>1, NoStreamIs, RowIs DEF Crash
  <2>2. CASE Subscribe
    <3>1. PICK n : n = hand[1]
      OBVIOUS
    <3>2. pc.consumer = "start" /\ st' = NewStream(n)
      BY <2>2, <3>1, ConsumerIs DEF Subscribe, Types
    <3>3. n \in 0 .. Len(Log) + 1 /\ \A r \in Rows : r[1] < n => r \in Settled
      BY <3>1, <3>2 DEF Types, Rest, Starts
    <3> QED BY <3>2, <3>3, NewStreamIs
  <2> QED BY <2>1, <2>2
<1>4. Len(st'.sent) = 0 /\ Len(st'.events) = 0 /\ DOMAIN st'.sent = {} /\ DOMAIN st'.events = {}
  BY <1>3, EmptySeq
<1>5. Retention'
  BY <1>1, RetentionKept DEF Rest, server
<1>6. Settled' \subseteq Out'
  BY DEF Out
<1>7. captured' \in Int /\ 0 <= captured'
  BY <1>1 DEF server, Types
<1>8. Coverage'
  BY <1>2, <1>3, <1>4, <1>6, <1>7 DEF Coverage
<1>9. Order'
  BY <1>3, <1>4 DEF Order
<1>10. Flow'
  BY <1>2, <1>4 DEF Flow
<1>11. Starts'
  BY <1>1, <1>2 DEF Rest, Starts
<1>12. Reading'
  BY <1>3 DEF Reading
<1> QED BY <1>5, <1>8, <1>9, <1>10, <1>11, <1>12 DEF Rest

-----------------------------------------------------------------------------
(* All of it. *)

\* To begin with nothing is captured and nothing is on its way.
LEMMA InitRest ==
  ASSUME Init, Types
  PROVE  Rest
<1>1. /\ captured = 0 /\ hist = {} /\ cleaned = {} /\ oldest = [t \in Tables |-> 0]
      /\ recorded = 0 /\ pc.consumer = "idle" /\ st = NoStream
  BY DEF Init
<1>2. ~InHand
  BY <1>1 DEF InHand
<1>3. Len(st.sent) = 0 /\ Len(st.events) = 0 /\ DOMAIN st.sent = {} /\ DOMAIN st.events = {}
  BY <1>1, NoStreamIs, EmptySeq
<1>4. \A r \in Rows : r[1] \in Int /\ 1 <= r[1]
  BY RowIs
<1>5. Retention
  BY <1>1, <1>4 DEF Retention
<1>6. Coverage /\ Order /\ Flow /\ Starts
  BY <1>1, <1>2, <1>3, <1>4, NoStreamIs DEF Coverage, Order, Flow, Starts
<1>7. Reading
  BY <1>1, NoStreamIs DEF Reading
<1> QED BY <1>5, <1>6, <1>7 DEF Rest

\* Every step keeps the change tables, the window, the order and the starts.
LEMMA StepRest ==
  ASSUME Types, Rest, Next
  PROVE  Rest'
<1>1. CASE \/ SubscribeFails \/ LoopEnds \/ LoopBreaks \/ Close \/ CloseDB
           \/ (\E t \in Tables : AskInstance(t)) \/ AskedAll \/ CheckFails
           \/ Tick \/ QueryFails \/ ConnectionFails \/ DeadlinePasses \/ ManageLocal
           \/ \E p \in {"consumer", "closer"} : Once(p) \/ ReleaseStream(p)
           \/ \E given \in SUBSET Tables : AddTables(given) \/ RemoveTables(given) \/ SyncTables(given)
  <2>1. Quiet
    BY <1>1, ConsumerQuiet, CloseIs, ReaderQuiet, ManageQuiet, OnceIs, ReleaseIs
  <2> QED BY <2>1, QuietStep
<1> QED BY <1>1, CaptureStep, CleanupStep, DisableStep, PollMaxStep, PollInstancesStep,
           ReadMinimumStep, ReadInstanceStep, DeliverStep, EndPollStep, ReceiveStep, RecordStep, ProcessStep, StartStep, NewStep
        DEF Next, Consuming, Polling, Managing, Closing

-----------------------------------------------------------------------------
(* The retention check. *)

\* No check.
LEMMA NoCheckIs ==
  NoCheck \in Checks /\ NoCheck.listed = {} /\ NoCheck.todo = {} /\ NoCheck.since = {}
BY DEF NoCheck, Checks

\* Steps that are no business of the check.
LEMMA AsideChecking ==
  ASSUME Checking, check' = check, cleaned' \subseteq cleaned, pc'.consumer = pc.consumer, hand' = hand
  PROVE  Checking'
BY DEF Checking

\* Steps of a consumer that has no check, or ends it.
LEMMA LoopChecking ==
  ASSUME Checking, \/ check' = NoCheck
                   \/ check' = check /\ pc.consumer \notin {"check", "start"},
         pc'.consumer \notin {"check"}
  PROVE  Checking'
<1>1. check' = NoCheck
  BY DEF Checking
<1> QED BY <1>1, NoCheckIs DEF Checking

\* Every step keeps the check.
LEMMA StepChecking ==
  ASSUME Types, Retention, Checking, Next
  PROVE  Checking'
<1>1. pc \in PCs /\ check \in Checks
  BY DEF Types, Checking
<1>2. CASE Capture \/ (\E given \in SUBSET Tables : AddTables(given) \/ RemoveTables(given) \/ SyncTables(given))
           \/ ManageLocal \/ Tick \/ QueryFails \/ ConnectionFails \/ DeadlinePasses \/ Deliver \/ EndPoll
           \/ PollMax \/ PollInstances \/ (\E t \in Tables : ReadMinimum(t) \/ ReadInstance(t))
  <2>1. UNCHANGED <<check, cleaned, pc, hand>>
    BY <1>2 DEF Capture, AddTables, RemoveTables, SyncTables, Manage, ManageLocal, Tick, QueryFails,
       ConnectionFails, DeadlinePasses, Deliver, EndPoll, PollMax, PollInstances, ReadMinimum, ReadInstance,
       server
  <2> QED BY <2>1, AsideChecking
<1>3. CASE ManageServer
  <2>1. check' = check /\ pc' = pc /\ hand' = hand
    BY <1>3 DEF ManageServer
  <2>2. cleaned' \subseteq cleaned
    BY <1>3, ManageServerIs
  <2> QED BY <2>1, <2>2, AsideChecking
<1>4. CASE Close \/ CloseDB
  <2>1. UNCHANGED <<check, cleaned, hand>>
    BY <1>4 DEF Close, CloseDB, server
  <2> QED BY <1>4, <2>1, CloseIs, AsideChecking
<1>5. CASE \E p \in {"consumer", "closer"} : Once(p) \/ ReleaseStream(p)
  <2>1. PICK p \in {"consumer", "closer"} : Once(p) \/ ReleaseStream(p)
    BY <1>5
  <2>2. UNCHANGED <<check, cleaned, hand>>
    BY <2>1 DEF Once, ReleaseStream, server
  <2>3. CASE p = "closer"
    <3>1. pc'.consumer = pc.consumer
      BY <2>1, <2>3, OnceIs, ReleaseIs
    <3> QED BY <2>2, <3>1, AsideChecking
  <2>4. CASE p = "consumer"
    <3>1. pc.consumer \notin {"check", "start"} /\ pc'.consumer \notin {"check", "start"}
      BY <2>1, <2>4, OnceIs, ReleaseIs DEF Returned
    <3> QED BY <2>2, <3>1, LoopChecking
  <2> QED BY <2>3, <2>4
<1>6. CASE Receive \/ Record \/ Process \/ LoopEnds \/ LoopBreaks \/ ReadMax
  <2>1. check' = check
    BY <1>6 DEF Receive, Record, Process, LoopEnds, LoopBreaks, ReadMax
  <2>2. pc.consumer \notin {"check", "start"} /\ pc'.consumer # "check"
    BY <1>1, <1>6, ConsumerIs DEF Receive, Record, Process, LoopEnds, LoopBreaks, ReadMax
  <2> QED BY <2>1, <2>2, LoopChecking
<1>7. CASE Subscribe \/ SubscribeFails \/ CheckFails \/ Crash
  <2>1. check' = NoCheck
    BY <1>7 DEF Subscribe, SubscribeFails, CheckFails, Crash
  <2>2. pc'.consumer # "check"
    BY <1>1, <1>7, ConsumerIs DEF Subscribe, SubscribeFails, CheckFails, Crash
  <2> QED BY <2>1, <2>2, LoopChecking
<1>8. CASE CheckRetained
  <2>1. pc'.consumer = "check"
    BY <1>1, <1>8, ConsumerIs DEF CheckRetained
  <2>2. PICK ts : ts = Tracked
    OBVIOUS
  <2>3. check' = [NoCheck EXCEPT !.listed = ts, !.todo = ts] /\ ts \subseteq Tables
    BY <1>8, <2>2 DEF CheckRetained, Types, Tracked
  <2>4. check' \in Checks /\ check'.listed = ts /\ check'.todo = ts
    BY <2>3, NoCheckIs DEF Checks
  <2> QED BY <2>1, <2>4 DEF Checking
<1>9. CASE \E t \in Tables : AskInstance(t)
  <2>1. PICK t \in Tables : AskInstance(t)
    BY <1>9
  <2>2. CASE pc'.consumer = "idle" /\ check' = NoCheck
    BY <2>2, LoopChecking
  <2>3. CASE pc' = pc /\ hand' = hand /\ oldest[t] <= hand[1] /\ check' = [check EXCEPT !.todo = @ \ {t}]
    <3>1. PICK ts : ts = check.todo \ {t}
      OBVIOUS
    <3>2. check' = [check EXCEPT !.todo = ts] /\ ts \subseteq Tables
      BY <1>1, <2>3, <3>1 DEF Checks
    <3>3. check' \in Checks /\ check'.listed = check.listed /\ check'.todo = ts /\ check'.since = check.since
      BY <1>1, <3>2 DEF Checks
    <3>4. pc.consumer = "check" /\ cleaned' = cleaned
      BY <2>1, AskIs DEF server
    <3>5. ASSUME NEW r \in cleaned, TableOf(r) \in check.listed \ ts
          PROVE  r[1] < hand[1] \/ r \in check.since
      <4>1. CASE TableOf(r) = t
        <5>1. r[1] < oldest[t] /\ r \in Rows
          BY <4>1 DEF Retention, Types
        <5>2. r[1] \in Int /\ oldest[t] \in Int /\ hand[1] \in Int
          BY <3>4, <5>1, RowIs DEF Types
        <5> QED BY <2>3, <5>1, <5>2
      <4>2. CASE TableOf(r) # t
        BY <3>1, <3>5, <4>2 DEF Checking
      <4> QED BY <4>1, <4>2
    <3>6. check'.todo \subseteq check'.listed
      BY <3>1, <3>3 DEF Checking
    <3> QED BY <2>3, <3>3, <3>4, <3>5, <3>6 DEF Checking
  <2> QED BY <2>1, <2>2, <2>3, AskIs
<1>10. CASE AskedAll
  <2>1. pc.consumer = "check" /\ pc'.consumer = "start" /\ check.todo = {}
    BY <1>1, <1>10, ConsumerIs DEF AskedAll
  <2>2. UNCHANGED <<check, cleaned, hand>>
    BY <1>10 DEF AskedAll, server
  <2> QED BY <2>1, <2>2 DEF Checking
<1>11. CASE Cleanup
  <2>1. PICK i \in 1 .. captured :
          /\ cleaned' = cleaned \cup {r \in hist : r[1] <= i}
          /\ check' = [check EXCEPT !.since = @ \cup
                         {r \in {q \in hist : q[1] <= i} : TableOf(r) \in check.listed \ check.todo}]
    BY <1>11 DEF Cleanup
  <2>2. UNCHANGED <<pc, hand>>
    BY <1>11 DEF Cleanup
  <2>3. PICK x : x = check.since \cup
                 {r \in {q \in hist : q[1] <= i} : TableOf(r) \in check.listed \ check.todo}
    OBVIOUS
  <2>4. check' = [check EXCEPT !.since = x] /\ x \subseteq Rows
    BY <1>1, <2>1, <2>3 DEF Checks, Types
  <2>5. check' \in Checks /\ check'.listed = check.listed /\ check'.todo = check.todo /\ check'.since = x
    BY <1>1, <2>4 DEF Checks
  <2>6. ASSUME NEW r \in cleaned', TableOf(r) \in check.listed \ check.todo
        PROVE  r[1] < hand[1] \/ r \in x
    BY <2>1, <2>3, <2>6 DEF Checking
  <2>7. pc.consumer \notin {"check", "start"} => check' = NoCheck
    <3>1. ASSUME pc.consumer \notin {"check", "start"} PROVE x = {}
      BY <2>3, <3>1, NoCheckIs DEF Checking
    <3> QED BY <2>4, <3>1 DEF Checking, NoCheck
  <2> QED BY <2>2, <2>5, <2>6, <2>7 DEF Checking
<1> QED BY <1>2, <1>3, <1>4, <1>5, <1>6, <1>7, <1>8, <1>9, <1>10, <1>11
        DEF Next, Consuming, Polling, Managing, Closing

-----------------------------------------------------------------------------
(* The theorems. *)

\* The inductive invariant of the SQL Server subscriber and its stream.
THEOREM StreamInvHolds == Spec => []StreamInv
<1>1. Init => StreamInv
  <2>1. ASSUME Init PROVE Ending
    <3>1. closed = FALSE /\ db = TRUE /\ pc.closer = "none" /\ st.reader = "none"
      BY <2>1, NoStreamIs DEF Init
    <3> QED BY <3>1 DEF Ending, Live
  <2>2. ASSUME Init PROVE Checking
    BY <2>2, NoCheckIs DEF Init, Checking
  <2> QED BY <2>1, <2>2, InitTypes, InitRest DEF StreamInv, Rest
<1>2. StreamInv /\ [Next]_vars => StreamInv'
  <2> SUFFICES ASSUME StreamInv, [Next]_vars PROVE StreamInv'
    OBVIOUS
  <2>1. Types /\ Ending /\ Rest /\ Checking
    BY DEF StreamInv, Rest
  <2>2. CASE Next
    BY <2>1, <2>2, StepTypes, StepEnding, StepRest, StepChecking DEF StreamInv, Rest
  <2>3. CASE UNCHANGED vars
    <3>1. UNCHANGED <<captured, inst, oldest, hist, cleaned, closed, streaming, stream, tables, db,
                      admin, st, pc, hand, check, recorded, processed, excused, failures>>
      BY <2>3 DEF vars, server, sub, durable
    <3>2. InHand' = InHand /\ Live' = Live
      BY <3>1 DEF InHand, Live
    <3>3. Quiet
      BY <2>1, <3>1, <3>2 DEF Quiet, Types
    <3>4. Types'
      BY <2>1, <3>1, <3>3, QuietTypes DEF ManageTypes, Types
    <3>5. Ending'
      BY <2>1, <3>1, <3>2 DEF Ending
    <3>6. Checking'
      BY <2>1, <3>1, AsideChecking
    <3> QED BY <2>1, <3>3, <3>4, <3>5, <3>6, QuietStep DEF StreamInv, Rest
  <2> QED BY <2>2, <2>3
<1> QED BY <1>1, <1>2, PTL DEF Spec

\* "a crash resumes from whatever was last recorded" (event_stream.go:66): every
\* change before the recorded transaction has been processed, was discarded at the
\* server or was not tracked, for every history.
THEOREM DeliveryIsAtLeastOnce == Spec => []AtLeastOnce
<1>1. StreamInv => AtLeastOnce
  <2> SUFFICES ASSUME StreamInv, NEW i \in 1 .. recorded - 1, NEW r \in RowsOf(i)
               PROVE  r \in processed \cup excused
    BY DEF AtLeastOnce
  <2>1. recorded \in 0 .. Len(Log) /\ Len(Log) \in Nat
    BY SentIs DEF StreamInv, Types
  <2>2. i \in 1 .. Len(Log) /\ i < recorded
    BY <2>1
  <2>3. r \in Rows /\ r[1] = i
    BY <2>2, RowIs
  <2> QED BY <2>2, <2>3 DEF StreamInv, Starts, Settled
<1> QED BY <1>1, StreamInvHolds, PTL

\* Types; changes arrive in the order the server committed them in, each once in a
\* stream (decoder.go:166-168, statement.go:45-46); the stream ends before the
\* connection it polls on, for every history.
THEOREM StreamIsSound == Spec => []Inv
<1>1. StreamInv => TypeOK
  <2> SUFFICES ASSUME StreamInv PROVE TypeOK
    OBVIOUS
  <2>1. Types /\ st \in Streams /\ pc \in PCs /\ admin \in Admins
    BY DEF StreamInv, Types
  <2>2. /\ st.once \in {"new", "busy", "done"} /\ st.batch \subseteq Rows
        /\ st.reader \in {"none", "max", "instances", "read", "wait", "ended"}
        /\ st.from \in 0 .. Len(Log) + 1 /\ st.to \in 0 .. Len(Log)
        /\ st.cancelled \in BOOLEAN /\ st.late \in BOOLEAN
    BY <2>1 DEF Streams
  <2>3. /\ pc.consumer \in {"idle", "check", "start", "range", "record", "process", "once", "release"}
        /\ pc.closer \in {"none", "once", "release", "db", "closed"}
        /\ admin.calls \in 0 .. MaxManaged
    BY <2>1 DEF PCs, Admins
  <2>4. {closed, streaming, stream, db, st.cancelled, st.late} \subseteq BOOLEAN
    BY <2>1, <2>2 DEF Types
  <2>5. st.todo \subseteq Tables /\ st.low \in {<<>>} \cup (st.todo \X (st.from .. st.to))
    <3>1. st.todo \subseteq Tables
      BY <2>1 DEF Streams
    <3>2. CASE st.low = <<>>
      BY <3>1, <3>2
    <3>3. CASE st.low # <<>>
      <4>1. PICK t \in st.todo, f \in st.from .. st.to : st.low = <<t, f>>
        BY <3>3 DEF StreamInv, Reading
      <4> QED BY <3>1, <4>1
    <3> QED BY <3>2, <3>3
  <2>6. check.listed \subseteq Tables /\ check.todo \subseteq check.listed /\ check.since \subseteq Rows
    BY DEF StreamInv, Checking, Checks
  <2> QED BY <2>1, <2>2, <2>3, <2>4, <2>5, <2>6 DEF Types, TypeOK
<1>2. StreamInv => CommitOrder
  <2> SUFFICES ASSUME StreamInv, NEW i \in 1 .. Len(st.sent) - 1
               PROVE  LessThan(st.sent[i], st.sent[i + 1])
    BY DEF CommitOrder
  <2>1. Len(st.sent) \in Nat /\ DOMAIN st.sent = 1 .. Len(st.sent)
    BY SentIs DEF StreamInv
  <2>2. i \in DOMAIN st.sent /\ i + 1 \in DOMAIN st.sent /\ i < i + 1
    BY <2>1
  <2> QED BY <2>2 DEF StreamInv, Order
<1>3. StreamInv => StreamOutlivesReader
  BY DEF StreamInv, Ending, Live, StreamOutlivesReader
<1> QED BY <1>1, <1>2, <1>3, StreamInvHolds, PTL DEF Inv

\* "That is refused rather than quietly started from whatever remains"
\* (subscriber.go:107): when a stream starts from a recorded position, the cleanup job
\* has discarded changes of a listed instance from there on only since checkRetained
\* asked that instance, for every history.
THEOREM ResumesAreRetained == Spec => ResumeIsRetained
<1>1. ASSUME StreamInv
      PROVE  pc.consumer = "start" =>
               \A r \in cleaned : \/ r[1] < hand[1] \/ TableOf(r) \notin check.listed
                                 \/ r \in check.since
  BY <1>1 DEF StreamInv, Checking
<1>2. StreamInv => [pc.consumer = "start" /\ pc'.consumer = "range"
                    => \A r \in cleaned : \/ r[1] < hand[1] \/ TableOf(r) \notin check.listed
                                          \/ r \in check.since]_vars
  BY <1>1
<1> QED BY <1>2, StreamInvHolds, PTL DEF ResumeIsRetained
=============================================================================
