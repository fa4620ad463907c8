------------------------- MODULE MySQLStreamProofs --------------------------
(***************************************************************************)
(* What the MySQL stream promises, for every binary log, whatever its      *)
(* mixture of transactions, statements and rotations, for every buffer and *)
(* every number of failures.                                               *)
(*                                                                         *)
(* The invariant follows a row from the log to the consumer.  Cursor says  *)
(* where the reader stands and what the tracker may know there: resume     *)
(* leaves out nothing at or after the element being read, and the file     *)
(* name is the one that element is in.  Flow keeps hand, channel and pend  *)
(* in the order of the log with no gap before them, so that a position     *)
(* recorded from hand leaves out only rows that are settled (Starts).      *)
(* Identity says that a delivered transaction's position does not cover it *)
(* and that every later one's does.  Ending is the order in which a stream *)
(* goes away.                                                              *)
(***************************************************************************)
EXTENDS MySQLStream, FiniteSetTheorems, SequenceTheorems, WellFoundedInduction, TLAPS

-----------------------------------------------------------------------------
(* The inductive invariant. *)

Positions == {NoPosition} \cup {GTID(s) : s \in SUBSET Txns(Len(Log))}
             \cup {File(f) : f \in [name : 0 .. Len(Log), pos : (0 .. Len(Log)) \X Nat]}
Changes == [row : Rows, position : Positions]

Trackers == [gtid : SUBSET Txns(Len(Log)), on : BOOLEAN, next : {0} \cup Txns(Len(Log)),
             file : [name : 0 .. Len(Log), pos : (0 .. Len(Log)) \X Nat]]
Streams ==
  [once : {"new", "busy", "done"}, syncer : BOOLEAN,
   reader : {"none", "read", "push", "ended"}, cancelled : BOOLEAN,
   excluded : SUBSET Txns(Len(Log)), at : (1 .. Len(Log) + 1) \X Nat, resume : Positions,
   tracker : Trackers, pend : Seq(Changes), events : Seq(Changes),
   delivered : SUBSET ((1 .. Len(Log)) \X Positions)]

PCs == [consumer : {"idle", "start", "range", "record", "process", "once", "stop", "release"},
        closer : {"none", "once", "stop", "release", "closed"}]

InHand == pc.consumer \in {"record", "process"}

Types ==
  /\ gtidOn \in BOOLEAN /\ written \in 0 .. Len(Log) /\ purged \in 0 .. written
  /\ purged = 0 \/ Log[purged].kind = "rotate"
  /\ closed \in BOOLEAN /\ streaming \in BOOLEAN /\ stream \in BOOLEAN
  /\ filter \subseteq Tables /\ st \in Streams
  /\ pc \in PCs
  /\ recorded \in Positions /\ processed \subseteq Rows /\ filtered \subseteq Rows
  /\ skipped \subseteq Txns(Len(Log)) /\ failures \in 0 .. MaxFailures
  /\ pc.consumer = "start" => hand \in Positions
  /\ InHand => hand \in Changes
  /\ Len(st.events) <= Buffer /\ Len(st.pend) = (IF st.reader = "push" THEN 1 ELSE 0)

\* The end of a stream: its once, its reader, its syncer, and who sees to it.
Ending ==
  /\ st.once = "done" => st.reader \in {"none", "ended"} /\ ~st.syncer
  /\ st.reader \in {"read", "push"} => st.syncer
  /\ pc.consumer \in {"idle", "start"} => st.once = "done"
  /\ pc.closer # "none" => closed
  /\ ~closed /\ ~stream => st.once = "done"
  /\ \A p \in {"consumer", "closer"} :
       /\ pc[p] \in {"stop", "release"} => st.once = "busy"
       /\ pc[p] = "release" => st.reader = "ended" /\ ~st.syncer
  /\ ~(pc.consumer \in {"stop", "release"} /\ pc.closer \in {"stop", "release"})
  /\ pc.closer = "closed" => st.once = "done"

\* A position that a source in this mode gives, and that is in the log.
Sound(p) == InLog(p) /\ (p.kind = "gtid" => gtidOn)

\* A position for a change of the transaction i: it leaves out, beyond what this
\* stream began after, only what is before i.
Precedes(p, i) == \A j \in Covered(p) : j \in st.excluded \/ j < i

\* The reader's place in the log, and what the tracker knows there.
Cursor ==
  LET i == st.at[1]
      k == st.at[2]
      t == st.tracker
  IN
  /\ i \notin st.excluded /\ k <= (IF i <= Len(Log) THEN Last(i) ELSE 0)
  /\ Sound(st.resume) /\ Precedes(st.resume, i)
  /\ t.on => gtidOn /\ st.resume = GTID(t.gtid)
  /\ ~t.on => st.resume.kind # "gtid"
  /\ t.next <= i /\ (k = 0 => t.next < i)
  /\ gtidOn /\ k > 0 => t.next = i
  /\ ~t.on /\ st.reader # "none" =>
       \/ i <= Len(Log) /\ Log[i].kind = "rotate"
       \/ t.file.name = FileAfter(i - 1)

Before(r, q) == r[1] < q[1] \/ (r[1] = q[1] /\ r[2] < q[2])
InFlight(r) ==
  \/ InHand /\ r = hand.row
  \/ \E k \in 1 .. Len(st.events) : r = st.events[k].row
  \/ st.reader = "push" /\ r = st.pend[1].row
Settled(r) == r \in processed \cup filtered

\* A change on its way.
Fit(e) ==
  /\ e.row[1] \notin st.excluded /\ Sound(e.position) /\ Precedes(e.position, e.row[1])
  /\ \A r \in Rows : Before(r, e.row) /\ r[1] \notin st.excluded => Settled(r) \/ InFlight(r)

\* hand, channel and pend are in the order of the log, and nothing before them is
\* missing.
Flow ==
  /\ InHand => Fit(hand)
  /\ \A k \in 1 .. Len(st.events) :
       /\ Fit(st.events[k]) /\ Before(st.events[k].row, st.at)
       /\ InHand => Before(hand.row, st.events[k].row)
       /\ st.reader = "push" => Before(st.events[k].row, st.pend[1].row)
  /\ \A j, k \in 1 .. Len(st.events) : j < k => Before(st.events[j].row, st.events[k].row)
  /\ InHand => Before(hand.row, st.at)
  /\ st.reader = "push" =>
       /\ Fit(st.pend[1]) /\ st.at[2] > 0 /\ st.pend[1].row = <<st.at[1], st.at[2] - 1>>
       /\ st.pend[1].position = st.resume
       /\ InHand => Before(hand.row, st.pend[1].row)
  /\ st.reader \in {"read", "push"} =>
       \A r \in Rows : Before(r, st.at) /\ r[1] \notin st.excluded => Settled(r) \/ InFlight(r)

\* What a position leaves out is settled, or older than the first one.
Safe(p) == \A i \in Covered(p) \ skipped : RowsOf(i) \subseteq processed \cup filtered
Starts ==
  /\ Sound(recorded) /\ Safe(recorded)
  /\ pc.consumer = "start" => Sound(hand) /\ hand # NoPosition
  /\ \A i \in st.excluded \ skipped : RowsOf(i) \subseteq processed \cup filtered

\* Transactions are delivered in order, each under one position, and a later
\* one's position covers it.
Identity ==
  /\ \A d \in st.delivered :
       /\ d[1] \notin Covered(d[2])
       /\ Log[d[1]].kind = "txn"
       /\ d[1] < st.at[1] => d[1] \in Covered(st.resume)
       /\ d[1] = st.at[1] => d[2] = st.resume /\ st.at[2] > 0
       /\ d[1] <= st.at[1]
  /\ \A d, e \in st.delivered :
       /\ d[1] = e[1] => d[2] = e[2]
       /\ d[1] < e[1] => d[1] \in Covered(e[2])

StreamInv == Types /\ Ending /\ Cursor /\ Flow /\ Starts /\ Identity

-----------------------------------------------------------------------------
(* Facts about the log and its positions. *)

\* The log is a sequence of transactions, statements and rotations.
LEMMA LogIs ==
  /\ Len(Log) \in Nat /\ DOMAIN Log = 1 .. Len(Log)
  /\ \A i \in 1 .. Len(Log) :
       /\ Log[i].kind \in {"txn", "ddl", "rotate"}
       /\ Log[i].kind = "txn" => Log[i].rows \in Seq(Tables) /\ Len(Log[i].rows) \in Nat
  /\ Len(Log) >= 1 /\ Buffer \in Nat /\ Buffer > 0 /\ MaxFailures \in Nat /\ Configured \subseteq Tables
BY MySQLStreamAssumption

\* The last event of an element.
LEMMA LastIs ==
  \A i \in 1 .. Len(Log) :
    /\ Last(i) \in Nat
    /\ Log[i].kind = "txn" => Last(i) = Len(Log[i].rows) + 1
    /\ Log[i].kind = "rotate" => Last(i) = 0
BY LogIs DEF Last

\* A row is an event of a transaction, numbered from 1.
LEMMA RowIs ==
  ASSUME NEW r
  PROVE  /\ r \in Rows <=> \E i \in 1 .. Len(Log) : \E k \in 1 .. Len(Log[i].rows) :
                             Log[i].kind = "txn" /\ r = <<i, k>>
         /\ \A i \in 1 .. Len(Log) : r \in RowsOf(i) => r \in Rows /\ r[1] = i
         /\ r \in Rows => r \in RowsOf(r[1]) /\ r = <<r[1], r[2]>> /\ r[1] \in 1 .. Len(Log)
                          /\ r[2] \in Nat /\ Log[r[1]].kind = "txn"
<1>1. r \in Rows <=> \E i \in 1 .. Len(Log) : r \in RowsOf(i)
  BY LogIs DEF Rows
<1>2. ASSUME NEW i \in 1 .. Len(Log)
      PROVE  r \in RowsOf(i) <=> \E k \in 1 .. Len(Log[i].rows) : Log[i].kind = "txn" /\ r = <<i, k>>
  <2>1. CASE Log[i].kind = "txn"
    BY <2>1 DEF RowsOf
  <2>2. CASE Log[i].kind # "txn"
    BY <2>2 DEF RowsOf
  <2> QED BY <2>1, <2>2
<1> QED BY <1>1, <1>2, LogIs

\* There are no more files than elements.
LEMMA FileAfterIs ==
  \A i \in 0 .. Len(Log) : FileAfter(i) \in 0 .. Len(Log) /\ FileAfter(i) <= i
<1> SUFFICES ASSUME NEW i \in 0 .. Len(Log) PROVE FileAfter(i) \in 0 .. Len(Log) /\ FileAfter(i) <= i
  OBVIOUS
<1> DEFINE R == {j \in 1 .. i : Log[j].kind = "rotate"}
<1>1. i \in Int /\ 1 \in Int /\ i \in Nat
  BY LogIs
<1>2. IsFiniteSet(1 .. i) /\ Cardinality(1 .. i) = i
  BY <1>1, FS_Interval
<1>3. Cardinality(R) \in Nat /\ Cardinality(R) <= i
  BY <1>2, FS_Subset, FS_CardinalityType
<1> QED BY <1>1, <1>3, LogIs DEF FileAfter

\* The file changes at rotations only.
LEMMA FileStays ==
  ASSUME NEW i \in 0 .. Len(Log), NEW j \in i .. Len(Log),
         \A h \in i + 1 .. j : Log[h].kind # "rotate"
  PROVE  FileAfter(j) = FileAfter(i)
<1>1. {h \in 1 .. j : Log[h].kind = "rotate"} = {h \in 1 .. i : Log[h].kind = "rotate"}
  BY LogIs
<1> QED BY <1>1 DEF FileAfter

\* A rotation begins a file of its own.
LEMMA FileMoves ==
  ASSUME NEW j \in 1 .. Len(Log), NEW i \in 0 .. j - 1, Log[j].kind = "rotate"
  PROVE  FileAfter(i) < FileAfter(j)
<1> DEFINE R(n) == {h \in 1 .. n : Log[h].kind = "rotate"}
<1>1. j \in Int /\ 1 \in Int /\ j \in Nat
  BY LogIs
<1>2. IsFiniteSet(1 .. j)
  BY <1>1, FS_Interval
<1>3. IsFiniteSet(R(j))
  BY <1>2, FS_Subset
<1>4. R(i) \subseteq R(j) /\ j \in R(j) /\ j \notin R(i)
  BY LogIs
<1>5. Cardinality(R(i)) <= Cardinality(R(j)) /\ (Cardinality(R(i)) = Cardinality(R(j)) => R(i) = R(j))
      /\ IsFiniteSet(R(i))
  BY <1>3, <1>4, FS_Subset
<1>6. Cardinality(R(i)) \in Nat /\ Cardinality(R(j)) \in Nat
  BY <1>3, <1>5, FS_CardinalityType
<1> QED BY <1>4, <1>5, <1>6 DEF FileAfter

\* A set of natural numbers has a least element.
LEMMA LeastOf ==
  ASSUME NEW S, S \subseteq Nat, S # {}
  PROVE  \E m \in S : \A x \in S : m <= x
<1>1. PICK m \in S : \A y \in S : ~(<<y, m>> \in OpToRel(<, Nat))
  BY NatLessThanWellFounded, WFMin, Zenon
<1>2. \A y \in S : ~(y < m)
  BY <1>1 DEF OpToRel
<1> QED BY <1>2

\* The next element the source sends: neither expired nor left out, and everything
\* before it is one of the two.
LEMMA NextElementIs ==
  ASSUME NEW i \in 0 .. Len(Log), NEW out \in SUBSET Txns(Len(Log)), purged \in 0 .. Len(Log)
  PROVE  /\ NextElement(i, out) \in i + 1 .. Len(Log) + 1
         /\ NextElement(i, out) > purged /\ NextElement(i, out) \notin out
         /\ \A h \in i + 1 .. NextElement(i, out) - 1 : h <= purged \/ h \in out
<1> DEFINE S == {j \in i + 1 .. Len(Log) + 1 : j > purged /\ j \notin out}
<1>1. Len(Log) + 1 \in S /\ S \subseteq Nat
  BY LogIs DEF Txns
<1>2. PICK m \in S : \A x \in S : m <= x
  BY <1>1, LeastOf
<1>3. \A h \in i + 1 .. m - 1 : h <= purged \/ h \in out
  BY <1>2, LogIs
<1>4. \E j \in i + 1 .. Len(Log) + 1 :
        /\ j > purged /\ j \notin out
        /\ \A h \in i + 1 .. j - 1 : h <= purged \/ h \in out
  BY <1>2, <1>3
<1> QED BY <1>4 DEF NextElement

\* The three notations of a position.
LEMMA PositionIs ==
  ASSUME NEW p \in Positions
  PROVE  /\ \/ p = NoPosition
            \/ \E s \in SUBSET Txns(Len(Log)) : p = GTID(s)
            \/ \E n \in 0 .. Len(Log), i \in 0 .. Len(Log), k \in Nat :
                 p = [kind |-> "file", name |-> n, pos |-> <<i, k>>]
         /\ p.kind \in {"none", "gtid", "file"} /\ (p.kind = "none" <=> p = NoPosition)
<1>1. \/ p = NoPosition
      \/ \E s \in SUBSET Txns(Len(Log)) : p = GTID(s)
      \/ \E f \in [name : 0 .. Len(Log), pos : (0 .. Len(Log)) \X Nat] : p = File(f)
  BY DEF Positions
<1>2. ASSUME NEW f \in [name : 0 .. Len(Log), pos : (0 .. Len(Log)) \X Nat]
      PROVE  /\ f.name \in 0 .. Len(Log) /\ f.pos[1] \in 0 .. Len(Log) /\ f.pos[2] \in Nat
             /\ f.pos = <<f.pos[1], f.pos[2]>>
  OBVIOUS
<1>3. \/ p = NoPosition
      \/ \E s \in SUBSET Txns(Len(Log)) : p = GTID(s)
      \/ \E n \in 0 .. Len(Log), i \in 0 .. Len(Log), k \in Nat :
           p = [kind |-> "file", name |-> n, pos |-> <<i, k>>]
  <2>1. ASSUME NEW f \in [name : 0 .. Len(Log), pos : (0 .. Len(Log)) \X Nat], p = File(f)
        PROVE  \E n \in 0 .. Len(Log), i \in 0 .. Len(Log), k \in Nat :
                 p = [kind |-> "file", name |-> n, pos |-> <<i, k>>]
    <3>1. PICK n \in 0 .. Len(Log), i \in 0 .. Len(Log), k \in Nat :
            f.name = n /\ f.pos = <<i, k>>
      BY <1>2
    <3>2. p = [kind |-> "file", name |-> n, pos |-> <<i, k>>]
      BY <2>1, <3>1 DEF File
    <3> QED BY <3>2
  <2> QED BY <1>1, <2>1, Zenon
<1> QED BY <1>3 DEF NoPosition, GTID

\* What a position leaves out are transactions of the log.
LEMMA CoveredIs ==
  ASSUME NEW p \in Positions
  PROVE  /\ Covered(p) \subseteq Txns(Len(Log))
         /\ p.kind = "gtid" => Covered(p) = p.set /\ p.set \in SUBSET Txns(Len(Log))
         /\ p.kind = "file" => /\ Covered(p) = Txns(p.pos[1]) /\ p.pos[1] \in 0 .. Len(Log)
                               /\ p.pos[2] \in Nat /\ p.name \in 0 .. Len(Log)
                               /\ p.pos = <<p.pos[1], p.pos[2]>>
         /\ p.kind = "none" => Covered(p) = {}
<1>1. CASE p = NoPosition
  BY <1>1 DEF NoPosition, Covered
<1>2. ASSUME NEW s \in SUBSET Txns(Len(Log)), p = GTID(s)
      PROVE  p.kind = "gtid" /\ p.set = s /\ Covered(p) = s
  BY <1>2 DEF GTID, Covered
<1>3. ASSUME NEW n \in 0 .. Len(Log), NEW i \in 0 .. Len(Log), NEW k \in Nat,
             p = [kind |-> "file", name |-> n, pos |-> <<i, k>>]
      PROVE  /\ p.kind = "file" /\ p.pos = <<i, k>> /\ p.name = n /\ Covered(p) = Txns(i)
             /\ Txns(i) \subseteq Txns(Len(Log))
  <2>1. p.kind = "file" /\ p.pos = <<i, k>> /\ p.name = n /\ p.pos[1] = i
    BY <1>3
  <2>2. Covered(p) = Txns(p.pos[1])
    BY <2>1 DEF Covered
  <2> QED BY <2>1, <2>2, LogIs DEF Txns
<1> QED BY <1>1, <1>2, <1>3, PositionIs

\* A GTID set leaves out its members.
LEMMA GTIDIs ==
  ASSUME NEW s \in SUBSET Txns(Len(Log))
  PROVE  GTID(s) \in Positions /\ Covered(GTID(s)) = s /\ GTID(s).kind = "gtid" /\ GTID(s).set = s
BY DEF GTID, Positions, Covered

\* A file and offset leaves out the transactions up to its element.
LEMMA FileIs ==
  ASSUME NEW n \in 0 .. Len(Log), NEW i \in 0 .. Len(Log), NEW k \in Nat
  PROVE  LET p == File([name |-> n, pos |-> <<i, k>>]) IN
         /\ p \in Positions /\ Covered(p) = Txns(i) /\ p.kind = "file" /\ p.name = n /\ p.pos = <<i, k>>
<1>1. [name |-> n, pos |-> <<i, k>>] \in [name : 0 .. Len(Log), pos : (0 .. Len(Log)) \X Nat]
  OBVIOUS
<1>2. File([name |-> n, pos |-> <<i, k>>]) \in Positions
  BY <1>1 DEF Positions
<1>3. File([name |-> n, pos |-> <<i, k>>]) = [kind |-> "file", name |-> n, pos |-> <<i, k>>]
  BY DEF File
<1>4. Covered([kind |-> "file", name |-> n, pos |-> <<i, k>>]) = Txns(i)
  BY DEF Covered
<1> QED BY <1>2, <1>3, <1>4

-----------------------------------------------------------------------------
(* Types. *)

\* The fields of no stream.
LEMMA NoStreamIs ==
  /\ NoStream \in Streams /\ NoStream.once = "done" /\ NoStream.reader = "none"
  /\ NoStream.syncer = FALSE /\ NoStream.cancelled = FALSE /\ NoStream.excluded = {}
  /\ NoStream.at = <<1, 0>> /\ NoStream.resume = NoPosition /\ NoStream.pend = << >>
  /\ NoStream.events = << >> /\ NoStream.delivered = {}
  /\ NoStream.tracker = [gtid |-> {}, on |-> FALSE, next |-> 0,
                         file |-> [name |-> 0, pos |-> <<0, 0>>]]
<1>1. [gtid |-> {}, on |-> FALSE, next |-> 0, file |-> [name |-> 0, pos |-> <<0, 0>>]] \in Trackers
  BY LogIs DEF Trackers
<1>2. NoPosition \in Positions
  BY DEF Positions
<1>3. <<1, 0>> \in (1 .. Len(Log) + 1) \X Nat
  BY LogIs
<1> QED BY <1>1, <1>2, <1>3 DEF NoStream, Streams

\* The fields of a new stream.
LEMMA NewStreamIs ==
  ASSUME NEW p \in Positions, purged \in 0 .. Len(Log)
  PROVE  /\ NewStream(p) \in Streams /\ NewStream(p).once = "new" /\ NewStream(p).syncer = TRUE
         /\ NewStream(p).reader = "read" /\ NewStream(p).excluded = Covered(p)
         /\ NewStream(p).at = <<NextElement(0, Covered(p)), 0>> /\ NewStream(p).resume = p
         /\ NewStream(p).pend = << >> /\ NewStream(p).events = << >>
         /\ NewStream(p).delivered = {}
         /\ NewStream(p).tracker.on = (p.kind = "gtid") /\ NewStream(p).tracker.next = 0
         /\ p.kind = "gtid" => NewStream(p).tracker.gtid = p.set
         /\ p.kind = "file" => NewStream(p).tracker.file.name = p.name
<1> DEFINE t == NewTracker(p)
<1>1. PICK x \in Trackers : x = NoStream.tracker
  BY NoStreamIs DEF Streams
<1>2. x.next = 0
  BY <1>1, NoStreamIs
<1>3. /\ t \in Trackers /\ t.on = (p.kind = "gtid") /\ t.next = 0
      /\ p.kind = "gtid" => t.gtid = p.set
      /\ p.kind = "file" => t.file.name = p.name
  <2>1. t = [x EXCEPT !.on = p.kind = "gtid",
                      !.gtid = IF p.kind = "gtid" THEN p.set ELSE {},
                      !.file = IF p.kind = "file" THEN [name |-> p.name, pos |-> p.pos] ELSE @]
    BY <1>1 DEF NewTracker
  <2>2. PICK s \in SUBSET Txns(Len(Log)) : s = IF p.kind = "gtid" THEN p.set ELSE {}
    BY CoveredIs
  <2>3. PICK f \in [name : 0 .. Len(Log), pos : (0 .. Len(Log)) \X Nat] :
          /\ f = IF p.kind = "file" THEN [name |-> p.name, pos |-> p.pos] ELSE x.file
          /\ p.kind = "file" => f.name = p.name
    <3>1. CASE p.kind = "file"
      <4>1. [name |-> p.name, pos |-> p.pos] \in [name : 0 .. Len(Log), pos : (0 .. Len(Log)) \X Nat]
        <5>1. /\ p.pos[1] \in 0 .. Len(Log) /\ p.pos[2] \in Nat /\ p.name \in 0 .. Len(Log)
              /\ p.pos = <<p.pos[1], p.pos[2]>>
          BY <3>1, CoveredIs
        <5>2. p.pos \in (0 .. Len(Log)) \X Nat
          BY <5>1
        <5> QED BY <5>1, <5>2
      <4> QED BY <3>1, <4>1
    <3>2. CASE p.kind # "file"
      BY <3>2 DEF Trackers
    <3> QED BY <3>1, <3>2
  <2>4. PICK b \in BOOLEAN : b = (p.kind = "gtid")
    OBVIOUS
  <2>5. t = [x EXCEPT !.on = b, !.gtid = s, !.file = f]
    BY <2>1, <2>2, <2>3, <2>4, Zenon
  <2> HIDE DEF t
  <2> QED BY <1>2, <2>2, <2>3, <2>4, <2>5 DEF Trackers
<1>4. <<NextElement(0, Covered(p)), 0>> \in (1 .. Len(Log) + 1) \X Nat
  <2>1. Covered(p) \in SUBSET Txns(Len(Log)) /\ 0 \in 0 .. Len(Log)
    BY CoveredIs, LogIs
  <2> QED BY <2>1, NextElementIs
<1>5. Covered(p) \in SUBSET Txns(Len(Log))
  BY CoveredIs
<1>6. NewStream(p) = [NoStream EXCEPT
         !.once = "new", !.syncer = TRUE, !.reader = "read", !.excluded = Covered(p),
         !.at = <<NextElement(0, Covered(p)), 0>>, !.resume = p, !.tracker = t]
  BY DEF NewStream
<1> HIDE DEF t
<1>7. PICK y \in Streams : y = NoStream /\ y.pend = << >> /\ y.events = << >> /\ y.delivered = {}
  BY NoStreamIs
<1>8. NewStream(p) = [y EXCEPT
         !.once = "new", !.syncer = TRUE, !.reader = "read", !.excluded = Covered(p),
         !.at = <<NextElement(0, Covered(p)), 0>>, !.resume = p, !.tracker = t]
  BY <1>6, <1>7
<1>9. PICK a \in (1 .. Len(Log) + 1) \X Nat : a = <<NextElement(0, Covered(p)), 0>>
  BY <1>4
<1>10. PICK e \in SUBSET Txns(Len(Log)) : e = Covered(p)
  BY <1>5
<1>11. PICK u \in Trackers : u = t
  BY <1>3
<1>12. NewStream(p) = [y EXCEPT !.once = "new", !.syncer = TRUE, !.reader = "read", !.excluded = e,
                                !.at = a, !.resume = p, !.tracker = u]
  BY <1>8, <1>9, <1>10, <1>11
<1>13. PICK z : z = [y EXCEPT !.once = "new", !.syncer = TRUE, !.reader = "read", !.excluded = e,
                              !.at = a, !.resume = p, !.tracker = u]
  OBVIOUS
<1>14. z \in Streams
  BY <1>13 DEF Streams
<1>15. /\ z.once = "new" /\ z.syncer = TRUE /\ z.reader = "read" /\ z.excluded = e /\ z.at = a
       /\ z.resume = p /\ z.tracker = u /\ z.pend = y.pend /\ z.events = y.events
       /\ z.delivered = y.delivered
  BY <1>13 DEF Streams
<1>16. z = NewStream(p)
  BY <1>12, <1>13
<1> QED BY <1>3, <1>7, <1>9, <1>10, <1>11, <1>14, <1>15, <1>16

\* What Subscribe reads from the source is a position in the log.
LEMMA CurrentPositionIs ==
  ASSUME written \in 0 .. Len(Log), gtidOn \in BOOLEAN
  PROVE  CurrentPosition \in Positions /\ Sound(CurrentPosition) /\ CurrentPosition # NoPosition
<1>1. CASE gtidOn /\ Txns(written) # {}
  <2>1. Txns(written) \in SUBSET Txns(Len(Log))
    BY LogIs DEF Txns
  <2>2. CurrentPosition = GTID(Txns(written))
    BY <1>1 DEF CurrentPosition
  <2> QED BY <1>1, <2>1, <2>2, GTIDIs DEF Sound, InLog, NoPosition
<1>2. CASE ~(gtidOn /\ Txns(written) # {})
  <2> DEFINE k == IF written = 0 THEN 0 ELSE Last(written)
  <2>1. k \in Nat /\ FileAfter(written) \in 0 .. Len(Log)
    BY LastIs, FileAfterIs
  <2>2. CurrentPosition = File([name |-> FileAfter(written), pos |-> <<written, k>>])
    BY <1>2 DEF CurrentPosition
  <2> DEFINE p == File([name |-> FileAfter(written), pos |-> <<written, k>>])
  <2>3. p \in Positions /\ p.kind = "file" /\ p.name = FileAfter(written) /\ p.pos = <<written, k>>
    BY <2>1, FileIs
  <2>4. p.pos[1] = written /\ p.pos[2] = k
    BY <2>3
  <2> QED BY <2>2, <2>3, <2>4 DEF Sound, InLog, NoPosition
<1> QED BY <1>1, <1>2

\* The fields New sets have their types.
LEMMA InitTypes ==
  ASSUME Init
  PROVE  Types
<1>1. /\ st \in Streams /\ Len(st.events) <= Buffer
      /\ Len(st.pend) = (IF st.reader = "push" THEN 1 ELSE 0)
  BY NoStreamIs, LogIs DEF Init
<1>2. recorded \in Positions
  BY DEF Init, Positions
<1>3. pc.consumer = "idle" /\ pc.closer = "none"
      /\ pc \in PCs
  BY DEF Init, PCs
<1>4. /\ gtidOn \in BOOLEAN /\ written \in 0 .. 1 /\ purged = 0
      /\ closed = FALSE /\ streaming = FALSE /\ stream = FALSE /\ filter = Configured
      /\ processed = {} /\ filtered = {} /\ skipped = {} /\ failures = 0
  BY DEF Init
<1>5. written \in 0 .. Len(Log) /\ purged \in 0 .. written /\ failures \in 0 .. MaxFailures
  BY <1>4, LogIs
<1>6. ~InHand
  BY <1>3 DEF InHand
<1> QED BY <1>1, <1>2, <1>3, <1>4, <1>5, <1>6, LogIs DEF Types

\* What ReadEvent does to a stream, field by field.
LEMMA ReadEventIs ==
  ASSUME Types, ReadEvent
  PROVE  LET i == st.at[1]
             k == st.at[2]
             t == Observe(st.tracker, i, k)
             row == IsRow(i, k) /\ Allows(Log[i].rows[k])
         IN /\ i \in 1 .. Len(Log) /\ k \in Nat /\ purged < i /\ i <= written
            /\ st.reader = "read" /\ st' \in Streams
            /\ st'.once = st.once /\ st'.syncer = st.syncer /\ st'.cancelled = st.cancelled
            /\ st'.excluded = st.excluded /\ st'.events = st.events
            /\ st'.delivered = st.delivered
            /\ k < Last(i) => st'.at = <<i, k + 1>>
            /\ k >= Last(i) => st'.at = <<NextElement(i, st.excluded), 0>>
            /\ Commits(i, k) => st'.tracker = Commit(t) /\ st'.resume = CommitPosition(t)
            /\ ~Commits(i, k) => st'.tracker = t /\ st'.resume = st.resume
            /\ row => st'.pend = <<Change(st.at, st.resume)>> /\ st'.reader = "push"
            /\ ~row => st'.pend = st.pend /\ st'.reader = "read"
            /\ filtered' = IF IsRow(i, k) /\ ~row THEN filtered \cup {st.at} ELSE filtered
            /\ t \in Trackers /\ t.on = st.tracker.on /\ t.gtid = st.tracker.gtid
            /\ t.next = NextGTID(i, k, st.tracker.next) /\ t.file.pos = <<i, k>>
            /\ Log[i].kind = "rotate" => t.file.name = FileAfter(i)
            /\ Log[i].kind # "rotate" => t.file.name = st.tracker.file.name
            /\ Len(st'.pend) = (IF st'.reader = "push" THEN 1 ELSE 0)
<1> DEFINE i == st.at[1]
           k == st.at[2]
           t == Observe(st.tracker, i, k)
           row == IsRow(i, k) /\ Allows(Log[i].rows[k])
<1>1. /\ i \in purged + 1 .. written /\ k \in Nat /\ st.tracker \in Trackers /\ st.at = <<i, k>>
      /\ i \in 1 .. Len(Log) /\ st \in Streams /\ purged \in Nat /\ purged \in 0 .. Len(Log)
      /\ st.reader = "read" /\ st.pend = << >> /\ purged < i /\ i <= written
  BY LogIs DEF Types, Streams, ReadEvent
<1>2. /\ t \in Trackers /\ t.on = st.tracker.on /\ t.gtid = st.tracker.gtid
      /\ t.next = NextGTID(i, k, st.tracker.next) /\ t.file.pos = <<i, k>>
      /\ Log[i].kind = "rotate" => t.file.name = FileAfter(i)
      /\ Log[i].kind # "rotate" => t.file.name = st.tracker.file.name
  <2>1. PICK x \in Trackers : x = st.tracker
    BY <1>1
  <2>2. PICK n \in {0} \cup Txns(Len(Log)) : n = NextGTID(i, k, x.next)
    <3>1. x.next \in {0} \cup Txns(Len(Log))
      BY DEF Trackers
    <3>2. Log[i].kind # "rotate" => i \in Txns(Len(Log))
      BY <1>1 DEF Txns
    <3> QED BY <3>1, <3>2 DEF NextGTID
  <2>3. PICK m \in 0 .. Len(Log) : m = IF Log[i].kind = "rotate" THEN FileAfter(i) ELSE x.file.name
    <3>1. x.file.name \in 0 .. Len(Log)
      BY DEF Trackers
    <3>2. FileAfter(i) \in 0 .. Len(Log)
      BY <1>1, FileAfterIs
    <3> QED BY <3>1, <3>2
  <2>4. PICK f \in [name : 0 .. Len(Log), pos : (0 .. Len(Log)) \X Nat] :
          f = [name |-> m, pos |-> <<i, k>>] /\ f.name = m /\ f.pos = <<i, k>>
    <3>1. i \in 0 .. Len(Log) /\ k \in Nat
      BY <1>1
    <3> HIDE DEF i, k
    <3>2. PICK q \in (0 .. Len(Log)) \X Nat : q = <<i, k>>
      BY <3>1
    <3>3. PICK f : f = [name |-> m, pos |-> q]
      OBVIOUS
    <3> QED BY <2>3, <3>2, <3>3
  <2>5. t = [x EXCEPT !.next = n, !.file = f]
    BY <2>1, <2>2, <2>3, <2>4 DEF Observe
  <2> HIDE DEF t
  <2> QED BY <2>1, <2>2, <2>3, <2>4, <2>5 DEF Trackers
<1>3. PICK a \in (1 .. Len(Log) + 1) \X Nat :
        /\ a = IF k < Last(i) THEN <<i, k + 1>> ELSE <<NextElement(i, st.excluded), 0>>
        /\ k < Last(i) => a = <<i, k + 1>>
        /\ k >= Last(i) => a = <<NextElement(i, st.excluded), 0>>
  <2>1. NextElement(i, st.excluded) \in i + 1 .. Len(Log) + 1
    BY <1>1, NextElementIs DEF Streams
  <2>2. <<NextElement(i, st.excluded), 0>> \in (1 .. Len(Log) + 1) \X Nat
    BY <1>1, <2>1
  <2>3. <<i, k + 1>> \in (1 .. Len(Log) + 1) \X Nat
    BY <1>1
  <2>4. Last(i) \in Nat
    BY <1>1, LastIs
  <2> HIDE DEF i, k
  <2>5. CASE k < Last(i)
    BY <1>1, <2>3, <2>4, <2>5
  <2>6. CASE ~(k < Last(i))
    BY <1>1, <2>2, <2>4, <2>6
  <2> QED BY <2>5, <2>6
<1>4. PICK u \in Trackers : u = IF Commits(i, k) THEN Commit(t) ELSE t
  <2>1. PICK x \in Trackers : x = t
    BY <1>2
  <2>2. CASE x.on /\ x.next # 0 /\ Commits(i, k)
    <3>1. PICK s \in SUBSET Txns(Len(Log)) : s = x.gtid \cup {x.next}
      BY <2>2 DEF Trackers
    <3>2. PICK y : y = [x EXCEPT !.gtid = s, !.next = 0]
      OBVIOUS
    <3>3. y \in Trackers
      BY <3>1, <3>2 DEF Trackers
    <3>4. Commit(x) = y
      BY <2>2, <3>1, <3>2 DEF Commit
    <3> QED BY <2>1, <2>2, <3>3, <3>4
  <2>3. CASE ~(x.on /\ x.next # 0 /\ Commits(i, k))
    BY <2>1, <2>3 DEF Commit
  <2> QED BY <2>2, <2>3
<1>5. PICK p \in Positions : p = IF Commits(i, k) THEN CommitPosition(t) ELSE st.resume
  <2>1. PICK x \in Trackers : x = t
    BY <1>2
  <2>2. st.resume \in Positions
    BY <1>1 DEF Streams
  <2>3. GTID(x.gtid \cup {x.next}) \in Positions \/ x.next = 0
    BY GTIDIs DEF Trackers
  <2>4. x.file \in [name : 0 .. Len(Log), pos : (0 .. Len(Log)) \X Nat]
    BY DEF Trackers
  <2>5. File(x.file) \in Positions
    BY <2>4 DEF Positions
  <2> QED BY <2>1, <2>2, <2>3, <2>5 DEF CommitPosition
<1>6. PICK b \in BOOLEAN : b = row
  OBVIOUS
<1>7. PICK q \in Seq(Changes) :
        /\ q = IF b THEN <<Change(st.at, st.resume)>> ELSE st.pend
        /\ Len(q) = (IF b THEN 1 ELSE 0)
  <2>1. CASE b
    <3>1. st.at \in Rows /\ st.resume \in Positions
      <4>1. IsRow(i, k)
        BY <1>6, <2>1
      <4>2. Log[i].kind = "txn" /\ k \in 1 .. Len(Log[i].rows)
        BY <4>1 DEF IsRow
      <4>3. <<i, k>> \in Rows
        BY <1>1, <4>2, RowIs
      <4> QED BY <1>1, <4>3 DEF Streams
    <3>2. PICK e \in Changes : e = Change(st.at, st.resume)
      BY <3>1 DEF Changes, Change
    <3>3. <<e>> \in Seq(Changes) /\ Len(<<e>>) = 1
      OBVIOUS
    <3> QED BY <2>1, <3>2, <3>3
  <2>2. CASE ~b
    BY <1>1, <2>2 DEF Streams
  <2> QED BY <2>1, <2>2
<1>8. st' = [st EXCEPT !.at = a, !.tracker = u, !.resume = p, !.pend = q,
                       !.reader = IF b THEN "push" ELSE "read"]
  BY <1>1, <1>3, <1>4, <1>5, <1>6, <1>7 DEF ReadEvent
<1>9. PICK z \in Streams : z = st
  BY <1>1
<1>10. /\ st' \in Streams /\ st'.at = a /\ st'.tracker = u /\ st'.resume = p /\ st'.pend = q
       /\ st'.reader = (IF b THEN "push" ELSE "read")
       /\ st'.once = st.once /\ st'.syncer = st.syncer /\ st'.cancelled = st.cancelled
       /\ st'.excluded = st.excluded /\ st'.events = st.events
       /\ st'.delivered = st.delivered
  BY <1>8, <1>9 DEF Streams
<1>11. filtered' = IF IsRow(i, k) /\ ~row THEN filtered \cup {st.at} ELSE filtered
  BY DEF ReadEvent
<1> HIDE DEF t, row
<1>12. row => st'.pend = <<Change(st.at, st.resume)>> /\ st'.reader = "push"
  BY <1>6, <1>7, <1>10
<1>13. ~row => st'.pend = st.pend /\ st'.reader = "read"
  BY <1>6, <1>7, <1>10
<1>14. Len(st'.pend) = (IF st'.reader = "push" THEN 1 ELSE 0)
  BY <1>6, <1>7, <1>10
<1>15. /\ k < Last(i) => st'.at = <<i, k + 1>>
       /\ k >= Last(i) => st'.at = <<NextElement(i, st.excluded), 0>>
  BY <1>3, <1>10
<1>16. /\ Commits(i, k) => st'.tracker = Commit(t) /\ st'.resume = CommitPosition(t)
       /\ ~Commits(i, k) => st'.tracker = t /\ st'.resume = st.resume
  BY <1>4, <1>5, <1>10
<1>17. Log[i].kind = "rotate" \/ Log[i].kind # "rotate"
  OBVIOUS
<1> QED BY <1>1, <1>2, <1>10, <1>11, <1>12, <1>13, <1>14, <1>15, <1>16 DEF t, row

SameFlow(s, u) ==
  /\ u.excluded = s.excluded /\ u.at = s.at /\ u.resume = s.resume /\ u.tracker = s.tracker
  /\ u.pend = s.pend /\ u.events = s.events /\ u.delivered = s.delivered

\* The end of a reader and the stream's Close change nothing that was read.
LEMMA EndingFieldsAre ==
  ASSUME NEW s \in Streams
  PROVE  /\ LET u == [s EXCEPT !.reader = "ended"]
            IN u \in Streams /\ SameFlow(s, u) /\ u.reader = "ended" /\ u.once = s.once
               /\ u.syncer = s.syncer
         /\ LET u == [s EXCEPT !.once = "busy", !.cancelled = TRUE]
            IN u \in Streams /\ SameFlow(s, u) /\ u.reader = s.reader /\ u.once = "busy"
               /\ u.syncer = s.syncer
         /\ LET u == [s EXCEPT !.syncer = FALSE]
            IN u \in Streams /\ SameFlow(s, u) /\ u.reader = s.reader /\ u.once = s.once
               /\ u.syncer = FALSE
         /\ LET u == [s EXCEPT !.once = "done"]
            IN u \in Streams /\ SameFlow(s, u) /\ u.reader = s.reader /\ u.once = "done"
               /\ u.syncer = s.syncer
<1>1. LET u == [s EXCEPT !.reader = "ended"]
      IN u \in Streams /\ SameFlow(s, u) /\ u.reader = "ended" /\ u.once = s.once
         /\ u.syncer = s.syncer
  BY DEF Streams, SameFlow
<1>2. LET u == [s EXCEPT !.once = "busy", !.cancelled = TRUE]
      IN u \in Streams /\ SameFlow(s, u) /\ u.reader = s.reader /\ u.once = "busy"
         /\ u.syncer = s.syncer
  BY DEF Streams, SameFlow
<1>3. LET u == [s EXCEPT !.syncer = FALSE]
      IN u \in Streams /\ SameFlow(s, u) /\ u.reader = s.reader /\ u.once = s.once
         /\ u.syncer = FALSE
  BY DEF Streams, SameFlow
<1>4. LET u == [s EXCEPT !.once = "done"]
      IN u \in Streams /\ SameFlow(s, u) /\ u.reader = s.reader /\ u.once = "done"
         /\ u.syncer = s.syncer
  BY DEF Streams, SameFlow
<1> QED BY <1>1, <1>2, <1>3, <1>4

\* What Push does to a stream, field by field: the row enters the channel, or the
\* reader gives it up because the stream was cancelled.
LEMMA PushIs ==
  ASSUME Types, Push
  PROVE  /\ st.reader = "push" /\ st' \in Streams /\ st'.once = st.once /\ st'.syncer = st.syncer
         /\ st'.excluded = st.excluded /\ st'.at = st.at /\ st'.resume = st.resume
         /\ st'.tracker = st.tracker /\ st'.pend = << >> /\ Len(st'.pend) = 0
         /\ Len(st.pend) = 1 /\ st.pend[1] \in Changes /\ Len(st'.events) <= Buffer
         /\ \/ /\ st'.reader = "read" /\ Len(st'.events) = Len(st.events) + 1
               /\ \A k \in 1 .. Len(st.events) : st'.events[k] = st.events[k]
               /\ st'.events[Len(st.events) + 1] = st.pend[1]
               /\ st'.delivered = st.delivered \cup {<<st.pend[1].row[1], st.pend[1].position>>}
            \/ /\ st'.reader = "ended" /\ st'.events = st.events
               /\ st'.delivered = st.delivered
<1>1. st.reader = "push" /\ st \in Streams /\ Len(st.pend) = 1
  BY DEF Push, Types
<1>2. PICK z \in Streams : z = st
  BY <1>1
<1>0. st.pend \in Seq(Changes) /\ st.events \in Seq(Changes) /\ Len(st.events) \in Nat
  BY <1>1, LenProperties DEF Streams
<1>3. PICK e \in Changes : e = st.pend[1]
  BY <1>0, <1>1, ElementOfSeq
<1>e. Len(<< >>) = 0
  BY EmptySeq
<1>4. CASE /\ Len(st.events) < Buffer
           /\ st' = [st EXCEPT !.events = @ \o st.pend, !.pend = <<>>, !.reader = "read",
                       !.delivered = @ \cup {<<st.pend[1].row[1], st.pend[1].position>>}]
  <2>1. PICK q \in Seq(Changes) : 
          /\ q = st.events \o st.pend /\ Len(q) = Len(st.events) + 1
          /\ \A k \in 1 .. Len(st.events) : q[k] = st.events[k]
          /\ q[Len(st.events) + 1] = e
    <3> DEFINE q == st.events \o st.pend
    <3>1. /\ q \in Seq(Changes) /\ Len(q) = Len(st.events) + Len(st.pend)
          /\ \A k \in 1 .. Len(st.events) + Len(st.pend) :
               q[k] = IF k <= Len(st.events) THEN st.events[k] ELSE st.pend[k - Len(st.events)]
      BY <1>0, ConcatProperties
    <3> HIDE DEF q
    <3>2. q[Len(st.events) + 1] = st.pend[1]
      BY <1>0, <1>1, <3>1
    <3>3. \A k \in 1 .. Len(st.events) : q[k] = st.events[k]
      BY <1>0, <1>1, <3>1
    <3>4. q = st.events \o st.pend
      BY DEF q
    <3> QED BY <1>1, <1>3, <3>1, <3>2, <3>3, <3>4
  <2>2. e.row \in Rows /\ e.position \in Positions
    BY DEF Changes
  <2>3. e.row[1] \in 1 .. Len(Log)
    BY <2>2, RowIs
  <2>4. <<e.row[1], e.position>> \in (1 .. Len(Log)) \X Positions
    BY <2>2, <2>3
  <2>5. PICK d \in SUBSET ((1 .. Len(Log)) \X Positions) :
          d = st.delivered \cup {<<e.row[1], e.position>>}
    BY <1>1, <2>4 DEF Streams
  <2>6. PICK w \in Seq(Changes) : w = << >>
    BY EmptySeq
  <2>7. st' = [z EXCEPT !.events = q, !.pend = w, !.reader = "read", !.delivered = d]
    BY <1>2, <1>3, <1>4, <2>1, <2>5, <2>6
  <2>8. /\ st' \in Streams /\ st'.once = st.once /\ st'.syncer = st.syncer
        /\ st'.excluded = st.excluded /\ st'.at = st.at /\ st'.resume = st.resume
        /\ st'.tracker = st.tracker /\ st'.pend = w /\ st'.events = q /\ st'.delivered = d
        /\ st'.reader = "read"
    BY <1>2, <2>7 DEF Streams
  <2>9. Len(q) <= Buffer
    BY <1>0, <1>4, <2>1, LogIs
  <2> QED BY <1>e, <1>1, <1>3, <2>1, <2>5, <2>6, <2>8, <2>9
<1>5. CASE st' = [st EXCEPT !.reader = "ended", !.pend = <<>>]
  <2>1. PICK w \in Seq(Changes) : w = << >>
    BY EmptySeq
  <2>2. st' = [z EXCEPT !.reader = "ended", !.pend = w]
    BY <1>2, <1>5, <2>1
  <2>3. /\ st' \in Streams /\ st'.once = st.once /\ st'.syncer = st.syncer
        /\ st'.excluded = st.excluded /\ st'.at = st.at /\ st'.resume = st.resume
        /\ st'.tracker = st.tracker /\ st'.pend = w /\ st'.events = st.events
        /\ st'.delivered = st.delivered /\ st'.reader = "ended"
    BY <1>2, <2>2 DEF Streams
  <2>4. Len(st.events) <= Buffer
    BY DEF Types
  <2> QED BY <1>e, <1>1, <1>3, <2>1, <2>3, <2>4
<1> QED BY <1>4, <1>5 DEF Push

\* What Receive does to a stream: the channel's first change is in hand.
LEMMA ReceiveIs ==
  ASSUME Types, Receive
  PROVE  /\ st' \in Streams /\ st'.once = st.once /\ st'.syncer = st.syncer
         /\ st'.reader = st.reader /\ st'.excluded = st.excluded /\ st'.at = st.at
         /\ st'.resume = st.resume /\ st'.tracker = st.tracker /\ st'.pend = st.pend
         /\ st'.delivered = st.delivered /\ st'.events = Tail(st.events)
         /\ Len(st.events) > 0 /\ hand' = st.events[1] /\ hand' \in Changes
         /\ Len(st'.events) = Len(st.events) - 1
         /\ \A k \in 1 .. Len(st'.events) : st'.events[k] = st.events[k + 1]
<1>1. PICK z \in Streams : z = st
  BY DEF Types
<1>2. st.events \in Seq(Changes) /\ st.events # << >> /\ hand' = Head(st.events)
  BY <1>1 DEF Streams, Receive
<1>3. PICK q \in Seq(Changes) :
        /\ q = Tail(st.events) /\ Len(q) = Len(st.events) - 1
        /\ \A k \in 1 .. Len(q) : q[k] = st.events[k + 1]
  <2>1. /\ Tail(st.events) \in Seq(Changes) /\ Len(Tail(st.events)) = Len(st.events) - 1
        /\ \A k \in 1 .. Len(Tail(st.events)) : Tail(st.events)[k] = st.events[k + 1]
    BY <1>2, HeadTailProperties
  <2> QED BY <2>1
<1>4. st' = [z EXCEPT !.events = q]
  BY <1>1, <1>3 DEF Receive
<1>5. /\ st' \in Streams /\ st'.once = st.once /\ st'.syncer = st.syncer
      /\ st'.reader = st.reader /\ st'.excluded = st.excluded /\ st'.at = st.at
      /\ st'.resume = st.resume /\ st'.tracker = st.tracker /\ st'.pend = st.pend
      /\ st'.delivered = st.delivered /\ st'.events = q
  BY <1>1, <1>4 DEF Streams
<1>6. Len(st.events) > 0 /\ Head(st.events) = st.events[1] /\ Head(st.events) \in Changes
  BY <1>2, EmptySeq, HeadTailProperties
<1> QED BY <1>2, <1>3, <1>5, <1>6

\* One of the two processes moves at a time.
LEMMA PCIs ==
  ASSUME pc \in PCs
  PROVE  /\ \A x \in {"idle", "start", "range", "record", "process", "once", "stop", "release"} :
              LET q == [pc EXCEPT !.consumer = x]
              IN q \in PCs /\ q.consumer = x /\ q.closer = pc.closer
         /\ \A x \in {"none", "once", "stop", "release", "closed"} :
              LET q == [pc EXCEPT !.closer = x]
              IN q \in PCs /\ q.closer = x /\ q.consumer = pc.consumer
         /\ \A x : [pc EXCEPT !["consumer"] = x] = [pc EXCEPT !.consumer = x]
         /\ \A x : [pc EXCEPT !["closer"] = x] = [pc EXCEPT !.closer = x]
         /\ pc["consumer"] = pc.consumer /\ pc["closer"] = pc.closer
BY DEF PCs

\* A step of the consumer leaves Close where it is.
LEMMA ConsumerIs ==
  ASSUME Types, NEW a, NEW b \in {"idle", "start", "range", "record", "process", "once", "stop",
                                  "release"},
         Consumer(a, b)
  PROVE  pc' \in PCs /\ pc.consumer = a /\ pc'.consumer = b /\ pc'.closer = pc.closer
<1>1. pc \in PCs
  BY DEF Types, PCs
<1> QED BY <1>1, PCIs DEF Consumer

\* The subscriber and its table management, the source, and the consumer's steps that do
\* not move a change.
LEMMA TypesKept ==
  ASSUME Types,
         st' \in Streams /\ pc' \in PCs /\ Len(st'.events) <= Buffer,
         Len(st'.pend) = (IF st'.reader = "push" THEN 1 ELSE 0),
         pc'.consumer = "start" => hand' \in Positions,
         InHand' => hand' \in Changes,
         recorded' \in Positions /\ processed' \subseteq Rows /\ filtered' \subseteq Rows,
         skipped' \subseteq Txns(Len(Log)) /\ failures' \in 0 .. MaxFailures,
         closed' \in BOOLEAN /\ streaming' \in BOOLEAN /\ stream' \in BOOLEAN,
         filter' \subseteq Tables, UNCHANGED source
  PROVE  Types'
<1>1. /\ gtidOn' \in BOOLEAN /\ written' \in 0 .. Len(Log) /\ purged' \in 0 .. written'
      /\ purged' = 0 \/ Log[purged'].kind = "rotate"
  BY DEF Types, source
<1> QED BY <1>1 DEF Types, PCs

\* Every step keeps the types.
LEMMA StepTypes ==
  ASSUME Types, Next
  PROVE  Types'
<1> USE DEF durable
<1>0. pc \in PCs /\ st \in Streams /\ Len(st.events) <= Buffer
      /\ Len(st.pend) = (IF st.reader = "push" THEN 1 ELSE 0)
  BY DEF Types, PCs
<1>1. CASE ReadPosition
  <2>1. pc' \in PCs /\ pc'.consumer = "start" /\ ~InHand'
    BY <1>1, ConsumerIs DEF ReadPosition, InHand
  <2>2. CurrentPosition \in Positions
    BY CurrentPositionIs DEF Types
  <2> QED BY <1>0, <1>1, <2>1, <2>2, TypesKept DEF ReadPosition, Types, sub
<1>2. ASSUME NEW p \in Positions, Start(p), pc' \in PCs, pc'.consumer = "range",
             skipped' = skipped \cup Covered(p) \/ skipped' = skipped
      PROVE  Types'
  <2>1. ~InHand'
    BY <1>2 DEF InHand
  <2>2. purged \in 0 .. Len(Log)
    BY LogIs DEF Types
  <2>3. st' \in Streams /\ st'.events = << >> /\ st'.pend = << >> /\ st'.reader = "read"
    BY <1>2, <2>2, NewStreamIs DEF Start
  <2>4. skipped' \subseteq Txns(Len(Log))
    BY <1>2, CoveredIs DEF Types
  <2>5. Len(st'.events) <= Buffer /\ Len(st'.pend) = 0
    BY <2>3, EmptySeq, LogIs
  <2> QED BY <1>2, <2>1, <2>3, <2>4, <2>5, TypesKept DEF Start, Types
<1>3. CASE Subscribe
  <2>1. pc' \in PCs /\ pc'.consumer = "range" /\ hand \in Positions
    BY <1>3, ConsumerIs DEF Subscribe, Types
  <2> QED BY <1>2, <1>3, <2>1 DEF Subscribe
<1>4. CASE SubscribeFrom
  <2>1. pc' \in PCs /\ pc'.consumer = "range" /\ recorded \in Positions
    BY <1>4, ConsumerIs DEF SubscribeFrom, Types
  <2> QED BY <1>2, <1>4, <2>1 DEF SubscribeFrom
<1>5. CASE SubscribeFails
  <2>1. pc' \in PCs /\ pc'.consumer = "idle" /\ ~InHand'
    BY <1>5, ConsumerIs DEF SubscribeFails, InHand
  <2> QED BY <1>0, <1>5, <2>1, TypesKept DEF SubscribeFails, Types, sub
<1>6. CASE ReadEvent
  <2>1. /\ st' \in Streams /\ st'.events = st.events
        /\ Len(st'.pend) = (IF st'.reader = "push" THEN 1 ELSE 0)
    BY <1>6, ReadEventIs
  <2>2. filtered' \subseteq Rows
    <3> DEFINE i == st.at[1]
               k == st.at[2]
    <3>1. i \in 1 .. Len(Log) /\ st.at = <<i, k>>
      BY <1>0, <1>6, ReadEventIs DEF Streams
    <3>2. filtered' = filtered \/ (IsRow(i, k) /\ filtered' = filtered \cup {st.at})
      BY <1>6 DEF ReadEvent
    <3>3. CASE IsRow(i, k)
      <4>1. Log[i].kind = "txn" /\ k \in 1 .. Len(Log[i].rows)
        BY <3>3 DEF IsRow
      <4>2. <<i, k>> \in Rows
        BY <3>1, <4>1, RowIs
      <4> QED BY <3>1, <3>2, <4>2 DEF Types
    <3> QED BY <3>2, <3>3 DEF Types
  <2>3. InHand' = InHand
    BY <1>6 DEF ReadEvent, InHand
  <2> QED BY <1>0, <1>6, <2>1, <2>2, <2>3, TypesKept DEF ReadEvent, Types, sub
<1>7. CASE Push
  <2>1. /\ st' \in Streams /\ Len(st'.events) <= Buffer /\ Len(st'.pend) = 0
        /\ st'.reader # "push"
    BY <1>7, PushIs
  <2>2. InHand' = InHand
    BY <1>7 DEF Push, InHand
  <2> QED BY <1>0, <1>7, <2>1, <2>2, TypesKept DEF Push, Types, sub
<1>8. ASSUME st.reader = "read", st' = [st EXCEPT !.reader = "ended"],
             UNCHANGED <<source, sub, pc, hand, recorded, processed, filtered, skipped>>,
             failures' \in 0 .. MaxFailures
      PROVE  Types'
  <2>1. st' \in Streams /\ SameFlow(st, st') /\ st'.reader = "ended"
    BY <1>0, <1>8, EndingFieldsAre
  <2>2. InHand' = InHand
    BY <1>8 DEF InHand
  <2> QED BY <1>0, <1>8, <2>1, <2>2, TypesKept DEF SameFlow, Types, sub
<1>9. CASE ReaderStops
  BY <1>8, <1>9 DEF ReaderStops, Types
<1>10. CASE ReaderFails
  <2>1. failures + 1 \in 0 .. MaxFailures
    BY <1>10, LogIs DEF ReaderFails, Types
  <2> QED BY <1>8, <1>10, <2>1 DEF ReaderFails
<1>11. CASE Receive
  <2>1. pc' \in PCs /\ pc'.consumer = "record"
    BY <1>11, ConsumerIs DEF Receive
  <2>2. /\ st' \in Streams /\ hand' \in Changes /\ Len(st'.events) = Len(st.events) - 1
        /\ st'.pend = st.pend /\ st'.reader = st.reader
    BY <1>11, ReceiveIs
  <2>3. Len(st.events) \in Nat
    BY <1>0, LenProperties DEF Streams
  <2>4. Len(st'.events) <= Buffer
    BY <1>0, <2>2, <2>3, LogIs
  <2> QED BY <1>0, <1>11, <2>1, <2>2, <2>4, TypesKept DEF Receive, Types, sub
<1>12. CASE Record
  <2>1. pc' \in PCs /\ pc'.consumer = "process" /\ InHand
    BY <1>12, ConsumerIs DEF Record, InHand
  <2>2. hand \in Changes /\ hand.position \in Positions
    BY <2>1 DEF Types, Changes
  <2> QED BY <1>0, <1>12, <2>1, <2>2, TypesKept DEF Record, Types, sub
<1>13. CASE Process
  <2>1. pc' \in PCs /\ pc'.consumer = "range" /\ InHand /\ ~InHand'
    BY <1>13, ConsumerIs DEF Process, InHand
  <2>2. hand \in Changes /\ hand.row \in Rows
    BY <2>1 DEF Types, Changes
  <2> QED BY <1>0, <1>13, <2>1, <2>2, TypesKept DEF Process, Types, sub
<1>14. CASE LoopEnds
  <2>1. pc' \in PCs /\ pc'.consumer = "once" /\ ~InHand'
    BY <1>14, ConsumerIs DEF LoopEnds, InHand
  <2> QED BY <1>0, <1>14, <2>1, TypesKept DEF LoopEnds, Types, sub
<1>15. CASE LoopBreaks
  <2>1. pc' \in PCs /\ pc'.consumer = "once" /\ ~InHand'
    BY <1>15, ConsumerIs DEF LoopBreaks, InHand
  <2>2. failures + 1 \in 0 .. MaxFailures
    BY <1>15, LogIs DEF LoopBreaks, Types
  <2> QED BY <1>0, <1>15, <2>1, <2>2, TypesKept DEF LoopBreaks, Types, sub
<1>16. ASSUME NEW p \in {"consumer", "closer"}, Closing(p)
       PROVE  Types'
  <2>1. /\ st' \in Streams /\ SameFlow(st, st') /\ st'.reader = st.reader
        /\ pc' \in PCs /\ (InHand' => InHand)
        /\ pc'.consumer = "start" => pc.consumer = "start"
    <3>1. st' = st => SameFlow(st, st') /\ st'.reader = st.reader
      BY DEF SameFlow
    <3>2. CASE Once(p)
      <4>1. CASE st.once = "new" /\ st' = [st EXCEPT !.once = "busy", !.cancelled = TRUE]
                 /\ pc' = [pc EXCEPT ![p] = "stop"]
        <5>1. st' \in Streams /\ SameFlow(st, st') /\ st'.reader = st.reader
          BY <1>0, <4>1, EndingFieldsAre
        <5>2. pc' \in PCs /\ pc'.consumer \in {pc.consumer, "stop"}
          BY <1>0, <4>1, PCIs
        <5> QED BY <5>1, <5>2 DEF InHand
      <4>2. CASE pc' = [pc EXCEPT ![p] = Returned(p)] /\ st' = st
        <5>1. pc' \in PCs /\ pc'.consumer \in {pc.consumer, "idle"}
          BY <1>0, <4>2, PCIs DEF Returned
        <5> QED BY <1>0, <3>1, <4>2, <5>1 DEF InHand
      <4> QED BY <3>2, <4>1, <4>2 DEF Once
    <3>3. CASE Stop(p)
      <4>1. st' \in Streams /\ SameFlow(st, st') /\ st'.reader = st.reader
        BY <1>0, <3>3, EndingFieldsAre DEF Stop
      <4>2. pc' \in PCs /\ pc'.consumer \in {pc.consumer, "release"}
        BY <1>0, <3>3, PCIs DEF Stop
      <4> QED BY <4>1, <4>2 DEF InHand
    <3>4. CASE ReleaseStream(p)
      <4>1. st' \in Streams /\ SameFlow(st, st') /\ st'.reader = st.reader
        BY <1>0, <3>4, EndingFieldsAre DEF ReleaseStream
      <4>2. pc' \in PCs /\ pc'.consumer \in {pc.consumer, "idle"}
        BY <1>0, <3>4, PCIs DEF ReleaseStream, Returned
      <4> QED BY <4>1, <4>2 DEF InHand
    <3> QED BY <1>16, <3>2, <3>3, <3>4 DEF Closing
  <2>2. UNCHANGED <<source, hand, durable>>
    BY <1>16 DEF Closing, Once, Stop, ReleaseStream
  <2>3. /\ closed' \in BOOLEAN /\ streaming' \in BOOLEAN /\ stream' \in BOOLEAN
        /\ filter' = filter
    BY <1>16 DEF Closing, Once, Stop, ReleaseStream, sub, Types
  <2>4. /\ Len(st'.events) <= Buffer /\ Len(st'.pend) = (IF st'.reader = "push" THEN 1 ELSE 0)
        /\ pc'.consumer = "start" => hand' \in Positions
        /\ InHand' => hand' \in Changes
    BY <1>0, <2>1, <2>2 DEF SameFlow, Types
  <2> QED BY <2>1, <2>2, <2>3, <2>4, TypesKept DEF Types
<1>17. CASE Close
  <2>1. pc' \in PCs /\ pc'.consumer = pc.consumer /\ InHand' = InHand
    BY <1>0, <1>17, PCIs DEF Close, InHand
  <2> QED BY <1>0, <1>17, <2>1, TypesKept DEF Close, Types
<1>18. ASSUME NEW f \in SUBSET Tables, SetFilter(f)
       PROVE  Types'
  <2>1. InHand' = InHand
    BY <1>18 DEF SetFilter, InHand
  <2> QED BY <1>0, <1>18, <2>1, TypesKept DEF SetFilter, Types
<1>19. CASE \E given \in SUBSET Tables :
              AddTables(given) \/ RemoveTables(given) \/ SyncTables(given)
  <2>1. filter \subseteq Tables
    BY DEF Types
  <2> QED BY <1>18, <1>19, <2>1 DEF AddTables, RemoveTables, SyncTables
<1>20. CASE Crash
  <2>1. pc' \in PCs /\ pc'.consumer = "idle" /\ ~InHand'
    BY <1>20 DEF Crash, PCs, InHand
  <2>2. failures + 1 \in 0 .. MaxFailures
    BY <1>20, LogIs DEF Crash, Types
  <2>3. /\ st' \in Streams /\ Len(st'.events) <= Buffer /\ Len(st'.pend) = 0
        /\ st'.reader = "none"
    BY <1>20, NoStreamIs, EmptySeq, LogIs DEF Crash
  <2> QED BY <1>20, <2>1, <2>2, <2>3, TypesKept, LogIs DEF Crash, Types
<1>21. CASE Write
  <2>1. written' \in 0 .. Len(Log) /\ purged' \in 0 .. written' /\ purged' = purged
    BY <1>21, LogIs DEF Write, Types
  <2> QED BY <1>21, <2>1 DEF Write, Types, sub, InHand
<1>22. CASE Purge
  <2>1. written' = written /\ purged' \in 0 .. written' /\ Log[purged'].kind = "rotate"
    BY <1>22, LogIs DEF Purge, Types
  <2> QED BY <1>22, <2>1 DEF Purge, Types, sub, InHand
<1> QED BY <1>1, <1>3, <1>4, <1>5, <1>6, <1>7, <1>9, <1>10, <1>11, <1>12, <1>13, <1>14, <1>15,
           <1>16, <1>17, <1>19, <1>20, <1>21, <1>22 DEF Next, Consuming, Reading

-----------------------------------------------------------------------------
(* The end of a stream. *)

\* Every step keeps the order in which a stream ends: one closer at a time, reader
\* before syncer, and no stream begins once Close has taken its own.
LEMMA StepEnding ==
  ASSUME Types, Ending, Next
  PROVE  Ending'
<1> USE DEF durable
<1>0. pc \in PCs /\ st \in Streams
  BY DEF Types, PCs
<1>1. ASSUME UNCHANGED <<st, closed, stream>>, pc'.closer = pc.closer,
             pc'.consumer \in {"range", "record", "process", "once"}
      PROVE  Ending'
  BY <1>1 DEF Ending
<1>2. ASSUME st'.once = st.once, st'.syncer = st.syncer, UNCHANGED <<pc, closed, stream>>,
             st.reader \in {"read", "push"}
      PROVE  Ending'
  BY <1>2 DEF Ending
<1>3. CASE ReadPosition
  BY <1>3, ConsumerIs DEF ReadPosition, Ending, sub
<1>4. ASSUME NEW p \in Positions, Start(p), pc' \in PCs, pc'.consumer = "range",
             pc'.closer = pc.closer
      PROVE  Ending'
  <2>1. purged \in 0 .. Len(Log)
    BY LogIs DEF Types
  <2>2. st'.once = "new" /\ st'.reader = "read" /\ st'.syncer = TRUE
    BY <1>4, <2>1, NewStreamIs DEF Start
  <2>3. ~closed /\ pc.closer = "none"
    BY <1>4 DEF Start, Ending
  <2> QED BY <1>4, <2>2, <2>3 DEF Ending, Start
<1>5. CASE Subscribe
  <2>1. /\ pc' \in PCs /\ pc'.consumer = "range" /\ pc'.closer = pc.closer
        /\ hand \in Positions
    BY <1>5, ConsumerIs DEF Subscribe, Types
  <2> QED BY <1>4, <1>5, <2>1 DEF Subscribe
<1>6. CASE SubscribeFrom
  <2>1. /\ pc' \in PCs /\ pc'.consumer = "range" /\ pc'.closer = pc.closer
        /\ recorded \in Positions
    BY <1>6, ConsumerIs DEF SubscribeFrom, Types
  <2> QED BY <1>4, <1>6, <2>1 DEF SubscribeFrom
<1>7. CASE SubscribeFails
  BY <1>7, ConsumerIs DEF SubscribeFails, Ending, sub
<1>8. CASE ReadEvent
  BY <1>2, <1>8, ReadEventIs DEF ReadEvent, sub
<1>9. CASE Push
  BY <1>2, <1>9, PushIs DEF Push, sub
<1>10. CASE ReaderStops \/ ReaderFails
  <2>1. st' = [st EXCEPT !.reader = "ended"] /\ st.reader = "read"
        /\ UNCHANGED <<pc, closed, stream>>
    BY <1>10 DEF ReaderStops, ReaderFails, sub
  <2>2. st'.once = st.once /\ st'.syncer = st.syncer
    BY <1>0, <2>1, EndingFieldsAre
  <2> QED BY <1>2, <2>1, <2>2
<1>11. CASE Receive
  <2>1. st'.once = st.once /\ st'.syncer = st.syncer /\ st'.reader = st.reader
    BY <1>11, ReceiveIs
  <2>2. pc'.consumer = "record" /\ pc'.closer = pc.closer
    BY <1>11, ConsumerIs DEF Receive
  <2> QED BY <1>11, <2>1, <2>2 DEF Receive, Ending, sub
<1>12. CASE Record
  BY <1>1, <1>12, ConsumerIs DEF Record, sub
<1>13. CASE Process
  BY <1>1, <1>13, ConsumerIs DEF Process, sub
<1>14. CASE LoopEnds \/ LoopBreaks
  BY <1>1, <1>14, ConsumerIs DEF LoopEnds, LoopBreaks, sub
<1>15. ASSUME NEW p \in {"consumer", "closer"}, Once(p), st.once = "new",
              st' = [st EXCEPT !.once = "busy", !.cancelled = TRUE],
              pc' = [pc EXCEPT ![p] = "stop"]
       PROVE  Ending'
  <2>1. st'.once = "busy" /\ st'.reader = st.reader /\ st'.syncer = st.syncer
    BY <1>0, <1>15, EndingFieldsAre
  <2>2. UNCHANGED <<closed, stream>> /\ pc[p] = "once"
    BY <1>15 DEF Once, sub
  <2>3. ~(pc.consumer \in {"stop", "release"}) /\ ~(pc.closer \in {"stop", "release"})
    BY <1>15 DEF Ending
  <2>4. CASE p = "consumer"
    <3>1. pc'.consumer = "stop" /\ pc'.closer = pc.closer
      BY <1>0, <1>15, <2>4, PCIs
    <3> QED BY <1>15, <2>1, <2>2, <2>3, <3>1 DEF Ending
  <2>5. CASE p = "closer"
    <3>1. pc'.closer = "stop" /\ pc'.consumer = pc.consumer /\ pc.closer = "once"
      BY <1>0, <1>15, <2>2, <2>5, PCIs
    <3> QED BY <1>15, <2>1, <2>2, <2>3, <3>1 DEF Ending
  <2> QED BY <2>4, <2>5
<1>16. ASSUME NEW p \in {"consumer", "closer"}, Once(p), st.once = "done", st' = st,
              pc' = [pc EXCEPT ![p] = Returned(p)]
       PROVE  Ending'
  <2>1. UNCHANGED <<closed, stream>> /\ pc[p] = "once"
    BY <1>16 DEF Once, sub
  <2>2. CASE p = "consumer"
    <3>1. pc'.consumer = "idle" /\ pc'.closer = pc.closer
      BY <1>0, <1>16, <2>2, PCIs DEF Returned
    <3> QED BY <1>16, <2>1, <3>1 DEF Ending
  <2>3. CASE p = "closer"
    <3>1. pc'.closer = "closed" /\ pc'.consumer = pc.consumer /\ pc.closer = "once"
      BY <1>0, <1>16, <2>1, <2>3, PCIs DEF Returned
    <3> QED BY <1>16, <2>1, <3>1 DEF Ending
  <2> QED BY <2>2, <2>3
<1>17. ASSUME NEW p \in {"consumer", "closer"}, Stop(p)
       PROVE  Ending'
  <2>1. st'.once = st.once /\ st'.reader = st.reader /\ st'.syncer = FALSE
    BY <1>0, <1>17, EndingFieldsAre DEF Stop
  <2>2. UNCHANGED <<closed, stream>> /\ pc[p] = "stop" /\ st.reader = "ended"
    BY <1>17 DEF Stop, sub
  <2>3. CASE p = "consumer"
    <3>1. pc'.consumer = "release" /\ pc'.closer = pc.closer /\ pc.consumer = "stop"
      BY <1>0, <1>17, <2>2, <2>3, PCIs DEF Stop
    <3> QED BY <2>1, <2>2, <3>1 DEF Ending
  <2>4. CASE p = "closer"
    <3>1. pc'.closer = "release" /\ pc'.consumer = pc.consumer /\ pc.closer = "stop"
      BY <1>0, <1>17, <2>2, <2>4, PCIs DEF Stop
    <3> QED BY <2>1, <2>2, <3>1 DEF Ending
  <2> QED BY <2>3, <2>4
<1>18. ASSUME NEW p \in {"consumer", "closer"}, ReleaseStream(p)
       PROVE  Ending'
  <2>1. st'.once = "done" /\ st'.reader = st.reader /\ st'.syncer = st.syncer
    BY <1>0, <1>18, EndingFieldsAre DEF ReleaseStream
  <2>2. closed' = closed /\ stream' = FALSE /\ pc[p] = "release"
    BY <1>18 DEF ReleaseStream
  <2>3. CASE p = "consumer"
    <3>1. pc'.consumer = "idle" /\ pc'.closer = pc.closer /\ pc.consumer = "release"
      BY <1>0, <1>18, <2>2, <2>3, PCIs DEF ReleaseStream, Returned
    <3> QED BY <2>1, <2>2, <3>1 DEF Ending
  <2>4. CASE p = "closer"
    <3>1. pc'.closer = "closed" /\ pc'.consumer = pc.consumer /\ pc.closer = "release"
      BY <1>0, <1>18, <2>2, <2>4, PCIs DEF ReleaseStream, Returned
    <3> QED BY <2>1, <2>2, <3>1 DEF Ending
  <2> QED BY <2>3, <2>4
<1>19. ASSUME NEW p \in {"consumer", "closer"}, Closing(p)
       PROVE  Ending'
  BY <1>15, <1>16, <1>17, <1>18, <1>19 DEF Closing, Once
<1>20. CASE Close
  <2>1. /\ pc'.consumer = pc.consumer /\ pc'.closer = (IF stream THEN "once" ELSE "closed")
    BY <1>0, <1>20, PCIs DEF Close
  <2>2. st' = st /\ closed' = TRUE /\ ~closed /\ pc.closer = "none" /\ stream' = FALSE
    BY <1>20 DEF Close
  <2> QED BY <2>1, <2>2 DEF Ending
<1>21. CASE \E given \in SUBSET Tables :
              AddTables(given) \/ RemoveTables(given) \/ SyncTables(given)
  BY <1>21 DEF AddTables, RemoveTables, SyncTables, SetFilter, Ending
<1>22. CASE Crash
  BY <1>22, NoStreamIs DEF Crash, Ending
<1>23. CASE Write \/ Purge
  BY <1>23 DEF Write, Purge, Ending, sub
<1> QED BY <1>3, <1>5, <1>6, <1>7, <1>8, <1>9, <1>10, <1>11, <1>12, <1>13, <1>14, <1>19, <1>20,
           <1>21, <1>22, <1>23 DEF Next, Consuming, Reading

-----------------------------------------------------------------------------
(* Flow after a step, with the changes as values. *)

SettledNext(r) == r \in processed' \cup filtered'
FitNext(e) ==
  /\ e.row[1] \notin st'.excluded /\ InLog(e.position) /\ (e.position.kind = "gtid" => gtidOn')
  /\ \A j \in Covered(e.position) : j \in st'.excluded \/ j < e.row[1]
  /\ \A r \in Rows : Before(r, e.row) /\ r[1] \notin st'.excluded
                       => SettledNext(r) \/ InFlight(r)'
HandNext == FitNext(hand') /\ Before(hand'.row, st'.at)
EventNext(e) ==
  /\ FitNext(e) /\ Before(e.row, st'.at)
  /\ InHand' => Before(hand'.row, e.row)
  /\ st'.reader = "push" => Before(e.row, st'.pend[1].row)
PendNext ==
  /\ FitNext(st'.pend[1]) /\ st'.at[2] > 0 /\ st'.pend[1].row = <<st'.at[1], st'.at[2] - 1>>
  /\ st'.pend[1].position = st'.resume
  /\ InHand' => Before(hand'.row, st'.pend[1].row)
ReadNext ==
  \A r \in Rows : Before(r, st'.at) /\ r[1] \notin st'.excluded => SettledNext(r) \/ InFlight(r)'
OrderNext ==
  \A j, k \in 1 .. Len(st'.events) : j < k => Before(st'.events[j].row, st'.events[k].row)

\* Flow after a step, from its parts.
LEMMA FlowIs ==
  ASSUME InHand' => HandNext,
         \A k \in 1 .. Len(st'.events) : EventNext(st'.events[k]),
         OrderNext, st'.reader = "push" => PendNext,
         st'.reader \in {"read", "push"} => ReadNext
  PROVE  Flow'
<1>1. /\ FitNext(hand') => Fit(hand)'
      /\ \A k : FitNext(st'.events[k]) => Fit(st.events[k])'
      /\ FitNext(st'.pend[1]) => Fit(st.pend[1])'
  BY DEF FitNext, Fit, Sound, Precedes, Settled, SettledNext
<1>2. (InHand => Fit(hand) /\ Before(hand.row, st.at))'
  BY <1>1 DEF HandNext
<1>3. (\A k \in 1 .. Len(st.events) :
       /\ Fit(st.events[k]) /\ Before(st.events[k].row, st.at)
       /\ InHand => Before(hand.row, st.events[k].row)
       /\ st.reader = "push" => Before(st.events[k].row, st.pend[1].row))'
  BY <1>1 DEF EventNext
<1>4. (st.reader = "push" =>
       /\ Fit(st.pend[1]) /\ st.at[2] > 0 /\ st.pend[1].row = <<st.at[1], st.at[2] - 1>>
       /\ st.pend[1].position = st.resume
       /\ InHand => Before(hand.row, st.pend[1].row))'
  BY <1>1 DEF PendNext
<1>5. (st.reader \in {"read", "push"} =>
       \A r \in Rows : Before(r, st.at) /\ r[1] \notin st.excluded => Settled(r) \/ InFlight(r))'
  BY DEF ReadNext, SettledNext, Settled
<1>6. (\A j, k \in 1 .. Len(st.events) : j < k => Before(st.events[j].row, st.events[k].row))'
  BY DEF OrderNext
<1> QED BY <1>2, <1>3, <1>4, <1>5, <1>6 DEF Flow

\* A change stays fit while the rows before it stay settled or on their way.
LEMMA FitCarries ==
  ASSUME NEW e, Fit(e), st'.excluded = st.excluded, gtidOn' = gtidOn,
         \A r \in Rows : Before(r, e.row) /\ r[1] \notin st.excluded /\ (Settled(r) \/ InFlight(r))
                           => SettledNext(r) \/ InFlight(r)'
  PROVE  FitNext(e)
BY DEF Fit, FitNext, Sound, Precedes

-----------------------------------------------------------------------------
(* Steps that leave alone what a stream has read, has on its way and has      *)
(* settled.                                                                   *)

Calm ==
  /\ SameFlow(st, st') /\ UNCHANGED <<gtidOn, processed, filtered, skipped>>
  /\ st'.reader = st.reader \/ (st.reader = "read" /\ st'.reader = "ended")
  /\ InHand' = InHand /\ (InHand => hand' = hand)
Quiet ==
  Calm /\ recorded' = recorded /\ (pc'.consumer = "start" => Sound(hand') /\ hand' # NoPosition)

Rest == Cursor /\ Flow /\ Starts /\ Identity

\* A step that only moves the two processes keeps what was read and delivered.
LEMMA CalmStep ==
  ASSUME Types, Rest, Calm
  PROVE  Cursor' /\ Flow' /\ Identity' /\ st'.excluded = st.excluded
<1>0. /\ st'.excluded = st.excluded /\ st'.at = st.at /\ st'.resume = st.resume
      /\ st'.tracker = st.tracker /\ st'.pend = st.pend /\ st'.events = st.events
      /\ st'.delivered = st.delivered /\ gtidOn' = gtidOn
  BY DEF Calm, SameFlow
<1>1. Cursor'
  <2>1. st'.reader # "none" => st.reader # "none"
    BY DEF Calm
  <2> QED BY <1>0, <2>1 DEF Rest, Cursor, Sound, Precedes
<1>2. \A r : InFlight(r) => InFlight(r)'
  BY <1>0 DEF InFlight, Calm
<1>3. \A r : Settled(r) => SettledNext(r)
  BY DEF Settled, SettledNext, Calm
<1>4. \A e : Fit(e) => FitNext(e)
  <2> SUFFICES ASSUME NEW e, Fit(e) PROVE FitNext(e)
    OBVIOUS
  <2> QED BY <1>0, <1>2, <1>3, FitCarries
<1>5. Flow'
  <2>1. InHand' => HandNext
    BY <1>0, <1>4 DEF Rest, Flow, HandNext, Calm
  <2>2. \A k \in 1 .. Len(st'.events) : EventNext(st'.events[k])
    BY <1>0, <1>4 DEF Rest, Flow, EventNext, Calm
  <2>3. OrderNext
    BY <1>0 DEF Rest, Flow, OrderNext
  <2>4. st'.reader = "push" => PendNext
    BY <1>0, <1>4 DEF Rest, Flow, PendNext, Calm
  <2>5. st'.reader \in {"read", "push"} => ReadNext
    BY <1>0, <1>2, <1>3 DEF Rest, Flow, ReadNext, Calm
  <2> QED BY <2>1, <2>2, <2>3, <2>4, <2>5, FlowIs
<1>6. Identity'
  BY <1>0 DEF Rest, Identity
<1> QED BY <1>0, <1>1, <1>5, <1>6

\* And one that does not record either keeps the rest.
LEMMA QuietStep ==
  ASSUME Types, Rest, Quiet
  PROVE  Rest'
<1>1. Cursor' /\ Flow' /\ Identity' /\ st'.excluded = st.excluded
  BY CalmStep DEF Quiet
<1>2. Starts'
  BY <1>1 DEF Rest, Starts, Sound, Safe, Quiet, Calm
<1> QED BY <1>1, <1>2 DEF Rest

\* The steps of that kind: reading the position, failures, Close, table
\* management and the source.
LEMMA QuietSteps ==
  ASSUME Types, Rest,
         \/ ReadPosition \/ SubscribeFails \/ ReaderStops \/ ReaderFails \/ LoopEnds \/ LoopBreaks
         \/ (\E p \in {"consumer", "closer"} : Closing(p)) \/ Close \/ Write \/ Purge
         \/ \E given \in SUBSET Tables :
              AddTables(given) \/ RemoveTables(given) \/ SyncTables(given)
  PROVE  Rest'
<1> USE DEF durable, source
<1>0. pc \in PCs /\ st \in Streams
  BY DEF Types, PCs
<1>1. ASSUME st' = st PROVE SameFlow(st, st') /\ st'.reader = st.reader
  BY <1>1 DEF SameFlow
<1>2. CASE ReadPosition
  <2>1. pc.consumer = "idle" /\ pc'.consumer = "start"
    BY <1>2, ConsumerIs DEF ReadPosition
  <2>2. Sound(hand') /\ hand' # NoPosition /\ st' = st
    BY <1>2, CurrentPositionIs DEF ReadPosition, Types
  <2>3. InHand' = InHand /\ ~InHand
    BY <2>1 DEF InHand
  <2>4. Quiet
    BY <1>1, <1>2, <2>2, <2>3 DEF Quiet, Calm, ReadPosition
  <2> QED BY <2>4, QuietStep
<1>3. CASE SubscribeFails
  <2>1. pc.consumer = "start" /\ pc'.consumer = "idle"
    BY <1>3, ConsumerIs DEF SubscribeFails
  <2>2. InHand' = InHand /\ ~InHand /\ st' = st
    BY <1>3, <2>1 DEF InHand, SubscribeFails
  <2>3. Quiet
    BY <1>1, <1>3, <2>1, <2>2 DEF Quiet, Calm, SubscribeFails
  <2> QED BY <2>3, QuietStep
<1>4. CASE ReaderStops \/ ReaderFails
  <2>1. /\ st' = [st EXCEPT !.reader = "ended"] /\ st.reader = "read"
        /\ UNCHANGED <<gtidOn, recorded, processed, filtered, skipped, pc, hand>>
    BY <1>4 DEF ReaderStops, ReaderFails
  <2>2. SameFlow(st, st') /\ st'.reader = "ended"
    BY <1>0, <2>1, EndingFieldsAre
  <2>3. InHand' = InHand
    BY <2>1 DEF InHand
  <2>4. pc'.consumer = "start" => Sound(hand') /\ hand' # NoPosition
    BY <2>1 DEF Rest, Starts
  <2>5. Quiet
    BY <2>1, <2>2, <2>3, <2>4 DEF Quiet, Calm
  <2> QED BY <2>5, QuietStep
<1>5. CASE LoopEnds \/ LoopBreaks
  <2>1. pc.consumer = "range" /\ pc'.consumer = "once"
    BY <1>5, ConsumerIs DEF LoopEnds, LoopBreaks
  <2>2. InHand' = InHand /\ ~InHand /\ st' = st
    BY <1>5, <2>1 DEF InHand, LoopEnds, LoopBreaks
  <2>3. Quiet
    BY <1>1, <1>5, <2>1, <2>2 DEF Quiet, Calm, LoopEnds, LoopBreaks
  <2> QED BY <2>3, QuietStep
<1>6. ASSUME NEW p \in {"consumer", "closer"}, Closing(p)
      PROVE  Rest'
  <2>1. pc[p] \in {"once", "stop", "release"}
    BY <1>6 DEF Closing, Once, Stop, ReleaseStream
  <2>2. PICK x \in {"stop", "release", "idle", "closed"} :
          /\ pc' = [pc EXCEPT ![p] = x]
          /\ p = "consumer" => x # "closed"
          /\ p = "closer" => x # "idle"
    BY <1>6 DEF Closing, Once, Stop, ReleaseStream, Returned
  <2>3. \/ pc'.consumer = pc.consumer
        \/ /\ pc.consumer \in {"once", "stop", "release"}
           /\ pc'.consumer \in {"stop", "release", "idle"}
    BY <1>0, <2>1, <2>2, PCIs
  <2>4. InHand' = InHand /\ (pc'.consumer = "start" => pc.consumer = "start")
    BY <2>3 DEF InHand
  <2>5. UNCHANGED <<gtidOn, recorded, processed, filtered, skipped, hand>>
    BY <1>6 DEF Closing, Once, Stop, ReleaseStream
  <2>6. SameFlow(st, st') /\ st'.reader = st.reader
    <3>1. \/ st' = st \/ st' = [st EXCEPT !.once = "busy", !.cancelled = TRUE]
          \/ st' = [st EXCEPT !.syncer = FALSE] \/ st' = [st EXCEPT !.once = "done"]
      BY <1>6 DEF Closing, Once, Stop, ReleaseStream
    <3>2. CASE st' = [st EXCEPT !.once = "busy", !.cancelled = TRUE]
      BY <1>0, <3>2, EndingFieldsAre
    <3>3. CASE st' = [st EXCEPT !.syncer = FALSE]
      BY <1>0, <3>3, EndingFieldsAre
    <3>4. CASE st' = [st EXCEPT !.once = "done"]
      BY <1>0, <3>4, EndingFieldsAre
    <3> QED BY <1>1, <3>1, <3>2, <3>3, <3>4
  <2>7. pc'.consumer = "start" => Sound(hand') /\ hand' # NoPosition
    BY <2>4, <2>5 DEF Rest, Starts
  <2>8. Quiet
    BY <2>4, <2>5, <2>6, <2>7 DEF Quiet, Calm
  <2> QED BY <2>8, QuietStep
<1>7. ASSUME UNCHANGED <<st, gtidOn, recorded, processed, filtered, skipped, hand>>,
             pc'.consumer = pc.consumer
      PROVE  Rest'
  <2>1. InHand' = InHand
    BY <1>7 DEF InHand
  <2>2. pc'.consumer = "start" => Sound(hand') /\ hand' # NoPosition
    BY <1>7 DEF Rest, Starts
  <2>3. Quiet
    BY <1>1, <1>7, <2>1, <2>2 DEF Quiet, Calm
  <2> QED BY <2>3, QuietStep
<1>8. CASE Close
  <2>1. pc'.consumer = pc.consumer
    BY <1>0, <1>8, PCIs DEF Close
  <2> QED BY <1>7, <1>8, <2>1 DEF Close
<1>9. CASE Write \/ Purge
  BY <1>7, <1>9 DEF Write, Purge
<1>10. CASE \E given \in SUBSET Tables :
              AddTables(given) \/ RemoveTables(given) \/ SyncTables(given)
  BY <1>7, <1>10 DEF AddTables, RemoveTables, SyncTables, SetFilter
<1> QED BY <1>2, <1>3, <1>4, <1>5, <1>6, <1>8, <1>9, <1>10

-----------------------------------------------------------------------------
(* The first state, and a crash. *)

\* Nothing has been read at first.
LEMMA InitRest ==
  ASSUME Init
  PROVE  Rest
<1>1. pc.consumer = "idle" /\ pc.closer = "none" /\ ~InHand
  BY DEF Init, InHand
<1>2. /\ st.excluded = {} /\ st.at = <<1, 0>> /\ st.resume = NoPosition /\ st.reader = "none"
      /\ st.tracker.on = FALSE /\ st.tracker.next = 0 /\ st.events = << >> /\ st.delivered = {}
  BY NoStreamIs DEF Init
<1>3. NoPosition.kind = "none" /\ Covered(NoPosition) = {}
  BY DEF NoPosition, Covered
<1>4. Last(1) \in Nat /\ st.at[1] = 1 /\ st.at[2] = 0 /\ 1 <= Len(Log) /\ Len(st.events) = 0
  BY <1>2, LastIs, LogIs, EmptySeq
<1>5. Cursor
  BY <1>2, <1>3, <1>4 DEF Cursor, Sound, Precedes, InLog
<1>6. Flow
  BY <1>1, <1>2, <1>4 DEF Flow
<1>7. Starts
  BY <1>1, <1>2, <1>3 DEF Starts, Sound, Safe, InLog, Init
<1>8. Identity
  BY <1>2 DEF Identity
<1> QED BY <1>5, <1>6, <1>7, <1>8 DEF Rest

\* A crash leaves no stream, and what was recorded and settled as it was.
LEMMA CrashStep ==
  ASSUME Types, Rest, Crash
  PROVE  Rest'
<1>1. pc'.consumer = "idle" /\ ~InHand'
  BY DEF Crash, InHand
<1>2. /\ st'.excluded = {} /\ st'.at = <<1, 0>> /\ st'.resume = NoPosition /\ st'.reader = "none"
      /\ st'.tracker.on = FALSE /\ st'.tracker.next = 0 /\ st'.events = << >>
      /\ st'.delivered = {}
  BY NoStreamIs DEF Crash
<1>3. NoPosition.kind = "none" /\ Covered(NoPosition) = {}
  BY DEF NoPosition, Covered
<1>4. Last(1) \in Nat /\ st'.at[1] = 1 /\ st'.at[2] = 0 /\ 1 <= Len(Log) /\ Len(st'.events) = 0
  BY <1>2, LastIs, LogIs, EmptySeq
<1>5. Cursor'
  BY <1>2, <1>3, <1>4 DEF Cursor, Sound, Precedes, InLog
<1>6. Flow'
  BY <1>1, <1>2, <1>4 DEF Flow
<1>7. Starts'
  BY <1>1, <1>2 DEF Rest, Starts, Sound, Safe, Crash, source
<1>8. Identity'
  BY <1>2 DEF Identity
<1> QED BY <1>5, <1>6, <1>7, <1>8 DEF Rest

-----------------------------------------------------------------------------
(* The loop's steps. *)

\* The rows a change names, as pairs of numbers.
LEMMA ChangesAre ==
  ASSUME Types
  PROVE  /\ st.at[1] \in 1 .. Len(Log) + 1 /\ st.at[2] \in Nat /\ Len(st.events) \in Nat
         /\ InHand => hand \in Changes
         /\ \A k \in 1 .. Len(st.events) : st.events[k] \in Changes
         /\ st.reader = "push" => st.pend[1] \in Changes
         /\ \A e \in Changes : /\ e.row \in Rows /\ e.row[1] \in 1 .. Len(Log) /\ e.row[2] \in Nat
                               /\ e.position \in Positions
         /\ \A r \in Rows : r[1] \in 1 .. Len(Log) /\ r[2] \in Nat
         /\ st.resume \in Positions
<1>1. st \in Streams /\ st.events \in Seq(Changes) /\ st.pend \in Seq(Changes)
      /\ st.at \in (1 .. Len(Log) + 1) \X Nat /\ st.resume \in Positions
  BY DEF Types, Streams
<1>2. \A r \in Rows : r[1] \in 1 .. Len(Log) /\ r[2] \in Nat
  BY RowIs
<1>3. \A e \in Changes : e.row \in Rows /\ e.position \in Positions
  BY DEF Changes
<1>4. st.reader = "push" => Len(st.pend) = 1
  BY DEF Types
<1>5. Len(st.events) \in Nat /\ \A k \in 1 .. Len(st.events) : st.events[k] \in Changes
  BY <1>1, LenProperties, ElementOfSeq
<1>6. st.reader = "push" => st.pend[1] \in Changes
  BY <1>1, <1>4, ElementOfSeq
<1>7. InHand => hand \in Changes
  BY DEF Types
<1> QED BY <1>1, <1>2, <1>3, <1>5, <1>6, <1>7

\* Rows are ordered as they are in the log.
LEMMA BeforeIs ==
  /\ \A q, r \in Rows : Before(q, r) => ~Before(r, q) /\ q # r
  /\ \A p, q, r \in Rows : Before(p, q) /\ Before(q, r) => Before(p, r)
<1>1. \A r \in Rows : r[1] \in Int /\ r[2] \in Int
  BY RowIs
<1> QED BY <1>1 DEF Before

\* The position of the change in hand leaves out only rows that are settled: they are
\* before it, and whatever is still on its way is not.
LEMMA RecordStep ==
  ASSUME Types, Rest, Record
  PROVE  Rest'
<1>1. pc.consumer = "record" /\ pc'.consumer = "process" /\ InHand /\ InHand'
  BY ConsumerIs DEF Record, InHand
<1>2. /\ st' = st /\ hand' = hand /\ recorded' = hand.position
      /\ UNCHANGED <<gtidOn, processed, filtered, skipped>>
  BY DEF Record, source
<1>3. Calm
  BY <1>1, <1>2 DEF Calm, SameFlow
<1>4. Cursor' /\ Flow' /\ Identity'
  BY <1>3, CalmStep
<1>5. Fit(hand) /\ hand \in Changes /\ hand.row \in Rows /\ hand.position \in Positions
      /\ hand.row[1] \in 1 .. Len(Log)
  BY <1>1, ChangesAre DEF Rest, Flow
<1>6. ASSUME NEW i \in Covered(hand.position) \ skipped
      PROVE  RowsOf(i) \subseteq processed \cup filtered
  <2>1. i \in 1 .. Len(Log)
    BY <1>5, CoveredIs DEF Txns
  <2>2. CASE i \in st.excluded
    BY <1>6, <2>2 DEF Rest, Starts
  <2>3. CASE i \notin st.excluded
    <3>1. i < hand.row[1]
      BY <1>5, <2>3 DEF Fit, Precedes
    <3> SUFFICES ASSUME NEW r \in RowsOf(i) PROVE Settled(r)
      BY DEF Settled
    <3>2. r \in Rows /\ r[1] = i
      BY <2>1, RowIs
    <3>3. Before(r, hand.row)
      BY <3>1, <3>2 DEF Before
    <3>4. Settled(r) \/ InFlight(r)
      BY <1>5, <2>3, <3>2, <3>3 DEF Fit
    <3>5. ASSUME InFlight(r) PROVE FALSE
      <4>1. \/ r = hand.row
            \/ \E k \in 1 .. Len(st.events) : r = st.events[k].row
            \/ st.reader = "push" /\ r = st.pend[1].row
        BY <3>5 DEF InFlight
      <4>2. \A k \in 1 .. Len(st.events) : Before(hand.row, st.events[k].row)
        BY <1>1 DEF Rest, Flow
      <4>3. st.reader = "push" => Before(hand.row, st.pend[1].row)
        BY <1>1 DEF Rest, Flow
      <4> QED BY <1>5, <3>2, <3>3, <4>1, <4>2, <4>3, BeforeIs
    <3> QED BY <3>4, <3>5
  <2> QED BY <2>2, <2>3
<1>7. Sound(hand.position)
  BY <1>5 DEF Fit
<1>8. Starts'
  BY <1>1, <1>2, <1>6, <1>7 DEF Rest, Starts, Sound, Safe
<1> QED BY <1>4, <1>8 DEF Rest

\* The row in hand is settled.
LEMMA ProcessStep ==
  ASSUME Types, Rest, Process
  PROVE  Rest'
<1>1. pc.consumer = "process" /\ pc'.consumer = "range" /\ InHand /\ ~InHand'
  BY ConsumerIs DEF Process, InHand
<1>2. /\ st' = st /\ processed' = processed \cup {hand.row}
      /\ UNCHANGED <<gtidOn, filtered, skipped, recorded>>
  BY DEF Process, source
<1>3. Cursor' /\ Identity'
  BY <1>2 DEF Rest, Cursor, Identity, Sound, Precedes
<1>4. \A r : Settled(r) \/ InFlight(r) => SettledNext(r) \/ InFlight(r)'
  BY <1>1, <1>2 DEF Settled, InFlight, SettledNext
<1>5. \A e : Fit(e) => FitNext(e)
  <2> SUFFICES ASSUME NEW e, Fit(e) PROVE FitNext(e)
    OBVIOUS
  <2> QED BY <1>2, <1>4, FitCarries
<1>6. Flow'
  <2>2. \A k \in 1 .. Len(st'.events) : EventNext(st'.events[k])
    BY <1>1, <1>2, <1>5 DEF Rest, Flow, EventNext
  <2>3. OrderNext
    BY <1>2 DEF Rest, Flow, OrderNext
  <2>4. st'.reader = "push" => PendNext
    BY <1>1, <1>2, <1>5 DEF Rest, Flow, PendNext
  <2>5. st'.reader \in {"read", "push"} => ReadNext
    BY <1>2, <1>4 DEF Rest, Flow, ReadNext
  <2> QED BY <1>1, <2>2, <2>3, <2>4, <2>5, FlowIs
<1>7. Starts'
  BY <1>1, <1>2 DEF Rest, Starts, Sound, Safe
<1> QED BY <1>3, <1>6, <1>7 DEF Rest

\* The channel's first change is before all others that are on their way.
LEMMA ReceiveStep ==
  ASSUME Types, Rest, Receive
  PROVE  Rest'
<1>1. pc.consumer = "range" /\ pc'.consumer = "record" /\ ~InHand /\ InHand'
  BY ConsumerIs DEF Receive, InHand
<1>2. /\ st'.reader = st.reader /\ st'.excluded = st.excluded /\ st'.at = st.at
      /\ st'.resume = st.resume /\ st'.tracker = st.tracker /\ st'.pend = st.pend
      /\ st'.delivered = st.delivered /\ Len(st.events) > 0 /\ hand' = st.events[1]
      /\ Len(st'.events) = Len(st.events) - 1 /\ Len(st.events) \in Nat
      /\ \A k \in 1 .. Len(st'.events) : st'.events[k] = st.events[k + 1]
  BY ReceiveIs, ChangesAre
<1>3. UNCHANGED <<gtidOn, recorded, processed, filtered, skipped>>
  BY DEF Receive, source, durable
<1>4. Cursor' /\ Identity' /\ Starts'
  BY <1>1, <1>2, <1>3 DEF Rest, Cursor, Identity, Starts, Sound, Precedes, Safe
<1>5. \A r : Settled(r) \/ InFlight(r) => SettledNext(r) \/ InFlight(r)'
  <2> SUFFICES ASSUME NEW r, InFlight(r) PROVE InFlight(r)'
    BY <1>3 DEF Settled, SettledNext
  <2>1. ASSUME NEW k \in 1 .. Len(st.events), r = st.events[k].row PROVE InFlight(r)'
    <3>1. CASE k = 1
      BY <1>1, <1>2, <2>1, <3>1 DEF InFlight
    <3>2. CASE k # 1
      <4>1. k - 1 \in 1 .. Len(st'.events) /\ st'.events[k - 1] = st.events[k]
        BY <1>2, <3>2
      <4> QED BY <2>1, <4>1 DEF InFlight
    <3> QED BY <3>1, <3>2
  <2>2. CASE st.reader = "push" /\ r = st.pend[1].row
    BY <1>2, <2>2 DEF InFlight
  <2> QED BY <1>1, <2>1, <2>2 DEF InFlight
<1>6. \A e : Fit(e) => FitNext(e)
  <2> SUFFICES ASSUME NEW e, Fit(e) PROVE FitNext(e)
    OBVIOUS
  <2> QED BY <1>2, <1>3, <1>5, FitCarries
<1>7. Flow'
  <2>1. HandNext
    BY <1>2, <1>6 DEF Rest, Flow, HandNext
  <2>2. \A k \in 1 .. Len(st'.events) : EventNext(st'.events[k])
    <3> SUFFICES ASSUME NEW k \in 1 .. Len(st'.events) PROVE EventNext(st'.events[k])
      OBVIOUS
    <3>1. k + 1 \in 1 .. Len(st.events) /\ 1 \in 1 .. Len(st.events) /\ 1 < k + 1
          /\ st'.events[k] = st.events[k + 1]
      BY <1>2
    <3> QED BY <1>2, <1>6, <3>1 DEF Rest, Flow, EventNext
  <2>3. OrderNext
    <3> SUFFICES ASSUME NEW j \in 1 .. Len(st'.events), NEW k \in 1 .. Len(st'.events), j < k
                 PROVE  Before(st'.events[j].row, st'.events[k].row)
      BY DEF OrderNext
    <3>1. /\ j + 1 \in 1 .. Len(st.events) /\ k + 1 \in 1 .. Len(st.events) /\ j + 1 < k + 1
          /\ st'.events[j] = st.events[j + 1] /\ st'.events[k] = st.events[k + 1]
      BY <1>2
    <3>2. \A g, h \in 1 .. Len(st.events) : g < h => Before(st.events[g].row, st.events[h].row)
      BY DEF Rest, Flow
    <3> QED BY <3>1, <3>2
  <2>4. st'.reader = "push" => PendNext
    BY <1>2, <1>6 DEF Rest, Flow, PendNext
  <2>5. st'.reader \in {"read", "push"} => ReadNext
    BY <1>2, <1>5 DEF Rest, Flow, ReadNext
  <2> QED BY <2>1, <2>2, <2>3, <2>4, <2>5, FlowIs
<1> QED BY <1>4, <1>7 DEF Rest

-----------------------------------------------------------------------------
(* The reader's steps. *)

\* The row that was read last goes to the end of the channel; when the reader gives
\* it up instead, it is after everything that is still on its way.
LEMMA PushStep ==
  ASSUME Types, Rest, Push
  PROVE  Rest'
<1>1. /\ st.reader = "push" /\ st'.excluded = st.excluded /\ st'.at = st.at
      /\ st'.resume = st.resume /\ st'.tracker = st.tracker /\ st.pend[1] \in Changes
  BY PushIs
<1>2. /\ UNCHANGED <<gtidOn, recorded, processed, filtered, skipped, pc, hand>>
      /\ InHand' = InHand
  BY DEF Push, source, durable, InHand
<1>3. /\ Fit(st.pend[1]) /\ st.at[2] > 0 /\ st.pend[1].row = <<st.at[1], st.at[2] - 1>>
      /\ st.pend[1].position = st.resume
      /\ InHand => Before(hand.row, st.pend[1].row)
  BY <1>1 DEF Rest, Flow
<1>4. st'.reader \in {"read", "ended"}
  BY PushIs
<1>5. Cursor' /\ Starts'
  BY <1>1, <1>2, <1>4 DEF Rest, Cursor, Starts, Sound, Precedes, Safe
<1>6. /\ st.at[1] \in Nat /\ st.at[2] \in Nat /\ Len(st.events) \in Nat
      /\ st.pend[1].row \in Rows /\ st.resume \in Positions
      /\ InHand => hand.row \in Rows
      /\ \A k \in 1 .. Len(st.events) : st.events[k].row \in Rows
  BY <1>1, ChangesAre
<1>7. CASE /\ st'.reader = "read" /\ Len(st'.events) = Len(st.events) + 1
           /\ \A k \in 1 .. Len(st.events) : st'.events[k] = st.events[k]
           /\ st'.events[Len(st.events) + 1] = st.pend[1]
           /\ st'.delivered = st.delivered \cup {<<st.pend[1].row[1], st.pend[1].position>>}
  <2>1. \A r : Settled(r) \/ InFlight(r) => SettledNext(r) \/ InFlight(r)'
    <3> SUFFICES ASSUME NEW r, InFlight(r) PROVE InFlight(r)'
      BY <1>2 DEF Settled, SettledNext
    <3>1. CASE InHand /\ r = hand.row
      BY <1>2, <3>1 DEF InFlight
    <3>2. ASSUME NEW k \in 1 .. Len(st.events), r = st.events[k].row PROVE InFlight(r)'
      <4>1. k \in 1 .. Len(st'.events) /\ st'.events[k] = st.events[k]
        BY <1>6, <1>7
      <4> QED BY <3>2, <4>1 DEF InFlight
    <3>3. CASE r = st.pend[1].row
      <4>1. Len(st.events) + 1 \in 1 .. Len(st'.events)
        BY <1>6, <1>7
      <4> QED BY <1>7, <3>3, <4>1 DEF InFlight
    <3> QED BY <3>1, <3>2, <3>3 DEF InFlight
  <2>2. \A e : Fit(e) => FitNext(e)
    <3> SUFFICES ASSUME NEW e, Fit(e) PROVE FitNext(e)
      OBVIOUS
    <3> QED BY <1>1, <1>2, <2>1, FitCarries
  <2>3. Flow'
    <3>1. InHand' => HandNext
      BY <1>1, <1>2, <2>2 DEF Rest, Flow, HandNext
    <3>2. \A k \in 1 .. Len(st'.events) : EventNext(st'.events[k])
      <4> SUFFICES ASSUME NEW k \in 1 .. Len(st'.events) PROVE EventNext(st'.events[k])
        OBVIOUS
      <4>1. CASE k \in 1 .. Len(st.events)
        BY <1>1, <1>2, <1>7, <2>2, <4>1 DEF Rest, Flow, EventNext
      <4>2. CASE k = Len(st.events) + 1
        <5>1. st'.events[k] = st.pend[1] /\ Before(st.pend[1].row, st.at)
          BY <1>3, <1>6, <1>7, <4>2 DEF Before
        <5> QED BY <1>1, <1>2, <1>3, <1>7, <2>2, <5>1 DEF EventNext
      <4> QED BY <1>6, <1>7, <4>1, <4>2
    <3>3. OrderNext
      <4> SUFFICES ASSUME NEW j \in 1 .. Len(st'.events), NEW k \in 1 .. Len(st'.events), j < k
                   PROVE  Before(st'.events[j].row, st'.events[k].row)
        BY DEF OrderNext
      <4>1. j \in 1 .. Len(st.events) /\ (k \in 1 .. Len(st.events) \/ k = Len(st.events) + 1)
        BY <1>6, <1>7
      <4> QED BY <1>1, <1>7, <4>1 DEF Rest, Flow
    <3>4. ReadNext
      BY <1>1, <2>1 DEF Rest, Flow, ReadNext
    <3> QED BY <1>7, <3>1, <3>2, <3>3, <3>4, FlowIs
  <2>4. Identity'
    <3> DEFINE n == <<st.at[1], st.resume>>
    <3>1. st.pend[1].row[1] = st.at[1] /\ st'.delivered = st.delivered \cup {n}
      BY <1>3, <1>7
    <3>2. n[1] = st.at[1] /\ n[2] = st.resume
      OBVIOUS
    <3>3. st.at[1] \notin Covered(st.resume)
      BY <1>6 DEF Rest, Cursor, Precedes
    <3>4. Log[st.at[1]].kind = "txn"
      BY <1>6, <3>1, RowIs
    <3> HIDE DEF n
    <3>5. ASSUME NEW d \in st'.delivered
          PROVE  /\ d[1] \notin Covered(d[2])
                 /\ Log[d[1]].kind = "txn"
                 /\ d[1] < st.at[1] => d[1] \in Covered(st.resume)
                 /\ d[1] = st.at[1] => d[2] = st.resume /\ st.at[2] > 0
                 /\ d[1] <= st.at[1]
      BY <1>3, <1>6, <3>1, <3>2, <3>3, <3>4 DEF Rest, Identity
    <3>6. ASSUME NEW d \in st'.delivered, NEW e \in st'.delivered
          PROVE  /\ d[1] = e[1] => d[2] = e[2]
                 /\ d[1] < e[1] => d[1] \in Covered(e[2])
      <4>1. CASE d \in st.delivered /\ e \in st.delivered
        BY <4>1 DEF Rest, Identity
      <4>2. CASE d = n
        <5>1. e[1] \in 1 .. Len(Log)
          BY PushIs DEF Streams
        <5> QED BY <1>6, <3>2, <3>5, <4>2, <5>1, LogIs
      <4>3. CASE d \in st.delivered /\ e = n
        BY <3>2, <4>3 DEF Rest, Identity
      <4> QED BY <3>1, <4>1, <4>2, <4>3
    <3> QED BY <1>1, <3>5, <3>6 DEF Identity
  <2> QED BY <1>5, <2>3, <2>4 DEF Rest
<1>8. CASE st'.reader = "ended" /\ st'.events = st.events /\ st'.delivered = st.delivered
  <2>1. \A r : r # st.pend[1].row /\ (Settled(r) \/ InFlight(r)) => SettledNext(r) \/ InFlight(r)'
    BY <1>2, <1>8 DEF Settled, SettledNext, InFlight
  <2>2. ASSUME NEW e, Fit(e), e.row \in Rows, Before(e.row, st.pend[1].row) PROVE FitNext(e)
    <3>1. \A r \in Rows : Before(r, e.row) => r # st.pend[1].row
      BY <1>6, <2>2, BeforeIs
    <3> QED BY <1>1, <1>2, <2>1, <2>2, <3>1, FitCarries
  <2>3. Flow'
    <3>1. InHand' => HandNext
      BY <1>1, <1>2, <1>3, <1>6, <2>2 DEF Rest, Flow, HandNext
    <3>2. \A k \in 1 .. Len(st'.events) : EventNext(st'.events[k])
      BY <1>1, <1>2, <1>6, <1>8, <2>2 DEF Rest, Flow, EventNext
    <3>3. OrderNext
      BY <1>8 DEF Rest, Flow, OrderNext
    <3> QED BY <1>8, <3>1, <3>2, <3>3, FlowIs
  <2>4. Identity'
    BY <1>1, <1>8 DEF Rest, Identity
  <2> QED BY <1>5, <2>3, <2>4 DEF Rest
<1> QED BY <1>7, <1>8, PushIs

\* Where a stream begins: after what its position leaves out.
LEMMA StartStep ==
  ASSUME Types, Rest, NEW p \in Positions, Start(p), Sound(p), p # NoPosition, pc'.consumer = "range",
         \/ skipped' = skipped \cup Covered(p)
         \/ skipped' = skipped /\ Safe(p)
  PROVE  Rest'
<1>0. purged \in 0 .. Len(Log) /\ Len(Log) \in Nat /\ Len(Log) >= 1
  BY LogIs DEF Types
<1>1. /\ st'.reader = "read" /\ st'.excluded = Covered(p) /\ st'.resume = p
      /\ st'.at = <<NextElement(0, Covered(p)), 0>> /\ st'.events = << >> /\ st'.delivered = {}
      /\ st'.tracker.on = (p.kind = "gtid") /\ st'.tracker.next = 0
      /\ p.kind = "gtid" => st'.tracker.gtid = p.set
      /\ p.kind = "file" => st'.tracker.file.name = p.name
  BY <1>0, NewStreamIs DEF Start
<1>2. ~InHand' /\ UNCHANGED <<gtidOn, recorded, processed, filtered>> /\ Len(st'.events) = 0
  BY <1>1, EmptySeq DEF InHand, Start, source
<1> DEFINE i == NextElement(0, Covered(p))
<1>3. /\ i \in 1 .. Len(Log) + 1 /\ i > purged /\ i \notin Covered(p)
      /\ \A h \in 1 .. i - 1 : h <= purged \/ h \in Covered(p)
  <2>1. Covered(p) \in SUBSET Txns(Len(Log)) /\ 0 \in 0 .. Len(Log)
    BY <1>0, CoveredIs
  <2>2. 0 + 1 = 1
    OBVIOUS
  <2> QED BY <1>0, <2>1, <2>2, NextElementIs
<1>4. Served(p)
  BY DEF Start
\* What is before it is left out: expired transactions have to be.
<1>5. \A h \in 1 .. i - 1 : h \in Txns(Len(Log)) => h \in Covered(p)
  <2> SUFFICES ASSUME NEW h \in 1 .. i - 1, h \in Txns(Len(Log)) PROVE h \in Covered(p)
    OBVIOUS
  <2>1. h <= purged => h \in Txns(purged)
    BY <1>0, <1>3 DEF Txns
  <2> QED BY <1>3, <1>4, <2>1 DEF Served
<1> HIDE DEF i
<1>6. st'.at[1] = i /\ st'.at[2] = 0
  BY <1>1 DEF i
<1>7. Cursor'
  <2>1. i \notin st'.excluded /\ (0 <= IF i <= Len(Log) THEN Last(i) ELSE 0)
    BY <1>0, <1>1, <1>3, LastIs
  <2>2. Sound(st.resume)'
    BY <1>1, <1>2 DEF Sound
  <2>3. Precedes(st.resume, st.at[1])'
    BY <1>1 DEF Precedes
  <2>4. (st.tracker.on => gtidOn /\ st.resume = GTID(st.tracker.gtid))'
    <3>1. CASE p.kind = "gtid"
      <4>1. p = GTID(p.set)
        BY <3>1, PositionIs DEF GTID, NoPosition
      <4> QED BY <1>1, <1>2, <3>1, <4>1 DEF Sound, GTID
    <3> QED BY <1>1, <3>1
  <2>5. (~st.tracker.on => st.resume.kind # "gtid")'
    BY <1>1
  <2>6. (~st.tracker.on /\ st.reader # "none" =>
           \/ st.at[1] <= Len(Log) /\ Log[st.at[1]].kind = "rotate"
           \/ st.tracker.file.name = FileAfter(st.at[1] - 1))'
    <3> SUFFICES ASSUME p.kind # "gtid", ~(i <= Len(Log) /\ Log[i].kind = "rotate")
                 PROVE  st'.tracker.file.name = FileAfter(i - 1)
      BY <1>1, <1>6
    <3>1. p.kind = "file"
      BY PositionIs
    <3> DEFINE m == p.pos[1]
    <3>2. /\ m \in 0 .. Len(Log) /\ Covered(p) = Txns(m) /\ p.name = FileAfter(m)
          /\ p.name >= FileAfter(purged) /\ st'.tracker.file.name = p.name
      BY <1>1, <1>4, <3>1, CoveredIs DEF Served, InLog
    <3> HIDE DEF m
    \* Had the file expired, the rotation that ended it would be past m.
    <3>3. purged <= m
      <4> SUFFICES ASSUME m < purged PROVE FALSE
        BY <1>0, <3>2
      <4>1. purged \in 1 .. Len(Log) /\ m \in 0 .. purged - 1 /\ Log[purged].kind = "rotate"
        BY <1>0, <3>2 DEF Types
      <4>2. FileAfter(m) < FileAfter(purged) /\ FileAfter(m) \in Nat /\ FileAfter(purged) \in Nat
        BY <1>0, <3>2, <4>1, FileMoves, FileAfterIs
      <4> QED BY <3>2, <4>2
    <3>4. i - 1 <= m
      <4> SUFFICES ASSUME m < i - 1 PROVE FALSE
        BY <1>0, <1>3, <3>2
      <4>1. i - 1 \in 1 .. i - 1 /\ ~(i - 1 <= purged) /\ i - 1 \notin Txns(m)
        BY <1>0, <1>3, <3>2, <3>3 DEF Txns
      <4> QED BY <1>3, <3>2, <4>1
    <3>5. i > m
      BY <1>0, <1>3, <3>2 DEF Txns
    <3>6. i - 1 = m
      BY <1>0, <1>3, <3>2, <3>4, <3>5
    <3> QED BY <3>2, <3>6
  <2> QED BY <1>1, <1>3, <1>6, <2>1, <2>2, <2>3, <2>4, <2>5, <2>6 DEF Cursor
<1>8. Flow'
  <2>1. ReadNext
    <3> SUFFICES ASSUME NEW r \in Rows, Before(r, st'.at), r[1] \notin st'.excluded PROVE FALSE
      BY DEF ReadNext
    <3>1. r[1] \in 1 .. Len(Log) /\ r[2] \in Nat /\ Log[r[1]].kind = "txn"
      BY RowIs
    <3>2. r[1] < i
      BY <1>3, <1>6, <3>1 DEF Before
    <3>3. r[1] \in Txns(Len(Log))
      BY <3>1 DEF Txns
    <3> QED BY <1>0, <1>1, <1>3, <1>5, <3>1, <3>2, <3>3
  <2>2. OrderNext /\ \A k \in 1 .. Len(st'.events) : EventNext(st'.events[k])
    BY <1>2 DEF OrderNext
  <2> QED BY <1>1, <1>2, <2>1, <2>2, FlowIs
<1>9. Starts'
  BY <1>1, <1>2 DEF Rest, Starts, Sound, Safe
<1>10. Identity'
  BY <1>1 DEF Identity
<1> QED BY <1>7, <1>8, <1>9, <1>10 DEF Rest

\* A turn of run that ends a transaction: the new position leaves out this transaction
\* and what the old one left out, and nothing that is after it.
LEMMA CommitIs ==
  ASSUME Types, Cursor, ReadEvent, Commits(st.at[1], st.at[2])
  PROVE  /\ Sound(st'.resume) /\ Covered(st.resume) \cap 1 .. st.at[1] \subseteq Covered(st'.resume)
         /\ st.at[1] \in Covered(st'.resume)
         /\ \A j \in Covered(st'.resume) : j \in Covered(st.resume) \/ j <= st.at[1]
         /\ \A j \in 1 .. st.at[1] : ~st.tracker.on /\ Log[j].kind = "txn" => j \in Covered(st'.resume)
         /\ st'.tracker.on = st.tracker.on /\ st'.tracker.next <= st.at[1]
         /\ st'.tracker.on => st'.resume = GTID(st'.tracker.gtid)
         /\ ~st'.tracker.on => st'.resume.kind # "gtid" /\ st'.tracker.file.name = FileAfter(st.at[1])
<1> DEFINE i == st.at[1]
           k == st.at[2]
           t == Observe(st.tracker, i, k)
<1>1. /\ i \in 1 .. Len(Log) /\ k \in Nat /\ st.reader = "read"
      /\ st'.tracker = Commit(t) /\ st'.resume = CommitPosition(t)
      /\ t \in Trackers /\ t.on = st.tracker.on /\ t.gtid = st.tracker.gtid
      /\ t.next = NextGTID(i, k, st.tracker.next) /\ t.file.pos = <<i, k>>
      /\ Log[i].kind # "rotate" => t.file.name = st.tracker.file.name
  BY ReadEventIs
<1>2. Log[i].kind = "txn" /\ k = Last(i) /\ k > 0 /\ i \in Txns(Len(Log)) /\ i \in Txns(i)
  BY <1>1, LastIs, LogIs DEF Commits, Txns
<1>3. gtidOn => st.tracker.next = i
  BY <1>2 DEF Cursor
<1> HIDE DEF t, i, k
<1>4. NextGTID(i, k, st.tracker.next) = st.tracker.next
  BY <1>1, <1>2 DEF NextGTID
<1>5. PICK x \in Trackers : x = t
  BY <1>1
<1>6. CASE st.tracker.on
  <2>1. gtidOn /\ st.resume = GTID(st.tracker.gtid) /\ x.gtid \in SUBSET Txns(Len(Log))
    BY <1>1, <1>5, <1>6 DEF Cursor, Trackers
  <2>2. x.next = i /\ x.on /\ i # 0
    <3>1. x.on
      BY <1>1, <1>5, <1>6, Zenon
    <3>2. x.next = i
      BY <1>1, <1>3, <1>4, <1>5, <2>1, Zenon
    <3> QED BY <1>1, <3>1, <3>2
  <2>3. PICK s \in SUBSET Txns(Len(Log)) : s = x.gtid \cup {i}
    BY <1>2, <2>1
  <2>4. st'.resume = GTID(s)
    BY <1>1, <1>5, <2>2, <2>3 DEF CommitPosition
  <2>5. st'.tracker = [x EXCEPT !.gtid = s, !.next = 0]
    BY <1>1, <1>5, <2>2, <2>3 DEF Commit
  <2>6. st'.tracker.gtid = s /\ st'.tracker.next = 0 /\ st'.tracker.on = x.on
    BY <2>5 DEF Trackers
  <2>7. Covered(st'.resume) = s /\ Covered(st.resume) = x.gtid /\ st'.resume.kind = "gtid"
    BY <1>1, <1>5, <2>1, <2>3, <2>4, GTIDIs
  <2>8. Sound(st'.resume)
    BY <2>1, <2>7 DEF Sound, InLog
  <2>9. i \in s /\ x.gtid \subseteq s /\ \A j \in s : j \in x.gtid \/ j <= i
    BY <1>1, <2>3
  <2> QED BY <1>1, <1>5, <1>6, <2>2, <2>4, <2>6, <2>7, <2>8, <2>9 DEF i
<1>7. CASE ~st.tracker.on
  <2>1. ~x.on /\ st'.tracker = x /\ st'.resume = File(x.file)
    BY <1>1, <1>5, <1>7 DEF Commit, CommitPosition
  <2>2. x.file.name = FileAfter(i - 1) /\ x.file.pos = <<i, k>>
    BY <1>1, <1>2, <1>5, <1>7 DEF Cursor, i
  <2>3. FileAfter(i) = FileAfter(i - 1) /\ FileAfter(i - 1) \in 0 .. Len(Log)
    <3>1. i - 1 \in 0 .. Len(Log) /\ i \in i - 1 .. Len(Log)
      BY <1>1, LogIs
    <3>2. \A h \in (i - 1) + 1 .. i : Log[h].kind # "rotate"
      BY <1>1, <1>2
    <3> QED BY <3>1, <3>2, FileStays, FileAfterIs
  <2>4. PICK n \in 0 .. Len(Log) : n = FileAfter(i)
    BY <2>3
  <2>5. st'.resume = File([name |-> n, pos |-> <<i, k>>])
    BY <2>1, <2>2, <2>3, <2>4 DEF File
  <2>6. /\ Covered(st'.resume) = Txns(i) /\ st'.resume.kind = "file" /\ st'.resume.name = n
        /\ st'.resume.pos = <<i, k>>
    BY <1>1, <2>4, <2>5, FileIs
  <2>7. Sound(st'.resume)
    BY <1>1, <1>2, <2>4, <2>6 DEF Sound, InLog
  <2>8. st.resume \in Positions
    BY DEF Types, Streams
  <2>9. Covered(st.resume) \cap 1 .. i \subseteq Txns(i)
    BY <1>1, <2>8, CoveredIs DEF Txns
  <2>10. x.next <= i
    BY <1>1, <1>5 DEF Cursor, NextGTID, i, k
  <2>11. \A j \in 1 .. i : Log[j].kind = "txn" => j \in Txns(i)
    BY DEF Txns
  <2> QED BY <1>1, <1>2, <1>5, <1>7, <2>1, <2>2, <2>3, <2>6, <2>7, <2>9, <2>10, <2>11 DEF i, Txns
<1> QED BY <1>6, <1>7

\* A turn of run: nothing is passed over between this event and the next, a row
\* carries the position from before its transaction, and the tracker's file and set
\* are those of the place where it stands.
LEMMA ReadEventStep ==
  ASSUME Types, Rest, ReadEvent
  PROVE  Rest'
<1> DEFINE i == st.at[1]
           k == st.at[2]
           t == Observe(st.tracker, i, k)
           row == IsRow(i, k) /\ Allows(Log[i].rows[k])
           j == NextElement(i, st.excluded)
<1>1. /\ i \in 1 .. Len(Log) /\ k \in Nat /\ purged < i /\ st.reader = "read"
      /\ st'.excluded = st.excluded /\ st'.events = st.events /\ st'.delivered = st.delivered
      /\ k < Last(i) => st'.at = <<i, k + 1>>
      /\ k >= Last(i) => st'.at = <<j, 0>>
      /\ ~Commits(i, k) => st'.tracker = t /\ st'.resume = st.resume
      /\ row => st'.pend = <<Change(st.at, st.resume)>> /\ st'.reader = "push"
      /\ ~row => st'.pend = st.pend /\ st'.reader = "read"
      /\ filtered' = IF IsRow(i, k) /\ ~row THEN filtered \cup {st.at} ELSE filtered
  BY ReadEventIs
<1>2. /\ t.on = st.tracker.on /\ t.gtid = st.tracker.gtid
      /\ t.next = NextGTID(i, k, st.tracker.next)
      /\ Log[i].kind = "rotate" => t.file.name = FileAfter(i)
      /\ Log[i].kind # "rotate" => t.file.name = st.tracker.file.name
  BY ReadEventIs
<1>3. /\ UNCHANGED <<gtidOn, recorded, processed, skipped, pc, hand>> /\ InHand' = InHand
      /\ st.at = <<i, k>> /\ st.excluded \in SUBSET Txns(Len(Log)) /\ st.resume \in Positions
      /\ st.tracker.next \in Nat
  <2>1. UNCHANGED <<gtidOn, recorded, processed, skipped, pc, hand>> /\ InHand' = InHand
    BY DEF ReadEvent, source, InHand
  <2>2. /\ st.at \in (1 .. Len(Log) + 1) \X Nat /\ st.excluded \in SUBSET Txns(Len(Log))
        /\ st.resume \in Positions /\ st.tracker \in Trackers
    BY DEF Types, Streams
  <2>3. st.tracker.next \in Nat
    BY <2>2 DEF Trackers, Txns
  <2>4. st.at = <<i, k>>
    BY <2>2
  <2> QED BY <2>1, <2>2, <2>3, <2>4
<1>4. /\ i \notin st.excluded /\ k <= Last(i) /\ Last(i) \in Nat
  BY <1>1, LastIs DEF Rest, Cursor
<1>5. /\ j \in i + 1 .. Len(Log) + 1 /\ j \notin st.excluded
      /\ \A h \in i + 1 .. j - 1 : h \in st.excluded
  <2>1. purged \in 0 .. Len(Log) /\ i \in 0 .. Len(Log)
    BY <1>1, LogIs DEF Types
  <2>2. /\ j \in i + 1 .. Len(Log) + 1 /\ j \notin st.excluded
        /\ \A h \in i + 1 .. j - 1 : h <= purged \/ h \in st.excluded
    BY <1>3, <2>1, NextElementIs
  <2> QED BY <1>1, <2>1, <2>2
<1>6. \/ /\ st'.at = <<i, k + 1>> /\ k < Last(i) /\ ~Commits(i, k) /\ Log[i].kind # "rotate"
      \/ st'.at = <<j, 0>> /\ k = Last(i)
  <2>1. Log[i].kind = "rotate" => Last(i) = 0
    BY <1>1, LastIs
  <2> QED BY <1>1, <1>4, <2>1 DEF Commits
<1>7. row => st'.at = <<i, k + 1>> /\ ~Commits(i, k) /\ k < Last(i)
  <2>1. row => Log[i].kind = "txn" /\ k <= Len(Log[i].rows) /\ Len(Log[i].rows) \in Nat
    BY <1>1, LogIs DEF IsRow
  <2>2. row => k < Last(i)
    BY <1>1, <2>1, LastIs
  <2>3. k < Last(i) => ~Commits(i, k)
    BY <1>1, <1>4 DEF Commits
  <2> QED BY <1>1, <2>2, <2>3
<1> HIDE DEF i, k, t, row, j
<1>8. IsRow(i, k) => row \/ SettledNext(st.at)
  BY <1>1 DEF SettledNext
<1>9. st'.at[1] \in Int /\ st'.at[2] \in Int /\ i <= st'.at[1]
      /\ \A r \in Rows : Before(r, st.at) => Before(r, st'.at)
  <2>1. \A r \in Rows : r[1] \in Int /\ r[2] \in Int
    BY RowIs
  <2>2. CASE st'.at = <<i, k + 1>>
    BY <1>1, <1>3, <2>1, <2>2 DEF Before
  <2>3. CASE st'.at = <<j, 0>>
    BY <1>1, <1>3, <1>5, <2>1, <2>3 DEF Before
  <2> QED BY <1>6, <2>2, <2>3
<1>10. \A r : Settled(r) \/ InFlight(r) => SettledNext(r) \/ InFlight(r)'
  <2>1. \A r : Settled(r) => SettledNext(r)
    BY <1>1, <1>3 DEF Settled, SettledNext
  <2>2. \A r : InFlight(r) => InFlight(r)'
    BY <1>1, <1>3 DEF InFlight
  <2> QED BY <2>1, <2>2
<1>11. \A e : Fit(e) => FitNext(e)
  <2> SUFFICES ASSUME NEW e, Fit(e) PROVE FitNext(e)
    OBVIOUS
  <2> QED BY <1>1, <1>3, <1>10, FitCarries
\* The change a row event becomes.
<1>12. row => /\ st'.pend[1].row = st.at /\ st'.pend[1].position = st.resume
              /\ st'.resume = st.resume /\ FitNext(st'.pend[1])
  <2> SUFFICES ASSUME row
               PROVE  /\ st'.pend[1].row = st.at /\ st'.pend[1].position = st.resume
                      /\ st'.resume = st.resume /\ FitNext(st'.pend[1])
    OBVIOUS
  <2>1. PICK e : e = st'.pend[1] /\ e.row = st.at /\ e.position = st.resume
    BY <1>1 DEF Change
  <2>2. e.row[1] = i
    BY <1>3, <2>1
  <2>3. Sound(st.resume) /\ Precedes(st.resume, i)
    BY DEF Rest, Cursor, i
  <2>4. \A r \in Rows : Before(r, st.at) /\ r[1] \notin st.excluded => Settled(r) \/ InFlight(r)
    BY <1>1 DEF Rest, Flow
  <2>5. Fit(e)
    BY <1>4, <2>1, <2>2, <2>3, <2>4 DEF Fit
  <2> QED BY <1>1, <1>7, <1>11, <2>1, <2>5
<1>13. Flow'
  <2>1. InHand => hand.row \in Rows
    BY ChangesAre
  <2>2. InHand' => HandNext
    BY <1>3, <1>9, <1>11, <2>1 DEF Rest, Flow, HandNext
  <2>3. \A n \in 1 .. Len(st.events) : st.events[n].row \in Rows
    BY ChangesAre
  <2>4. \A n \in 1 .. Len(st'.events) : EventNext(st'.events[n])
    <3> SUFFICES ASSUME NEW n \in 1 .. Len(st.events) PROVE EventNext(st.events[n])
      BY <1>1
    <3>1. /\ Fit(st.events[n]) /\ Before(st.events[n].row, st.at)
          /\ InHand => Before(hand.row, st.events[n].row)
      BY DEF Rest, Flow
    <3>2. st'.reader = "push" => st'.pend[1].row = st.at
      BY <1>1, <1>12
    <3> QED BY <1>3, <1>9, <1>11, <2>3, <3>1, <3>2 DEF EventNext
  <2>5. OrderNext
    BY <1>1 DEF Rest, Flow, OrderNext
  <2>6. st'.reader = "push" => PendNext
    <3> SUFFICES ASSUME row PROVE PendNext
      BY <1>1
    <3>1. st'.at[1] = i /\ st'.at[2] = k + 1 /\ st.at = <<i, (k + 1) - 1>>
      BY <1>1, <1>3, <1>7
    <3>2. InHand' => Before(hand'.row, st.at)
      BY <1>3 DEF Rest, Flow
    <3> QED BY <1>1, <1>12, <3>1, <3>2 DEF PendNext
  <2>7. ReadNext
    <3> SUFFICES ASSUME NEW r \in Rows, Before(r, st'.at), r[1] \notin st.excluded
                 PROVE  SettledNext(r) \/ InFlight(r)'
      BY <1>1 DEF ReadNext
    <3>1. CASE Before(r, st.at)
      BY <1>1, <1>10, <3>1 DEF Rest, Flow
    <3>2. CASE r = st.at
      <4>1. IsRow(i, k)
        BY <1>3, <3>2, RowIs DEF IsRow
      <4>2. row => InFlight(r)'
        BY <1>1, <1>12, <3>2 DEF InFlight
      <4> QED BY <1>8, <3>2, <4>1, <4>2
    <3>3. CASE ~Before(r, st.at) /\ r # st.at
      <4>1. /\ r[1] \in 1 .. Len(Log) /\ r[2] \in 1 .. Len(Log[r[1]].rows) /\ r = <<r[1], r[2]>>
            /\ Log[r[1]].kind = "txn" /\ Len(Log[r[1]].rows) \in Nat
        BY RowIs, LogIs
      <4>2. r[1] > i \/ (r[1] = i /\ r[2] > k)
        BY <1>1, <1>3, <3>3, <4>1 DEF Before
      <4>3. r[2] < Last(r[1])
        BY <4>1, LastIs
      <4>4. CASE st'.at = <<i, k + 1>>
        BY <1>1, <4>1, <4>2, <4>4 DEF Before
      <4>5. CASE st'.at = <<j, 0>> /\ k = Last(i)
        <5>1. r[1] < j
          BY <1>5, <4>1, <4>5 DEF Before
        <5>2. r[1] # i
          BY <1>1, <4>1, <4>2, <4>3, <4>5
        <5> QED BY <1>1, <1>5, <4>1, <4>2, <5>1, <5>2
      <4> QED BY <1>6, <4>4, <4>5
    <3> QED BY <3>1, <3>2, <3>3
  <2> QED BY <2>2, <2>4, <2>5, <2>6, <2>7, FlowIs
<1>14. Starts'
  <2>1. filtered \subseteq filtered'
    BY <1>1
  <2> QED BY <1>1, <1>3, <2>1 DEF Rest, Starts, Sound, Safe
\* What the tracker knew before this event.
<1>15. /\ Sound(st.resume) /\ (\A h \in Covered(st.resume) : h \in st.excluded \/ h < i)
       /\ st.tracker.on => gtidOn /\ st.resume = GTID(st.tracker.gtid)
       /\ ~st.tracker.on => st.resume.kind # "gtid"
       /\ st.tracker.next <= i /\ (gtidOn /\ k > 0 => st.tracker.next = i)
       /\ ~st.tracker.on => Log[i].kind = "rotate" \/ st.tracker.file.name = FileAfter(i - 1)
  BY <1>1 DEF Rest, Cursor, Precedes, i, k
\* And after it, for an event that ends no transaction.
<1>16. ~Commits(i, k) =>
       /\ st'.resume = st.resume /\ st'.tracker.on = st.tracker.on
       /\ st'.tracker.gtid = st.tracker.gtid
       /\ st'.tracker.next <= i /\ (gtidOn /\ Log[i].kind # "rotate" => st'.tracker.next = i)
       /\ ~st.tracker.on /\ Log[i].kind # "rotate" => st'.tracker.file.name = FileAfter(i - 1)
       /\ ~st.tracker.on /\ Log[i].kind = "rotate" => st'.tracker.file.name = FileAfter(i)
  <2> SUFFICES ASSUME ~Commits(i, k)
               PROVE  /\ st'.resume = st.resume /\ st'.tracker.on = st.tracker.on
                      /\ st'.tracker.gtid = st.tracker.gtid
                      /\ st'.tracker.next <= i
                      /\ gtidOn /\ Log[i].kind # "rotate" => st'.tracker.next = i
                      /\ ~st.tracker.on /\ Log[i].kind # "rotate" =>
                           st'.tracker.file.name = FileAfter(i - 1)
                      /\ ~st.tracker.on /\ Log[i].kind = "rotate" =>
                           st'.tracker.file.name = FileAfter(i)
    OBVIOUS
  <2>1. st'.tracker = t /\ st'.resume = st.resume
    BY <1>1
  <2>2. t.next <= i /\ (gtidOn /\ Log[i].kind # "rotate" => t.next = i)
    BY <1>1, <1>2, <1>3, <1>15 DEF NextGTID
  <2>3. t.file.name = IF Log[i].kind = "rotate" THEN FileAfter(i) ELSE st.tracker.file.name
    BY <1>2
  <2> QED BY <1>2, <1>15, <2>1, <2>2, <2>3
<1>17. CASE st'.at = <<i, k + 1>> /\ k < Last(i) /\ ~Commits(i, k) /\ Log[i].kind # "rotate"
  <2>1. st'.at[1] = i /\ st'.at[2] = k + 1 /\ k + 1 > 0 /\ k + 1 <= Last(i) /\ k + 1 # 0
    BY <1>1, <1>4, <1>17
  <2>2. Sound(st.resume)' /\ Precedes(st.resume, st.at[1])'
    BY <1>1, <1>3, <1>15, <1>16, <1>17, <2>1 DEF Sound, Precedes
  <2>3. Cursor'
    BY <1>1, <1>3, <1>4, <1>15, <1>16, <1>17, <2>1, <2>2 DEF Cursor
  <2>4. Identity'
    <3>1. \A d \in st.delivered :
            /\ d[1] \notin Covered(d[2])
            /\ Log[d[1]].kind = "txn"
            /\ d[1] < i => d[1] \in Covered(st.resume)
            /\ d[1] = i => d[2] = st.resume
            /\ d[1] <= i
      BY DEF Rest, Identity, i
    <3>2. \A d, e \in st.delivered :
            /\ d[1] = e[1] => d[2] = e[2]
            /\ d[1] < e[1] => d[1] \in Covered(e[2])
      BY DEF Rest, Identity
    <3> QED BY <1>1, <1>16, <1>17, <2>1, <3>1, <3>2 DEF Identity
  <2> QED BY <1>13, <1>14, <2>3, <2>4 DEF Rest
<1>18. CASE st'.at = <<j, 0>> /\ k = Last(i)
  <2>1. st'.at[1] = j /\ st'.at[2] = 0 /\ i < j /\ j <= Len(Log) + 1
    BY <1>1, <1>5, <1>18
  \* No rotation between this element and the next one that is sent.
  <2>2. FileAfter(j - 1) = FileAfter(i) /\ (Log[i].kind # "rotate" => FileAfter(i - 1) = FileAfter(i))
    <3>1. i \in 0 .. Len(Log) /\ j - 1 \in i .. Len(Log) /\ i - 1 \in 0 .. Len(Log)
          /\ i \in i - 1 .. Len(Log)
      BY <1>1, <1>5, LogIs
    <3>2. \A h \in i + 1 .. j - 1 : Log[h].kind # "rotate"
      BY <1>3, <1>5 DEF Txns
    <3>3. FileAfter(j - 1) = FileAfter(i)
      BY <3>1, <3>2, FileStays
    <3>4. Log[i].kind # "rotate" => \A h \in (i - 1) + 1 .. i : Log[h].kind # "rotate"
      BY <1>1
    <3>5. Log[i].kind # "rotate" => FileAfter(i) = FileAfter(i - 1)
      BY <3>1, <3>4, FileStays
    <3> QED BY <3>3, <3>5
  <2>3. /\ Sound(st'.resume) /\ st'.tracker.on = st.tracker.on /\ st'.tracker.next <= i
        /\ \A h \in Covered(st'.resume) : h \in Covered(st.resume) \/ h <= i
        /\ st'.tracker.on => st'.resume = GTID(st'.tracker.gtid)
        /\ ~st'.tracker.on => st'.resume.kind # "gtid" /\ st'.tracker.file.name = FileAfter(i)
    <3>1. CASE Commits(i, k)
      BY <3>1, CommitIs DEF Rest, i, k
    <3>2. CASE ~Commits(i, k)
      BY <1>15, <1>16, <2>2, <3>2
    <3> QED BY <3>1, <3>2
  <2>4. st'.tracker.next \in Int
    <3>1. st' \in Streams
      BY ReadEventIs
    <3> QED BY <3>1 DEF Streams, Trackers, Txns
  <2>5. \A h \in Covered(st'.resume) : h \in st.excluded \/ h < j
    <3> SUFFICES ASSUME NEW h \in Covered(st'.resume), h \notin st.excluded PROVE h < j
      OBVIOUS
    <3>1. st'.resume \in Positions
      BY ReadEventIs DEF Streams
    <3>2. h \in Int
      BY <3>1, CoveredIs DEF Txns
    <3>3. h <= i
      BY <1>1, <1>15, <2>3, <3>2
    <3> QED BY <1>1, <1>5, <2>1, <3>2, <3>3
  <2>6. Cursor'
    <3>1. 0 <= (IF j <= Len(Log) THEN Last(j) ELSE 0)
      BY <1>1, <1>5, LastIs
    <3>2. Sound(st.resume)' /\ Precedes(st.resume, st.at[1])'
      BY <1>1, <1>3, <2>1, <2>3, <2>5 DEF Sound, Precedes
    <3>3. st'.tracker.next <= j /\ st'.tracker.next < j
      BY <1>1, <1>5, <2>1, <2>3, <2>4
    <3> QED BY <1>1, <1>3, <1>5, <1>15, <2>1, <2>2, <2>3, <3>1, <3>2, <3>3 DEF Cursor
  <2>7. Identity'
    <3>1. \A d \in st.delivered :
            /\ d[1] \notin Covered(d[2])
            /\ Log[d[1]].kind = "txn"
            /\ d[1] < i => d[1] \in Covered(st.resume)
            /\ d[1] <= i
      BY DEF Rest, Identity, i
    <3>2. \A d, e \in st.delivered :
            /\ d[1] = e[1] => d[2] = e[2]
            /\ d[1] < e[1] => d[1] \in Covered(e[2])
      BY DEF Rest, Identity
    <3>3. \A d \in st.delivered : d[1] \in 1 .. Len(Log)
      BY DEF Types, Streams
    <3>4. ASSUME NEW d \in st.delivered PROVE d[1] \in Covered(st'.resume)
      <4>1. CASE Commits(i, k)
        <5>1. /\ Covered(st.resume) \cap 1 .. i \subseteq Covered(st'.resume)
              /\ i \in Covered(st'.resume)
          BY <4>1, CommitIs DEF Rest, i, k
        <5> QED BY <1>1, <3>1, <3>3, <5>1
      <4>2. CASE ~Commits(i, k)
        <5>1. d[1] # i
          BY <1>18, <3>1, <4>2 DEF Commits
        <5> QED BY <1>1, <1>16, <3>1, <3>3, <4>2, <5>1
      <4> QED BY <4>1, <4>2
    <3>5. \A d \in st.delivered : d[1] < j /\ d[1] # j /\ d[1] <= j
      BY <1>1, <1>5, <3>1, <3>3
    <3> QED BY <1>1, <2>1, <3>1, <3>2, <3>4, <3>5 DEF Identity
  <2> QED BY <1>13, <1>14, <2>6, <2>7 DEF Rest
<1> QED BY <1>6, <1>17, <1>18

-----------------------------------------------------------------------------
(* The theorems. *)

\* Every step keeps Cursor, Flow, Starts and Identity.
LEMMA StepRest ==
  ASSUME Types, Rest, Next
  PROVE  Rest'
<1>1. CASE Subscribe
  <2>1. /\ pc.consumer = "start" /\ pc'.consumer = "range" /\ hand \in Positions
        /\ Sound(hand) /\ hand # NoPosition
    BY <1>1, ConsumerIs DEF Subscribe, Types, Rest, Starts
  <2> QED BY <1>1, <2>1, StartStep DEF Subscribe
<1>2. CASE SubscribeFrom
  <2>1. /\ pc'.consumer = "range" /\ recorded \in Positions /\ Sound(recorded) /\ Safe(recorded)
        /\ recorded # NoPosition
    BY <1>2, ConsumerIs DEF SubscribeFrom, Types, Rest, Starts
  <2> QED BY <1>2, <2>1, StartStep DEF SubscribeFrom
<1> QED BY <1>1, <1>2, QuietSteps, ReadEventStep, PushStep, ReceiveStep, RecordStep, ProcessStep,
           CrashStep DEF Next, Consuming, Reading

\* The inductive invariant of the MySQL subscriber and its stream.
THEOREM StreamInvHolds == Spec => []StreamInv
<1>1. Init => StreamInv
  <2>1. ASSUME Init PROVE Ending
    BY <2>1, NoStreamIs DEF Init, Ending
  <2> QED BY <2>1, InitTypes, InitRest DEF StreamInv, Rest
<1>2. StreamInv /\ [Next]_vars => StreamInv'
  <2> SUFFICES ASSUME StreamInv, [Next]_vars PROVE StreamInv'
    OBVIOUS
  <2>1. CASE Next
    BY <2>1, StepTypes, StepEnding, StepRest DEF StreamInv, Rest
  <2>2. CASE UNCHANGED vars
    <3>1. Types'
      BY <2>2 DEF vars, source, sub, durable, StreamInv, Types, InHand
    <3>2. Ending'
      BY <2>2 DEF vars, sub, StreamInv, Ending
    <3>3. st' = st /\ pc' = pc /\ hand' = hand
          /\ UNCHANGED <<gtidOn, recorded, processed, filtered, skipped>>
      BY <2>2 DEF vars, source, durable
    <3>4. InHand' = InHand /\ SameFlow(st, st')
      BY <3>3 DEF InHand, SameFlow
    <3>5. Quiet
      BY <3>3, <3>4 DEF Quiet, Calm, StreamInv, Starts, Sound
    <3>6. Rest'
      BY <3>5, QuietStep DEF StreamInv, Rest
    <3> QED BY <3>1, <3>2, <3>6 DEF StreamInv, Rest
  <2> QED BY <2>1, <2>2
<1> QED BY <1>1, <1>2, PTL DEF Spec

\* A crash, a broken connection or an abandoned loop loses nothing: what the
\* recorded position keeps out of the next stream has been processed or filtered
\* (event_stream.go:72-73, 119-123), for every log.
THEOREM DeliveryIsAtLeastOnce == Spec => []AtLeastOnce
<1>1. StreamInv => AtLeastOnce
  BY DEF StreamInv, Starts, Safe, AtLeastOnce
<1> QED BY <1>1, StreamInvHolds, PTL

\* Every recorded position names the end of an element of the log, in the file that
\* element is in (tracker.observe and commit, position.go), for every log.
THEOREM PositionsAreServed == Spec => []PositionIsServed
<1>1. StreamInv => PositionIsServed
  BY DEF StreamInv, Starts, Sound, PositionIsServed
<1> QED BY <1>1, StreamInvHolds, PTL

\* Types; within a stream a transaction and its position are one and the same to a
\* consumer (decoder.go:20-22); no reader without its syncer and none after Close
\* (event_stream.go:101-103, subscriber.go:358).
THEOREM StreamIsSound == Spec => []Inv
<1>1. StreamInv => TypeOK
  <2> SUFFICES ASSUME StreamInv PROVE TypeOK
    OBVIOUS
  <2>1. Types /\ st \in Streams
    BY DEF StreamInv, Types
  <2>2. ASSUME NEW p \in Positions PROVE IsPosition(p)
    BY PositionIs, CoveredIs DEF IsPosition
  <2>3. IsPosition(st.resume) /\ IsPosition(recorded)
    BY <2>1, <2>2 DEF Types, Streams
  <2>4. {closed, streaming, stream, st.syncer, st.cancelled} \subseteq BOOLEAN
    BY <2>1 DEF Types, Streams
  <2>5. st.once \in {"new", "busy", "done"} /\ st.reader \in {"none", "read", "push", "ended"}
    BY <2>1 DEF Streams
  <2>6. pc \in PCs
    BY <2>1 DEF Types
  <2> QED BY <2>1, <2>3, <2>4, <2>5, <2>6 DEF Types, TypeOK, PCs
<1>2. StreamInv => TransactionIsIdentity
  <2> SUFFICES ASSUME StreamInv, NEW d \in st.delivered, NEW e \in st.delivered
               PROVE  d[1] = e[1] <=> d[2] = e[2]
    BY DEF TransactionIsIdentity
  <2>1. d[1] \in Int /\ e[1] \in Int
    BY DEF StreamInv, Types, Streams
  <2>2. /\ d[1] = e[1] => d[2] = e[2]
        /\ d[1] < e[1] => d[1] \in Covered(e[2])
        /\ e[1] < d[1] => e[1] \in Covered(d[2])
        /\ d[1] \notin Covered(d[2]) /\ e[1] \notin Covered(e[2])
    BY DEF StreamInv, Identity
  <2> QED BY <2>1, <2>2
<1>3. StreamInv => SyncerOutlivesReader /\ CloseStops
  BY DEF StreamInv, Ending, SyncerOutlivesReader, CloseStops
<1> QED BY <1>1, <1>2, <1>3, StreamInvHolds, PTL DEF Inv
=============================================================================
