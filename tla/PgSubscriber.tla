----------------------------- MODULE PgSubscriber -----------------------------
(***************************************************************************)
(* The PostgreSQL subscriber (pkg/vendors/postgres/cdc/subscriber.go): the *)
(* two kinds of connection it keeps apart, the one stream it may have      *)
(* open, table, slot and publication management, and Close against all of  *)
(* them.  Every operation holds p.mu for as long as it talks to the        *)
(* server, except that Close and a stream's own Close wait outside it.     *)
(*                                                                         *)
(* The server is external: one slot with its confirmed position, one       *)
(* publication, and the rules of its statements.  A statement may fail     *)
(* before it reaches the server or after it took effect (the caller's      *)
(* context ends, the connection breaks); both close the control connection.*)
(* What a stream does while it runs is PgStream's subject.                 *)
(***************************************************************************)
EXTENDS Integers, FiniteSets

CONSTANTS
  Callers,            \* goroutines calling the subscriber and its streams
  Tables,             \* table names
  Configured,         \* Config.Tables as given to New
  StartLSN,           \* Config.StartLSN, 0 for unset
  CreatePublicationOpt, CreateSlotOpt,   \* Config.CreatePublication, CreateSlot
  Lossy,              \* whether statements and dials can fail
  MaxLsn,             \* bound: how far the server's WAL grows
  MaxStreams          \* bound: how many streams are ever started

Streams == 1 .. MaxStreams
Control == 0                          \* the control connection
Absent == -1                          \* no slot
NoPub == {"none"}                     \* no publication

ASSUME PgSubscriberAssumption ==
  /\ Configured \subseteq Tables /\ StartLSN \in 0 .. MaxLsn
  /\ {CreatePublicationOpt, CreateSlotOpt, Lossy} \subseteq BOOLEAN
  /\ MaxLsn \in Nat \ {0} /\ MaxStreams \in Nat
  /\ CreatePublicationOpt => Configured # {}

VARIABLES
  mu,          \* who holds p.mu, a set of at most one caller
  ctrl,        \* p.ctrl is not nil
  stream,      \* p.stream, 0 for nil
  streaming, closed, tables,            \* the fields of those names
  pc, work,    \* each caller's place in its operation, and its operands
  once,        \* each stream's closeOnce: "new", "busy" or "done"
  running,     \* streams whose reader has not returned
  open,        \* connections open at the server: Control or a stream's
  pub, slot, head,   \* the publication's tables, the slot's confirmed
                     \* position, the end of the WAL
  begun,       \* per stream, the position asked for and where it began
  synced,      \* the last statement on the publication was ours and answered
  closeDone    \* a Close that found the subscriber open has returned

fields == <<ctrl, stream, streaming, closed, tables>>
server == <<pub, slot, head>>
ghosts == <<begun, synced, closeDone>>
vars == <<mu, fields, pc, work, once, running, open, server, ghosts>>

NextStream == 1 + Cardinality({s \in Streams : begun[s].from # 0})
Goto(c, l) == pc' = [pc EXCEPT ![c] = l]

Lock(c) == mu = {} /\ mu' = {c}
Unlock == mu' = {}
NoWork == [s |-> 0, op |-> "none", after |-> FALSE, start |-> 0]
Return(c) == Goto(c, "idle") /\ work' = [work EXCEPT ![c] = NoWork]

\* New: nothing is dialled.
Init ==
  /\ mu = {} /\ ctrl = FALSE /\ stream = 0 /\ streaming = FALSE /\ closed = FALSE
  /\ tables = Configured
  /\ pc = [c \in Callers |-> "idle"]
  /\ work = [c \in Callers |-> NoWork]
  /\ once = [s \in Streams |-> "new"] /\ running = {} /\ open = {}
  /\ pub \in {NoPub, Configured} /\ slot \in {Absent, 1} /\ head = 1
  /\ begun = [s \in Streams |-> [asked |-> 0, from |-> 0]]
  /\ synced = FALSE /\ closeDone = FALSE

\* A statement on the connection controlConn returns, dialled again when it is
\* missing or closed.  It is answered ("ok"), never reaches the server
\* ("unsent"), or takes effect without an answer ("lost").
Statement(result) ==
  /\ result \in (IF Lossy THEN {"ok", "unsent", "lost"} ELSE {"ok"})
  /\ \/ result = "ok" /\ ctrl' = TRUE /\ open' = open \cup {Control}
     \/ result # "ok" /\ ctrl' = TRUE /\ open' = open \ {Control}
     \/ result = "unsent" /\ Control \notin open /\ ctrl' = FALSE /\ UNCHANGED open

-------------------------------------------------------------------------------
\* Mutant: a subscriber that was closed meanwhile still opens a stream.
SubscribeLockClosed(c, after, lsn) ==
  /\ pc[c] = "idle" /\ Lock(c)
  /\ ~streaming
  /\ NextStream \in Streams
  /\ work' = [work EXCEPT ![c] = [s |-> NextStream, op |-> "subscribe", after |-> after,
                                  start |-> IF after THEN lsn ELSE StartLSN]]
  /\ Goto(c, "publication")
  /\ UNCHANGED <<fields, once, running, open, server, ghosts>>

\* SubscribeFrom, under p.mu from its checks to its return.  "after" says that
\* a position was passed; without one Config.StartLSN is the start.
SubscribeLock(c, after, lsn) ==
  /\ pc[c] = "idle" /\ Lock(c)
  /\ ~closed /\ ~streaming
  /\ NextStream \in Streams
  /\ work' = [work EXCEPT ![c] = [s |-> NextStream, op |-> "subscribe", after |-> after,
                                  start |-> IF after THEN lsn ELSE StartLSN]]
  /\ Goto(c, "publication")
  /\ UNCHANGED <<fields, once, running, open, server, ghosts>>

\* Any error returns, and the deferred Unlock runs.
Fail(c) == Return(c) /\ Unlock
Step(c, ok, l) == IF ok THEN Goto(c, l) /\ UNCHANGED <<mu, work>> ELSE Fail(c)

\* ensurePublication: CREATE PUBLICATION, or SET TABLE when it exists.
EnsurePublication(c) ==
  /\ pc[c] = "publication"
  /\ IF ~CreatePublicationOpt
     THEN Goto(c, "slot") /\ UNCHANGED <<mu, work, ctrl, open, pub, synced>>
     ELSE IF tables = {}
     THEN Fail(c) /\ UNCHANGED <<ctrl, open, pub, synced>>
     ELSE \E r \in {"ok", "unsent", "lost"} :
            /\ Statement(r)
            /\ pub' = IF r = "unsent" THEN pub ELSE tables
            /\ synced' = (r = "ok" \/ (r = "unsent" /\ synced))
            /\ Step(c, r = "ok", "slot")
  /\ UNCHANGED <<stream, streaming, closed, tables, once, running, slot,
                 head, begun, closeDone>>

\* ensureSlot on a replication connection of its own, closed before it returns.
\* An existing slot is left alone; a new one confirms the end of the WAL.
EnsureSlot(c) ==
  /\ pc[c] = "slot"
  /\ \/ ~CreateSlotOpt /\ Step(c, TRUE, "check") /\ UNCHANGED slot
     \/ /\ CreateSlotOpt
        /\ slot' = IF slot = Absent THEN head ELSE slot
        /\ \E ok \in {TRUE, ~Lossy} : Step(c, ok, "check")
     \/ CreateSlotOpt /\ Lossy /\ Fail(c) /\ UNCHANGED slot
  /\ UNCHANGED <<fields, once, running, open, pub, head, ghosts>>

\* Mutant: the position is not compared with the slot's.
CheckResumableSkipped(c) ==
  /\ pc[c] = "check" /\ Goto(c, "start")
  /\ UNCHANGED <<mu, fields, work, once, running, open, server, ghosts>>

\* checkResumable, for a position the caller passed: one the slot has moved past
\* is refused; a missing slot is not (START_REPLICATION will fail).
CheckResumable(c) ==
  /\ pc[c] = "check"
  /\ IF ~work[c].after THEN Step(c, TRUE, "start") /\ UNCHANGED <<ctrl, open>>
     ELSE \E r \in {"ok", "unsent", "lost"} :
            Statement(r) /\ Step(c, r = "ok" /\ work[c].start >= slot, "start")
  /\ UNCHANGED <<stream, streaming, closed, tables, once, running, server, ghosts>>

\* START_REPLICATION: the server begins at the later of the position asked for and
\* the confirmed one, so a zero start means the slot's.
BeginsAt(start) == IF start > slot THEN start ELSE slot

\* dialReplication, startReplication and newEventStream.
StartReplication(c) ==
  LET s == work[c].s IN
  /\ pc[c] = "start"
  /\ \/ /\ slot # Absent
        /\ begun' = [begun EXCEPT ![s] = [asked |-> work[c].start,
                       from |-> BeginsAt(work[c].start)]]
        /\ open' = open \cup {s} /\ running' = running \cup {s}
        /\ stream' = s /\ streaming' = TRUE
     \/ /\ Lossy \/ slot = Absent
        /\ UNCHANGED <<begun, open, running, stream, streaming>>
  /\ Fail(c)              \* either way the lock is dropped
  /\ UNCHANGED <<ctrl, closed, tables, once, server, synced, closeDone>>

-------------------------------------------------------------------------------
\* Table management: one statement.  The local list changes only after the
\* server's answer; "known" says whether the two lists then agree.
Manage(c, newPub, newTables, accepted, known) ==
  /\ pc[c] = "idle" /\ mu = {} /\ ~closed
  /\ \E r \in {"ok", "unsent", "lost"} :
       /\ Statement(r)
       /\ pub' = IF r # "unsent" /\ accepted THEN newPub ELSE pub
       /\ tables' = IF r = "ok" /\ accepted THEN newTables ELSE tables
       /\ synced' = IF r # "unsent" /\ accepted THEN r = "ok" /\ known ELSE synced
  /\ UNCHANGED <<mu, stream, streaming, closed, pc, work, once, running, slot,
                 head, begun, closeDone>>

\* Mutant: the list is updated before the server has answered.
AddTablesEarly(c, given) ==
  /\ ~(given \subseteq tables) /\ pc[c] = "idle" /\ mu = {} /\ ~closed
  /\ tables' = tables \cup given
  /\ \E r \in {"ok", "unsent"} :
       /\ Statement(r)
       /\ pub' = IF r = "ok" /\ pub # NoPub THEN pub \cup given ELSE pub
  /\ UNCHANGED <<mu, stream, streaming, closed, pc, work, once, running, slot,
                 head, ghosts>>

\* Tables already tracked are skipped; the server refuses one it already has.
AddTables(c, given) ==
  LET missing == given \ tables IN
  /\ missing # {}
  /\ Manage(c, pub \cup missing, tables \cup missing,
            pub # NoPub /\ missing \cap pub = {}, synced)

\* Tables not tracked are skipped; the server refuses one it does not have.
RemoveTables(c, given) ==
  LET present == given \cap tables IN
  /\ present # {}
  /\ Manage(c, pub \ present, tables \ present,
            pub # NoPub /\ present \subseteq pub, synced)

SyncTables(c, wanted) ==
  wanted # {} /\ Manage(c, wanted, wanted, pub # NoPub, TRUE)

\* VerifyTable: a query; of the subscriber it changes the control connection.
VerifyTable(c) == Manage(c, pub, tables, FALSE, synced)

\* CreatePublication and DropPublication on the configured name; an existing
\* publication is left as it is.
CreatePublication(c, given) ==
  given # {} /\ Manage(c, given, tables, pub = NoPub, FALSE)
DropPublication(c) == Manage(c, NoPub, tables, TRUE, FALSE)

\* CreateSlot and DropSlot on the configured slot; the server refuses to drop one
\* a stream is reading.
CreateSlot(c) ==
  /\ pc[c] = "idle" /\ mu = {} /\ ~closed /\ slot = Absent /\ slot' = head
  /\ UNCHANGED <<mu, fields, pc, work, once, running, open, pub, head, ghosts>>
DropSlot(c) ==
  /\ pc[c] = "idle" /\ mu = {} /\ ~closed
  /\ slot # Absent /\ open \cap Streams = {} /\ slot' = Absent
  /\ UNCHANGED <<mu, fields, pc, work, once, running, open, pub, head, ghosts>>

-------------------------------------------------------------------------------
\* A consumer closes its stream, or its loop over All ends.
StreamClose(c, s) ==
  /\ pc[c] = "idle" /\ begun[s].from # 0 /\ once[s] # "done"
  /\ work' = [work EXCEPT ![c] = [@ EXCEPT !.s = s, !.op = "stream"]]
  /\ Goto(c, "once")
  /\ UNCHANGED <<mu, fields, once, running, open, server, ghosts>>

\* closeOnce.Do: the first caller runs the body, the others wait for its end.
Once(c) ==
  LET s == work[c].s IN
  /\ pc[c] = "once"
  /\ \/ once[s] = "new" /\ once' = [once EXCEPT ![s] = "busy"] /\ Goto(c, "wait")
     \/ once[s] = "done" /\ Goto(c, "return") /\ UNCHANGED once
  /\ UNCHANGED <<mu, fields, work, running, open, server, ghosts>>

\* <-s.done, then the connection is closed.
StopReader(c) ==
  /\ pc[c] = "wait" /\ work[c].s \notin running
  /\ open' = open \ {work[c].s} /\ Goto(c, "release")
  /\ UNCHANGED <<mu, fields, work, once, running, server, ghosts>>

\* releaseStream, which takes p.mu.
ReleaseStream(c) ==
  /\ pc[c] = "release" /\ mu = {}
  /\ stream' = 0 /\ streaming' = FALSE
  /\ once' = [once EXCEPT ![work[c].s] = "done"]
  /\ Goto(c, "return")
  /\ UNCHANGED <<mu, ctrl, closed, tables, work, running, open, server, ghosts>>

\* Mutant: the stream is closed with the lock held.
CloseLockHeld(c) ==
  /\ pc[c] = "idle" /\ mu = {} /\ ~closed
  /\ closed' = TRUE /\ stream' = 0 /\ ctrl' = FALSE
  /\ mu' = IF stream # 0 THEN {c} ELSE {}
  /\ work' = [work EXCEPT ![c] = [@ EXCEPT !.s = stream, !.op = "close"]]
  /\ Goto(c, IF stream # 0 THEN "once" ELSE "return")
  /\ UNCHANGED <<streaming, tables, once, running, open, server, ghosts>>

\* Close: the fields are taken under the lock, and closed outside it.
CloseLock(c) ==
  /\ pc[c] = "idle" /\ mu = {} /\ ~closed
  /\ closed' = TRUE /\ stream' = 0 /\ ctrl' = FALSE
  /\ work' = [work EXCEPT ![c] = [@ EXCEPT !.s = stream, !.op = "close"]]
  /\ Goto(c, IF stream # 0 THEN "once" ELSE "return")
  /\ UNCHANGED <<mu, streaming, tables, once, running, open, server, ghosts>>

\* After the stream: the control connection, for Close.
CloseEnd(c) ==
  /\ pc[c] = "return" /\ Return(c)
  /\ open' = IF work[c].op = "close" THEN open \ {Control} ELSE open
  /\ closeDone' = (closeDone \/ work[c].op = "close")
  /\ UNCHANGED <<mu, fields, once, running, server, begun, synced>>

-------------------------------------------------------------------------------
\* A stream's reader returns: told to, or because its connection failed.
ReaderEnds(s) ==
  /\ s \in running /\ (once[s] = "busy" \/ Lossy)
  /\ running' = running \ {s}
  /\ UNCHANGED <<mu, fields, pc, work, once, open, server, ghosts>>

\* The server: the WAL grows; the running stream's status updates move the slot.
WriteWal ==
  /\ head < MaxLsn /\ head' = head + 1
  /\ UNCHANGED <<mu, fields, pc, work, once, running, open, pub, slot, ghosts>>
Confirm(s) ==
  /\ s \in running \cap open /\ slot < head /\ slot' = slot + 1
  /\ UNCHANGED <<mu, fields, pc, work, once, running, open, pub, head, ghosts>>

Operation(c) ==
  \/ \E lsn \in 0 .. head : SubscribeLock(c, lsn > 0, lsn)
  \/ \E given \in SUBSET Tables : \/ AddTables(c, given) \/ RemoveTables(c, given)
                                  \/ SyncTables(c, given) \/ CreatePublication(c, given)
  \/ VerifyTable(c) \/ DropPublication(c) \/ CreateSlot(c) \/ DropSlot(c)
  \/ CloseLock(c) \/ \E s \in Streams : StreamClose(c, s)

\* The steps an operation takes once it has begun.
Continue(c) ==
  \/ EnsurePublication(c) \/ EnsureSlot(c) \/ CheckResumable(c) \/ StartReplication(c)
  \/ Once(c) \/ StopReader(c) \/ ReleaseStream(c) \/ CloseEnd(c)

Next ==
  \/ \E c \in Callers : Operation(c) \/ Continue(c)
  \/ \E s \in Streams : ReaderEnds(s) \/ Confirm(s)
  \/ WriteWal

Spec == Init /\ [][Next]_vars

\* A caller whose next step is enabled takes it (the dials and statements are
\* bounded by the caller's context), and a reader that is told to stop does.
FairSpec ==
  /\ Spec
  /\ \A c \in Callers : WF_vars(Continue(c))
  /\ \A s \in Streams : WF_vars(once[s] = "busy" /\ ReaderEnds(s))

-------------------------------------------------------------------------------
\* Types; p.mu has at most one holder.
TypeOK ==
  /\ mu \subseteq Callers /\ Cardinality(mu) <= 1
  /\ ctrl \in BOOLEAN /\ stream \in {0} \cup Streams /\ streaming \in BOOLEAN
  /\ closed \in BOOLEAN /\ tables \subseteq Tables
  /\ pc \in [Callers -> {"idle", "publication", "slot", "check", "start",
                         "once", "wait", "release", "return"}]
  /\ work \in [Callers -> [s : {0} \cup Streams, op : {"none", "subscribe", "stream", "close"},
                           after : BOOLEAN, start : 0 .. MaxLsn]]
  /\ once \in [Streams -> {"new", "busy", "done"}]
  /\ running \subseteq Streams /\ open \subseteq Streams \cup {Control}
  /\ (pub = NoPub \/ pub \subseteq Tables) /\ slot \in {Absent} \cup 1 .. MaxLsn
  /\ head \in 1 .. MaxLsn
  /\ begun \in [Streams -> [asked : 0 .. MaxLsn, from : 0 .. MaxLsn]]
  /\ synced \in BOOLEAN /\ closeDone \in BOOLEAN

\* "Only one stream may be open at a time" (76): there is never a second
\* replication connection on the slot, not even while one stream's Close and
\* the next SubscribeFrom overlap.
OneReplicationConn == Cardinality(open \cap Streams) <= 1

\* "Close releases every resource the subscriber holds, including any open
\* stream" (429): when it returns, no connection is open and no reader runs,
\* whatever else was in flight.
CloseReleasesAll == closeDone => open = {} /\ running = {}

\* Types; connections are neither doubled nor left behind, whatever Close, a
\* stream's own Close and SubscribeFrom do around the lock (84-134, 431-458).
Inv == TypeOK /\ OneReplicationConn /\ CloseReleasesAll

\* The stream a caller gets begins at the position it asked for: never later,
\* which would be a stream with a silent gap (checkResumable, 136-150).
BeginsWhereAsked == \A s \in Streams : begun[s].asked # 0 => begun[s].from <= begun[s].asked

\* Once the two lists were made to agree (SyncTables, or Subscribe with
\* CreatePublication), they agree for as long as every statement on the
\* publication is answered: a refused or unsent one changes neither.
SyncedIsPublished == synced => tables = pub

\* Close returns, although a stream's own Close may be waiting for the lock or
\* hold closeOnce.
CloseReturns == closed ~> closeDone
=============================================================================
