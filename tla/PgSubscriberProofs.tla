------------------------- MODULE PgSubscriberProofs -------------------------
(***************************************************************************)
(* The proofs about PgSubscriber: one replication connection, a Close that *)
(* leaves nothing open, a stream that begins where it was asked to, and    *)
(* lists of tables that agree, for any number of callers, tables, streams  *)
(* and positions.                                                          *)
(***************************************************************************)
EXTENDS PgSubscriber, FiniteSetTheorems, TLAPS

-----------------------------------------------------------------------------
(* The inductive invariant. *)

Points == {"idle", "publication", "slot", "check", "start", "once", "wait", "release",
           "return"}
Works == [s : {0} \cup Streams, op : {"none", "subscribe", "stream", "close"},
          after : BOOLEAN, start : 0 .. MaxLsn]

\* TypeOK, with p.mu's holder named.
Types ==
  /\ pc \in [Callers -> Points] /\ work \in [Callers -> Works]
  /\ mu = {} \/ \E c \in Callers : mu = {c}
  /\ ctrl \in BOOLEAN /\ stream \in {0} \cup Streams /\ streaming \in BOOLEAN
  /\ closed \in BOOLEAN /\ tables \subseteq Tables
  /\ once \in [Streams -> {"new", "busy", "done"}]
  /\ running \subseteq Streams /\ open \subseteq Streams \cup {Control}
  /\ pub = NoPub \/ pub \subseteq Tables
  /\ slot \in {Absent} \cup 1 .. MaxLsn /\ head \in 1 .. MaxLsn
  /\ begun \in [Streams -> [asked : 0 .. MaxLsn, from : 0 .. MaxLsn]]
  /\ synced \in BOOLEAN /\ closeDone \in BOOLEAN

\* SubscribeFrom between its checks and its return.
Critical(c) == pc[c] \in {"publication", "slot", "check", "start"}
\* A stream's Close past closeOnce, and before it has let go of the subscriber.
Closing(c) == pc[c] \in {"wait", "release"}
\* A stream that was started and is not closed to the end.
Active(s) == begun[s].from # 0 /\ once[s] # "done"

\* What SubscribeFrom checked is still so as long as it has the lock, and the
\* number of its stream is not used.
Locked ==
  \A c \in Callers : Critical(c) =>
    /\ mu = {c} /\ ~closed /\ ~streaming
    /\ work[c].s \in Streams /\ work[c].s = NextStream

\* Streams are numbered as they start; a reader has its connection, and a connection
\* its active stream and the slot; there is one, and the fields say so, until Close has
\* taken it.
OneStream ==
  /\ \A s, t \in Streams : s < t /\ begun[t].from # 0 => begun[s].from # 0
  /\ \A s \in Streams : begun[s].from = 0 => once[s] = "new"
  /\ running \subseteq open
  /\ \A s \in Streams : s \in open => Active(s) /\ slot # Absent
  /\ \A s, t \in Streams : Active(s) /\ Active(t) => s = t
  /\ \A s \in Streams : Active(s) => streaming /\ (~closed => stream = s)
  /\ stream # 0 => Active(stream)

\* One caller at a time is past a stream's closeOnce.
OneCloser ==
  /\ \A c \in Callers : pc[c] = "once" \/ Closing(c) =>
       work[c].s \in Streams /\ begun[work[c].s].from # 0
  /\ \A c \in Callers : Closing(c) => once[work[c].s] = "busy"
  /\ \A c, d \in Callers : Closing(c) /\ Closing(d) /\ work[c].s = work[d].s => c = d
  /\ \A c \in Callers : pc[c] = "release" => work[c].s \notin open

\* Close has taken the only stream there was, and no other begins.
ClosesAll ==
  /\ \A c \in Callers :
       pc[c] \in {"once", "wait", "release", "return"} /\ work[c].op = "close" =>
         /\ closed
         /\ \A s \in Streams : Active(s) => s = work[c].s /\ pc[c] # "return"
  /\ closeDone => closed /\ Control \notin open /\ \A s \in Streams : ~Active(s)

SubscriberInv == Types /\ Locked /\ OneStream /\ OneCloser /\ ClosesAll

\* While SubscribeFrom has the lock no one moves the slot, so what checkResumable
\* found is what START_REPLICATION meets.
Resumable ==
  /\ \A c \in Callers : Critical(c) /\ ~work[c].after => work[c].start = StartLSN
  /\ \A c \in Callers : pc[c] = "start" /\ work[c].after => work[c].start >= slot

-----------------------------------------------------------------------------
(* Types. *)

\* The constants.
LEMMA Bounds ==
  /\ MaxLsn \in Nat /\ MaxLsn >= 1 /\ MaxStreams \in Nat /\ StartLSN \in 0 .. MaxLsn
  /\ Streams \subseteq Nat /\ 0 \notin Streams /\ Control \notin Streams
  /\ NoWork \in Works /\ Configured \subseteq Tables
BY PgSubscriberAssumption DEF Streams, Control, NoWork, Works

\* New: nothing is dialled.
LEMMA TypesInit == Init => Types
<1> SUFFICES ASSUME Init PROVE Types
  OBVIOUS
<1>1. pc \in [Callers -> Points] /\ work \in [Callers -> Works]
  BY Bounds DEF Init, Points
<1>2. /\ once \in [Streams -> {"new", "busy", "done"}]
      /\ begun \in [Streams -> [asked : 0 .. MaxLsn, from : 0 .. MaxLsn]]
  BY Bounds DEF Init
<1>3. /\ pub = NoPub \/ pub \subseteq Tables
      /\ slot \in {Absent} \cup 1 .. MaxLsn /\ head \in 1 .. MaxLsn
      /\ tables \subseteq Tables
  BY Bounds DEF Init
<1> QED
  BY <1>1, <1>2, <1>3 DEF Init, Types

\* A caller moves on, with the operands it had or with others.
LEMMA MoveTypes ==
  ASSUME Types, NEW c \in Callers, NEW l \in Points, Goto(c, l),
         work' = work \/ \E w \in Works : work' = [work EXCEPT ![c] = w]
  PROVE  pc' \in [Callers -> Points] /\ work' \in [Callers -> Works]
<1>1. pc \in [Callers -> Points] /\ work \in [Callers -> Works]
  BY DEF Types
<1> QED
  BY <1>1 DEF Goto

\* A statement, whatever its result, changes only the control connection.
LEMMA StatementTypes ==
  ASSUME Types, NEW r \in {"ok", "unsent", "lost"}, Statement(r)
  PROVE  /\ ctrl' \in BOOLEAN /\ open' \subseteq Streams \cup {Control}
         /\ \A s \in Streams : s \in open' <=> s \in open
         /\ open' \ {Control} = open \ {Control}
BY Bounds DEF Types, Statement

\* Every step of a caller, a reader or the server keeps the types.
LEMMA TypesStep ==
  ASSUME SubscriberInv, [Next]_vars
  PROVE  Types'
<1>0. Types /\ Locked /\ OneStream
  BY DEF SubscriberInv
<1>1. ASSUME NEW c \in Callers, NEW lsn \in 0 .. head, SubscribeLock(c, lsn > 0, lsn)
      PROVE  Types'
  <2>1. PICK w \in Works : work' = [work EXCEPT ![c] = w]
    <3>1. PICK st \in 0 .. MaxLsn : st = IF lsn > 0 THEN lsn ELSE StartLSN
      BY <1>0, Bounds DEF Types
    <3>2. PICK a \in BOOLEAN : a = (lsn > 0)
      <4>1. CASE lsn > 0
        <5>1. (lsn > 0) = TRUE
          BY <4>1
        <5> QED
          BY <5>1
      <4>2. CASE ~(lsn > 0)
        <5>1. (lsn > 0) = FALSE
          BY <4>2
        <5> QED
          BY <5>1
      <4> QED
        BY <4>1, <4>2
    <3>3. NextStream \in Streams
      BY <1>1 DEF SubscribeLock
    <3>4. work' = [work EXCEPT ![c] = [s |-> NextStream, op |-> "subscribe", after |-> a,
                                       start |-> st]]
      BY <1>1, <3>1, <3>2 DEF SubscribeLock
    <3>5. [s |-> NextStream, op |-> "subscribe", after |-> a, start |-> st] \in Works
      BY <3>3 DEF Works
    <3> QED
      BY <3>4, <3>5
  <2>2. Goto(c, "publication") /\ mu' = {c}
        /\ UNCHANGED <<fields, once, running, open, server, ghosts>>
    BY <1>1 DEF SubscribeLock, Lock
  <2>3. pc' \in [Callers -> Points] /\ work' \in [Callers -> Works]
    BY <1>0, <2>1, <2>2, MoveTypes DEF Points
  <2> QED
    BY <1>0, <2>2, <2>3 DEF Types, fields, server, ghosts
<1>2. ASSUME NEW c \in Callers, NEW newPub, NEW newTables,
             NEW accepted \in BOOLEAN, NEW known \in BOOLEAN,
             Manage(c, newPub, newTables, accepted, known),
             accepted => newTables \subseteq Tables /\ (newPub = NoPub \/ newPub \subseteq Tables)
      PROVE  Types'
  <2>1. PICK r \in {"ok", "unsent", "lost"} :
          /\ Statement(r)
          /\ pub' = IF r # "unsent" /\ accepted THEN newPub ELSE pub
          /\ tables' = IF r = "ok" /\ accepted THEN newTables ELSE tables
          /\ synced' = IF r # "unsent" /\ accepted THEN r = "ok" /\ known ELSE synced
    BY <1>2 DEF Manage
  <2>2. ctrl' \in BOOLEAN /\ open' \subseteq Streams \cup {Control}
    BY <1>0, <2>1, StatementTypes
  <2>3. (pub' = NoPub \/ pub' \subseteq Tables) /\ tables' \subseteq Tables
    BY <1>0, <2>1, <1>2 DEF Types
  <2>4. synced' \in BOOLEAN
    BY <1>0, <2>1 DEF Types
  <2>5. UNCHANGED <<mu, stream, streaming, closed, pc, work, once, running, slot,
                    head, begun, closeDone>>
    BY <1>2 DEF Manage
  <2> QED
    BY <1>0, <2>2, <2>3, <2>4, <2>5 DEF Types
<1>3. ASSUME NEW c \in Callers, NEW given \in SUBSET Tables,
             \/ AddTables(c, given) \/ RemoveTables(c, given)
             \/ SyncTables(c, given) \/ CreatePublication(c, given)
      PROVE  Types'
  <2>1. CASE AddTables(c, given)
    <3>1. PICK m : m = given \ tables
      OBVIOUS
    <3>2. PICK a \in BOOLEAN : a = (pub # NoPub /\ m \cap pub = {})
      OBVIOUS
    <3>3. Manage(c, pub \cup m, tables \cup m, a, synced)
      BY <2>1, <3>1, <3>2 DEF AddTables
    <3>4. a => tables \cup m \subseteq Tables /\ pub \cup m \subseteq Tables
      BY <1>0, <3>1, <3>2 DEF Types
    <3>5. synced \in BOOLEAN
      BY <1>0 DEF Types
    <3> QED
      BY <3>3, <3>4, <3>5, <1>2
  <2>2. CASE RemoveTables(c, given)
    <3>1. PICK m : m = given \cap tables
      OBVIOUS
    <3>2. PICK a \in BOOLEAN : a = (pub # NoPub /\ m \subseteq pub)
      OBVIOUS
    <3>3. Manage(c, pub \ m, tables \ m, a, synced)
      BY <2>2, <3>1, <3>2 DEF RemoveTables
    <3>4. a => tables \ m \subseteq Tables /\ pub \ m \subseteq Tables
      BY <1>0, <3>1, <3>2 DEF Types
    <3>5. synced \in BOOLEAN
      BY <1>0 DEF Types
    <3> QED
      BY <3>3, <3>4, <3>5, <1>2
  <2>3. CASE SyncTables(c, given)
    BY <2>3, <1>2 DEF SyncTables
  <2>4. CASE CreatePublication(c, given)
    <3>1. Manage(c, given, tables, pub = NoPub, FALSE) /\ tables \subseteq Tables
      BY <1>0, <2>4 DEF CreatePublication, Types
    <3> QED
      BY <3>1, <1>2
  <2> QED
    BY <2>1, <2>2, <2>3, <2>4, <1>3
<1>4. ASSUME NEW c \in Callers, VerifyTable(c) \/ DropPublication(c) PROVE Types'
  <2>1. CASE VerifyTable(c)
    <3>1. Manage(c, pub, tables, FALSE, synced) /\ synced \in BOOLEAN
      BY <1>0, <2>1 DEF VerifyTable, Types
    <3> QED
      BY <3>1, <1>2
  <2>2. CASE DropPublication(c)
    <3>1. Manage(c, NoPub, tables, TRUE, FALSE) /\ tables \subseteq Tables
      BY <1>0, <2>2 DEF DropPublication, Types
    <3> QED
      BY <3>1, <1>2
  <2> QED
    BY <2>1, <2>2, <1>4
<1>5. ASSUME NEW c \in Callers, CreateSlot(c) \/ DropSlot(c) PROVE Types'
  BY <1>0, <1>5 DEF CreateSlot, DropSlot, Types, fields, ghosts
<1>6. ASSUME NEW s \in Streams, Confirm(s) PROVE Types'
  <2>1. slot \in 1 .. MaxLsn
    BY <1>0, <1>6 DEF Confirm, Types, OneStream
  <2>2. slot' \in 1 .. MaxLsn
    BY <1>0, <1>6, <2>1, Bounds DEF Confirm, Types
  <2> QED
    BY <1>0, <1>6, <2>2 DEF Confirm, Types, fields, ghosts
<1>7. CASE WriteWal
  <2>1. head' \in 1 .. MaxLsn
    BY <1>0, <1>7, Bounds DEF WriteWal, Types
  <2> QED
    BY <1>0, <1>7, <2>1 DEF WriteWal, Types, fields, ghosts
<1>8. ASSUME NEW s \in Streams, ReaderEnds(s) PROVE Types'
  BY <1>0, <1>8 DEF ReaderEnds, Types, fields, server, ghosts
<1>9. ASSUME NEW c \in Callers, NEW l \in Points, NEW ok \in BOOLEAN, Step(c, ok, l)
      PROVE  /\ pc' \in [Callers -> Points] /\ work' \in [Callers -> Works]
             /\ mu' = {} \/ \E d \in Callers : mu' = {d}
  <2>1. CASE ok
    <3>1. Goto(c, l) /\ UNCHANGED <<mu, work>>
      BY <1>9, <2>1 DEF Step
    <3> QED
      BY <1>0, <3>1, MoveTypes DEF Types
  <2>2. CASE ~ok
    <3>1. Goto(c, "idle") /\ work' = [work EXCEPT ![c] = NoWork] /\ mu' = {}
      BY <1>9, <2>2 DEF Step, Fail, Return, Unlock
    <3> QED
      BY <1>0, <3>1, MoveTypes, Bounds DEF Points
  <2> QED
    BY <2>1, <2>2
<1>10. ASSUME NEW c \in Callers, Fail(c)
       PROVE  pc' \in [Callers -> Points] /\ work' \in [Callers -> Works] /\ mu' = {}
  <2>1. Goto(c, "idle") /\ work' = [work EXCEPT ![c] = NoWork] /\ mu' = {}
    BY <1>10 DEF Fail, Return, Unlock
  <2> QED
    BY <1>0, <2>1, MoveTypes, Bounds DEF Points
<1>11. ASSUME NEW c \in Callers, EnsurePublication(c) PROVE Types'
  <2>1. UNCHANGED <<stream, streaming, closed, tables, once, running, slot,
                    head, begun, closeDone>>
    BY <1>11 DEF EnsurePublication
  <2>2. CASE Goto(c, "slot") /\ UNCHANGED <<mu, work, ctrl, open, pub, synced>>
    <3>1. pc' \in [Callers -> Points] /\ work' \in [Callers -> Works]
      BY <1>0, <2>2, MoveTypes DEF Points
    <3> QED
      BY <1>0, <2>1, <2>2, <3>1 DEF Types
  <2>3. CASE Fail(c) /\ UNCHANGED <<ctrl, open, pub, synced>>
    BY <1>0, <2>1, <2>3, <1>10 DEF Types
  <2>4. ASSUME NEW r \in {"ok", "unsent", "lost"}, Statement(r),
               pub' = (IF r = "unsent" THEN pub ELSE tables),
               synced' = (r = "ok" \/ (r = "unsent" /\ synced)),
               Step(c, r = "ok", "slot")
        PROVE  Types'
    <3>1. ctrl' \in BOOLEAN /\ open' \subseteq Streams \cup {Control}
      BY <1>0, <2>4, StatementTypes
    <3>2. pub' = NoPub \/ pub' \subseteq Tables
      BY <1>0, <2>4 DEF Types
    <3>3. synced' \in BOOLEAN
      BY <2>4
    <3>4. /\ pc' \in [Callers -> Points] /\ work' \in [Callers -> Works]
          /\ mu' = {} \/ \E d \in Callers : mu' = {d}
      BY <2>4, <1>9 DEF Points
    <3> QED
      BY <1>0, <2>1, <3>1, <3>2, <3>3, <3>4 DEF Types
  <2> QED
    BY <2>2, <2>3, <2>4, <1>11 DEF EnsurePublication
<1>12. ASSUME NEW c \in Callers, EnsureSlot(c) PROVE Types'
  <2>1. UNCHANGED <<fields, once, running, open, pub, head, ghosts>>
    BY <1>12 DEF EnsureSlot
  <2>2. slot' \in {Absent} \cup 1 .. MaxLsn
    BY <1>0, <1>12 DEF EnsureSlot, Types
  <2>3. \/ \E ok \in BOOLEAN : Step(c, ok, "check")
        \/ Fail(c)
    BY <1>12, PgSubscriberAssumption DEF EnsureSlot
  <2>4. /\ pc' \in [Callers -> Points] /\ work' \in [Callers -> Works]
        /\ mu' = {} \/ \E d \in Callers : mu' = {d}
    BY <2>3, <1>9, <1>10 DEF Points
  <2> QED
    BY <1>0, <2>1, <2>2, <2>4 DEF Types, fields, ghosts
<1>13. ASSUME NEW c \in Callers, CheckResumable(c) PROVE Types'
  <2>1. UNCHANGED <<stream, streaming, closed, tables, once, running, server, ghosts>>
    BY <1>13 DEF CheckResumable
  <2>2. CASE Step(c, TRUE, "start") /\ UNCHANGED <<ctrl, open>>
    <3>1. /\ pc' \in [Callers -> Points] /\ work' \in [Callers -> Works]
          /\ mu' = {} \/ \E d \in Callers : mu' = {d}
      BY <2>2, <1>9 DEF Points
    <3> QED
      BY <1>0, <2>1, <2>2, <3>1 DEF Types, server, ghosts
  <2>3. ASSUME NEW r \in {"ok", "unsent", "lost"}, Statement(r),
               Step(c, r = "ok" /\ work[c].start >= slot, "start")
        PROVE  Types'
    <3>1. ctrl' \in BOOLEAN /\ open' \subseteq Streams \cup {Control}
      BY <1>0, <2>3, StatementTypes
    <3>2. /\ pc' \in [Callers -> Points] /\ work' \in [Callers -> Works]
          /\ mu' = {} \/ \E d \in Callers : mu' = {d}
      BY <2>3, <1>9 DEF Points
    <3> QED
      BY <1>0, <2>1, <3>1, <3>2 DEF Types, server, ghosts
  <2> QED
    BY <2>2, <2>3, <1>13 DEF CheckResumable
<1>14. ASSUME NEW c \in Callers, StartReplication(c) PROVE Types'
  <2>0. work[c].s \in Streams
    BY <1>0, <1>14 DEF StartReplication, Locked, Critical
  <2>1. pc' \in [Callers -> Points] /\ work' \in [Callers -> Works] /\ mu' = {}
    BY <1>14, <1>10 DEF StartReplication
  <2>2. UNCHANGED <<ctrl, closed, tables, once, server, synced, closeDone>>
    BY <1>14 DEF StartReplication
  <2>3. work[c].start \in 0 .. MaxLsn
    BY <1>0 DEF Types, Works
  <2>4. slot # Absent => BeginsAt(work[c].start) \in 0 .. MaxLsn
    BY <1>0, <2>3, Bounds DEF BeginsAt, Types
  <2>5. begun' \in [Streams -> [asked : 0 .. MaxLsn, from : 0 .. MaxLsn]]
    BY <1>0, <1>14, <2>0, <2>3, <2>4 DEF StartReplication, Types
  <2>6. /\ open' \subseteq Streams \cup {Control} /\ running' \subseteq Streams
        /\ stream' \in {0} \cup Streams
    BY <1>0, <1>14, <2>0 DEF StartReplication, Types
  <2>7. streaming' \in BOOLEAN
    BY <1>0, <1>14 DEF StartReplication, Types
  <2> QED
    BY <1>0, <2>1, <2>2, <2>5, <2>6, <2>7 DEF Types, server
<1>15. ASSUME NEW c \in Callers, NEW s \in {0} \cup Streams, NEW o \in {"stream", "close"}
       PROVE  [work[c] EXCEPT !.s = s, !.op = o] \in Works
  BY <1>0 DEF Types, Works
<1>16. ASSUME NEW c \in Callers, NEW s \in Streams, StreamClose(c, s) PROVE Types'
  <2>1. PICK w \in Works : w = [work[c] EXCEPT !.s = s, !.op = "stream"]
    BY <1>15
  <2>2. /\ work' = [work EXCEPT ![c] = w] /\ Goto(c, "once")
        /\ UNCHANGED <<mu, fields, once, running, open, server, ghosts>>
    BY <1>0, <1>16, <2>1 DEF StreamClose, Types
  <2>3. pc' \in [Callers -> Points] /\ work' \in [Callers -> Works]
    BY <1>0, <2>2, MoveTypes DEF Points
  <2> QED
    BY <1>0, <2>2, <2>3 DEF Types, fields, server, ghosts
<1>17. ASSUME NEW c \in Callers, CloseLock(c) PROVE Types'
  <2>1. PICK w \in Works : w = [work[c] EXCEPT !.s = stream, !.op = "close"]
    BY <1>0, <1>15 DEF Types
  <2>2. PICK l \in Points : l = IF stream # 0 THEN "once" ELSE "return"
    BY DEF Points
  <2>3. /\ work' = [work EXCEPT ![c] = w] /\ Goto(c, l)
        /\ closed' = TRUE /\ stream' = 0 /\ ctrl' = FALSE
        /\ UNCHANGED <<mu, streaming, tables, once, running, open, server, ghosts>>
    BY <1>0, <1>17, <2>1, <2>2 DEF CloseLock, Types
  <2>4. pc' \in [Callers -> Points] /\ work' \in [Callers -> Works]
    BY <1>0, <2>3, MoveTypes
  <2> QED
    BY <1>0, <2>3, <2>4 DEF Types, server, ghosts
<1>18. ASSUME NEW c \in Callers, Once(c) \/ StopReader(c) \/ ReleaseStream(c)
       PROVE  Types'
  <2>1. \E l \in Points : Goto(c, l)
    BY <1>18 DEF Once, StopReader, ReleaseStream, Points
  <2>2. UNCHANGED <<work, mu, ctrl, closed, tables, running, server, ghosts>>
    BY <1>18 DEF Once, StopReader, ReleaseStream, fields
  <2>3. pc' \in [Callers -> Points] /\ work' \in [Callers -> Works]
    BY <1>0, <2>1, <2>2, MoveTypes
  <2>4. /\ once' \in [Streams -> {"new", "busy", "done"}]
        /\ open' \subseteq Streams \cup {Control}
        /\ stream' \in {0} \cup Streams
    BY <1>0, <1>18 DEF Once, StopReader, ReleaseStream, fields, Types
  <2>5. streaming' \in BOOLEAN
    BY <1>0, <1>18 DEF Once, StopReader, ReleaseStream, fields, Types
  <2> QED
    BY <1>0, <2>2, <2>3, <2>4, <2>5 DEF Types, server, ghosts
<1>19. ASSUME NEW c \in Callers, CloseEnd(c) PROVE Types'
  <2>1. /\ Goto(c, "idle") /\ work' = [work EXCEPT ![c] = NoWork]
        /\ UNCHANGED <<mu, fields, once, running, server, begun, synced>>
        /\ closeDone' = (closeDone \/ work[c].op = "close") /\ open' \subseteq open
    BY <1>19 DEF CloseEnd, Return
  <2>2. pc' \in [Callers -> Points] /\ work' \in [Callers -> Works]
    BY <1>0, <2>1, MoveTypes, Bounds DEF Points
  <2> QED
    BY <1>0, <2>1, <2>2 DEF Types, fields, server
<1>20. CASE UNCHANGED vars
  BY <1>0, <1>20 DEF vars, fields, server, ghosts, Types
<1> QED
  BY <1>1, <1>3, <1>4, <1>5, <1>6, <1>7, <1>8, <1>11, <1>12, <1>13, <1>14, <1>16,
     <1>17, <1>18, <1>19, <1>20 DEF Next, Operation, Continue

-----------------------------------------------------------------------------
(* Steps that leave the streams as they are. *)

\* Nobody else's place or operands change when a caller moves.
LEMMA Others ==
  ASSUME SubscriberInv, NEW c \in Callers, NEW l, pc' = [pc EXCEPT ![c] = l],
         work' = work \/ \E w : work' = [work EXCEPT ![c] = w]
  PROVE  /\ pc'[c] = l
         /\ \A d \in Callers : d # c => pc'[d] = pc[d] /\ work'[d] = work[d]
BY DEF SubscriberInv, Types

\* The streams and what the fields say of them, when only the control connection,
\* the lists or the slot change.
LEMMA StreamFrame ==
  ASSUME SubscriberInv, UNCHANGED <<begun, once, running, stream, streaming, closed>>,
         \A s \in Streams : s \in open' <=> s \in open,
         slot # Absent => slot' # Absent
  PROVE  OneStream' /\ NextStream' = NextStream /\ \A s \in Streams : Active(s)' = Active(s)
<1>1. OneStream /\ running \subseteq Streams
  BY DEF SubscriberInv, Types
<1>2. \A s \in Streams : Active(s)' = Active(s)
  BY DEF Active
<1>3. NextStream' = NextStream
  BY DEF NextStream
<1>4. running' \subseteq open'
  BY <1>1 DEF OneStream
<1>5. stream' # 0 => Active(stream)'
  BY <1>1 DEF OneStream, Active
<1>6. /\ \A s, t \in Streams : s < t /\ begun'[t].from # 0 => begun'[s].from # 0
      /\ \A s \in Streams : begun'[s].from = 0 => once'[s] = "new"
  BY <1>1 DEF OneStream
<1>7. /\ \A s \in Streams : s \in open' => Active(s)' /\ slot' # Absent
      /\ \A s, t \in Streams : Active(s)' /\ Active(t)' => s = t
      /\ \A s \in Streams : Active(s)' => streaming' /\ (~closed' => stream' = s)
  BY <1>1, <1>2 DEF OneStream
<1> QED
  BY <1>2, <1>3, <1>4, <1>5, <1>6, <1>7 DEF OneStream

\* Nobody moves.
LEMMA StillFrame ==
  ASSUME SubscriberInv, [Next]_vars, UNCHANGED <<mu, pc, work, begun, once, running>>,
         UNCHANGED <<stream, streaming, closed, closeDone>>,
         \A s \in Streams : s \in open' <=> s \in open,
         Control \in open' => Control \in open \/ ~closed,
         slot # Absent => slot' # Absent
  PROVE  SubscriberInv'
<1>1. OneStream' /\ NextStream' = NextStream /\ \A s \in Streams : Active(s)' = Active(s)
  BY StreamFrame
<1>2. Locked'
  BY <1>1 DEF SubscriberInv, Locked, Critical
<1>3. OneCloser'
  BY DEF SubscriberInv, OneCloser, Closing
<1>4. ClosesAll'
  BY <1>1 DEF SubscriberInv, ClosesAll
<1> QED
  BY <1>1, <1>2, <1>3, <1>4, TypesStep DEF SubscriberInv

\* SubscribeFrom goes on, or gives up and drops the lock.
LEMMA CriticalStep ==
  ASSUME SubscriberInv, [Next]_vars, NEW c \in Callers, Critical(c),
         \/ /\ \E l \in {"slot", "check", "start"} : Goto(c, l)
            /\ UNCHANGED <<mu, work>>
         \/ Fail(c),
         UNCHANGED <<begun, once, running, stream, streaming, closed, closeDone>>,
         \A s \in Streams : s \in open' <=> s \in open,
         slot # Absent => slot' # Absent
  PROVE  SubscriberInv'
<1>1. OneStream' /\ NextStream' = NextStream /\ \A s \in Streams : Active(s)' = Active(s)
  BY StreamFrame
<1>2. PICK l \in {"slot", "check", "start", "idle"} :
        /\ pc' = [pc EXCEPT ![c] = l]
        /\ l # "idle" => UNCHANGED <<mu, work>>
        /\ work' = work \/ \E w : work' = [work EXCEPT ![c] = w]
  BY DEF Goto, Fail, Return
<1>3. /\ pc'[c] = l
      /\ \A d \in Callers : d # c => pc'[d] = pc[d] /\ work'[d] = work[d]
  BY <1>2, Others
<1>4. mu = {c} /\ ~closed /\ ~streaming /\ \A d \in Callers : d # c => ~Critical(d)
  BY DEF SubscriberInv, Locked
<1>5. Locked'
  <2> SUFFICES ASSUME NEW d \in Callers, Critical(d)'
               PROVE  /\ mu' = {d} /\ ~closed' /\ ~streaming'
                      /\ work'[d].s \in Streams /\ work'[d].s = NextStream'
    BY DEF Locked
  <2>1. d = c /\ l # "idle"
    BY <1>3, <1>4 DEF Critical
  <2> QED
    BY <2>1, <1>1, <1>2, <1>4 DEF SubscriberInv, Locked
<1>6. \A d \in Callers : /\ Closing(d)' => Closing(d) /\ d # c
                         /\ pc'[d] \in {"once", "return", "wait", "release"} => d # c
  BY <1>3 DEF Closing
<1>7. OneCloser'
  BY <1>3, <1>6 DEF SubscriberInv, OneCloser, Closing
<1>8. ClosesAll'
  BY <1>1, <1>3, <1>4, <1>6 DEF SubscriberInv, ClosesAll
<1> QED
  BY <1>1, <1>5, <1>7, <1>8, TypesStep DEF SubscriberInv

\* SubscribeFrom takes the lock.
LEMMA SubscribeStep ==
  ASSUME SubscriberInv, [Next]_vars, NEW c \in Callers, NEW after, NEW lsn,
         SubscribeLock(c, after, lsn)
  PROVE  SubscriberInv'
<1>1. /\ pc[c] = "idle" /\ mu = {} /\ mu' = {c} /\ ~closed /\ ~streaming
      /\ NextStream \in Streams /\ pc' = [pc EXCEPT ![c] = "publication"]
      /\ UNCHANGED <<begun, once, running, stream, streaming, closed, closeDone, open, slot>>
  BY DEF SubscribeLock, Lock, Goto, fields, server, ghosts
<1>2. PICK w : w.s = NextStream /\ work' = [work EXCEPT ![c] = w]
  <2>1. PICK st : st = IF after THEN lsn ELSE StartLSN
    OBVIOUS
  <2>2. PICK w : w = [s |-> NextStream, op |-> "subscribe", after |-> after, start |-> st]
    OBVIOUS
  <2>3. w.s = NextStream /\ work' = [work EXCEPT ![c] = w]
    BY <2>1, <2>2 DEF SubscribeLock
  <2> QED
    BY <2>3
<1>3. OneStream' /\ NextStream' = NextStream /\ \A s \in Streams : Active(s)' = Active(s)
  BY <1>1, StreamFrame
<1>4. /\ pc'[c] = "publication"
      /\ \A d \in Callers : d # c => pc'[d] = pc[d] /\ work'[d] = work[d]
  BY <1>1, <1>2, Others
<1>5. work'[c].s = NextStream
  BY <1>2 DEF SubscriberInv, Types
<1>6. \A d \in Callers : ~Critical(d)
  BY <1>1 DEF SubscriberInv, Locked
<1>7. Locked'
  BY <1>1, <1>3, <1>4, <1>5, <1>6 DEF Locked, Critical
<1>8. \A d \in Callers : /\ Closing(d)' => Closing(d) /\ d # c
                         /\ pc'[d] \in {"once", "return", "wait", "release"} => d # c
  BY <1>4 DEF Closing
<1>9. OneCloser'
  BY <1>1, <1>4, <1>8 DEF SubscriberInv, OneCloser, Closing
<1>10. ClosesAll'
  BY <1>1, <1>3, <1>4, <1>8 DEF SubscriberInv, ClosesAll
<1> QED
  BY <1>3, <1>7, <1>9, <1>10, TypesStep DEF SubscriberInv

\* The number a stream gets is not used, and the ones before it are.
LEMMA NextIsUnused ==
  ASSUME SubscriberInv, NextStream \in Streams
  PROVE  /\ begun[NextStream].from = 0
         /\ \A s \in Streams : s < NextStream => begun[s].from # 0
<1> DEFINE S == {s \in Streams : begun[s].from # 0}
<1>n. PICK n \in Streams : n = NextStream
  OBVIOUS
<1>0. MaxStreams \in Nat /\ n \in Nat /\ n >= 1
  BY Bounds DEF Streams
<1>1. IsFiniteSet(Streams)
  BY <1>0, FS_Interval DEF Streams
<1>2. IsFiniteSet(S) /\ Cardinality(S) \in Nat /\ Cardinality(S) = n - 1
  BY <1>0, <1>1, <1>n, FS_Subset, FS_CardinalityType DEF NextStream
<1>3. \A g, k \in Streams : g < k /\ k \in S => g \in S
  BY DEF SubscriberInv, OneStream
<1>4. n \notin S
  <2> SUFFICES ASSUME n \in S PROVE FALSE
    OBVIOUS
  <2>1. 1 .. n \subseteq S
    <3> SUFFICES ASSUME NEW g \in 1 .. n PROVE g \in S
      OBVIOUS
    <3>1. g \in Streams /\ (g = n \/ g < n)
      BY <1>0 DEF Streams
    <3> QED
      BY <3>1, <1>3
  <2>2. Cardinality(1 .. n) = n - 1 + 1 /\ IsFiniteSet(1 .. n)
    <3>1. 1 \in Int /\ n \in Int /\ ~(1 > n)
      BY <1>0
    <3> QED
      BY <3>1, FS_Interval
  <2>3. n <= Cardinality(S)
    <3> HIDE DEF S
    <3>1. Cardinality(1 .. n) <= Cardinality(S)
      BY <2>1, <1>2, FS_Subset
    <3> QED
      BY <3>1, <2>2, <1>0
  <2> QED
    BY <2>3, <1>2, <1>0
<1>5. ASSUME NEW g \in Streams, g < n PROVE g \in S
  <2> SUFFICES ASSUME g \notin S PROVE FALSE
    OBVIOUS
  <2>0. g \in Nat /\ g >= 1
    BY Bounds DEF Streams
  <2>1. S \subseteq 1 .. (g - 1)
    BY <1>3, <2>0, Bounds DEF Streams
  <2>2. Cardinality(1 .. (g - 1)) = g - 1 /\ IsFiniteSet(1 .. (g - 1))
    <3>1. 1 \in Int /\ g - 1 \in Int
      BY <2>0
    <3> QED
      BY <3>1, <2>0, FS_Interval
  <2>3. Cardinality(S) <= g - 1
    <3> HIDE DEF S
    <3>1. Cardinality(S) <= Cardinality(1 .. (g - 1))
      BY <2>1, <2>2, FS_Subset
    <3> QED
      BY <3>1, <2>2
  <2> QED
    BY <2>3, <1>2, <1>0, <1>5, <2>0
<1> QED
  BY <1>n, <1>4, <1>5

-----------------------------------------------------------------------------
(* Steps of the streams. *)

\* START_REPLICATION: the stream is the only one, and the lock is dropped.
LEMMA StartStep ==
  ASSUME SubscriberInv, [Next]_vars, NEW c \in Callers, StartReplication(c)
  PROVE  SubscriberInv'
<1>1. Critical(c) /\ Fail(c)
  BY DEF StartReplication, Critical
<1>2. CASE UNCHANGED <<begun, open, running, stream, streaming>>
  BY <1>1, <1>2, CriticalStep DEF StartReplication, server
<1>3. CASE ~UNCHANGED <<begun, open, running, stream, streaming>>
  <2>1. PICK s \in Streams : s = work[c].s /\ s = NextStream
    BY <1>1 DEF SubscriberInv, Locked
  <2>2. PICK b : b = [asked |-> work[c].start, from |-> BeginsAt(work[c].start)]
    OBVIOUS
  <2>3. /\ slot # Absent /\ begun' = [begun EXCEPT ![s] = b]
        /\ open' = open \cup {s} /\ running' = running \cup {s}
        /\ stream' = s /\ streaming' = TRUE
        /\ UNCHANGED <<closed, once, slot, closeDone>>
    BY <1>3, <2>1, <2>2 DEF StartReplication, server
  <2>4. b.from # 0
    BY <2>2, <2>3, Bounds DEF BeginsAt, SubscriberInv, Types, Works
  <2>5. /\ begun'[s] = b /\ \A t \in Streams : t # s => begun'[t] = begun[t]
    BY <2>3 DEF SubscriberInv, Types
  <2>6. /\ mu = {c} /\ ~closed /\ ~streaming /\ ~closeDone
        /\ \A d \in Callers : d # c => ~Critical(d)
    BY <1>1 DEF SubscriberInv, Locked, ClosesAll
  <2>7. begun[s].from = 0 /\ \A t \in Streams : t < s => begun[t].from # 0
    BY <2>1, NextIsUnused
  <2>8. once[s] = "new" /\ s \notin open /\ s \notin running
    BY <2>7 DEF SubscriberInv, OneStream, Active
  <2>9. \A t \in Streams : ~Active(t)
    BY <2>6 DEF SubscriberInv, OneStream
  <2>10. \A t \in Streams : Active(t)' <=> t = s
    BY <2>3, <2>4, <2>5, <2>8, <2>9 DEF Active
  <2>11. OneStream'
    <3>1. \A t, u \in Streams : t < u /\ begun'[u].from # 0 => begun'[t].from # 0
      BY <2>4, <2>5, <2>7 DEF SubscriberInv, OneStream
    <3>2. \A t \in Streams : begun'[t].from = 0 => once'[t] = "new"
      BY <2>3, <2>4, <2>5 DEF SubscriberInv, OneStream
    <3>3. running' \subseteq open'
      BY <2>3 DEF SubscriberInv, OneStream
    <3>4. \A t \in Streams : t \in open' => Active(t)' /\ slot' # Absent
      BY <2>3, <2>9, <2>10 DEF SubscriberInv, OneStream
    <3>5. \A t \in Streams : Active(t)' => streaming' /\ (~closed' => stream' = t)
      BY <2>3, <2>10
    <3>6. stream' # 0 => Active(stream)'
      BY <2>3, <2>10 DEF Active
    <3> QED
      BY <3>1, <3>2, <3>3, <3>4, <3>5, <3>6, <2>10 DEF OneStream
  <2>12. /\ pc'[c] = "idle"
         /\ \A d \in Callers : d # c => pc'[d] = pc[d] /\ work'[d] = work[d]
    BY <1>1, Others DEF Fail, Return, Goto
  <2>13. Locked'
    BY <2>6, <2>12 DEF Locked, Critical
  <2>14. \A d \in Callers : /\ Closing(d)' => Closing(d) /\ d # c
                            /\ pc'[d] \in {"once", "return", "wait", "release"} => d # c
    BY <2>12 DEF Closing
  <2>15. \A d \in Callers : pc[d] = "once" \/ Closing(d) => work[d].s # s
    BY <2>7 DEF SubscriberInv, OneCloser
  <2>16. OneCloser'
    <3>1. \A d \in Callers : (pc[d] = "once" \/ Closing(d))' =>
            work'[d].s \in Streams /\ begun'[work'[d].s].from # 0
      BY <2>5, <2>12, <2>14, <2>15 DEF SubscriberInv, OneCloser
    <3>2. \A d \in Callers : Closing(d)' => once'[work'[d].s] = "busy"
      BY <2>3, <2>12, <2>14 DEF SubscriberInv, OneCloser
    <3>3. \A d, e \in Callers :
            Closing(d)' /\ Closing(e)' /\ work'[d].s = work'[e].s => d = e
      BY <2>12, <2>14 DEF SubscriberInv, OneCloser
    <3>4. \A d \in Callers : pc'[d] = "release" => work'[d].s \notin open'
      BY <2>3, <2>12, <2>14, <2>15 DEF SubscriberInv, OneCloser, Closing
    <3> QED
      BY <3>1, <3>2, <3>3, <3>4 DEF OneCloser
  <2>17. ClosesAll'
    BY <2>3, <2>6, <2>12, <2>14 DEF SubscriberInv, ClosesAll
  <2> QED
    BY <2>11, <2>13, <2>16, <2>17, TypesStep DEF SubscriberInv
<1> QED
  BY <1>2, <1>3

\* A reader returns.
LEMMA ReaderStep ==
  ASSUME SubscriberInv, [Next]_vars, NEW s \in Streams, ReaderEnds(s)
  PROVE  SubscriberInv'
<1>1. /\ running' = running \ {s}
      /\ UNCHANGED <<mu, pc, work, begun, once, stream, streaming, closed, closeDone, open, slot>>
  BY DEF ReaderEnds, fields, server, ghosts
<1>2. \A t : Active(t)' = Active(t)
  BY <1>1 DEF Active
<1>3. OneStream'
  BY <1>1, <1>2 DEF SubscriberInv, OneStream
<1>4. NextStream' = NextStream
  BY <1>1 DEF NextStream
<1>5. Locked' /\ OneCloser'
  BY <1>1, <1>4 DEF SubscriberInv, Locked, Critical, OneCloser, Closing
<1>6. ClosesAll'
  BY <1>1, <1>2 DEF SubscriberInv, ClosesAll
<1> QED
  BY <1>3, <1>5, <1>6, TypesStep DEF SubscriberInv

\* A consumer's Close of its stream begins.
LEMMA StreamCloseStep ==
  ASSUME SubscriberInv, [Next]_vars, NEW c \in Callers, NEW s \in Streams, StreamClose(c, s)
  PROVE  SubscriberInv'
<1>1. PICK w : w = [work[c] EXCEPT !.s = s, !.op = "stream"]
  OBVIOUS
<1>2. /\ pc[c] = "idle" /\ begun[s].from # 0 /\ work' = [work EXCEPT ![c] = w]
      /\ pc' = [pc EXCEPT ![c] = "once"]
      /\ UNCHANGED <<mu, begun, once, running, stream, streaming, closed, closeDone, open, slot>>
  BY <1>1 DEF StreamClose, Goto, fields, server, ghosts, SubscriberInv, Types
<1>3. w.s = s /\ w.op = "stream"
  BY <1>1 DEF SubscriberInv, Types, Works
<1>4. /\ pc'[c] = "once"
      /\ \A d \in Callers : d # c => pc'[d] = pc[d] /\ work'[d] = work[d]
  BY <1>2, Others
<1>5. work'[c] = w
  BY <1>2 DEF SubscriberInv, Types
<1>6. OneStream' /\ NextStream' = NextStream /\ \A t \in Streams : Active(t)' = Active(t)
  BY <1>2, StreamFrame
<1>7. \A d \in Callers : /\ Critical(d)' => Critical(d) /\ d # c
                         /\ Closing(d)' => Closing(d) /\ d # c
  BY <1>4 DEF Critical, Closing
<1>8. Locked'
  BY <1>2, <1>4, <1>6, <1>7 DEF SubscriberInv, Locked
<1>9. OneCloser'
  BY <1>2, <1>3, <1>4, <1>5, <1>7 DEF SubscriberInv, OneCloser, Closing
<1>10. ClosesAll'
  BY <1>2, <1>3, <1>4, <1>5, <1>6 DEF SubscriberInv, ClosesAll
<1> QED
  BY <1>6, <1>8, <1>9, <1>10, TypesStep DEF SubscriberInv

\* closeOnce.Do: in, or on when it is done.
LEMMA OnceStep ==
  ASSUME SubscriberInv, [Next]_vars, NEW c \in Callers, Once(c)
  PROVE  SubscriberInv'
<1>1. PICK s \in Streams : s = work[c].s /\ begun[s].from # 0
  BY DEF Once, SubscriberInv, OneCloser
<1>2. /\ pc[c] = "once"
      /\ UNCHANGED <<mu, work, begun, running, stream, streaming, closed, closeDone, open, slot>>
  BY DEF Once, fields, server, ghosts
<1>3. PICK l \in {"wait", "return"} :
        /\ pc' = [pc EXCEPT ![c] = l]
        /\ l = "wait" => once[s] = "new" /\ once' = [once EXCEPT ![s] = "busy"]
        /\ l = "return" => once[s] = "done" /\ once' = once
  BY <1>1 DEF Once, Goto
<1>4. /\ pc'[c] = l
      /\ \A d \in Callers : d # c => pc'[d] = pc[d] /\ work'[d] = work[d]
  BY <1>2, <1>3, Others
<1>5. /\ l = "wait" => once'[s] = "busy"
      /\ \A t \in Streams : t # s => once'[t] = once[t]
  BY <1>3 DEF SubscriberInv, Types
<1>6. \A t \in Streams : Active(t)' = Active(t)
  BY <1>2, <1>3, <1>5 DEF Active
<1>7. NextStream' = NextStream
  BY <1>2 DEF NextStream
<1>8. OneStream'
  <2>1. \A t \in Streams : begun'[t].from = 0 => once'[t] = "new"
    BY <1>1, <1>2, <1>5 DEF SubscriberInv, OneStream
  <2>2. stream' # 0 => Active(stream)'
    BY <1>2, <1>6 DEF SubscriberInv, OneStream, Types
  <2> QED
    BY <1>2, <1>6, <2>1, <2>2 DEF SubscriberInv, OneStream
<1>9. \A d \in Callers : Critical(d)' => Critical(d) /\ d # c
  BY <1>4 DEF Critical
<1>10. Locked'
  BY <1>2, <1>4, <1>7, <1>9 DEF SubscriberInv, Locked
<1>11. \A d \in Callers : Closing(d)' => (Closing(d) /\ d # c) \/ (d = c /\ l = "wait")
  <2> SUFFICES ASSUME NEW d \in Callers, Closing(d)'
               PROVE  (Closing(d) /\ d # c) \/ (d = c /\ l = "wait")
    OBVIOUS
  <2>1. CASE d = c
    BY <2>1, <1>3, <1>4 DEF Closing
  <2>2. CASE d # c
    BY <2>2, <1>4 DEF Closing
  <2> QED
    BY <2>1, <2>2
<1>12. l = "wait" => \A d \in Callers : Closing(d) => work[d].s # s
  BY <1>3 DEF SubscriberInv, OneCloser
<1>13. OneCloser'
  <2>1. \A d \in Callers : (pc[d] = "once" \/ Closing(d))' =>
          work'[d].s \in Streams /\ begun'[work'[d].s].from # 0
    BY <1>1, <1>2, <1>4, <1>11 DEF SubscriberInv, OneCloser
  <2>2. ASSUME NEW d \in Callers, Closing(d)' PROVE once'[work'[d].s] = "busy"
    <3>1. CASE d = c
      BY <3>1, <2>2, <1>1, <1>2, <1>5, <1>11
    <3>2. CASE d # c
      <4>1. Closing(d) /\ once[work[d].s] = "busy" /\ work[d].s \in Streams
        BY <3>2, <2>2, <1>11 DEF SubscriberInv, OneCloser
      <4>2. work[d].s # s
        BY <4>1, <1>3
      <4> QED
        BY <4>1, <4>2, <1>2, <1>5
    <3> QED
      BY <3>1, <3>2
  <2>3. \A d, e \in Callers :
          Closing(d)' /\ Closing(e)' /\ work'[d].s = work'[e].s => d = e
    BY <1>1, <1>2, <1>11, <1>12 DEF SubscriberInv, OneCloser
  <2>4. \A d \in Callers : pc'[d] = "release" => work'[d].s \notin open'
    BY <1>2, <1>4 DEF SubscriberInv, OneCloser
  <2> QED
    BY <2>1, <2>2, <2>3, <2>4 DEF OneCloser
<1>14. ClosesAll'
  <2>1. l = "return" => ~Active(s)
    BY <1>3 DEF Active
  <2> QED
    BY <1>1, <1>2, <1>4, <1>6, <2>1 DEF SubscriberInv, ClosesAll
<1> QED
  BY <1>8, <1>10, <1>13, <1>14, TypesStep DEF SubscriberInv

\* The reader is gone: the connection is closed.
LEMMA StopStep ==
  ASSUME SubscriberInv, [Next]_vars, NEW c \in Callers, StopReader(c)
  PROVE  SubscriberInv'
<1>1. PICK s \in Streams : s = work[c].s /\ Closing(c)
  BY DEF StopReader, SubscriberInv, OneCloser, Closing
<1>2. /\ pc[c] = "wait" /\ s \notin running /\ open' = open \ {s}
      /\ pc' = [pc EXCEPT ![c] = "release"]
      /\ UNCHANGED <<mu, work, begun, once, running, stream, streaming, closed, closeDone, slot>>
  BY <1>1 DEF StopReader, Goto, fields, server, ghosts
<1>3. /\ pc'[c] = "release"
      /\ \A d \in Callers : d # c => pc'[d] = pc[d] /\ work'[d] = work[d]
  BY <1>2, Others
<1>4. \A t : Active(t)' = Active(t)
  BY <1>2 DEF Active
<1>5. NextStream' = NextStream
  BY <1>2 DEF NextStream
<1>6. OneStream'
  BY <1>2, <1>4 DEF SubscriberInv, OneStream
<1>7. \A d \in Callers : /\ Critical(d)' => Critical(d) /\ d # c
                         /\ Closing(d)' => Closing(d)
  BY <1>2, <1>3 DEF Critical, Closing
<1>8. Locked'
  BY <1>2, <1>3, <1>5, <1>7 DEF SubscriberInv, Locked
<1>9. OneCloser'
  BY <1>1, <1>2, <1>3, <1>7 DEF SubscriberInv, OneCloser
<1>10. ClosesAll'
  BY <1>2, <1>3, <1>4 DEF SubscriberInv, ClosesAll
<1> QED
  BY <1>6, <1>8, <1>9, <1>10, TypesStep DEF SubscriberInv

\* releaseStream: the one stream is over, and another may begin.
LEMMA ReleaseStep ==
  ASSUME SubscriberInv, [Next]_vars, NEW c \in Callers, ReleaseStream(c)
  PROVE  SubscriberInv'
<1>1. PICK s \in Streams : s = work[c].s /\ Closing(c) /\ begun[s].from # 0
  BY DEF ReleaseStream, SubscriberInv, OneCloser, Closing
<1>2. /\ pc[c] = "release" /\ stream' = 0 /\ streaming' = FALSE /\ mu = {}
      /\ once' = [once EXCEPT ![s] = "done"] /\ pc' = [pc EXCEPT ![c] = "return"]
      /\ UNCHANGED <<mu, work, begun, running, closed, closeDone, open, slot>>
  BY <1>1 DEF ReleaseStream, Goto, server, ghosts
<1>3. /\ pc'[c] = "return"
      /\ \A d \in Callers : d # c => pc'[d] = pc[d] /\ work'[d] = work[d]
  BY <1>2, Others
<1>4. once'[s] = "done" /\ \A t \in Streams : t # s => once'[t] = once[t]
  BY <1>2 DEF SubscriberInv, Types
<1>5. Active(s) /\ s \notin open
  BY <1>1, <1>2 DEF SubscriberInv, OneCloser, Active
<1>6. \A t \in Streams : ~Active(t)'
  BY <1>2, <1>4, <1>5 DEF Active, SubscriberInv, OneStream
<1>7. \A t \in Streams : t \notin open
  BY <1>5 DEF SubscriberInv, OneStream
<1>8. OneStream'
  BY <1>1, <1>2, <1>4, <1>6, <1>7 DEF SubscriberInv, OneStream
<1>9. \A d \in Callers : ~Critical(d)
  BY <1>2 DEF SubscriberInv, Locked
<1>10. Locked'
  BY <1>3, <1>9 DEF Locked, Critical
<1>11. \A d \in Callers : Closing(d)' => Closing(d) /\ d # c
  BY <1>3 DEF Closing
<1>12. OneCloser'
  BY <1>1, <1>2, <1>3, <1>4, <1>11 DEF SubscriberInv, OneCloser
<1>13. ClosesAll'
  BY <1>2, <1>3, <1>6 DEF SubscriberInv, ClosesAll
<1> QED
  BY <1>8, <1>10, <1>12, <1>13, TypesStep DEF SubscriberInv

\* Close takes the stream under the lock.
LEMMA CloseLockStep ==
  ASSUME SubscriberInv, [Next]_vars, NEW c \in Callers, CloseLock(c)
  PROVE  SubscriberInv'
<1>1. PICK w : w = [work[c] EXCEPT !.s = stream, !.op = "close"]
  OBVIOUS
<1>2. PICK l \in {"once", "return"} : l = IF stream # 0 THEN "once" ELSE "return"
  OBVIOUS
<1>3. /\ pc[c] = "idle" /\ mu = {} /\ ~closed /\ closed' = TRUE /\ stream' = 0
      /\ work' = [work EXCEPT ![c] = w] /\ pc' = [pc EXCEPT ![c] = l]
      /\ UNCHANGED <<mu, begun, once, running, streaming, closeDone, open, slot>>
  BY <1>1, <1>2 DEF CloseLock, Goto, server, ghosts, SubscriberInv, Types
<1>4. w.s = stream /\ w.op = "close"
  BY <1>1 DEF SubscriberInv, Types, Works
<1>5. /\ pc'[c] = l
      /\ \A d \in Callers : d # c => pc'[d] = pc[d] /\ work'[d] = work[d]
  BY <1>3, Others
<1>6. work'[c] = w
  BY <1>3 DEF SubscriberInv, Types
<1>7. \A t : Active(t)' = Active(t)
  BY <1>3 DEF Active
<1>8. OneStream'
  BY <1>3, <1>7 DEF SubscriberInv, OneStream
<1>9. \A d \in Callers : ~Critical(d)
  BY <1>3 DEF SubscriberInv, Locked
<1>10. Locked'
  BY <1>5, <1>9 DEF Locked, Critical
<1>11. \A d \in Callers : Closing(d)' => Closing(d) /\ d # c
  BY <1>5 DEF Closing
<1>12. stream # 0 => stream \in Streams /\ begun[stream].from # 0
  BY DEF SubscriberInv, Types, OneStream, Active
<1>13. OneCloser'
  BY <1>2, <1>3, <1>4, <1>5, <1>6, <1>11, <1>12 DEF SubscriberInv, OneCloser, Closing
<1>14. \A t \in Streams : Active(t) => t = stream
  BY <1>3 DEF SubscriberInv, OneStream
<1>15. ~closeDone
  BY <1>3 DEF SubscriberInv, ClosesAll
<1>16. \A t \in Streams : Active(t) => t = w.s /\ l # "return"
  BY <1>2, <1>4, <1>14, Bounds
<1>17. \A d \in Callers : d # c =>
         ~(pc[d] \in {"once", "wait", "release", "return"} /\ work[d].op = "close")
  BY <1>3 DEF SubscriberInv, ClosesAll
<1>18. ClosesAll'
  BY <1>3, <1>5, <1>6, <1>7, <1>15, <1>16, <1>17 DEF ClosesAll
<1> QED
  BY <1>8, <1>10, <1>13, <1>18, TypesStep DEF SubscriberInv

\* Close and a stream's Close return.
LEMMA CloseEndStep ==
  ASSUME SubscriberInv, [Next]_vars, NEW c \in Callers, CloseEnd(c)
  PROVE  SubscriberInv'
<1>1. /\ pc[c] = "return" /\ pc' = [pc EXCEPT ![c] = "idle"]
      /\ work' = [work EXCEPT ![c] = NoWork]
      /\ UNCHANGED <<mu, begun, once, running, stream, streaming, closed, slot>>
  BY DEF CloseEnd, Return, Goto, fields, server
<1>2. /\ open' = IF work[c].op = "close" THEN open \ {Control} ELSE open
      /\ closeDone' = (closeDone \/ work[c].op = "close")
  BY DEF CloseEnd
<1>3. /\ pc'[c] = "idle"
      /\ \A d \in Callers : d # c => pc'[d] = pc[d] /\ work'[d] = work[d]
  BY <1>1, Others
<1>4. \A s \in Streams : s \in open' <=> s \in open
  BY <1>2, Bounds
<1>5. OneStream' /\ NextStream' = NextStream /\ \A t \in Streams : Active(t)' = Active(t)
  BY <1>1, <1>4, StreamFrame
<1>6. \A d \in Callers : /\ Critical(d)' => Critical(d) /\ d # c
                         /\ Closing(d)' => Closing(d) /\ d # c
  BY <1>3 DEF Critical, Closing
<1>7. Locked'
  BY <1>1, <1>3, <1>5, <1>6 DEF SubscriberInv, Locked
<1>8. OneCloser'
  BY <1>1, <1>2, <1>3, <1>6 DEF SubscriberInv, OneCloser, Closing
<1>9. ClosesAll'
  <2>1. \A d \in Callers :
          pc'[d] \in {"once", "wait", "release", "return"} /\ work'[d].op = "close" =>
            /\ closed' /\ \A s \in Streams : Active(s)' => s = work'[d].s /\ pc'[d] # "return"
    BY <1>1, <1>3, <1>5 DEF SubscriberInv, ClosesAll
  <2>2. CASE work[c].op = "close"
    <3>1. closed /\ \A s \in Streams : ~Active(s)
      BY <2>2, <1>1 DEF SubscriberInv, ClosesAll
    <3>2. Control \notin open'
      BY <2>2, <1>2
    <3> QED
      BY <2>1, <3>1, <3>2, <1>1, <1>5 DEF ClosesAll
  <2>3. CASE work[c].op # "close"
    <3>1. closeDone' => closeDone
      BY <2>3, <1>2
    <3>2. open' = open
      BY <2>3, <1>2
    <3> QED
      BY <2>1, <3>1, <3>2, <1>1, <1>5 DEF SubscriberInv, ClosesAll
  <2> QED
    BY <2>2, <2>3
<1> QED
  BY <1>5, <1>7, <1>8, <1>9, TypesStep DEF SubscriberInv

-----------------------------------------------------------------------------
(* One replication connection, and a Close that leaves nothing open. *)

\* The inductive invariant holds when New returns.
LEMMA SubscriberInit == Init => SubscriberInv
<1> SUFFICES ASSUME Init PROVE SubscriberInv
  OBVIOUS
<1>1. Types
  BY TypesInit
<1>2. \A c \in Callers : pc[c] = "idle"
  BY DEF Init
<1>3. \A s \in Streams : begun[s].from = 0 /\ once[s] = "new"
  BY DEF Init
<1>4. stream = 0 /\ running = {} /\ open = {} /\ closeDone = FALSE
  BY DEF Init
<1>5. OneStream
  BY <1>3, <1>4 DEF OneStream, Active
<1>6. Locked /\ OneCloser /\ ClosesAll
  BY <1>2, <1>4 DEF Locked, OneCloser, ClosesAll, Critical, Closing
<1> QED
  BY <1>1, <1>5, <1>6 DEF SubscriberInv

\* Table management moves nobody and touches no stream.
LEMMA ManageFrame ==
  ASSUME SubscriberInv, NEW c \in Callers,
         NEW newPub, NEW newTables, NEW accepted, NEW known,
         Manage(c, newPub, newTables, accepted, known)
  PROVE  /\ UNCHANGED <<mu, pc, work, begun, once, running>>
         /\ UNCHANGED <<stream, streaming, closed, closeDone, slot>> /\ ~closed
         /\ \A s \in Streams : s \in open' <=> s \in open
<1>1. PICK r \in {"ok", "unsent", "lost"} : Statement(r)
  BY DEF Manage
<1> QED
  BY <1>1, StatementTypes DEF Manage, SubscriberInv

\* The operations that are one statement on the publication.
Statements(c) ==
  \/ \E given \in SUBSET Tables : \/ AddTables(c, given) \/ RemoveTables(c, given)
                                  \/ SyncTables(c, given) \/ CreatePublication(c, given)
  \/ VerifyTable(c) \/ DropPublication(c)

\* They change the control connection and the lists, and only on an open subscriber.
LEMMA StatementsFrame ==
  ASSUME SubscriberInv, NEW c \in Callers, Statements(c)
  PROVE  /\ UNCHANGED <<mu, pc, work, begun, once, running>>
         /\ UNCHANGED <<stream, streaming, closed, closeDone, slot>> /\ ~closed
         /\ \A s \in Streams : s \in open' <=> s \in open
<1>1. \E newPub, newTables, accepted, known : Manage(c, newPub, newTables, accepted, known)
  <2>1. ASSUME NEW given \in SUBSET Tables,
               \/ AddTables(c, given) \/ RemoveTables(c, given)
               \/ SyncTables(c, given) \/ CreatePublication(c, given)
        PROVE  \E newPub, newTables, accepted, known :
                 Manage(c, newPub, newTables, accepted, known)
    <3>1. CASE AddTables(c, given)
      BY <3>1, Zenon DEF AddTables
    <3>2. CASE RemoveTables(c, given)
      BY <3>2, Zenon DEF RemoveTables
    <3>3. CASE SyncTables(c, given)
      BY <3>3, Zenon DEF SyncTables
    <3>4. CASE CreatePublication(c, given)
      BY <3>4, Zenon DEF CreatePublication
    <3> QED
      BY <2>1, <3>1, <3>2, <3>3, <3>4
  <2>2. CASE VerifyTable(c)
    BY <2>2, Zenon DEF VerifyTable
  <2>3. CASE DropPublication(c)
    BY <2>3, Zenon DEF DropPublication
  <2> QED
    BY <2>1, <2>2, <2>3, Zenon DEF Statements
<1> QED
  BY <1>1, ManageFrame

\* The three steps of SubscribeFrom before the dial.
LEMMA SetUpFrame ==
  ASSUME SubscriberInv, NEW c \in Callers,
         EnsurePublication(c) \/ EnsureSlot(c) \/ CheckResumable(c)
  PROVE  /\ Critical(c)
         /\ \/ /\ \E l \in {"slot", "check", "start"} : Goto(c, l)
               /\ UNCHANGED <<mu, work>>
            \/ Fail(c)
         /\ UNCHANGED <<begun, once, running, stream, streaming, closed, closeDone>>
         /\ \A s \in Streams : s \in open' <=> s \in open
         /\ slot # Absent => slot' # Absent
<1>0. Types
  BY DEF SubscriberInv
<1>1. CASE EnsurePublication(c)
  <2>1. /\ pc[c] = "publication"
        /\ UNCHANGED <<stream, streaming, closed, once, running, slot, begun, closeDone>>
    BY <1>1 DEF EnsurePublication
  <2>2. CASE UNCHANGED open
    BY <2>1, <2>2, <1>1 DEF EnsurePublication, Critical, Step
  <2>3. ASSUME NEW r \in {"ok", "unsent", "lost"}, Statement(r), Step(c, r = "ok", "slot")
        PROVE  /\ (Goto(c, "slot") /\ UNCHANGED <<mu, work>>) \/ Fail(c)
               /\ \A s \in Streams : s \in open' <=> s \in open
    BY <1>0, <2>3, StatementTypes DEF Step
  <2> QED
    BY <2>1, <2>2, <2>3, <1>1 DEF EnsurePublication, Critical
<1>2. CASE EnsureSlot(c)
  <2>1. /\ pc[c] = "slot" /\ (slot # Absent => slot' # Absent)
        /\ UNCHANGED <<stream, streaming, closed, once, running, open, begun, closeDone>>
    BY <1>2 DEF EnsureSlot, fields, ghosts
  <2>2. (Goto(c, "check") /\ UNCHANGED <<mu, work>>) \/ Fail(c)
    BY <1>2, PgSubscriberAssumption DEF EnsureSlot, Step
  <2> QED
    BY <2>1, <2>2 DEF Critical
<1>3. CASE CheckResumable(c)
  <2>1. /\ pc[c] = "check"
        /\ UNCHANGED <<stream, streaming, closed, once, running, slot, begun, closeDone>>
    BY <1>3 DEF CheckResumable, server, ghosts
  <2>2. CASE Step(c, TRUE, "start") /\ UNCHANGED open
    BY <2>1, <2>2 DEF Critical, Step
  <2>3. ASSUME NEW r \in {"ok", "unsent", "lost"}, Statement(r),
               Step(c, r = "ok" /\ work[c].start >= slot, "start")
        PROVE  /\ (Goto(c, "start") /\ UNCHANGED <<mu, work>>) \/ Fail(c)
               /\ \A s \in Streams : s \in open' <=> s \in open
    BY <1>0, <2>3, StatementTypes DEF Step
  <2> QED
    BY <2>1, <2>2, <2>3, <1>3 DEF CheckResumable, Critical
<1> QED
  BY <1>1, <1>2, <1>3

\* The slot is dropped only when no stream reads it.
LEMMA DropSlotStep ==
  ASSUME SubscriberInv, [Next]_vars, NEW c \in Callers, DropSlot(c)
  PROVE  SubscriberInv'
<1>1. /\ \A s \in Streams : s \notin open
      /\ UNCHANGED <<mu, pc, work, begun, once, running>>
      /\ UNCHANGED <<stream, streaming, closed, closeDone, open>>
  BY DEF DropSlot, fields, ghosts
<1>2. NextStream' = NextStream /\ \A t : Active(t)' = Active(t)
  BY <1>1 DEF NextStream, Active
<1>3. OneStream'
  BY <1>1, <1>2 DEF SubscriberInv, OneStream
<1>4. Locked' /\ OneCloser'
  BY <1>1, <1>2 DEF SubscriberInv, Locked, Critical, OneCloser, Closing
<1>5. ClosesAll'
  BY <1>1, <1>2 DEF SubscriberInv, ClosesAll
<1> QED
  BY <1>3, <1>4, <1>5, TypesStep DEF SubscriberInv

\* Steps of the server and of slot management that move nobody.
LEMMA ServerFrame ==
  ASSUME SubscriberInv,
         \/ WriteWal
         \/ \E s \in Streams : Confirm(s)
         \/ \E c \in Callers : CreateSlot(c)
         \/ UNCHANGED vars
  PROVE  /\ UNCHANGED <<mu, pc, work, begun, once, running>>
         /\ UNCHANGED <<stream, streaming, closed, closeDone, open>>
         /\ slot # Absent => slot' # Absent
<1>1. CASE WriteWal
  BY <1>1 DEF WriteWal, fields, ghosts
<1>2. ASSUME NEW s \in Streams, Confirm(s)
      PROVE  /\ UNCHANGED <<mu, pc, work, begun, once, running>>
             /\ UNCHANGED <<stream, streaming, closed, closeDone, open>>
             /\ slot # Absent => slot' # Absent
  <2>1. slot' = slot + 1 /\ slot \in {Absent} \cup 1 .. MaxLsn
    BY <1>2 DEF Confirm, SubscriberInv, Types
  <2>2. slot # Absent => slot' # Absent
    BY <2>1, Bounds DEF Absent
  <2> QED
    BY <1>2, <2>2 DEF Confirm, fields, ghosts
<1>3. ASSUME NEW c \in Callers, CreateSlot(c)
      PROVE  /\ UNCHANGED <<mu, pc, work, begun, once, running>>
             /\ UNCHANGED <<stream, streaming, closed, closeDone, open>>
             /\ slot # Absent => slot' # Absent
  BY <1>3 DEF CreateSlot, fields, ghosts
<1>4. CASE UNCHANGED vars
  BY <1>4 DEF vars, fields, server, ghosts
<1> QED
  BY <1>1, <1>2, <1>3, <1>4

\* Every step of a caller, a reader or the server keeps the inductive invariant.
LEMMA SubscriberStep == SubscriberInv /\ [Next]_vars => SubscriberInv'
<1> SUFFICES ASSUME SubscriberInv, [Next]_vars PROVE SubscriberInv'
  OBVIOUS
<1>1. ASSUME NEW c \in Callers, Operation(c) PROVE SubscriberInv'
  <2>1. ASSUME NEW lsn \in 0 .. head, SubscribeLock(c, lsn > 0, lsn) PROVE SubscriberInv'
    BY <2>1, SubscribeStep
  <2>2. CASE Statements(c)
    BY <2>2, StatementsFrame, StillFrame
  <2>3. CASE CreateSlot(c)
    BY <2>3, ServerFrame, StillFrame
  <2>4. CASE DropSlot(c)
    BY <2>4, DropSlotStep
  <2>5. CASE CloseLock(c)
    BY <2>5, CloseLockStep
  <2>6. ASSUME NEW s \in Streams, StreamClose(c, s) PROVE SubscriberInv'
    BY <2>6, StreamCloseStep
  <2> QED
    BY <1>1, <2>1, <2>2, <2>3, <2>4, <2>5, <2>6 DEF Operation, Statements
<1>2. ASSUME NEW c \in Callers, Continue(c) PROVE SubscriberInv'
  <2>1. CASE EnsurePublication(c) \/ EnsureSlot(c) \/ CheckResumable(c)
    BY <2>1, SetUpFrame, CriticalStep
  <2>2. CASE StartReplication(c)
    BY <2>2, StartStep
  <2>3. CASE Once(c)
    BY <2>3, OnceStep
  <2>4. CASE StopReader(c)
    BY <2>4, StopStep
  <2>5. CASE ReleaseStream(c)
    BY <2>5, ReleaseStep
  <2>6. CASE CloseEnd(c)
    BY <2>6, CloseEndStep
  <2> QED
    BY <1>2, <2>1, <2>2, <2>3, <2>4, <2>5, <2>6 DEF Continue
<1>3. ASSUME NEW s \in Streams, ReaderEnds(s) PROVE SubscriberInv'
  BY <1>3, ReaderStep
<1>4. CASE WriteWal \/ (\E s \in Streams : Confirm(s)) \/ UNCHANGED vars
  BY <1>4, ServerFrame, StillFrame
<1> QED
  BY <1>1, <1>2, <1>3, <1>4 DEF Next

\* The lock, the streams, their Close and the subscriber's keep the inductive invariant
\* (SubscribeFrom, releaseStream, Close, 84-134, 431-458).
THEOREM SubscriberInvHolds == Spec => []SubscriberInv
BY SubscriberInit, SubscriberStep, PTL DEF Spec

\* What the inductive invariant says of the properties.
LEMMA SubscriberInvGives == SubscriberInv => Inv
<1> SUFFICES ASSUME SubscriberInv PROVE Inv
  OBVIOUS
<1>0. Types /\ OneStream /\ ClosesAll
  BY DEF SubscriberInv
<1>1. mu \subseteq Callers /\ Cardinality(mu) <= 1
  <2>1. CASE mu = {}
    BY <2>1, FS_EmptySet
  <2>2. ASSUME NEW c \in Callers, mu = {c} PROVE Cardinality(mu) <= 1
    BY <2>2, FS_Singleton
  <2> QED
    BY <1>0, <2>1, <2>2 DEF Types
<1>2. TypeOK
  BY <1>0, <1>1 DEF Types, TypeOK, Points, Works
<1>3. OneReplicationConn
  <2>1. \A s, t \in open \cap Streams : s = t
    BY <1>0 DEF OneStream
  <2>2. CASE open \cap Streams = {}
    BY <2>2, FS_EmptySet DEF OneReplicationConn
  <2>3. ASSUME NEW s \in open \cap Streams PROVE OneReplicationConn
    <3>1. open \cap Streams = {s}
      BY <2>1
    <3> QED
      BY <3>1, FS_Singleton DEF OneReplicationConn
  <2> QED
    BY <2>2, <2>3
<1>4. CloseReleasesAll
  <2> SUFFICES ASSUME closeDone PROVE open = {} /\ running = {}
    BY DEF CloseReleasesAll
  <2>1. \A s \in Streams : s \notin open
    BY <1>0 DEF ClosesAll, OneStream
  <2>2. open = {}
    BY <1>0, <2>1 DEF Types, ClosesAll
  <2> QED
    BY <1>0, <2>2 DEF OneStream
<1> QED
  BY <1>2, <1>3, <1>4 DEF Inv

\* There is never a second replication connection on the slot, and a Close that has
\* returned leaves no connection and no reader, whatever was in flight (76, 429-458).
THEOREM SubscriberIsSound == Spec => []Inv
BY SubscriberInvHolds, SubscriberInvGives, PTL

-----------------------------------------------------------------------------
(* A stream begins where it was asked to. *)

\* What was checked stands when the slot stays and no caller comes to START_REPLICATION.
LEMMA ResumableFrame ==
  ASSUME Resumable,
         \A d \in Callers : Critical(d)' => Critical(d) /\ work'[d] = work[d],
         \A d \in Callers : pc'[d] = "start" => pc[d] = "start" /\ slot' = slot
  PROVE  Resumable'
<1>1. \A d \in Callers : Critical(d)' /\ ~work'[d].after => work'[d].start = StartLSN
  BY DEF Resumable
<1>2. \A d \in Callers : pc'[d] = "start" => Critical(d)'
  BY DEF Critical
<1>3. \A d \in Callers : pc'[d] = "start" /\ work'[d].after => work'[d].start >= slot'
  BY <1>2 DEF Resumable
<1> QED
  BY <1>1, <1>3 DEF Resumable

\* A caller that moves outside SubscribeFrom, or out of it.
LEMMA ResumableMove ==
  ASSUME SubscriberInv, Resumable, NEW c \in Callers,
         NEW l \in {"idle", "once", "wait", "release", "return"},
         pc' = [pc EXCEPT ![c] = l],
         work' = work \/ \E w : work' = [work EXCEPT ![c] = w],
         slot' = slot
  PROVE  Resumable'
<1>1. pc'[c] = l /\ \A d \in Callers : d # c => pc'[d] = pc[d] /\ work'[d] = work[d]
  BY Others
<1>2. \A d \in Callers : /\ Critical(d)' => Critical(d) /\ work'[d] = work[d]
                         /\ pc'[d] = "start" => pc[d] = "start"
  BY <1>1 DEF Critical
<1> QED
  BY <1>2, ResumableFrame

\* Nobody moves, and the slot stays as long as SubscribeFrom has the lock.
LEMMA ResumableStill ==
  ASSUME Resumable, UNCHANGED <<pc, work>>, slot' = slot \/ \A d \in Callers : ~Critical(d)
  PROVE  Resumable'
<1>1. \A d \in Callers : Critical(d)' <=> Critical(d)
  BY DEF Critical
<1>2. \A d \in Callers : pc'[d] = "start" => pc[d] = "start" /\ slot' = slot
  BY DEF Critical
<1> QED
  BY <1>1, <1>2, ResumableFrame

\* SubscribeFrom has the lock alone.
LEMMA OneSubscriber ==
  ASSUME SubscriberInv
  PROVE  /\ mu = {} \/ streaming => \A d \in Callers : ~Critical(d)
         /\ \A c, d \in Callers : Critical(c) /\ Critical(d) => c = d
BY DEF SubscriberInv, Locked

\* SubscribeFrom goes one step towards START_REPLICATION, or gives up.
LEMMA ResumableSetUp ==
  ASSUME SubscriberInv, Resumable, NEW c \in Callers,
         EnsurePublication(c) \/ EnsureSlot(c) \/ CheckResumable(c)
  PROVE  Resumable'
<1>1. Critical(c)
  BY SetUpFrame
<1>2. PICK l \in {"slot", "check", "start", "idle"} :
        /\ pc' = [pc EXCEPT ![c] = l]
        /\ l # "idle" => work' = work
        /\ work' = work \/ \E w : work' = [work EXCEPT ![c] = w]
  BY SetUpFrame DEF Goto, Fail, Return
<1>3. pc'[c] = l /\ \A d \in Callers : d # c => pc'[d] = pc[d] /\ work'[d] = work[d]
  BY <1>2, Others
<1>4. \A d \in Callers : d # c => ~Critical(d)'
  BY <1>1, <1>3, OneSubscriber DEF Critical
<1>5. \A d \in Callers : Critical(d)' => d = c /\ l # "idle"
  BY <1>3, <1>4 DEF Critical
<1>6. ASSUME l = "start" PROVE work[c].after => work[c].start >= slot /\ slot' = slot
  <2>1. CheckResumable(c)
    <3>1. ~EnsurePublication(c)
      <4> SUFFICES ASSUME EnsurePublication(c) PROVE FALSE
        OBVIOUS
      <4>1. pc' = [pc EXCEPT ![c] = "slot"] \/ pc' = [pc EXCEPT ![c] = "idle"]
        BY DEF EnsurePublication, Step, Goto, Fail, Return
      <4> QED
        BY <4>1, <1>3, <1>6 DEF SubscriberInv, Types
    <3>2. ~EnsureSlot(c)
      <4> SUFFICES ASSUME EnsureSlot(c) PROVE FALSE
        OBVIOUS
      <4>1. pc' = [pc EXCEPT ![c] = "check"] \/ pc' = [pc EXCEPT ![c] = "idle"]
        BY PgSubscriberAssumption DEF EnsureSlot, Step, Goto, Fail, Return
      <4> QED
        BY <4>1, <1>3, <1>6 DEF SubscriberInv, Types
    <3> QED
      BY <3>1, <3>2
  <2>2. slot' = slot
    BY <2>1 DEF CheckResumable, server
  <2>3. ASSUME work[c].after PROVE work[c].start >= slot
    <3>1. PICK r \in {"ok", "unsent", "lost"} :
            Step(c, r = "ok" /\ work[c].start >= slot, "start")
      BY <2>1, <2>3 DEF CheckResumable
    <3>2. ~Fail(c)
      <4> SUFFICES ASSUME pc' = [pc EXCEPT ![c] = "idle"] PROVE FALSE
        BY DEF Fail, Return, Goto
      <4> QED
        BY <1>3, <1>6 DEF SubscriberInv, Types
    <3> QED
      BY <3>1, <3>2 DEF Step
  <2> QED
    BY <2>2, <2>3
<1>7. \A d \in Callers : Critical(d)' /\ ~work'[d].after => work'[d].start = StartLSN
  BY <1>1, <1>2, <1>5 DEF Resumable
<1>8. \A d \in Callers : pc'[d] = "start" => d = c /\ l = "start"
  BY <1>3, <1>5 DEF Critical
<1>9. \A d \in Callers : pc'[d] = "start" /\ work'[d].after => work'[d].start >= slot'
  BY <1>2, <1>6, <1>8
<1> QED
  BY <1>7, <1>9 DEF Resumable

\* No step moves the slot between checkResumable and START_REPLICATION.
LEMMA ResumableStep == SubscriberInv /\ Resumable /\ [Next]_vars => Resumable'
<1> SUFFICES ASSUME SubscriberInv, Resumable, [Next]_vars PROVE Resumable'
  OBVIOUS
<1>1. ASSUME NEW c \in Callers, Operation(c) PROVE Resumable'
  <2>1. ASSUME NEW lsn \in 0 .. head, SubscribeLock(c, lsn > 0, lsn) PROVE Resumable'
    <3>1. PICK st : st = IF lsn > 0 THEN lsn ELSE StartLSN
      OBVIOUS
    <3>2. PICK a : a = (lsn > 0)
      OBVIOUS
    <3>3. PICK w : w = [s |-> NextStream, op |-> "subscribe", after |-> a, start |-> st]
      OBVIOUS
    <3>4. /\ mu = {} /\ pc' = [pc EXCEPT ![c] = "publication"]
          /\ work' = [work EXCEPT ![c] = w]
      BY <2>1, <3>1, <3>2, <3>3 DEF SubscribeLock, Lock, Goto
    <3>5. w.after = a /\ w.start = st
      BY <3>3
    <3>6. ~w.after => w.start = StartLSN
      BY <3>1, <3>2, <3>5
    <3>7. /\ pc'[c] = "publication"
          /\ \A d \in Callers : d # c => pc'[d] = pc[d] /\ work'[d] = work[d]
      BY <3>4, Others
    <3>8. work'[c] = w
      BY <3>4 DEF SubscriberInv, Types
    <3>9. \A d \in Callers : ~Critical(d)
      BY <3>4, OneSubscriber
    <3>10. \A d \in Callers : Critical(d)' => d = c
      BY <3>7, <3>9 DEF Critical
    <3>11. \A d \in Callers : pc'[d] # "start"
      BY <3>7, <3>10 DEF Critical
    <3> QED
      BY <3>6, <3>8, <3>10, <3>11 DEF Resumable
  <2>2. CASE Statements(c)
    BY <2>2, StatementsFrame, ResumableStill
  <2>3. CASE CreateSlot(c) \/ DropSlot(c)
    <3>1. mu = {} /\ UNCHANGED <<pc, work>>
      BY <2>3 DEF CreateSlot, DropSlot
    <3> QED
      BY <3>1, OneSubscriber, ResumableStill
  <2>4. CASE CloseLock(c)
    <3>1. PICK l \in {"once", "return"} : l = IF stream # 0 THEN "once" ELSE "return"
      OBVIOUS
    <3>2. PICK w : w = [work[c] EXCEPT !.s = stream, !.op = "close"]
      OBVIOUS
    <3>3. pc' = [pc EXCEPT ![c] = l] /\ work' = [work EXCEPT ![c] = w] /\ slot' = slot
      BY <2>4, <3>1, <3>2 DEF CloseLock, Goto, server, SubscriberInv, Types
    <3> QED
      BY <3>3, ResumableMove
  <2>5. ASSUME NEW s \in Streams, StreamClose(c, s) PROVE Resumable'
    <3>1. PICK w : w = [work[c] EXCEPT !.s = s, !.op = "stream"]
      OBVIOUS
    <3>2. pc' = [pc EXCEPT ![c] = "once"] /\ work' = [work EXCEPT ![c] = w] /\ slot' = slot
      BY <2>5, <3>1 DEF StreamClose, Goto, server, SubscriberInv, Types
    <3> QED
      BY <3>2, ResumableMove
  <2> QED
    BY <1>1, <2>1, <2>2, <2>3, <2>4, <2>5 DEF Operation, Statements
<1>2. ASSUME NEW c \in Callers, Continue(c) PROVE Resumable'
  <2>1. CASE EnsurePublication(c) \/ EnsureSlot(c) \/ CheckResumable(c)
    BY <2>1, ResumableSetUp
  <2>2. CASE StartReplication(c) \/ CloseEnd(c)
    <3>1. /\ pc' = [pc EXCEPT ![c] = "idle"] /\ work' = [work EXCEPT ![c] = NoWork]
          /\ slot' = slot
      BY <2>2 DEF StartReplication, CloseEnd, Fail, Return, Goto, server
    <3> QED
      BY <3>1, ResumableMove
  <2>3. CASE Once(c) \/ StopReader(c) \/ ReleaseStream(c)
    <3>1. PICK l \in {"wait", "release", "return"} : pc' = [pc EXCEPT ![c] = l]
      BY <2>3 DEF Once, StopReader, ReleaseStream, Goto
    <3>2. work' = work /\ slot' = slot
      BY <2>3 DEF Once, StopReader, ReleaseStream, server
    <3> QED
      BY <3>1, <3>2, ResumableMove
  <2> QED
    BY <1>2, <2>1, <2>2, <2>3 DEF Continue
<1>3. ASSUME NEW s \in Streams, Confirm(s) PROVE Resumable'
  <2>1. s \in open /\ UNCHANGED <<pc, work>>
    BY <1>3 DEF Confirm
  <2>2. streaming
    BY <2>1 DEF SubscriberInv, OneStream
  <2> QED
    BY <2>1, <2>2, OneSubscriber, ResumableStill
<1>4. CASE WriteWal \/ (\E s \in Streams : ReaderEnds(s)) \/ UNCHANGED vars
  <2>1. UNCHANGED <<pc, work, slot>>
    BY <1>4 DEF WriteWal, ReaderEnds, vars, server
  <2> QED
    BY <2>1, ResumableStill
<1> QED
  BY <1>1, <1>2, <1>3, <1>4 DEF Next

\* A stream's two positions are set when it starts and never again.
LEMMA BegunStep ==
  ASSUME SubscriberInv, [Next]_vars,
         ~(\E c \in Callers : StartReplication(c))
  PROVE  begun' = begun
<1>1. ASSUME NEW c \in Callers, Operation(c) PROVE begun' = begun
  <2>1. CASE Statements(c)
    BY <2>1, StatementsFrame
  <2>2. CASE ~Statements(c)
    BY <1>1, <2>2 DEF Operation, Statements, SubscribeLock, CreateSlot, DropSlot, CloseLock,
                      StreamClose, ghosts
  <2> QED
    BY <2>1, <2>2
<1>2. ASSUME NEW c \in Callers, Continue(c) PROVE begun' = begun
  BY <1>2 DEF Continue, EnsurePublication, EnsureSlot, CheckResumable, Once, StopReader,
              ReleaseStream, CloseEnd, ghosts
<1>3. ASSUME NEW s \in Streams, ReaderEnds(s) \/ Confirm(s) PROVE begun' = begun
  BY <1>3 DEF ReaderEnds, Confirm, ghosts
<1>4. CASE WriteWal \/ UNCHANGED vars
  BY <1>4 DEF WriteWal, vars, ghosts
<1> QED
  BY <1>1, <1>2, <1>3, <1>4 DEF Next

\* START_REPLICATION begins at the position checkResumable accepted.
LEMMA BeginsStep ==
  ASSUME StartLSN = 0
  PROVE  SubscriberInv /\ Resumable /\ BeginsWhereAsked /\ [Next]_vars => BeginsWhereAsked'
<1> SUFFICES ASSUME SubscriberInv, Resumable, BeginsWhereAsked, [Next]_vars
             PROVE  BeginsWhereAsked'
  OBVIOUS
<1>1. ASSUME NEW c \in Callers, StartReplication(c) PROVE BeginsWhereAsked'
  <2>1. CASE UNCHANGED begun
    BY <2>1 DEF BeginsWhereAsked
  <2>2. CASE ~UNCHANGED begun
    <3>1. PICK s \in Streams : s = work[c].s
      BY <1>1 DEF StartReplication, SubscriberInv, Locked, Critical
    <3>2. PICK b : b = [asked |-> work[c].start, from |-> BeginsAt(work[c].start)]
      OBVIOUS
    <3>3. begun' = [begun EXCEPT ![s] = b] /\ pc[c] = "start" /\ slot # Absent
      BY <1>1, <2>2, <3>1, <3>2 DEF StartReplication
    <3>4. begun'[s] = b /\ \A t \in Streams : t # s => begun'[t] = begun[t]
      BY <3>3 DEF SubscriberInv, Types
    <3>5. work[c].start \in Nat /\ slot \in Nat /\ work[c].after \in BOOLEAN
      BY <3>3, Bounds DEF SubscriberInv, Types, Works
    <3>6. b.asked # 0 => b.from <= b.asked
      <4>1. CASE work[c].after
        <5>1. work[c].start >= slot
          BY <4>1, <3>3 DEF Resumable
        <5> QED
          BY <5>1, <3>2, <3>5 DEF BeginsAt
      <4>2. CASE ~work[c].after
        <5>1. work[c].start = 0
          BY <4>2, <3>3 DEF Resumable, Critical
        <5> QED
          BY <5>1, <3>2
      <4> QED
        BY <4>1, <4>2, <3>5
    <3> QED
      BY <3>4, <3>6 DEF BeginsWhereAsked
  <2> QED
    BY <2>1, <2>2
<1>2. CASE ~(\E c \in Callers : StartReplication(c))
  BY <1>2, BegunStep DEF BeginsWhereAsked
<1> QED
  BY <1>1, <1>2

\* A stream asked for a position begins there, never after it (checkResumable, 136-150).
\* Config.StartLSN is left unset: it is not compared with the slot, and one the slot has
\* moved past is silently ignored.
THEOREM StreamsBeginWhereAsked == StartLSN = 0 => (Spec => []BeginsWhereAsked)
<1> SUFFICES ASSUME StartLSN = 0 PROVE Spec => []BeginsWhereAsked
  OBVIOUS
<1>1. Init => Resumable /\ BeginsWhereAsked
  BY DEF Init, Resumable, BeginsWhereAsked, Critical
<1> QED
  BY <1>1, SubscriberInvHolds, ResumableStep, BeginsStep, PTL DEF Spec

-----------------------------------------------------------------------------
(* The lists of tables. *)

\* One statement keeps lists that agree, or records that they may not.
LEMMA SyncedManage ==
  ASSUME SubscriberInv, SyncedIsPublished, NEW c \in Callers,
         NEW newPub, NEW newTables, NEW accepted \in BOOLEAN, NEW known \in BOOLEAN,
         Manage(c, newPub, newTables, accepted, known),
         accepted /\ known => newTables = newPub
  PROVE  SyncedIsPublished'
<1>1. PICK r \in {"ok", "unsent", "lost"} :
        /\ pub' = IF r # "unsent" /\ accepted THEN newPub ELSE pub
        /\ tables' = IF r = "ok" /\ accepted THEN newTables ELSE tables
        /\ synced' = IF r # "unsent" /\ accepted THEN r = "ok" /\ known ELSE synced
  BY DEF Manage
<1>2. CASE r # "unsent" /\ accepted
  <2>1. CASE r = "ok" /\ known
    BY <1>1, <1>2, <2>1 DEF SyncedIsPublished
  <2>2. CASE ~(r = "ok" /\ known)
    BY <1>1, <1>2, <2>2 DEF SyncedIsPublished
  <2> QED
    BY <2>1, <2>2
<1>3. CASE ~(r # "unsent" /\ accepted)
  <2>1. pub' = pub /\ tables' = tables /\ synced' = synced
    BY <1>1, <1>3
  <2> QED
    BY <2>1 DEF SyncedIsPublished
<1> QED
  BY <1>2, <1>3

\* Every step keeps lists that agree, or records that they may not.
LEMMA SyncedStep == SubscriberInv /\ SyncedIsPublished /\ [Next]_vars => SyncedIsPublished'
<1> SUFFICES ASSUME SubscriberInv, SyncedIsPublished, [Next]_vars PROVE SyncedIsPublished'
  OBVIOUS
<1>0. synced \in BOOLEAN
  BY DEF SubscriberInv, Types
<1>1. ASSUME UNCHANGED <<tables, pub, synced>> PROVE SyncedIsPublished'
  BY <1>1 DEF SyncedIsPublished
<1>2. ASSUME NEW c \in Callers, Statements(c) PROVE SyncedIsPublished'
  <2>1. ASSUME NEW given \in SUBSET Tables, AddTables(c, given) PROVE SyncedIsPublished'
    <3>1. PICK m : m = given \ tables
      OBVIOUS
    <3>2. PICK a \in BOOLEAN : a = (pub # NoPub /\ m \cap pub = {})
      OBVIOUS
    <3>3. Manage(c, pub \cup m, tables \cup m, a, synced)
      BY <2>1, <3>1, <3>2 DEF AddTables
    <3>4. synced => tables \cup m = pub \cup m
      BY DEF SyncedIsPublished
    <3> QED
      BY <3>3, <3>4, <1>0, SyncedManage
  <2>2. ASSUME NEW given \in SUBSET Tables, RemoveTables(c, given) PROVE SyncedIsPublished'
    <3>1. PICK m : m = given \cap tables
      OBVIOUS
    <3>2. PICK a \in BOOLEAN : a = (pub # NoPub /\ m \subseteq pub)
      OBVIOUS
    <3>3. Manage(c, pub \ m, tables \ m, a, synced)
      BY <2>2, <3>1, <3>2 DEF RemoveTables
    <3>4. synced => tables \ m = pub \ m
      BY DEF SyncedIsPublished
    <3> QED
      BY <3>3, <3>4, <1>0, SyncedManage
  <2>3. ASSUME NEW given \in SUBSET Tables, SyncTables(c, given) PROVE SyncedIsPublished'
    BY <2>3, SyncedManage DEF SyncTables
  <2>4. ASSUME NEW given \in SUBSET Tables, CreatePublication(c, given)
        PROVE  SyncedIsPublished'
    BY <2>4, SyncedManage DEF CreatePublication
  <2>5. CASE VerifyTable(c)
    BY <2>5, <1>0, SyncedManage DEF VerifyTable
  <2>6. CASE DropPublication(c)
    BY <2>6, SyncedManage DEF DropPublication
  <2> QED
    BY <1>2, <2>1, <2>2, <2>3, <2>4, <2>5, <2>6 DEF Statements
<1>3. ASSUME NEW c \in Callers, Operation(c), ~Statements(c) PROVE SyncedIsPublished'
  <2>1. UNCHANGED <<tables, pub, synced>>
    BY <1>3 DEF Operation, Statements, SubscribeLock, CreateSlot, DropSlot, CloseLock,
                StreamClose, fields, server, ghosts
  <2> QED
    BY <2>1, <1>1
<1>4. ASSUME NEW c \in Callers, EnsurePublication(c) PROVE SyncedIsPublished'
  <2>1. ASSUME NEW r \in {"ok", "unsent", "lost"},
               pub' = (IF r = "unsent" THEN pub ELSE tables),
               synced' = (r = "ok" \/ (r = "unsent" /\ synced)), tables' = tables
        PROVE  SyncedIsPublished'
    BY <2>1 DEF SyncedIsPublished
  <2> QED
    BY <1>1, <1>4, <2>1 DEF EnsurePublication
<1>5. ASSUME NEW c \in Callers, Continue(c), ~EnsurePublication(c) PROVE SyncedIsPublished'
  <2>1. UNCHANGED <<tables, pub, synced>>
    BY <1>5 DEF Continue, EnsureSlot, CheckResumable, StartReplication, Once, StopReader,
                ReleaseStream, CloseEnd, fields, server, ghosts
  <2> QED
    BY <2>1, <1>1
<1>6. ASSUME NEW s \in Streams, ReaderEnds(s) \/ Confirm(s) PROVE SyncedIsPublished'
  BY <1>6, <1>1 DEF ReaderEnds, Confirm, fields, server, ghosts
<1>7. CASE WriteWal \/ UNCHANGED vars
  BY <1>7, <1>1 DEF WriteWal, vars, fields, server, ghosts
<1> QED
  BY <1>2, <1>3, <1>4, <1>5, <1>6, <1>7 DEF Next

\* Once made to agree, the local list of tables and the publication agree as long as
\* every statement on it is answered (AddTables, RemoveTables, SyncTables,
\* ensurePublication).
THEOREM ListsAgree == Spec => []SyncedIsPublished
<1>1. Init => SyncedIsPublished
  BY DEF Init, SyncedIsPublished
<1> QED
  BY <1>1, SubscriberInvHolds, SyncedStep, PTL DEF Spec
=============================================================================
