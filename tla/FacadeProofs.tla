---------------------------- MODULE FacadeProofs ----------------------------
(***************************************************************************)
(* The proofs about the two layers above the pools: the sessions a caller  *)
(* gets from them (Session), and the engine facade that registers and      *)
(* closes them (Engine).  The two specifications share no state.           *)
(*                                                                         *)
(* Session: one holder for each connection, one record for each            *)
(* transaction, a clean connection for the next caller and a transaction   *)
(* that only its own caller ends, for any number of connections and        *)
(* acquisitions, both vendors, with and without a reset.                   *)
(*                                                                         *)
(* Engine: what Engine.Close promises, for any number of names, pools,     *)
(* subscribers and concurrent callers.  Its invariant follows a component  *)
(* through the engine.  Nothing that was ever registered goes missing      *)
(* (Traced): it is still registered, on Close's list, closed, with a       *)
(* Remove, or given up by an Add.  After the swap only late additions are  *)
(* registered (LateOnly).  Close's list shrinks only by closing            *)
(* (ListShrinks) and is empty of subscribers before the first pool, of     *)
(* everything at the end (Order).  The callers' results come after the     *)
(* last error was recorded (Results).                                      *)
(***************************************************************************)
EXTENDS Session, Engine, FiniteSetTheorems, TLAPS

-----------------------------------------------------------------------------
(* Sessions. *)

ConnRec ==
  [at : {"new", "pool", "out", "release", "cleanup", "unwind", "tidy", "gone"},
   dead : BOOLEAN, tx : Handles \cup {NoHandle}, busy : Handles \cup {NoHandle},
   subs : BOOLEAN, want : {"keep", "on", "off"}, listening : BOOLEAN,
   rec : Handles \cup {NoHandle}, cause : SUBSET Causes]
HandleRec ==
  [conn : Conns \cup {"none"}, live : BOOLEAN, owned : BOOLEAN,
   txs : 0 .. MaxTxs, rows : {"none", "open", "closed"}]

-----------------------------------------------------------------------------
(* The inductive invariant. *)

\* What may explain a transaction that vendor k does not roll back.
LeftTx(k) == IF k = "sql" THEN TxCauses \ {"astray"} ELSE {"astray"}

\* What sqldriver knows of a connection: its transaction is recorded, or was
\* begun or left behind in a way that is named; nothing is recorded on an idle one.
SqlKnows(r) ==
  /\ r.tx # NoHandle /\ ~r.dead => r.rec # NoHandle \/ r.cause \cap LeftTx("sql") # {}
  /\ r.at \in {"tidy", "pool"} => r.rec = NoHandle
  /\ r.at = "pool" /\ ~r.dead => (r.busy # NoHandle => "unread" \in r.cause)
  /\ ~r.subs /\ r.want = "keep"

\* What pgx and pgConn.listening say of one: a subscription is marked or explained,
\* and the two halves of Recyclable leave no transaction and no mark, but for what
\* a Tx kept past its release does meanwhile.
PgKnows(r) ==
  /\ r.subs \/ r.want = "on" => r.listening \/ r.cause \cap SubCauses # {}
  /\ r.at \in {"tidy", "pool"} /\ ~r.dead =>
       /\ r.tx # NoHandle => "astray" \in r.cause
       /\ r.busy # NoHandle => "late" \in r.cause
  /\ r.at = "pool" => ~r.listening
  /\ r.at # "unwind"

\* Of a connection of vendor k.
RecordOK(k, r) ==
  /\ r.want # "keep" => r.tx # NoHandle
  /\ k = "sql" => SqlKnows(r)
  /\ k = "pg" => PgKnows(r)

\* A result that owns its connection has it while it is open, and has no Tx.
HandleOK(t) == t.owned => t.txs = 0 /\ (t.live <=> t.rows = "open")

\* Nobody has ended the transaction, but for a Tx kept past its release or its owner.
Untouched(r) == r.dead \/ r.tx # NoHandle \/ r.cause \cap EndCauses # {}

Types ==
  /\ conn \in [Conns -> ConnRec] /\ handle \in [Handles -> HandleRec]
  /\ kind \in {"pg", "sql"} /\ resets \in BOOLEAN
  /\ shut \in BOOLEAN /\ swept \in BOOLEAN

\* Live handles and connections that are out correspond, and handles are used in
\* their order.
Links ==
  /\ \A h \in Handles : handle[h].live =>
       handle[h].conn \in Conns /\ conn[handle[h].conn].at = "out"
  /\ \A g, h \in Handles :
       handle[g].live /\ handle[h].live /\ handle[g].conn = handle[h].conn => g = h
  /\ \A c \in Conns : conn[c].at = "out" =>
       \E h \in Handles : handle[h].live /\ handle[h].conn = c
  /\ \A g, h \in Handles :
       g < h /\ handle[h].conn # "none" => handle[g].conn # "none"

Records ==
  /\ \A c \in Conns : RecordOK(kind, conn[c])
  /\ \A h \in Handles : HandleOK(handle[h])

Owners ==
  \A h \in Handles : handle[h].live /\ handle[h].txs > 0
    => Untouched(conn[handle[h].conn])

SessionInv == Types /\ Links /\ Records /\ Owners

-----------------------------------------------------------------------------
(* What a step of each shape keeps. *)

\* A new record for one connection and one handle keeps the types and what is
\* said of each record.
LEMMA Moved ==
  ASSUME SessionInv, NEW c \in Conns, NEW h \in Handles,
         NEW r \in ConnRec, NEW t \in HandleRec,
         conn' = [conn EXCEPT ![c] = r], handle' = [handle EXCEPT ![h] = t],
         UNCHANGED pool, RecordOK(kind, r), HandleOK(t)
  PROVE  /\ Types' /\ Records'
         /\ conn'[c] = r /\ \A d \in Conns : d # c => conn'[d] = conn[d]
         /\ handle'[h] = t /\ \A g \in Handles : g # h => handle'[g] = handle[g]
<1>1. conn \in [Conns -> ConnRec] /\ handle \in [Handles -> HandleRec]
  BY DEF SessionInv, Types
<1>2. /\ conn'[c] = r /\ \A d \in Conns : d # c => conn'[d] = conn[d]
      /\ handle'[h] = t /\ \A g \in Handles : g # h => handle'[g] = handle[g]
  BY <1>1
<1>3. conn' \in [Conns -> ConnRec] /\ handle' \in [Handles -> HandleRec]
  BY <1>1
<1>4. Types'
  BY <1>3 DEF SessionInv, Types, pool
<1>5. Records'
  BY <1>2 DEF SessionInv, Records, pool
<1> QED
  BY <1>2, <1>4, <1>5

\* A call on a connection that leaves it where it is.
LEMMA CallKeeps ==
  ASSUME SessionInv, NEW c \in Conns, NEW h \in Handles,
         NEW r \in ConnRec, NEW t \in HandleRec,
         conn' = [conn EXCEPT ![c] = r], handle' = [handle EXCEPT ![h] = t],
         UNCHANGED pool, RecordOK(kind, r), HandleOK(t),
         r.at = conn[c].at, handle[h].conn = c, t.conn = c, t.live = handle[h].live,
         \A g \in Handles \ {h} :
           handle[g].live /\ handle[g].conn = c /\ handle[g].txs > 0 => Untouched(r),
         t.live /\ t.txs > 0 => Untouched(r)
  PROVE  SessionInv'
<1>1. /\ Types' /\ Records'
      /\ conn'[c] = r /\ \A d \in Conns : d # c => conn'[d] = conn[d]
      /\ handle'[h] = t /\ \A g \in Handles : g # h => handle'[g] = handle[g]
  BY Moved
<1>2. \A d \in Conns : conn'[d].at = conn[d].at
  BY <1>1
<1>3. \A g \in Handles : handle'[g].conn = handle[g].conn /\ handle'[g].live = handle[g].live
  BY <1>1
<1>4. Links'
  BY <1>2, <1>3 DEF SessionInv, Links
<1>5. ASSUME NEW g \in Handles, handle'[g].live, handle'[g].txs > 0
      PROVE  Untouched(conn'[handle'[g].conn])
  <2>1. handle[g].conn \in Conns /\ handle[g].live
    BY <1>3, <1>5 DEF SessionInv, Links
  <2>2. CASE g = h
    BY <2>2, <1>1, <1>5
  <2>3. CASE g # h /\ handle[g].conn = c
    BY <2>3, <2>1, <1>1, <1>5
  <2>4. CASE g # h /\ handle[g].conn # c
    BY <2>4, <2>1, <1>1, <1>5 DEF SessionInv, Owners
  <2> QED
    BY <2>2, <2>3, <2>4
<1>6. Owners'
  BY <1>5 DEF Owners, Untouched
<1> QED
  BY <1>1, <1>4, <1>6 DEF SessionInv

\* The handle that comes next is unused.
LEMMA FreshIsUnused ==
  ASSUME SessionInv, NEW h \in Handles,
         h = 1 + Cardinality({g \in Handles : handle[g].conn # "none"})
  PROVE  /\ handle[h].conn = "none"
         /\ \A g \in Handles : g < h => handle[g].conn # "none"
<1> DEFINE S == {g \in Handles : handle[g].conn # "none"}
<1>0. MaxHandles \in Nat /\ h \in Nat /\ h >= 1
  BY SessionAssumption DEF Handles
<1>1. IsFiniteSet(Handles)
  BY <1>0, FS_Interval DEF Handles
<1>2. IsFiniteSet(S) /\ Cardinality(S) \in Nat /\ Cardinality(S) = h - 1
  BY <1>0, <1>1, FS_Subset, FS_CardinalityType
<1>3. \A g, k \in Handles : g < k /\ k \in S => g \in S
  BY DEF SessionInv, Links
<1>4. h \notin S
  <2> SUFFICES ASSUME h \in S PROVE FALSE
    OBVIOUS
  <2>1. 1 .. h \subseteq S
    <3> SUFFICES ASSUME NEW g \in 1 .. h PROVE g \in S
      OBVIOUS
    <3>1. g \in Handles /\ (g = h \/ g < h)
      BY <1>0 DEF Handles
    <3> QED
      BY <3>1, <1>3
  <2>2. Cardinality(1 .. h) = h - 1 + 1 /\ IsFiniteSet(1 .. h)
    <3>1. 1 \in Int /\ h \in Int /\ ~(1 > h)
      BY <1>0
    <3> QED
      BY <3>1, FS_Interval
  <2>3. h <= Cardinality(S)
    <3> HIDE DEF S
    <3>1. Cardinality(1 .. h) <= Cardinality(S)
      BY <2>1, <1>2, FS_Subset
    <3> QED
      BY <3>1, <2>2, <1>0
  <2> QED
    BY <2>3, <1>2, <1>0
<1>5. ASSUME NEW g \in Handles, g < h PROVE g \in S
  <2> SUFFICES ASSUME g \notin S PROVE FALSE
    OBVIOUS
  <2>0. g \in Nat /\ g >= 1
    BY SessionAssumption DEF Handles
  <2>1. S \subseteq 1 .. (g - 1)
    BY <1>3, <2>0, SessionAssumption DEF Handles
  <2>2. Cardinality(1 .. (g - 1)) = g - 1 /\ IsFiniteSet(1 .. (g - 1))
    <3>1. 1 \in Int /\ g - 1 \in Int
      BY <2>0
    <3> QED
      BY <3>1, <2>0, FS_Interval
  <2>3. Cardinality(S) <= g - 1
    <3> HIDE DEF S
    <3> QED
      BY <2>1, <2>2, <1>2, FS_Subset
  <2> QED
    BY <2>3, <1>2, <1>0, <1>5, <2>0
<1> QED
  BY <1>4, <1>5

\* An acquisition: a fresh handle gets a connection that nobody has, or gets and
\* returns it in the same call.
LEMMA TakeKeeps ==
  ASSUME SessionInv, NEW c \in Conns, NEW h \in Handles,
         NEW r \in ConnRec, NEW t \in HandleRec,
         conn' = [conn EXCEPT ![c] = r], handle' = [handle EXCEPT ![h] = t],
         UNCHANGED pool, RecordOK(kind, r), HandleOK(t), Fresh(h, c),
         t.conn = c, t.txs = 0,
         t.live => r.at = "out", r.at = "out" => t.live
  PROVE  SessionInv'
<1>1. /\ Types' /\ Records'
      /\ conn'[c] = r /\ \A d \in Conns : d # c => conn'[d] = conn[d]
      /\ handle'[h] = t /\ \A g \in Handles : g # h => handle'[g] = handle[g]
  BY Moved
<1>2. /\ handle[h].conn = "none" /\ conn[c].at # "out"
      /\ \A g \in Handles : g < h => handle[g].conn # "none"
  BY FreshIsUnused DEF Fresh
<1>3. ~handle[h].live
  BY <1>2, SessionAssumption DEF SessionInv, Links
<1>4. \A g \in Handles : handle[g].live => handle[g].conn \in Conns /\ handle[g].conn # c /\ g # h
  BY <1>2, <1>3 DEF SessionInv, Links
<1>5. \A g \in Handles : handle'[g].live =>
        handle'[g].conn \in Conns /\ conn'[handle'[g].conn].at = "out"
  BY <1>1, <1>4 DEF SessionInv, Links
<1>6. \A f, g \in Handles :
        handle'[f].live /\ handle'[g].live /\ handle'[f].conn = handle'[g].conn => f = g
  BY <1>1, <1>4 DEF SessionInv, Links
<1>7. ASSUME NEW d \in Conns, conn'[d].at = "out"
      PROVE  \E g \in Handles : handle'[g].live /\ handle'[g].conn = d
  <2>1. CASE d = c
    BY <2>1, <1>1, <1>7
  <2>2. CASE d # c
    <3>1. PICK g \in Handles : handle[g].live /\ handle[g].conn = d
      BY <2>2, <1>1, <1>7 DEF SessionInv, Links
    <3> QED
      BY <3>1, <1>1, <1>4
  <2> QED
    BY <2>1, <2>2
<1>8. \A f, g \in Handles :
        f < g /\ handle'[g].conn # "none" => handle'[f].conn # "none"
  BY <1>1, <1>2, SessionAssumption DEF SessionInv, Links
<1>9. Links'
  BY <1>5, <1>6, <1>7, <1>8 DEF Links
<1>10. Owners'
  BY <1>1, <1>4 DEF SessionInv, Owners, Untouched
<1> QED
  BY <1>1, <1>9, <1>10 DEF SessionInv

\* The live handle of a connection gives it back.
LEMMA ReturnKeeps ==
  ASSUME SessionInv, NEW c \in Conns, NEW h \in Handles,
         NEW r \in ConnRec, NEW t \in HandleRec,
         conn' = [conn EXCEPT ![c] = r], handle' = [handle EXCEPT ![h] = t],
         UNCHANGED pool, RecordOK(kind, r), HandleOK(t),
         handle[h].live, handle[h].conn = c, t.conn = c, ~t.live, r.at # "out"
  PROVE  SessionInv'
<1>1. /\ Types' /\ Records'
      /\ conn'[c] = r /\ \A d \in Conns : d # c => conn'[d] = conn[d]
      /\ handle'[h] = t /\ \A g \in Handles : g # h => handle'[g] = handle[g]
  BY Moved
<1>2. \A g \in Handles : handle[g].live => handle[g].conn # c \/ g = h
  BY DEF SessionInv, Links
<1>3. \A g \in Handles : handle'[g].live =>
        handle'[g].conn \in Conns /\ conn'[handle'[g].conn].at = "out"
  BY <1>1, <1>2 DEF SessionInv, Links
<1>4. \A f, g \in Handles :
        handle'[f].live /\ handle'[g].live /\ handle'[f].conn = handle'[g].conn => f = g
  BY <1>1, <1>2 DEF SessionInv, Links
<1>5. ASSUME NEW d \in Conns, conn'[d].at = "out"
      PROVE  \E g \in Handles : handle'[g].live /\ handle'[g].conn = d
  <2>1. d # c
    BY <1>1, <1>5
  <2>2. PICK g \in Handles : handle[g].live /\ handle[g].conn = d
    BY <2>1, <1>1, <1>5 DEF SessionInv, Links
  <2> QED
    BY <2>1, <2>2, <1>1
<1>6. \A g \in Handles : handle'[g].conn = handle[g].conn
  BY <1>1
<1>7. Links'
  BY <1>3, <1>4, <1>5, <1>6 DEF SessionInv, Links
<1>8. Owners'
  BY <1>1, <1>2 DEF SessionInv, Links, Owners, Untouched
<1> QED
  BY <1>1, <1>7, <1>8 DEF SessionInv

\* The pool's own steps, on a connection that no caller has.
LEMMA CleanKeeps ==
  ASSUME SessionInv, NEW c \in Conns, NEW r \in ConnRec,
         conn' = [conn EXCEPT ![c] = r], UNCHANGED <<handle, pool>>,
         RecordOK(kind, r), conn[c].at # "out", r.at # "out"
  PROVE  SessionInv'
<1>1. conn \in [Conns -> ConnRec]
  BY DEF SessionInv, Types
<1>2. /\ conn'[c] = r /\ \A d \in Conns : d # c => conn'[d] = conn[d]
      /\ conn' \in [Conns -> ConnRec]
  BY <1>1
<1>3. \A g \in Handles : handle[g].live => handle[g].conn \in Conns /\ handle[g].conn # c
  BY DEF SessionInv, Links
<1>4. Types'
  BY <1>2 DEF SessionInv, Types, pool
<1>5. Records'
  BY <1>2 DEF SessionInv, Records, pool
<1>6. Links'
  BY <1>2, <1>3 DEF SessionInv, Links
<1>7. Owners'
  BY <1>2, <1>3 DEF SessionInv, Owners, Untouched
<1> QED
  BY <1>4, <1>5, <1>6, <1>7 DEF SessionInv

-----------------------------------------------------------------------------
(* The calls. *)

\* The records of a connection and of a handle that has it.
LEMMA Parts ==
  ASSUME SessionInv, NEW h \in Handles, NEW c \in Conns
  PROVE  /\ conn[c] \in ConnRec /\ handle[h] \in HandleRec
         /\ conn \in [Conns -> ConnRec] /\ handle \in [Handles -> HandleRec]
         /\ handle = [handle EXCEPT ![h] = handle[h]]
         /\ RecordOK(kind, conn[c]) /\ HandleOK(handle[h])
         /\ kind \in {"pg", "sql"}
         /\ handle[h].conn = c /\ handle[h].live => conn[c].at = "out"
         /\ \A g \in Handles \ {h} :
              handle[g].live /\ handle[g].conn = c /\ handle[g].txs > 0
                => Untouched(conn[c]) /\ (handle[h].conn = c => ~handle[h].live)
         /\ handle[h].conn = c /\ handle[h].live /\ handle[h].txs > 0
              => Untouched(conn[c])
BY DEF SessionInv, Types, Links, Records, Owners

\* Query and QueryRow, of a connection and of a Tx.
LEMMA AskKeeps ==
  ASSUME SessionInv, NEW h \in Handles, NEW c \in Conns, handle[h].conn = c,
         NEW why \in SUBSET Causes, Ask(h, c, why), ~handle[h].owned,
         conn[c].at \in {"tidy", "pool"} => kind = "pg" /\ "late" \in why
  PROVE  SessionInv'
<1> DEFINE r == [conn[c] EXCEPT !.busy = h, !.cause = @ \cup why]
           t == [handle[h] EXCEPT !.rows = "open"]
<1>1. /\ conn' = [conn EXCEPT ![c] = r] /\ handle' = [handle EXCEPT ![h] = t]
      /\ UNCHANGED pool
  BY DEF Ask, SetConn, SetHandle
<1>2. conn[c] \in ConnRec /\ handle[h] \in HandleRec /\ RecordOK(kind, conn[c])
  BY Parts
<1>3. r \in ConnRec /\ t \in HandleRec
  BY <1>2 DEF ConnRec, HandleRec, Causes, TxCauses, EndCauses, SubCauses
<1>4. /\ r.at = conn[c].at /\ r.tx = conn[c].tx /\ r.want = conn[c].want
      /\ r.rec = conn[c].rec /\ r.subs = conn[c].subs /\ r.listening = conn[c].listening
      /\ r.dead = conn[c].dead /\ r.cause = conn[c].cause \cup why
  BY <1>2 DEF ConnRec
<1>5. t.conn = c /\ t.live = handle[h].live /\ t.txs = handle[h].txs /\ t.owned = handle[h].owned
  BY <1>2 DEF HandleRec
<1> HIDE DEF r, t
<1>6. RecordOK(kind, r)
  BY <1>2, <1>4 DEF RecordOK, SqlKnows, PgKnows
<1>7. HandleOK(t)
  BY <1>5 DEF HandleOK
<1>8. Untouched(conn[c]) => Untouched(r)
  BY <1>4 DEF Untouched
<1>9. /\ \A g \in Handles \ {h} :
           handle[g].live /\ handle[g].conn = c /\ handle[g].txs > 0 => Untouched(r)
      /\ t.live /\ t.txs > 0 => Untouched(r)
  BY <1>5, <1>8, Parts
<1> QED
  BY <1>1, <1>3, <1>4, <1>5, <1>6, <1>7, <1>9, CallKeeps

\* Exec, LISTEN and UNLISTEN: only the connection changes.
LEMMA ConnCallKeeps ==
  ASSUME SessionInv, NEW h \in Handles, NEW c \in Conns, handle[h].conn = c,
         NEW r \in ConnRec, conn' = [conn EXCEPT ![c] = r], UNCHANGED <<handle, pool>>,
         r.at = conn[c].at, RecordOK(kind, r),
         (handle[h].live /\ handle[h].txs = 0) \/ (Untouched(conn[c]) => Untouched(r))
  PROVE  SessionInv'
<1>1. handle' = [handle EXCEPT ![h] = handle[h]] /\ UNCHANGED pool
  BY Parts
<1>2. /\ handle[h] \in HandleRec /\ HandleOK(handle[h])
      /\ \A g \in Handles \ {h} :
           handle[g].live /\ handle[g].conn = c /\ handle[g].txs > 0 => Untouched(r)
      /\ handle[h].live /\ handle[h].txs > 0 => Untouched(r)
  BY Parts
<1> QED
  BY <1>1, <1>2, CallKeeps

\* The end of a transaction keeps what is known of its connection.
LEMMA EndTxRecord ==
  ASSUME NEW r \in ConnRec, NEW k \in {"pg", "sql"}, RecordOK(k, r), NEW commit \in BOOLEAN
  PROVE  /\ EndTx(r, commit) \in ConnRec /\ RecordOK(k, EndTx(r, commit))
         /\ EndTx(r, commit).at = r.at /\ EndTx(r, commit).dead = r.dead
         /\ EndTx(r, commit).tx = NoHandle /\ EndTx(r, commit).want = "keep"
         /\ EndTx(r, commit).busy = r.busy /\ EndTx(r, commit).rec = r.rec
         /\ EndTx(r, commit).listening = r.listening
         /\ EndTx(r, commit).cause = r.cause \ TxCauses
<1>1. PICK s \in BOOLEAN : s = IF commit /\ r.want # "keep" THEN r.want = "on" ELSE r.subs
  BY DEF ConnRec
<1>2. PICK q : q = [r EXCEPT !.tx = NoHandle, !.want = "keep", !.cause = @ \ TxCauses,
                             !.subs = s]
  OBVIOUS
<1>3. EndTx(r, commit) = q
  BY <1>1, <1>2 DEF EndTx
<1>4. /\ q \in ConnRec /\ q.at = r.at /\ q.dead = r.dead /\ q.tx = NoHandle
      /\ q.want = "keep" /\ q.busy = r.busy /\ q.rec = r.rec /\ q.subs = s
      /\ q.listening = r.listening /\ q.cause = r.cause \ TxCauses
  BY <1>2 DEF ConnRec
<1>5. /\ r.cause \cap SubCauses = q.cause \cap SubCauses
      /\ "late" \in r.cause => "late" \in q.cause
      /\ "unread" \in r.cause => "unread" \in q.cause
  BY <1>4 DEF TxCauses, SubCauses
<1>6. s => r.subs \/ r.want = "on"
  BY <1>1
<1>7. RecordOK(k, q)
  BY <1>4, <1>5, <1>6 DEF RecordOK, SqlKnows, PgKnows
<1> QED
  BY <1>3, <1>4, <1>7

\* Of a transaction that was ended, that it was, and by whom, is marked.
LEMMA CutRecord ==
  ASSUME NEW r \in ConnRec, NEW k \in {"pg", "sql"}, RecordOK(k, r),
         NEW y \in SUBSET EndCauses
  PROVE  LET q == [r EXCEPT !.cause = @ \cup y] IN
         /\ q \in ConnRec /\ RecordOK(k, q) /\ q.at = r.at /\ q.tx = r.tx
         /\ q.cause = r.cause \cup y /\ q.rec = r.rec /\ q.want = r.want
<1>1. PICK q : q = [r EXCEPT !.cause = @ \cup y]
  OBVIOUS
<1>2. /\ q \in ConnRec /\ q.at = r.at /\ q.tx = r.tx /\ q.cause = r.cause \cup y
      /\ q.rec = r.rec /\ q.want = r.want /\ q.subs = r.subs /\ q.dead = r.dead
      /\ q.listening = r.listening /\ q.busy = r.busy
  BY <1>1 DEF ConnRec, Causes
<1>3. /\ r.cause \cap SubCauses # {} => q.cause \cap SubCauses # {}
      /\ r.cause \cap LeftTx("sql") # {} => q.cause \cap LeftTx("sql") # {}
  BY <1>2
<1>4. RecordOK(k, q)
  BY <1>2, <1>3 DEF RecordOK, SqlKnows, PgKnows
<1> QED
  BY <1>1, <1>2, <1>4

\* Whose end of a transaction is marked.
LEMMA EndedMarks ==
  ASSUME NEW h \in Handles, NEW r \in ConnRec, NEW n \in Nat
  PROVE  /\ Ended(h, r, n) \in SUBSET EndCauses
         /\ r.tx # NoHandle /\ (~handle[h].live \/ n > 0) => Ended(h, r, n) # {}
BY DEF Ended, EndCauses

\* The end of a transaction with its mark keeps a live Tx that is left explained.
LEMMA EndedUntouched ==
  ASSUME NEW h \in Handles, NEW r \in ConnRec, NEW n \in Nat, NEW q \in ConnRec,
         q.cause = (r.cause \ TxCauses) \cup Ended(h, r, n),
         ~handle[h].live \/ n > 0, ~r.dead, Untouched(r)
  PROVE  Untouched(q)
<1>1. CASE r.tx # NoHandle
  <2>1. Ended(h, r, n) # {} /\ Ended(h, r, n) \in SUBSET EndCauses
    BY <1>1, EndedMarks
  <2> QED
    BY <2>1 DEF Untouched
<1>2. CASE r.cause \cap EndCauses # {}
  <2>1. PICK y : y \in r.cause /\ y \in EndCauses
    BY <1>2
  <2>2. y \in q.cause
    BY <2>1 DEF EndCauses, TxCauses
  <2> QED
    BY <2>1, <2>2 DEF Untouched
<1> QED
  BY <1>1, <1>2 DEF Untouched

\* A statement sent as text keeps what is known: what it begins or subscribes is
\* seen by the vendor at the release, or named.
LEMMA SaidRecord ==
  ASSUME NEW h \in Handles, NEW r \in ConnRec, NEW k \in {"pg", "sql"}, RecordOK(k, r),
         NEW text \in Texts, NEW why \in SUBSET TxCauses, handle[h].txs \in Nat,
         k = "sql" => text # "listen" /\ why \cap LeftTx("sql") # {},
         k = "pg" /\ r.at \in {"tidy", "pool"} => "astray" \in why
  PROVE  /\ Said(h, r, text, why) \in ConnRec /\ RecordOK(k, Said(h, r, text, why))
         /\ Said(h, r, text, why).at = r.at
         /\ \/ handle[h].live /\ handle[h].txs = 0
            \/ (~r.dead /\ Untouched(r) => Untouched(Said(h, r, text, why)))
<1>0. h # NoHandle
  BY DEF Handles, NoHandle
<1>1. CASE text = "begin"
  <2>1. PICK n \in Handles \cup {NoHandle}, y \in SUBSET Causes :
          /\ n = (IF r.tx = NoHandle THEN h ELSE r.tx)
          /\ y = (IF r.tx = NoHandle THEN r.cause \cup why ELSE r.cause)
    BY DEF ConnRec, Causes
  <2>2. PICK q : q = [r EXCEPT !.tx = n, !.cause = y]
    OBVIOUS
  <2>3. Said(h, r, text, why) = q
    BY <1>1, <2>1, <2>2 DEF Said
  <2>4. /\ q \in ConnRec /\ q.at = r.at /\ q.tx = n /\ q.cause = y /\ q.dead = r.dead
        /\ q.rec = r.rec /\ q.want = r.want /\ q.subs = r.subs
        /\ q.listening = r.listening /\ q.busy = r.busy
    BY <2>2 DEF ConnRec
  <2>5. /\ n # NoHandle /\ r.cause \subseteq y /\ (r.tx = NoHandle => why \subseteq y)
    BY <1>0, <2>1
  <2>6. /\ r.cause \cap SubCauses # {} => y \cap SubCauses # {}
        /\ r.cause \cap LeftTx("sql") # {} => y \cap LeftTx("sql") # {}
        /\ k = "sql" /\ r.tx = NoHandle => y \cap LeftTx("sql") # {}
    BY <2>5
  <2>7. k = "sql" => SqlKnows(q)
    BY <2>4, <2>5, <2>6 DEF RecordOK, SqlKnows
  <2>8. k = "pg" => PgKnows(q)
    BY <2>4, <2>5, <2>6 DEF RecordOK, PgKnows
  <2>9. RecordOK(k, q) /\ Untouched(q)
    BY <2>4, <2>5, <2>7, <2>8 DEF RecordOK, Untouched
  <2> QED
    BY <2>3, <2>4, <2>9
<1>2. CASE text \in {"commit", "rollback"}
  <2>1. PICK b \in BOOLEAN : b = (text = "commit")
    OBVIOUS
  <2>2. PICK e \in ConnRec : /\ e = EndTx(r, b) /\ RecordOK(k, e) /\ e.at = r.at
                             /\ e.cause = r.cause \ TxCauses
    BY EndTxRecord
  <2>3. PICK q : q = [e EXCEPT !.cause = @ \cup Ended(h, r, handle[h].txs)]
    OBVIOUS
  <2>4. Said(h, r, text, why) = q
    BY <1>2, <2>1, <2>2, <2>3 DEF Said
  <2>5. Ended(h, r, handle[h].txs) \in SUBSET EndCauses
    BY EndedMarks
  <2>6. /\ q \in ConnRec /\ RecordOK(k, q) /\ q.at = r.at
        /\ q.cause = (r.cause \ TxCauses) \cup Ended(h, r, handle[h].txs)
    BY <2>2, <2>3, <2>5, CutRecord
  <2>7. (handle[h].live /\ handle[h].txs = 0) \/ ~handle[h].live \/ handle[h].txs > 0
    OBVIOUS
  <2> QED
    BY <2>4, <2>6, <2>7, EndedUntouched
<1>3. CASE text = "listen"
  <2>1. PICK s \in BOOLEAN, w \in {"keep", "on", "off"}, y \in SUBSET Causes :
          /\ s = (r.subs \/ r.tx = NoHandle)
          /\ w = (IF r.tx = NoHandle THEN r.want ELSE "on")
          /\ y = r.cause \cup {"told"}
    BY DEF ConnRec, Causes, SubCauses
  <2>2. PICK q : q = [r EXCEPT !.subs = s, !.want = w, !.cause = y]
    OBVIOUS
  <2>3. Said(h, r, text, why) = q
    BY <1>3, <2>1, <2>2 DEF Said
  <2>4. /\ q \in ConnRec /\ q.at = r.at /\ q.tx = r.tx /\ q.cause = y /\ q.dead = r.dead
        /\ q.rec = r.rec /\ q.want = w /\ q.listening = r.listening /\ q.busy = r.busy
    BY <2>2 DEF ConnRec
  <2>5. "told" \in y \cap SubCauses /\ r.cause \subseteq y
    BY <2>1 DEF SubCauses
  <2>6. k = "pg" /\ PgKnows(r)
    BY <1>3 DEF RecordOK
  <2>7. PgKnows(q)
    BY <2>4, <2>5, <2>6 DEF PgKnows
  <2>8. q.want # "keep" => q.tx # NoHandle
    BY <2>1, <2>4 DEF RecordOK
  <2>9. RecordOK(k, q)
    BY <2>6, <2>7, <2>8 DEF RecordOK
  <2>10. Untouched(r) => Untouched(q)
    BY <2>4, <2>5 DEF Untouched
  <2> QED
    BY <2>3, <2>4, <2>9, <2>10
<1> QED
  BY <1>1, <1>2, <1>3 DEF Texts

\* Exec of the connection and, for pgx, of a Tx, kept past its release or not.
LEMMA ExecKeeps ==
  ASSUME SessionInv, NEW h \in Handles, NEW c \in Conns, handle[h].conn = c,
         NEW text \in Texts,
         PgExec(h, c, text) \/ SqlExec(h, c, text) \/ PgTxExec(h, c, text)
  PROVE  SessionInv'
<1>1. /\ conn[c] \in ConnRec /\ RecordOK(kind, conn[c]) /\ kind \in {"pg", "sql"}
      /\ handle[h] \in HandleRec /\ (handle[h].live => conn[c].at = "out")
  BY Parts
<1>2. handle[h].txs \in Nat
  BY <1>1, SessionAssumption DEF HandleRec
<1>3. PICK why \in SUBSET TxCauses :
        /\ SetConn(c, Said(h, conn[c], text, why)) /\ UNCHANGED <<handle, pool>>
        /\ kind = "sql" => text # "listen" /\ why \cap LeftTx("sql") # {}
        /\ kind = "pg" /\ conn[c].at \in {"tidy", "pool"} => "astray" \in why
        /\ ~conn[c].dead
  <2>1. CASE PgExec(h, c, text)
    <3>1. {} \in SUBSET TxCauses
      OBVIOUS
    <3> QED
      BY <2>1, <3>1, <1>1 DEF PgExec, Live, Free
  <2>2. CASE SqlExec(h, c, text)
    <3>1. {"raw"} \in SUBSET TxCauses /\ "raw" \in LeftTx("sql")
      BY DEF TxCauses, LeftTx
    <3> QED
      BY <2>2, <3>1, <1>1 DEF SqlExec, Live, Free
  <2>3. CASE PgTxExec(h, c, text)
    <3>1. PICK why \in SUBSET TxCauses : why = IF handle[h].live THEN {} ELSE {"astray"}
      BY DEF TxCauses
    <3>2. /\ kind = "pg" /\ UNCHANGED <<handle, pool>> /\ ~conn[c].dead
          /\ SetConn(c, Said(h, conn[c], text, why))
      BY <2>3, <3>1 DEF PgTxExec, Free
    <3> QED
      BY <3>1, <3>2, <1>1
  <2> QED
    BY <2>1, <2>2, <2>3
<1>4. PICK r \in ConnRec :
        /\ r = Said(h, conn[c], text, why) /\ RecordOK(kind, r) /\ r.at = conn[c].at
        /\ \/ handle[h].live /\ handle[h].txs = 0
           \/ (~conn[c].dead /\ Untouched(conn[c]) => Untouched(r))
  BY <1>1, <1>2, <1>3, SaidRecord
<1>5. conn' = [conn EXCEPT ![c] = r]
  BY <1>3, <1>4 DEF SetConn
<1> QED
  BY <1>3, <1>4, <1>5, ConnCallKeeps

\* Listen marks the connection whatever becomes of the statement.
LEMMA ListenKeeps ==
  ASSUME SessionInv, NEW h \in Handles, NEW c \in Conns, handle[h].conn = c,
         NEW sent \in BOOLEAN, NEW answered \in BOOLEAN, Listen(h, c, sent, answered)
  PROVE  SessionInv'
<1> DEFINE at == sent /\ Free(conn[c])
           r == [conn[c] EXCEPT !.listening = TRUE, !.cause = @ \ {"hushed"},
                   !.subs = @ \/ (at /\ conn[c].tx = NoHandle),
                   !.want = IF at /\ conn[c].tx # NoHandle THEN "on" ELSE @]
<1>1. /\ conn' = [conn EXCEPT ![c] = r] /\ UNCHANGED <<handle, pool>> /\ kind = "pg"
      /\ handle[h].live
  BY DEF Listen, SetConn, Live
<1>2. conn[c] \in ConnRec /\ RecordOK(kind, conn[c]) /\ conn[c].at = "out"
  BY <1>1, Parts
<1>3. r \in ConnRec
  BY <1>2 DEF ConnRec
<1>4. /\ r.at = conn[c].at /\ r.tx = conn[c].tx /\ r.dead = conn[c].dead
      /\ r.want = conn[c].want \/ conn[c].tx # NoHandle
      /\ r.listening = TRUE /\ r.cause = conn[c].cause \ {"hushed"}
  BY <1>2 DEF ConnRec
<1> HIDE DEF r
<1>5. RecordOK(kind, r)
  BY <1>1, <1>2, <1>4 DEF RecordOK, PgKnows
<1>6. Untouched(conn[c]) => Untouched(r)
  <2>1. conn[c].cause \cap EndCauses = r.cause \cap EndCauses
    BY <1>4 DEF EndCauses
  <2> QED
    BY <1>4, <2>1 DEF Untouched
<1> QED
  BY <1>1, <1>3, <1>4, <1>5, <1>6, ConnCallKeeps

\* UNLISTEN: at once, or with the transaction's commit.
LEMMA SilenceRecord ==
  ASSUME NEW r \in ConnRec, RecordOK("pg", r)
  PROVE  LET q == Silence(r) IN
         /\ q \in ConnRec /\ RecordOK("pg", q)
         /\ q.at = r.at /\ q.tx = r.tx /\ q.dead = r.dead /\ q.busy = r.busy
         /\ q.cause = r.cause /\ q.listening = r.listening /\ q.rec = r.rec
         /\ q.want # "on" /\ (r.tx = NoHandle => ~q.subs)
<1>1. PICK s \in BOOLEAN, w \in {"keep", "off"} :
        /\ s = (r.subs /\ r.tx # NoHandle)
        /\ w = IF r.tx = NoHandle THEN r.want ELSE "off"
  <2>1. r.tx = NoHandle => r.want = "keep"
    BY DEF RecordOK
  <2> QED
    BY <2>1
<1>2. PICK q : q = [r EXCEPT !.subs = s, !.want = w]
  OBVIOUS
<1>3. Silence(r) = q
  BY <1>1, <1>2 DEF Silence
<1>4. /\ q \in ConnRec /\ q.at = r.at /\ q.tx = r.tx /\ q.dead = r.dead
      /\ q.busy = r.busy /\ q.cause = r.cause /\ q.listening = r.listening
      /\ q.rec = r.rec /\ q.subs = s /\ q.want = w
  BY <1>2 DEF ConnRec
<1>5. (s => r.subs) /\ w # "on" /\ (w # "keep" => r.tx # NoHandle)
  <2>1. r.tx = NoHandle => r.want = "keep"
    BY DEF RecordOK
  <2> QED
    BY <1>1, <2>1
<1>6. PgKnows(q)
  BY <1>4, <1>5 DEF RecordOK, PgKnows
<1>7. RecordOK("pg", q)
  BY <1>4, <1>5, <1>6 DEF RecordOK
<1> QED
  BY <1>1, <1>3, <1>4, <1>5, <1>7

\* A blanket UNLISTEN inside a transaction takes the mark off early; that is named.
LEMMA SilenceAllRecord ==
  ASSUME NEW r \in ConnRec, RecordOK("pg", r)
  PROVE  LET q == SilenceAll(r) IN
         /\ q \in ConnRec /\ RecordOK("pg", q)
         /\ q.at = r.at /\ q.tx = r.tx /\ q.dead = r.dead /\ q.busy = r.busy
         /\ ~q.listening /\ q.cause \ SubCauses = r.cause \ SubCauses
<1>1. PICK n \in ConnRec :
         /\ n = Silence(r) /\ RecordOK("pg", n)
         /\ n.at = r.at /\ n.tx = r.tx /\ n.dead = r.dead /\ n.busy = r.busy
         /\ n.cause = r.cause /\ n.want # "on" /\ (r.tx = NoHandle => ~n.subs)
  BY SilenceRecord
<1>2. PICK y \in SUBSET Causes :
        y = IF r.tx = NoHandle THEN r.cause \ SubCauses ELSE r.cause \cup {"hushed"}
  BY DEF ConnRec, Causes, SubCauses
<1>3. PICK q : q = [n EXCEPT !.listening = FALSE, !.cause = y]
  OBVIOUS
<1>4. SilenceAll(r) = q
  BY <1>1, <1>2, <1>3 DEF SilenceAll
<1>5. /\ q \in ConnRec /\ q.at = r.at /\ q.tx = r.tx /\ q.dead = r.dead
      /\ q.busy = r.busy /\ q.cause = y /\ ~q.listening
      /\ q.subs = n.subs /\ q.want = n.want
  BY <1>1, <1>3 DEF ConnRec
<1>6. y \ SubCauses = r.cause \ SubCauses
  BY <1>2 DEF SubCauses
<1>7. /\ "astray" \in r.cause => "astray" \in y
      /\ "late" \in r.cause => "late" \in y
  BY <1>2 DEF SubCauses
<1>8. q.subs \/ q.want = "on" => q.cause \cap SubCauses # {}
  <2>1. CASE r.tx = NoHandle
    BY <2>1, <1>1, <1>5
  <2>2. CASE r.tx # NoHandle
    <3>1. "hushed" \in q.cause /\ "hushed" \in SubCauses
      BY <2>2, <1>2, <1>5 DEF SubCauses
    <3> QED
      BY <3>1
  <2> QED
    BY <2>1, <2>2
<1>9. PgKnows(q)
  BY <1>1, <1>5, <1>7, <1>8 DEF RecordOK, PgKnows
<1>10. RecordOK("pg", q)
  BY <1>1, <1>5, <1>9 DEF RecordOK
<1> QED
  BY <1>4, <1>5, <1>6, <1>10

\* Unlisten, of a channel or of everything.
LEMMA UnlistenKeeps ==
  ASSUME SessionInv, NEW h \in Handles, NEW c \in Conns, handle[h].conn = c,
         NEW all \in BOOLEAN, Unlisten(h, c, all)
  PROVE  SessionInv'
<1>1. /\ UNCHANGED <<handle, pool>> /\ kind = "pg"
      /\ conn' = [conn EXCEPT ![c] = IF all THEN SilenceAll(conn[c]) ELSE Silence(conn[c])]
  BY DEF Unlisten, SetConn
<1>2. conn[c] \in ConnRec /\ RecordOK("pg", conn[c])
  BY <1>1, Parts
<1>3. PICK r \in ConnRec :
        /\ r = IF all THEN SilenceAll(conn[c]) ELSE Silence(conn[c])
        /\ RecordOK("pg", r) /\ r.at = conn[c].at /\ r.tx = conn[c].tx
        /\ r.dead = conn[c].dead /\ r.cause \ SubCauses = conn[c].cause \ SubCauses
  BY <1>2, SilenceRecord, SilenceAllRecord
<1>4. Untouched(conn[c]) => Untouched(r)
  <2>1. conn[c].cause \cap EndCauses # {} => r.cause \cap EndCauses # {}
    BY <1>3 DEF EndCauses, SubCauses
  <2> QED
    BY <2>1, <1>3 DEF Untouched
<1> QED
  BY <1>1, <1>3, <1>4, ConnCallKeeps

\* Close of a result: it frees the connection if it was the one in the way, and
\* gives the connection back if it owns it.
LEMMA FinishKeeps ==
  ASSUME SessionInv, NEW h \in Handles, NEW c \in Conns, handle[h].conn = c,
         Finish(h, c, handle[h].owned)
  PROVE  SessionInv'
<1> DEFINE back == handle[h].owned /\ handle[h].live
           q == [conn[c] EXCEPT
                   !.busy = IF @ = h THEN NoHandle ELSE @,
                   !.cause = IF conn[c].busy = h THEN @ \ {"unread", "late"} ELSE @]
           r == [conn[c] EXCEPT
                   !.busy = IF @ = h THEN NoHandle ELSE @,
                   !.cause = IF conn[c].busy = h THEN @ \ {"unread", "late"} ELSE @,
                   !.at = IF back THEN "release" ELSE @]
           t == [handle[h] EXCEPT !.rows = "closed", !.live = @ /\ ~handle[h].owned]
<1>1. /\ conn' = [conn EXCEPT ![c] = r] /\ handle' = [handle EXCEPT ![h] = t]
      /\ UNCHANGED pool
  BY DEF Finish, SetConn, SetHandle
<1>2. /\ conn[c] \in ConnRec /\ handle[h] \in HandleRec /\ RecordOK(kind, conn[c])
      /\ HandleOK(handle[h]) /\ (handle[h].live => conn[c].at = "out")
  BY Parts
<1>3. t \in HandleRec
  <2>1. PICK l \in BOOLEAN : l = (handle[h].live /\ ~handle[h].owned)
    OBVIOUS
  <2>2. t = [handle[h] EXCEPT !.rows = "closed", !.live = l]
    BY <2>1
  <2> HIDE DEF t
  <2> QED
    BY <2>2, <1>2 DEF HandleRec
<1>4. r \in ConnRec
  BY <1>2 DEF ConnRec
<1>5. /\ r.tx = conn[c].tx /\ r.want = conn[c].want /\ r.dead = conn[c].dead
      /\ r.rec = conn[c].rec /\ r.subs = conn[c].subs /\ r.listening = conn[c].listening
      /\ r.at = IF back THEN "release" ELSE conn[c].at
      /\ r.busy = IF conn[c].busy = h THEN NoHandle ELSE conn[c].busy
      /\ r.cause = IF conn[c].busy = h THEN conn[c].cause \ {"unread", "late"}
                   ELSE conn[c].cause
  BY <1>2 DEF ConnRec
<1>6. /\ t.conn = c /\ t.txs = handle[h].txs /\ t.owned = handle[h].owned
      /\ t.rows = "closed" /\ t.live = (handle[h].live /\ ~handle[h].owned)
  BY <1>2 DEF HandleRec
<1> HIDE DEF r, t
<1>7. /\ r.cause \cap LeftTx("sql") = conn[c].cause \cap LeftTx("sql")
      /\ "astray" \in conn[c].cause => "astray" \in r.cause
  BY <1>5 DEF TxCauses, LeftTx
<1>8. r.cause \cap SubCauses = conn[c].cause \cap SubCauses
  BY <1>5 DEF SubCauses
<1>9. r.cause \cap EndCauses = conn[c].cause \cap EndCauses
  BY <1>5 DEF EndCauses
<1>10. RecordOK(kind, r)
  BY <1>2, <1>5, <1>7, <1>8 DEF RecordOK, SqlKnows, PgKnows
<1>11. HandleOK(t)
  BY <1>2, <1>6 DEF HandleOK
<1>12. CASE back
  BY <1>12, <1>1, <1>3, <1>4, <1>5, <1>6, <1>10, <1>11, ReturnKeeps
<1>13. CASE ~back
  <2>1. t.live = handle[h].live /\ r.at = conn[c].at
    BY <1>13, <1>5, <1>6, <1>2 DEF HandleRec
  <2>2. Untouched(conn[c]) => Untouched(r)
    BY <1>5, <1>9 DEF Untouched
  <2>3. /\ \A g \in Handles \ {h} :
             handle[g].live /\ handle[g].conn = c /\ handle[g].txs > 0 => Untouched(r)
        /\ t.live /\ t.txs > 0 => Untouched(r)
    BY <2>1, <2>2, <1>6, Parts
  <2> QED
    BY <2>1, <2>3, <1>1, <1>3, <1>4, <1>6, <1>10, <1>11, CallKeeps
<1> QED
  BY <1>12, <1>13

\* Begin of both vendors: the transaction is open, and recorded by sqldriver.
LEMMA BeginKeeps ==
  ASSUME SessionInv, NEW h \in Handles, NEW c \in Conns, handle[h].conn = c,
         PgBegin(h, c) \/ SqlBegin(h, c)
  PROVE  SessionInv'
<1> DEFINE n == IF kind = "sql" THEN h ELSE conn[c].rec
           r == [conn[c] EXCEPT !.tx = IF @ = NoHandle THEN h ELSE @,
                                !.cause = @ \ EndCauses, !.rec = n]
           t == [handle[h] EXCEPT !.txs = @ + 1]
<1>1. conn[c] \in ConnRec /\ handle[h] \in HandleRec /\ RecordOK(kind, conn[c])
  BY Parts
<1>2. conn' = [conn EXCEPT ![c] = r]
  <2>1. CASE PgBegin(h, c)
    <3>1. kind = "pg" /\ conn' = [conn EXCEPT ![c] = Begun(h, c)]
      BY <2>1 DEF PgBegin, SetConn
    <3>2. Begun(h, c) = r
      BY <1>1, <3>1 DEF Begun, ConnRec
    <3> QED
      BY <3>1, <3>2
  <2>2. CASE SqlBegin(h, c)
    <3>1. kind = "sql" /\ conn' = [conn EXCEPT ![c] = [Begun(h, c) EXCEPT !.rec = h]]
      BY <2>2 DEF SqlBegin, SetConn
    <3>2. [Begun(h, c) EXCEPT !.rec = h] = r
      BY <1>1, <3>1 DEF Begun, ConnRec
    <3> QED
      BY <3>1, <3>2
  <2> QED
    BY <2>1, <2>2
<1>3. /\ handle' = [handle EXCEPT ![h] = t] /\ UNCHANGED pool
      /\ handle[h].live /\ ~handle[h].owned
  BY DEF PgBegin, SqlBegin, Starts, SetHandle, Live
<1>4. conn[c].at = "out"
  BY <1>3, Parts
<1>5. r \in ConnRec /\ t \in HandleRec
  <2>1. r \in ConnRec
    BY <1>1 DEF ConnRec
  <2>2. handle[h].txs \in 0 .. MaxTxs /\ handle[h].txs < MaxTxs
    BY <1>1 DEF HandleRec, PgBegin, SqlBegin, Starts
  <2>3. handle[h].txs + 1 \in 0 .. MaxTxs
    BY <2>2, SessionAssumption
  <2>4. t \in HandleRec
    BY <1>1, <2>3 DEF HandleRec
  <2> QED
    BY <2>1, <2>4
<1>6. /\ r.at = conn[c].at /\ r.want = conn[c].want /\ r.tx # NoHandle
      /\ r.subs = conn[c].subs /\ r.listening = conn[c].listening
      /\ r.cause = conn[c].cause \ EndCauses /\ (kind = "sql" => r.rec # NoHandle)
  BY <1>1 DEF ConnRec, Handles, NoHandle
<1>7. t.conn = c /\ t.live = handle[h].live /\ t.owned = handle[h].owned
  BY <1>1 DEF HandleRec
<1> HIDE DEF r, t
<1>8. RecordOK(kind, r) /\ Untouched(r)
  <2>1. r.cause \cap SubCauses = conn[c].cause \cap SubCauses
    BY <1>6 DEF SubCauses, EndCauses
  <2> QED
    BY <2>1, <1>1, <1>4, <1>6 DEF RecordOK, SqlKnows, PgKnows, Untouched
<1>9. HandleOK(t)
  BY <1>3, <1>7 DEF HandleOK
<1> QED
  BY <1>2, <1>3, <1>5, <1>6, <1>7, <1>8, <1>9, CallKeeps

\* Commit and Rollback: the Tx is done, and what is left of the transaction, whoever's
\* it was, is marked.
LEMMA SettleKeeps ==
  ASSUME SessionInv, NEW h \in Handles, NEW c \in Conns, handle[h].conn = c,
         handle[h].txs > 0, SetHandle(h, [handle[h] EXCEPT !.txs = @ - 1]),
         NEW r \in ConnRec, SetConn(c, r), UNCHANGED pool,
         RecordOK(kind, r), r.at = conn[c].at,
         Untouched(conn[c]) /\ (~handle[h].live \/ handle[h].txs - 1 > 0) => Untouched(r)
  PROVE  SessionInv'
<1> DEFINE t == [handle[h] EXCEPT !.txs = @ - 1]
<1>1. conn' = [conn EXCEPT ![c] = r] /\ handle' = [handle EXCEPT ![h] = t]
  BY DEF SetConn, SetHandle
<1>2. handle[h] \in HandleRec /\ HandleOK(handle[h])
  BY Parts
<1>3. handle[h].txs \in 0 .. MaxTxs /\ handle[h].txs - 1 \in 0 .. MaxTxs
  BY <1>2, SessionAssumption DEF HandleRec
<1>4. /\ t \in HandleRec /\ t.conn = c /\ t.live = handle[h].live
      /\ t.txs = handle[h].txs - 1 /\ t.owned = handle[h].owned
  BY <1>2, <1>3 DEF HandleRec
<1> HIDE DEF t
<1>5. ~handle[h].owned
  BY <1>2, <1>3, SessionAssumption DEF HandleOK
<1>6. HandleOK(t)
  BY <1>4, <1>5 DEF HandleOK
<1>7. \A g \in Handles \ {h} :
        handle[g].live /\ handle[g].conn = c /\ handle[g].txs > 0 => Untouched(r)
  BY Parts
<1>8. t.live /\ t.txs > 0 => Untouched(r)
  <2>1. SUFFICES ASSUME t.live, t.txs > 0 PROVE Untouched(r)
    OBVIOUS
  <2>2. handle[h].live /\ handle[h].txs - 1 > 0
    BY <2>1, <1>4
  <2> QED
    BY <2>2, Parts
<1> QED
  BY <1>1, <1>4, <1>6, <1>7, <1>8, CallKeeps

\* A lost connection has nothing left at the server.
LEMMA LostRecord ==
  ASSUME NEW r \in ConnRec, NEW k \in {"pg", "sql"}, RecordOK(k, r)
  PROVE  Lost(r) \in ConnRec /\ RecordOK(k, Lost(r)) /\ Lost(r).at = r.at /\ Lost(r).dead
<1>1. PICK q : q = Lost(r)
  OBVIOUS
<1>2. /\ q \in ConnRec /\ q.at = r.at /\ q.tx = r.tx /\ q.busy = r.busy /\ q.dead
      /\ ~q.subs /\ q.want = "keep" /\ q.rec = r.rec /\ q.listening = r.listening
  BY <1>1 DEF ConnRec, Lost
<1>3. RecordOK(k, q)
  BY <1>2 DEF RecordOK, SqlKnows, PgKnows
<1> QED
  BY <1>1, <1>2, <1>3

\* Commit and Rollback of pgx: done, refused on a dead connection, or the end of it.
LEMMA PgSettleKeeps ==
  ASSUME SessionInv, NEW h \in Handles, NEW c \in Conns, handle[h].conn = c,
         NEW commit \in BOOLEAN, NEW ok \in BOOLEAN, PgSettle(h, c, commit, ok)
  PROVE  SessionInv'
<1>1. /\ conn[c] \in ConnRec /\ RecordOK(kind, conn[c]) /\ kind \in {"pg", "sql"}
      /\ handle[h] \in HandleRec
  BY Parts
<1>2. /\ handle[h].txs > 0 /\ SetHandle(h, [handle[h] EXCEPT !.txs = @ - 1])
      /\ UNCHANGED pool
  BY DEF PgSettle
<1>3. PICK n \in Nat : n = handle[h].txs - 1
  BY <1>1, <1>2, SessionAssumption DEF HandleRec
<1>4. CASE conn[c].dead
  <2>1. SetConn(c, conn[c])
    BY <1>4 DEF PgSettle
  <2> QED
    BY <2>1, <1>1, <1>2, SettleKeeps
<1>5. CASE ~conn[c].dead /\ ok /\ Free(conn[c])
  <2>1. PICK e \in ConnRec : /\ e = EndTx(conn[c], commit) /\ RecordOK(kind, e)
                             /\ e.at = conn[c].at /\ e.cause = conn[c].cause \ TxCauses
    BY <1>1, EndTxRecord
  <2>2. PICK r : r = [e EXCEPT !.cause = @ \cup Ended(h, conn[c], n)]
    OBVIOUS
  <2>3. SetConn(c, r)
    BY <1>3, <1>5, <2>1, <2>2 DEF PgSettle
  <2>4. Ended(h, conn[c], n) \in SUBSET EndCauses
    BY <1>1, EndedMarks
  <2>5. /\ r \in ConnRec /\ RecordOK(kind, r) /\ r.at = conn[c].at
        /\ r.cause = (conn[c].cause \ TxCauses) \cup Ended(h, conn[c], n)
    BY <1>1, <2>1, <2>2, <2>4, CutRecord
  <2>6. Untouched(conn[c]) /\ (~handle[h].live \/ n > 0) => Untouched(r)
    BY <1>1, <1>5, <2>5, EndedUntouched
  <2> QED
    BY <2>3, <2>5, <2>6, <1>2, <1>3, SettleKeeps
<1>6. CASE ~conn[c].dead /\ ~(ok /\ Free(conn[c]))
  <2>1. SetConn(c, Lost(conn[c]))
    BY <1>6 DEF PgSettle
  <2>2. PICK r \in ConnRec : r = Lost(conn[c]) /\ RecordOK(kind, r) /\ r.at = conn[c].at /\ r.dead
    BY <1>1, LostRecord
  <2>3. Untouched(r)
    BY <2>2 DEF Untouched
  <2> QED
    BY <2>1, <2>2, <2>3, <1>2, SettleKeeps
<1> QED
  BY <1>4, <1>5, <1>6

\* Commit and Rollback of sqldriver: the record goes, and if the transaction did not,
\* its being left behind is named.
LEMMA SqlSettleKeeps ==
  ASSUME SessionInv, NEW h \in Handles, NEW c \in Conns, handle[h].conn = c,
         NEW commit \in BOOLEAN, NEW ok \in BOOLEAN, SqlSettle(h, c, commit, ok)
  PROVE  SessionInv'
<1> DEFINE kept == [conn[c] EXCEPT !.rec = NoHandle, !.cause =
                      IF conn[c].tx = NoHandle THEN @
                      ELSE @ \cup {IF handle[h].live THEN "unsettled" ELSE "stale"}]
<1>1. /\ conn[c] \in ConnRec /\ RecordOK(kind, conn[c]) /\ kind \in {"pg", "sql"}
      /\ handle[h] \in HandleRec
  BY Parts
<1>2. PICK n \in Nat : n = handle[h].txs - 1
  BY <1>1, SessionAssumption DEF HandleRec, SqlSettle
<1>3. PICK e \in ConnRec : /\ e = EndTx(conn[c], commit) /\ RecordOK(kind, e)
                           /\ e.at = conn[c].at /\ e.tx = NoHandle
                           /\ e.cause = conn[c].cause \ TxCauses
  BY <1>1, EndTxRecord
<1>4. PICK done : done = [e EXCEPT !.rec = NoHandle, !.cause = @ \cup Ended(h, conn[c], n)]
  OBVIOUS
<1>5. /\ handle[h].txs > 0 /\ SetHandle(h, [handle[h] EXCEPT !.txs = @ - 1])
      /\ UNCHANGED pool /\ kind = "sql"
      /\ \/ ok /\ Free(conn[c]) /\ SetConn(c, done)
         \/ SetConn(c, kept)
         \/ SetConn(c, Lost(kept))
  BY <1>2, <1>3, <1>4 DEF SqlSettle
<1>6. CASE Free(conn[c]) /\ SetConn(c, done)
  <2>1. Ended(h, conn[c], n) \in SUBSET EndCauses
    BY <1>1, EndedMarks
  <2>2. /\ done \in ConnRec /\ done.at = e.at /\ done.tx = e.tx /\ done.want = e.want
        /\ done.busy = e.busy /\ done.rec = NoHandle /\ done.subs = e.subs
        /\ done.dead = e.dead /\ done.cause = e.cause \cup Ended(h, conn[c], n)
    BY <2>1, <1>3, <1>4 DEF ConnRec, Causes
  <2>3. RecordOK(kind, done)
    BY <2>2, <1>3, <1>5 DEF RecordOK, SqlKnows
  <2>4. Untouched(conn[c]) /\ (~handle[h].live \/ n > 0) => Untouched(done)
    BY <1>1, <1>3, <1>6, <2>2, EndedUntouched DEF Free
  <2> QED
    BY <2>2, <2>3, <2>4, <1>2, <1>3, <1>5, <1>6, SettleKeeps
<1>7. /\ kept \in ConnRec /\ kept.at = conn[c].at /\ kept.tx = conn[c].tx
      /\ kept.want = conn[c].want /\ kept.busy = conn[c].busy /\ kept.rec = NoHandle
      /\ kept.subs = conn[c].subs /\ kept.dead = conn[c].dead
      /\ kept.cause = IF conn[c].tx = NoHandle THEN conn[c].cause
                      ELSE conn[c].cause
                             \cup {IF handle[h].live THEN "unsettled" ELSE "stale"}
  BY <1>1 DEF ConnRec, Causes, TxCauses
<1> HIDE DEF kept
<1>8. kept.tx # NoHandle => kept.cause \cap LeftTx("sql") # {}
  <2> SUFFICES ASSUME kept.tx # NoHandle PROVE kept.cause \cap LeftTx("sql") # {}
    OBVIOUS
  <2>1. CASE handle[h].live
    <3>1. "unsettled" \in kept.cause \cap LeftTx("sql")
      BY <2>1, <1>7 DEF TxCauses, LeftTx
    <3> QED
      BY <3>1
  <2>2. CASE ~handle[h].live
    <3>1. "stale" \in kept.cause \cap LeftTx("sql")
      BY <2>2, <1>7 DEF TxCauses, LeftTx
    <3> QED
      BY <3>1
  <2> QED
    BY <2>1, <2>2
<1>9. conn[c].cause \subseteq kept.cause
  BY <1>7
<1>10. RecordOK(kind, kept)
  BY <1>1, <1>5, <1>7, <1>8, <1>9 DEF RecordOK, SqlKnows
<1>11. CASE SetConn(c, kept)
  <2>1. Untouched(conn[c]) => Untouched(kept)
    BY <1>7, <1>9 DEF Untouched
  <2> QED
    BY <2>1, <1>5, <1>7, <1>10, <1>11, SettleKeeps
<1>12. CASE SetConn(c, Lost(kept))
  <2>1. PICK r \in ConnRec : r = Lost(kept) /\ RecordOK(kind, r) /\ r.at = kept.at /\ r.dead
    BY <1>1, <1>7, <1>10, LostRecord
  <2>2. Untouched(r)
    BY <2>1 DEF Untouched
  <2> QED
    BY <2>1, <2>2, <1>5, <1>7, <1>12, SettleKeeps
<1> QED
  BY <1>5, <1>6, <1>11, <1>12

\* Release: the first call only.
LEMMA ReleaseKeeps ==
  ASSUME SessionInv, NEW h \in Handles, NEW c \in Conns, handle[h].conn = c, Release(h, c)
  PROVE  SessionInv'
<1> DEFINE r == [conn[c] EXCEPT !.at = "release"]
           t == [handle[h] EXCEPT !.live = FALSE]
<1>1. /\ conn' = [conn EXCEPT ![c] = r] /\ handle' = [handle EXCEPT ![h] = t]
      /\ UNCHANGED pool /\ handle[h].live /\ ~handle[h].owned
  BY DEF Release, SetConn, SetHandle, Live
<1>2. conn[c] \in ConnRec /\ handle[h] \in HandleRec /\ RecordOK(kind, conn[c])
  BY Parts
<1>3. /\ r \in ConnRec /\ r.at = "release" /\ r.tx = conn[c].tx /\ r.want = conn[c].want
      /\ r.busy = conn[c].busy /\ r.rec = conn[c].rec /\ r.subs = conn[c].subs
      /\ r.listening = conn[c].listening /\ r.cause = conn[c].cause /\ r.dead = conn[c].dead
  BY <1>2 DEF ConnRec
<1>4. t \in HandleRec /\ t.conn = c /\ ~t.live /\ t.owned = handle[h].owned
  BY <1>2 DEF HandleRec
<1> HIDE DEF r, t
<1>5. RecordOK(kind, r) /\ HandleOK(t)
  BY <1>1, <1>2, <1>3, <1>4 DEF RecordOK, SqlKnows, PgKnows, HandleOK
<1> QED
  BY <1>1, <1>3, <1>4, <1>5, ReturnKeeps

\* A new handle.
LEMMA NewHandleOK ==
  NewHandle \in HandleRec /\ NewHandle.txs = 0 /\ ~NewHandle.owned
<1>1. 0 \in 0 .. MaxTxs
  BY SessionAssumption
<1> QED
  BY <1>1 DEF HandleRec, NewHandle

\* Acquire of both vendors.
LEMMA AcquireKeeps ==
  ASSUME SessionInv, NEW h \in Handles, NEW c \in Conns, CheckOut(h, c)
  PROVE  SessionInv'
<1> DEFINE r == [conn[c] EXCEPT !.at = "out"]
           t == [NewHandle EXCEPT !.conn = c, !.live = TRUE]
<1>1. /\ conn' = [conn EXCEPT ![c] = r] /\ handle' = [handle EXCEPT ![h] = t]
      /\ UNCHANGED pool /\ Fresh(h, c)
  BY DEF CheckOut, SetConn, SetHandle
<1>2. conn[c] \in ConnRec /\ RecordOK(kind, conn[c])
  BY Parts
<1>3. /\ r \in ConnRec /\ r.at = "out" /\ r.tx = conn[c].tx /\ r.want = conn[c].want
      /\ r.busy = conn[c].busy /\ r.rec = conn[c].rec /\ r.subs = conn[c].subs
      /\ r.listening = conn[c].listening /\ r.cause = conn[c].cause /\ r.dead = conn[c].dead
  BY <1>2 DEF ConnRec
<1>4. t \in HandleRec /\ t.conn = c /\ t.live /\ ~t.owned /\ t.txs = 0
  BY NewHandleOK DEF HandleRec
<1> HIDE DEF r, t
<1>5. RecordOK(kind, r) /\ HandleOK(t)
  BY <1>2, <1>3, <1>4 DEF RecordOK, SqlKnows, PgKnows, HandleOK
<1>6. (t.live => r.at = "out") /\ (r.at = "out" => t.live)
  BY <1>3, <1>4
<1> QED
  BY <1>1, <1>3, <1>4, <1>5, <1>6, TakeKeeps

\* Query and QueryRow of the pool.
LEMMA QueryOwnedKeeps ==
  ASSUME SessionInv, NEW h \in Handles, NEW c \in Conns, NEW ok \in BOOLEAN,
         QueryOwned(h, c, ok)
  PROVE  SessionInv'
<1>1. PICK a \in {"out", "release"}, b \in Handles \cup {NoHandle}, o \in {"open", "none"} :
        /\ a = (IF ok THEN "out" ELSE "release")
        /\ b = (IF ok THEN h ELSE conn[c].busy)
        /\ o = (IF ok THEN "open" ELSE "none")
  BY Parts DEF ConnRec
<1>2. PICK r : r = [conn[c] EXCEPT !.at = a, !.busy = b]
  OBVIOUS
<1>3. PICK t : t = [NewHandle EXCEPT !.conn = c, !.live = ok, !.owned = TRUE, !.rows = o]
  OBVIOUS
<1>4. conn' = [conn EXCEPT ![c] = r]
  BY <1>1, <1>2 DEF QueryOwned, SetConn
<1>5. handle' = [handle EXCEPT ![h] = t] /\ UNCHANGED pool /\ Fresh(h, c)
  BY <1>1, <1>3 DEF QueryOwned, SetHandle
<1>6. conn[c] \in ConnRec /\ RecordOK(kind, conn[c])
  BY Parts
<1>7. /\ r \in ConnRec /\ r.at = a /\ r.tx = conn[c].tx /\ r.want = conn[c].want
      /\ r.rec = conn[c].rec /\ r.subs = conn[c].subs
      /\ r.listening = conn[c].listening /\ r.cause = conn[c].cause /\ r.dead = conn[c].dead
  BY <1>2, <1>6 DEF ConnRec
<1>8. /\ t \in HandleRec /\ t.conn = c /\ t.live = ok /\ t.owned /\ t.txs = 0
      /\ t.rows = o
  BY <1>3, NewHandleOK DEF HandleRec
<1>9. r.at # "pool" /\ r.at # "tidy"
  BY <1>7
<1>10. RecordOK(kind, r)
  BY <1>6, <1>7, <1>9 DEF RecordOK, SqlKnows, PgKnows
<1>11. HandleOK(t)
  BY <1>1, <1>8 DEF HandleOK
<1>12. (t.live => r.at = "out") /\ (r.at = "out" => t.live)
  <2>1. CASE ok
    BY <2>1, <1>1, <1>7, <1>8
  <2>2. CASE ~ok
    BY <2>2, <1>1, <1>7, <1>8
  <2> QED
    BY <2>1, <2>2
<1> QED
  BY <1>4, <1>5, <1>7, <1>8, <1>10, <1>11, <1>12, TakeKeeps

-----------------------------------------------------------------------------
(* The pool's steps. *)

\* A closed connection has nothing left of its session.
LEMMA GoneRecord ==
  ASSUME NEW r \in ConnRec, NEW k \in {"pg", "sql"}, RecordOK(k, r)
  PROVE  Gone(r) \in ConnRec /\ RecordOK(k, Gone(r)) /\ Gone(r).at = "gone"
<1>1. PICK q : q = Gone(r)
  OBVIOUS
<1>2. /\ q \in ConnRec /\ q.at = "gone" /\ q.tx = NoHandle /\ q.busy = NoHandle
      /\ ~q.subs /\ q.want = "keep"
  BY <1>1 DEF ConnRec, Gone, Lost
<1>3. RecordOK(k, q)
  BY <1>2 DEF RecordOK, SqlKnows, PgKnows
<1> QED
  BY <1>1, <1>2, <1>3

\* What goes back in a bucket: a connection with no transaction that the vendor
\* would know of, and nothing marked.
LEMMA PutRecord ==
  ASSUME NEW r \in ConnRec, NEW k \in {"pg", "sql"}, RecordOK(k, r),
         k = "sql" => r.rec = NoHandle,
         k = "pg" => /\ ~r.listening
                     /\ r.tx # NoHandle /\ ~r.dead => "astray" \in r.cause
                     /\ r.busy # NoHandle /\ ~r.dead => "late" \in r.cause
  PROVE  Put(r) \in ConnRec /\ RecordOK(k, Put(r)) /\ Put(r).at = "pool"
<1>1. PICK y \in SUBSET Causes :
        y = (r.cause \ EndCauses) \cup (IF r.busy # NoHandle THEN {"unread"} ELSE {})
  BY DEF ConnRec, Causes
<1>2. PICK q : q = [r EXCEPT !.at = "pool", !.cause = y]
  OBVIOUS
<1>3. q = Put(r)
  BY <1>1, <1>2 DEF Put
<1>4. /\ q \in ConnRec /\ q.at = "pool" /\ q.tx = r.tx /\ q.want = r.want
      /\ q.busy = r.busy /\ q.rec = r.rec /\ q.subs = r.subs /\ q.dead = r.dead
      /\ q.listening = r.listening /\ q.cause = y
  BY <1>2 DEF ConnRec
<1>5. /\ r.busy # NoHandle => "unread" \in y
      /\ "astray" \in r.cause => "astray" \in y
      /\ "late" \in r.cause => "late" \in y
  BY <1>1 DEF EndCauses
<1>6. /\ r.cause \cap LeftTx("sql") # {} => y \cap LeftTx("sql") # {}
      /\ r.cause \cap SubCauses # {} => y \cap SubCauses # {}
  BY <1>1 DEF EndCauses, LeftTx, TxCauses, SubCauses
<1>7. k = "sql" => SqlKnows(q)
  BY <1>4, <1>5, <1>6 DEF RecordOK, SqlKnows
<1>8. k = "pg" => PgKnows(q)
  BY <1>4, <1>5, <1>6 DEF RecordOK, PgKnows
<1>9. RecordOK(k, q)
  BY <1>4, <1>7, <1>8 DEF RecordOK
<1> QED
  BY <1>3, <1>4, <1>9

\* A step of the cleanup.
LEMMA AtRecord ==
  ASSUME NEW r \in ConnRec, NEW k \in {"pg", "sql"}, RecordOK(k, r),
         NEW a \in {"cleanup", "unwind", "tidy"},
         a = "tidy" /\ k = "pg" => r.tx = NoHandle /\ r.busy = NoHandle,
         a = "tidy" /\ k = "sql" => r.rec = NoHandle,
         a = "unwind" => k = "sql"
  PROVE  LET q == [r EXCEPT !.at = a] IN q \in ConnRec /\ RecordOK(k, q) /\ q.at = a
<1>1. PICK q : q = [r EXCEPT !.at = a]
  OBVIOUS
<1>2. /\ q \in ConnRec /\ q.at = a /\ q.tx = r.tx /\ q.want = r.want
      /\ q.busy = r.busy /\ q.rec = r.rec /\ q.subs = r.subs /\ q.dead = r.dead
      /\ q.listening = r.listening /\ q.cause = r.cause
  BY <1>1 DEF ConnRec
<1>3. k = "sql" => SqlKnows(q)
  BY <1>2 DEF RecordOK, SqlKnows
<1>4. k = "pg" => PgKnows(q)
  BY <1>2 DEF RecordOK, PgKnows
<1>5. RecordOK(k, q)
  BY <1>2, <1>3, <1>4 DEF RecordOK
<1> QED
  BY <1>1, <1>2, <1>5

\* Core.release, and the two vendors' Recyclable.
LEMMA CleanStepKeeps ==
  ASSUME SessionInv, NEW c \in Conns,
         Clean(c) \/ Discard(c) \/ \E ok \in BOOLEAN : Unwind(c, ok)
  PROVE  SessionInv'
<1>1. /\ conn[c] \in ConnRec /\ RecordOK(kind, conn[c]) /\ kind \in {"pg", "sql"}
  BY DEF SessionInv, Types, Records
<1>2. ASSUME NEW r \in ConnRec, SetConn(c, r), RecordOK(kind, r), r.at # "out",
             UNCHANGED <<handle, pool>>, conn[c].at # "out"
      PROVE  SessionInv'
  BY <1>2, CleanKeeps DEF SetConn
<1>3. Gone(conn[c]) \in ConnRec /\ RecordOK(kind, Gone(conn[c])) /\ Gone(conn[c]).at = "gone"
  BY <1>1, GoneRecord
<1>4. ASSUME SetConn(c, Gone(conn[c])), UNCHANGED <<handle, pool>>, conn[c].at # "out"
      PROVE  SessionInv'
  BY <1>2, <1>3, <1>4
<1>5. ASSUME SetConn(c, Put(conn[c])), UNCHANGED <<handle, pool>>, conn[c].at # "out",
             kind = "sql" => conn[c].rec = NoHandle,
             kind = "pg" => /\ ~conn[c].listening
                            /\ conn[c].tx # NoHandle /\ ~conn[c].dead => "astray" \in conn[c].cause
                            /\ conn[c].busy # NoHandle /\ ~conn[c].dead => "late" \in conn[c].cause
      PROVE  SessionInv'
  BY <1>1, <1>2, <1>5, PutRecord
<1>6. CASE Gate(c)
  <2>1. /\ UNCHANGED <<handle, pool>> /\ conn[c].at = "release"
        /\ \/ SetConn(c, Gone(conn[c]))
           \/ SetConn(c, [conn[c] EXCEPT !.at = "cleanup"])
           \/ SetConn(c, Put(conn[c])) /\ ~NeedsCleanup(c)
    BY <1>6 DEF Gate
  <2>2. CASE SetConn(c, [conn[c] EXCEPT !.at = "cleanup"])
    <3>1. PICK a \in {"cleanup", "unwind", "tidy"} : a = "cleanup"
      OBVIOUS
    <3>2. a # "tidy" /\ a # "unwind"
      BY <3>1
    <3>3. PICK q \in ConnRec : q = [conn[c] EXCEPT !.at = a] /\ RecordOK(kind, q) /\ q.at = a
      BY <3>2, <1>1, AtRecord
    <3> QED
      BY <3>1, <3>3, <2>1, <2>2, <1>2
  <2>3. CASE SetConn(c, Put(conn[c])) /\ ~NeedsCleanup(c)
    <3>1. kind = "sql" => conn[c].rec = NoHandle
      BY <2>3 DEF NeedsCleanup, SqlNeedsCleanup
    <3>2. kind = "pg" => conn[c].tx = NoHandle /\ ~conn[c].listening /\ conn[c].busy = NoHandle
      BY <2>3 DEF NeedsCleanup, PgNeedsCleanup
    <3> QED
      BY <3>1, <3>2, <2>1, <2>3, <1>5
  <2> QED
    BY <2>1, <2>2, <2>3, <1>4
<1>7. ASSUME NEW ok \in BOOLEAN, Rollback(c, ok) PROVE SessionInv'
  <2>1. UNCHANGED <<handle, pool>> /\ conn[c].at = "cleanup" /\ kind = "pg"
    BY <1>7 DEF Rollback
  <2>2. \/ SetConn(c, Gone(conn[c]))
        \/ /\ conn[c].busy = NoHandle /\ conn[c].tx = NoHandle
           /\ SetConn(c, [conn[c] EXCEPT !.at = "tidy"])
        \/ /\ conn[c].busy = NoHandle
           /\ SetConn(c, [EndTx(conn[c], FALSE) EXCEPT !.at = "tidy"])
    BY <1>7 DEF Rollback
  <2>3. CASE conn[c].busy = NoHandle /\ conn[c].tx = NoHandle
             /\ SetConn(c, [conn[c] EXCEPT !.at = "tidy"])
    BY <2>1, <2>3, <1>1, <1>2, AtRecord
  <2>4. CASE conn[c].busy = NoHandle
             /\ SetConn(c, [EndTx(conn[c], FALSE) EXCEPT !.at = "tidy"])
    <3>1. PICK e \in ConnRec : /\ e = EndTx(conn[c], FALSE) /\ RecordOK(kind, e)
                               /\ e.tx = NoHandle /\ e.busy = conn[c].busy
      BY <1>1, EndTxRecord
    <3>2. PICK q \in ConnRec : q = [e EXCEPT !.at = "tidy"] /\ RecordOK(kind, q) /\ q.at = "tidy"
      BY <3>1, <2>1, <2>4, <1>1, AtRecord
    <3> QED
      BY <3>1, <3>2, <2>1, <2>4, <1>2
  <2> QED
    BY <2>1, <2>2, <2>3, <2>4, <1>4
<1>8. ASSUME NEW ok \in BOOLEAN, Tidy(c, ok) PROVE SessionInv'
  <2>1. UNCHANGED <<handle, pool>> /\ conn[c].at = "tidy" /\ kind = "pg"
    BY <1>8 DEF Tidy
  <2>2. \/ SetConn(c, Gone(conn[c]))
        \/ conn[c].listening /\ SetConn(c, Put(SilenceAll(conn[c])))
        \/ ~conn[c].listening /\ SetConn(c, Put(conn[c]))
    BY <1>8 DEF Tidy
  <2>3. /\ conn[c].tx # NoHandle /\ ~conn[c].dead => "astray" \in conn[c].cause
        /\ conn[c].busy # NoHandle /\ ~conn[c].dead => "late" \in conn[c].cause
    BY <2>1, <1>1 DEF RecordOK, PgKnows
  <2>4. CASE conn[c].listening /\ SetConn(c, Put(SilenceAll(conn[c])))
    <3>1. PICK q \in ConnRec :
            /\ q = SilenceAll(conn[c]) /\ RecordOK("pg", q)
            /\ q.tx = conn[c].tx /\ q.dead = conn[c].dead /\ q.busy = conn[c].busy
            /\ ~q.listening /\ q.cause \ SubCauses = conn[c].cause \ SubCauses
      BY <2>1, <1>1, SilenceAllRecord
    <3>2. /\ "astray" \in conn[c].cause => "astray" \in q.cause
          /\ "late" \in conn[c].cause => "late" \in q.cause
      BY <3>1 DEF SubCauses
    <3>3. Put(q) \in ConnRec /\ RecordOK(kind, Put(q)) /\ Put(q).at = "pool"
      BY <3>1, <3>2, <2>1, <2>3, PutRecord
    <3> QED
      BY <3>1, <3>3, <2>1, <2>4, <1>2
  <2>5. CASE ~conn[c].listening /\ SetConn(c, Put(conn[c]))
    BY <2>1, <2>3, <2>5, <1>5
  <2> QED
    BY <2>1, <2>2, <2>4, <2>5, <1>4
<1>9. CASE Reset(c)
  <2>1. /\ UNCHANGED <<handle, pool>> /\ conn[c].at = "cleanup" /\ kind = "sql"
        /\ \E a \in {"tidy", "unwind"} :
             /\ SetConn(c, [conn[c] EXCEPT !.at = a])
             /\ a = "tidy" => conn[c].rec = NoHandle
    BY <1>9 DEF Reset
  <2>2. PICK a \in {"tidy", "unwind"} :
             /\ SetConn(c, [conn[c] EXCEPT !.at = a])
             /\ a = "tidy" => conn[c].rec = NoHandle
    BY <2>1
  <2>3. PICK q \in ConnRec : q = [conn[c] EXCEPT !.at = a] /\ RecordOK(kind, q) /\ q.at = a
    BY <2>1, <2>2, <1>1, AtRecord
  <2> QED
    BY <2>1, <2>2, <2>3, <1>2
<1>10. ASSUME NEW ok \in BOOLEAN, Unwind(c, ok) PROVE SessionInv'
  <2>1. /\ UNCHANGED <<handle, pool>> /\ conn[c].at = "unwind"
        /\ \/ SetConn(c, Gone(conn[c]))
           \/ SetConn(c, [EndTx(conn[c], FALSE) EXCEPT !.at = "tidy", !.rec = NoHandle])
    BY <1>10 DEF Unwind
  <2>2. CASE SetConn(c, [EndTx(conn[c], FALSE) EXCEPT !.at = "tidy", !.rec = NoHandle])
    <3>1. PICK e \in ConnRec : /\ e = EndTx(conn[c], FALSE) /\ RecordOK(kind, e)
                               /\ e.tx = NoHandle /\ e.at = conn[c].at
      BY <1>1, EndTxRecord
    <3>2. PICK q : q = [e EXCEPT !.at = "tidy", !.rec = NoHandle]
      OBVIOUS
    <3>3. /\ q \in ConnRec /\ q.at = "tidy" /\ q.tx = NoHandle /\ q.want = e.want
          /\ q.rec = NoHandle /\ q.subs = e.subs /\ q.busy = e.busy
          /\ q.listening = e.listening /\ q.cause = e.cause /\ q.dead = e.dead
      BY <3>1, <3>2 DEF ConnRec
    <3>4. kind = "sql"
      BY <2>1, <1>1 DEF RecordOK, PgKnows
    <3>5. RecordOK(kind, q)
      BY <3>1, <3>3, <3>4 DEF RecordOK, SqlKnows
    <3> QED
      BY <3>1, <3>2, <3>3, <3>5, <2>1, <2>2, <1>2
  <2> QED
    BY <2>1, <2>2, <1>4
<1>11. ASSUME NEW ok \in BOOLEAN, ResetSession(c, ok) PROVE SessionInv'
  <2>1. /\ UNCHANGED <<handle, pool>> /\ conn[c].at = "tidy" /\ kind = "sql"
        /\ SetConn(c, Gone(conn[c])) \/ SetConn(c, Put(conn[c]))
    BY <1>11 DEF ResetSession
  <2>2. conn[c].rec = NoHandle
    BY <2>1, <1>1 DEF RecordOK, SqlKnows
  <2> QED
    BY <2>1, <2>2, <1>4, <1>5
<1>12. CASE Discard(c)
  BY <1>12, <1>4 DEF Discard
<1> QED
  BY <1>6, <1>7, <1>8, <1>9, <1>10, <1>11, <1>12 DEF Clean

\* A connection breaks where it is.
LEMMA BreakKeeps ==
  ASSUME SessionInv, NEW c \in Conns, Break(c)
  PROVE  SessionInv'
<1> DEFINE r == Lost(conn[c])
<1>1. conn' = [conn EXCEPT ![c] = r] /\ UNCHANGED <<handle, pool>>
  BY DEF Break, SetConn
<1>2. /\ conn \in [Conns -> ConnRec] /\ conn[c] \in ConnRec /\ RecordOK(kind, conn[c])
  BY DEF SessionInv, Types, Records
<1>3. r \in ConnRec /\ RecordOK(kind, r) /\ r.at = conn[c].at /\ r.dead
  BY <1>2, LostRecord DEF SessionInv, Types
<1> HIDE DEF r
<1>4. RecordOK(kind, r) /\ Untouched(r)
  BY <1>3 DEF Untouched
<1>5. /\ conn'[c] = r /\ conn' \in [Conns -> ConnRec]
      /\ \A d \in Conns : d # c => conn'[d] = conn[d]
  BY <1>1, <1>2, <1>3
<1>6. \A d \in Conns : conn'[d].at = conn[d].at
  BY <1>3, <1>5
<1>7. Types'
  BY <1>1, <1>5 DEF SessionInv, Types, pool
<1>8. Records'
  BY <1>1, <1>4, <1>5 DEF SessionInv, Records, pool
<1>9. Links'
  BY <1>1, <1>6 DEF SessionInv, Links
<1>10. Owners'
  <2> SUFFICES ASSUME NEW h \in Handles, handle[h].live, handle[h].txs > 0
               PROVE  Untouched(conn'[handle[h].conn])
    BY <1>1 DEF Owners, Untouched
  <2>1. handle[h].conn \in Conns /\ Untouched(conn[handle[h].conn])
    BY DEF SessionInv, Links, Owners
  <2> QED
    BY <2>1, <1>4, <1>5
<1> QED
  BY <1>7, <1>8, <1>9, <1>10 DEF SessionInv

\* Close of the pool: the flag, and the idle connections.
LEMMA ShutKeeps ==
  ASSUME SessionInv, Shut \/ Sweep
  PROVE  SessionInv'
<1>1. CASE Shut
  <2>1. shut' \in BOOLEAN /\ UNCHANGED <<conn, handle, kind, resets, swept>>
    BY <1>1 DEF Shut
  <2> QED
    BY <2>1 DEF SessionInv, Types, Links, Records, Owners, Untouched
<1>2. CASE Sweep
  <2>1. /\ conn' = [c \in Conns |-> IF conn[c].at = "pool" THEN Gone(conn[c]) ELSE conn[c]]
        /\ swept' \in BOOLEAN /\ UNCHANGED <<handle, kind, resets, shut>>
    BY <1>2 DEF Sweep
  <2>2. \A c \in Conns : conn[c] \in ConnRec /\ RecordOK(kind, conn[c])
    BY DEF SessionInv, Types, Records
  <2>3. ASSUME NEW c \in Conns
        PROVE  /\ conn'[c] \in ConnRec /\ RecordOK(kind, conn'[c])
               /\ conn'[c] = conn[c] \/ (conn[c].at = "pool" /\ conn'[c].at = "gone")
    <3>1. /\ Gone(conn[c]) \in ConnRec /\ RecordOK(kind, Gone(conn[c]))
          /\ Gone(conn[c]).at = "gone"
      BY <2>2, GoneRecord DEF SessionInv, Types
    <3>2. conn'[c] = IF conn[c].at = "pool" THEN Gone(conn[c]) ELSE conn[c]
      BY <2>1
    <3> QED
      BY <2>2, <3>1, <3>2
  <2>4. conn' \in [Conns -> ConnRec]
    BY <2>1, <2>3
  <2>5. \A h \in Handles : handle[h].live =>
          handle[h].conn \in Conns /\ conn'[handle[h].conn] = conn[handle[h].conn]
    BY <2>3 DEF SessionInv, Links
  <2>6. \A c \in Conns : conn'[c].at = "out" => conn[c].at = "out"
    BY <2>3
  <2>7. Types'
    BY <2>1, <2>4 DEF SessionInv, Types
  <2>8. Records'
    BY <2>1, <2>3 DEF SessionInv, Records
  <2>9. Links'
    BY <2>1, <2>5, <2>6 DEF SessionInv, Links
  <2>10. Owners'
    BY <2>1, <2>5 DEF SessionInv, Owners, Untouched
  <2> QED
    BY <2>7, <2>8, <2>9, <2>10 DEF SessionInv
<1> QED
  BY <1>1, <1>2

-----------------------------------------------------------------------------
(* The theorems about Session. *)

\* A new pool has no connection out and no handle in use.
LEMMA SessionInit == Init => SessionInv
<1> SUFFICES ASSUME Init PROVE SessionInv
  OBVIOUS
<1>1. NewConn \in ConnRec /\ NewHandle \in HandleRec
  BY SessionAssumption DEF NewConn, NewHandle, ConnRec, HandleRec
<1>2. Types
  BY <1>1 DEF Init, Types
<1>3. /\ \A c \in Conns : conn[c] = NewConn
      /\ \A h \in Handles : handle[h] = NewHandle
  BY DEF Init
<1>4. NewConn.at = "new" /\ NewConn.tx = NoHandle /\ ~NewConn.subs /\ NewConn.want = "keep"
  BY DEF NewConn
<1>5. ~NewHandle.live /\ ~NewHandle.owned /\ NewHandle.conn = "none"
  BY DEF NewHandle
<1>6. Links
  BY <1>3, <1>4, <1>5 DEF Links
<1>7. \A c \in Conns : RecordOK(kind, conn[c])
  BY <1>3, <1>4 DEF RecordOK, SqlKnows, PgKnows
<1>8. Records
  BY <1>3, <1>5, <1>7 DEF Records, HandleOK
<1>9. Owners
  BY <1>3, <1>5 DEF Owners
<1> QED
  BY <1>2, <1>6, <1>8, <1>9 DEF SessionInv

\* Every step of a caller, of release and of Close keeps the invariant.
LEMMA SessionStep == SessionInv /\ [Next]_vars => SessionInv'
<1> SUFFICES ASSUME SessionInv, [Next]_vars PROVE SessionInv'
  OBVIOUS
<1>1. ASSUME NEW h \in Handles, NEW c \in Conns, Take(h, c) PROVE SessionInv'
  BY <1>1, AcquireKeeps, QueryOwnedKeeps
  DEF Take, PgAcquire, SqlAcquire, PgPoolQuery, SqlPoolQuery
<1>2. ASSUME Call PROVE SessionInv'
  <2>1. PICK h \in Handles : LET c == handle[h].conn IN
          /\ c # "none"
          /\ \/ PgQuery(h, c) \/ PgTxQuery(h, c) \/ PgCloseRows(h, c) \/ PgBegin(h, c)
             \/ SqlQuery(h, c) \/ SqlTxQuery(h, c) \/ SqlCloseRows(h, c) \/ SqlBegin(h, c)
             \/ \E text \in Texts : PgExec(h, c, text) \/ SqlExec(h, c, text) \/ PgTxExec(h, c, text)
             \/ \E commit, ok \in BOOLEAN : PgSettle(h, c, commit, ok) \/ SqlSettle(h, c, commit, ok)
             \/ \E sent, answered \in BOOLEAN : (answered => sent) /\ Listen(h, c, sent, answered)
             \/ \E all \in BOOLEAN : Unlisten(h, c, all)
             \/ Release(h, c)
    BY <1>2 DEF Call
  <2>2. PICK c \in Conns : c = handle[h].conn
    BY <2>1 DEF SessionInv, Types, HandleRec
  <2>3. CASE PgQuery(h, c) \/ SqlQuery(h, c) \/ SqlTxQuery(h, c)
    <3>1. Ask(h, c, {}) /\ handle[h].live /\ ~handle[h].owned
      BY <2>3 DEF PgQuery, SqlQuery, SqlTxQuery, Live
    <3>2. conn[c].at = "out" /\ {} \in SUBSET Causes
      BY <3>1, <2>2 DEF SessionInv, Links
    <3> QED
      BY <3>1, <3>2, <2>2, AskKeeps
  <2>4. CASE PgTxQuery(h, c)
    <3>1. PICK why \in SUBSET Causes : why = IF handle[h].live THEN {} ELSE {"late"}
      BY DEF Causes
    <3>2. Ask(h, c, why) /\ kind = "pg" /\ handle[h].txs > 0
      BY <2>4, <3>1 DEF PgTxQuery
    <3>3. ~handle[h].owned
      BY <3>2 DEF SessionInv, Records, HandleOK
    <3>4. handle[h].live => conn[c].at = "out"
      BY <2>2 DEF SessionInv, Links
    <3>5. conn[c].at \in {"tidy", "pool"} => "late" \in why
      BY <3>1, <3>4
    <3> QED
      BY <3>2, <3>3, <3>5, <2>2, AskKeeps
  <2>5. CASE PgCloseRows(h, c) \/ SqlCloseRows(h, c)
    BY <2>5, <2>2, FinishKeeps DEF PgCloseRows, SqlCloseRows
  <2>6. CASE \E commit, ok \in BOOLEAN : PgSettle(h, c, commit, ok) \/ SqlSettle(h, c, commit, ok)
    BY <2>6, <2>2, PgSettleKeeps, SqlSettleKeeps
  <2>7. CASE \E sent, answered \in BOOLEAN : Listen(h, c, sent, answered)
    BY <2>7, <2>2, ListenKeeps
  <2>8. CASE \E all \in BOOLEAN : Unlisten(h, c, all)
    BY <2>8, <2>2, UnlistenKeeps
  <2>9. CASE PgBegin(h, c) \/ SqlBegin(h, c) \/ Release(h, c)
    BY <2>9, <2>2, BeginKeeps, ReleaseKeeps
  <2>10. CASE \E text \in Texts :
                PgExec(h, c, text) \/ SqlExec(h, c, text) \/ PgTxExec(h, c, text)
    BY <2>10, <2>2, ExecKeeps
  <2> QED
    BY <2>1, <2>2, <2>3, <2>4, <2>5, <2>6, <2>7, <2>8, <2>9, <2>10
<1>3. ASSUME NEW c \in Conns,
             Clean(c) \/ Break(c) \/ Discard(c) \/ \E ok \in BOOLEAN : Unwind(c, ok)
      PROVE  SessionInv'
  BY <1>3, CleanStepKeeps, BreakKeeps
<1>4. CASE Shut \/ Sweep
  BY <1>4, ShutKeeps
<1>5. CASE UNCHANGED vars
  BY <1>5 DEF vars, pool, SessionInv, Types, Links, Records, Owners, Untouched
<1> QED
  BY <1>1, <1>2, <1>3, <1>4, <1>5 DEF Next

\* The inductive invariant holds in every reachable state.
THEOREM SessionInvHolds == Spec => []SessionInv
BY SessionInit, SessionStep, PTL DEF Spec

\* A connection is out exactly while one live handle has it.
LEMMA LinksCount == SessionInv => OneHolder
<1> SUFFICES ASSUME SessionInv, NEW c \in Conns
             PROVE  Cardinality({h \in Handles : handle[h].conn = c /\ handle[h].live})
                      = IF conn[c].at = "out" THEN 1 ELSE 0
  BY DEF OneHolder
<1>1. CASE conn[c].at = "out"
  <2>1. PICK h \in Handles : handle[h].live /\ handle[h].conn = c
    BY <1>1 DEF SessionInv, Links
  <2>2. {g \in Handles : handle[g].conn = c /\ handle[g].live} = {h}
    BY <2>1 DEF SessionInv, Links
  <2> QED
    BY <1>1, <2>2, FS_Singleton
<1>2. CASE conn[c].at # "out"
  <2>1. {g \in Handles : handle[g].conn = c /\ handle[g].live} = {}
    BY <1>2 DEF SessionInv, Links
  <2> QED
    BY <1>2, <2>1, FS_EmptySet
<1> QED
  BY <1>1, <1>2

\* Types; "releasing twice is a no-op rather than a double return" (handle.go:41-49):
\* one live handle for each connection that is out and none for any other; and each
\* transaction begun by Begin is recorded where release looks (sqldriver/conn.go:16-20).
THEOREM SessionIsSound == Spec => []Inv
<1>1. SessionInv => TypeOK
  <2> SUFFICES ASSUME SessionInv PROVE TypeOK
    OBVIOUS
  <2>1. \A h \in Handles : handle[h].owned => (handle[h].live <=> handle[h].rows = "open")
    BY DEF SessionInv, Records, HandleOK
  <2> QED
    BY <2>1 DEF SessionInv, Types, TypeOK, ConnRec, HandleRec
<1>2. SessionInv => RecordIsTransaction
  BY DEF SessionInv, Records, RecordOK, SqlKnows, LeftTx, RecordIsTransaction
<1>3. SessionInv => Inv
  BY <1>1, <1>2, LinksCount DEF Inv
<1> QED
  BY <1>3, SessionInvHolds, PTL

\* What the previous caller left is not the next one's to see (postgres/pool/driver.go:92,
\* sqldriver/conn.go:13), but for the exceptions NextCallerClean names.
THEOREM NextCallerFindsNothing == Spec => []NextCallerClean
<1>1. SessionInv => NextCallerClean
  <2> SUFFICES ASSUME SessionInv, NEW c \in Conns, conn[c].at = "pool",
                      ~conn[c].dead
               PROVE  /\ conn[c].tx # NoHandle => conn[c].cause \cap LeftTx(kind) # {}
                      /\ conn[c].busy # NoHandle =>
                           (IF kind = "sql" THEN "unread" ELSE "late") \in conn[c].cause
                      /\ conn[c].subs => conn[c].cause \cap SubCauses # {}
                      /\ conn[c].want # "keep" => conn[c].tx # NoHandle
    BY DEF NextCallerClean, LeftTx
  <2>1. RecordOK(kind, conn[c]) /\ kind \in {"pg", "sql"}
    BY DEF SessionInv, Types, Records
  <2>2. CASE kind = "pg"
    <3>1. conn[c].tx # NoHandle => "astray" \in conn[c].cause /\ "astray" \in LeftTx(kind)
      BY <2>1, <2>2 DEF RecordOK, PgKnows, LeftTx
    <3> QED
      BY <3>1, <2>1, <2>2 DEF RecordOK, PgKnows
  <2>3. CASE kind = "sql"
    BY <2>1, <2>3 DEF RecordOK, SqlKnows
  <2> QED
    BY <2>1, <2>2, <2>3
<1> QED
  BY <1>1, SessionInvHolds, PTL

\* A caller's open transaction is still open at the server, unless a Tx kept past its
\* release or the caller itself ended it (handle.go:11-16).
THEOREM TransactionIsItsOwners == Spec => []OwnTransaction
<1>1. SessionInv => OwnTransaction
  BY DEF SessionInv, Owners, Untouched, OwnTransaction
<1> QED
  BY <1>1, SessionInvHolds, PTL

-----------------------------------------------------------------------------
(* The engine facade. *)

InMaps == Registered(pools) \cup Registered(subscribers)
Known == InMaps \subseteq ever
Traced == ever \subseteq InMaps \cup taken \cup closed \cup removing \cup lost
LateOnly == Late => InMaps \subseteq lost
ListShrinks == owned \subseteq closed \cup taken
Order ==
  /\ once = "new" => taken = {} /\ owned = {}
  /\ once = "pools" => taken \cap Subs = {}
  /\ once = "done" => taken = {}
Result == IF failed = {} THEN "nil" ELSE "error"
Results ==
  \A k \in Closers : caller[k] \in {"nil", "error"} => once = "done" /\ caller[k] = Result

EngineInv == EngineTypeOK /\ Known /\ Traced /\ LateOnly /\ ListShrinks /\ Order /\ Results

-------------------------------------------------------------------------------
(* Facts about the maps. *)

\* What a map holds is its range without None.
LEMMA RegisteredIn ==
  ASSUME NEW S, None \notin S, NEW m \in [Names -> S \cup {None}]
  PROVE  Registered(m) \subseteq S
BY DEF Registered

\* Setting a name adds at most the new value and drops at most the old one.
LEMMA RegisteredSet ==
  ASSUME NEW S, NEW m \in [Names -> S], NEW n \in Names, NEW x,
         NEW r, r = [m EXCEPT ![n] = x]
  PROVE  /\ Registered(r) \subseteq Registered(m) \cup ({x} \ {None})
         /\ Registered(m) \subseteq Registered(r) \cup {m[n]}
         /\ x # None => x \in Registered(r)
BY DEF Registered

\* A fresh map holds nothing.
LEMMA RegisteredEmpty == Registered(Empty) = {}
BY DEF Registered, Empty

-------------------------------------------------------------------------------
(* The invariant holds at the start and in every step. *)

\* NewEngine: at most one pool and one subscriber, and Close not begun.
LEMMA InitEngineInv == EngineInit => EngineInv
<1> SUFFICES ASSUME EngineInit PROVE EngineInv
  OBVIOUS
<1>1. PICK n \in Names, p \in Pools \cup {None}, s \in Subs \cup {None} :
        pools = [Empty EXCEPT ![n] = p] /\ subscribers = [Empty EXCEPT ![n] = s]
  BY DEF EngineInit
<1>2. /\ pools \in [Names -> Pools \cup {None}]
      /\ subscribers \in [Names -> Subs \cup {None}]
  BY <1>1 DEF Empty
<1>3. InMaps \subseteq Components
  BY <1>2, RegisteredIn, EngineAssumption DEF InMaps, Components
<1>4. EngineTypeOK
  BY <1>2, <1>3 DEF EngineInit, EngineTypeOK, InMaps
<1>5. Known /\ Traced /\ LateOnly /\ ListShrinks /\ Order
  BY DEF EngineInit, Known, Traced, LateOnly, Late, ListShrinks, Order, InMaps
<1>6. Results
  BY DEF EngineInit, Results
<1> QED BY <1>4, <1>5, <1>6 DEF EngineInv

\* AddPool: the old registration and a late one are given up.
LEMMA AddPoolEngineInv ==
  ASSUME EngineInv, NEW n \in Names, NEW p \in Pools, AddPool(n, p)
  PROVE  EngineInv'
<1> USE EngineAssumption DEF Components
<1>1. /\ pools \in [Names -> Pools \cup {None}]
      /\ subscribers \in [Names -> Subs \cup {None}]
  BY DEF EngineInv, EngineTypeOK
<1>2. /\ Registered(pools') \subseteq Registered(pools) \cup {p}
      /\ Registered(pools) \subseteq Registered(pools') \cup {pools[n]}
      /\ p \in Registered(pools') /\ p # None
  <2>1. pools' = [pools EXCEPT ![n] = p]
    BY DEF AddPool
  <2> QED BY <1>1, <2>1, RegisteredSet
<1>3. pools[n] \in Registered(pools) \cup {None}
  BY <1>1 DEF Registered
<1>4. /\ subscribers' = subscribers /\ ever' = ever \cup {p}
      /\ UNCHANGED <<once, taken, owned, failed, caller, closed, removing>>
      /\ lost' = lost \cup ({pools[n]} \ {None, p}) \cup (IF Late THEN {p} ELSE {})
  BY DEF AddPool, GivesUp, closing
<1>5. InMaps' \subseteq InMaps \cup {p} /\ InMaps \subseteq InMaps' \cup {pools[n]}
  BY <1>2, <1>4 DEF InMaps
<1>6. pools[n] \in InMaps \cup {None} /\ p \in InMaps'
  BY <1>2, <1>3 DEF InMaps
<1>7. EngineTypeOK'
  <2>1. pools' \in [Names -> Pools \cup {None}]
    BY <1>1 DEF AddPool
  <2>2. lost' \subseteq ever'
    BY <1>4, <1>6 DEF EngineInv, EngineTypeOK, Known
  <2> QED BY <1>4, <2>1, <2>2 DEF EngineInv, EngineTypeOK
<1>8. Known' /\ Traced' /\ LateOnly'
  <2>1. Known'
    BY <1>4, <1>5 DEF EngineInv, Known
  <2>2. Traced'
    <3>1. None \notin ever
      BY DEF EngineInv, EngineTypeOK
    <3> QED BY <1>4, <1>5, <1>6, <3>1 DEF EngineInv, Traced
  <2>3. LateOnly'
    BY <1>4, <1>5 DEF EngineInv, LateOnly, Late
  <2> QED BY <2>1, <2>2, <2>3
<1>9. ListShrinks' /\ Order' /\ Results'
  BY <1>4 DEF EngineInv, ListShrinks, Order, Results, Result
<1> QED BY <1>7, <1>8, <1>9 DEF EngineInv

\* AddSubscriber: the old registration and a late one are given up.
LEMMA AddSubscriberEngineInv ==
  ASSUME EngineInv, NEW n \in Names, NEW s \in Subs, AddSubscriber(n, s)
  PROVE  EngineInv'
<1> USE EngineAssumption DEF Components
<1>1. /\ subscribers \in [Names -> Subs \cup {None}]
      /\ pools \in [Names -> Pools \cup {None}]
  BY DEF EngineInv, EngineTypeOK
<1>2. /\ Registered(subscribers') \subseteq Registered(subscribers) \cup {s}
      /\ Registered(subscribers) \subseteq Registered(subscribers') \cup {subscribers[n]}
      /\ s \in Registered(subscribers') /\ s # None
  <2>1. subscribers' = [subscribers EXCEPT ![n] = s]
    BY DEF AddSubscriber
  <2> QED BY <1>1, <2>1, RegisteredSet
<1>3. subscribers[n] \in Registered(subscribers) \cup {None}
  BY <1>1 DEF Registered
<1>4. /\ pools' = pools /\ ever' = ever \cup {s}
      /\ UNCHANGED <<once, taken, owned, failed, caller, closed, removing>>
      /\ lost' = lost \cup ({subscribers[n]} \ {None, s}) \cup (IF Late THEN {s} ELSE {})
  BY DEF AddSubscriber, GivesUp, closing
<1>5. InMaps' \subseteq InMaps \cup {s} /\ InMaps \subseteq InMaps' \cup {subscribers[n]}
  BY <1>2, <1>4 DEF InMaps
<1>6. subscribers[n] \in InMaps \cup {None} /\ s \in InMaps'
  BY <1>2, <1>3 DEF InMaps
<1>7. EngineTypeOK'
  <2>1. subscribers' \in [Names -> Subs \cup {None}]
    BY <1>1 DEF AddSubscriber
  <2>2. lost' \subseteq ever'
    BY <1>4, <1>6 DEF EngineInv, EngineTypeOK, Known
  <2> QED BY <1>4, <2>1, <2>2 DEF EngineInv, EngineTypeOK
<1>8. Known' /\ Traced' /\ LateOnly'
  <2>1. Known'
    BY <1>4, <1>5 DEF EngineInv, Known
  <2>2. Traced'
    <3>1. None \notin ever
      BY DEF EngineInv, EngineTypeOK
    <3> QED BY <1>4, <1>5, <1>6, <3>1 DEF EngineInv, Traced
  <2>3. LateOnly'
    BY <1>4, <1>5 DEF EngineInv, LateOnly, Late
  <2> QED BY <2>1, <2>2, <2>3
<1>9. ListShrinks' /\ Order' /\ Results'
  BY <1>4 DEF EngineInv, ListShrinks, Order, Results, Result
<1> QED BY <1>7, <1>8, <1>9 DEF EngineInv

\* RemovePool: what leaves the map is with the Remove.
LEMMA RemovePoolEngineInv ==
  ASSUME EngineInv, NEW n \in Names, RemovePool(n)
  PROVE  EngineInv'
<1> USE EngineAssumption DEF Components
<1>1. pools \in [Names -> Pools \cup {None}]
  BY DEF EngineInv, EngineTypeOK
<1>2. /\ Registered(pools') \subseteq Registered(pools)
      /\ Registered(pools) \subseteq Registered(pools') \cup {pools[n]}
  <2>1. pools' = [pools EXCEPT ![n] = None]
    BY DEF RemovePool
  <2> QED BY <1>1, <2>1, RegisteredSet
<1>3. /\ subscribers' = subscribers /\ pools[n] \in Pools
      /\ removing' = removing \cup {pools[n]}
      /\ UNCHANGED <<ever, lost, once, taken, owned, failed, caller, closed>>
  BY <1>1 DEF RemovePool, closing
<1>4. InMaps' \subseteq InMaps /\ InMaps \subseteq InMaps' \cup {pools[n]}
  BY <1>2, <1>3 DEF InMaps
<1>5. EngineTypeOK'
  <2>1. pools' \in [Names -> Pools \cup {None}]
    BY <1>1 DEF RemovePool
  <2> QED BY <1>3, <2>1 DEF EngineInv, EngineTypeOK
<1>6. Known' /\ Traced' /\ LateOnly'
  BY <1>3, <1>4 DEF EngineInv, Known, Traced, LateOnly, Late
<1>7. ListShrinks' /\ Order' /\ Results'
  BY <1>3 DEF EngineInv, ListShrinks, Order, Results, Result
<1> QED BY <1>5, <1>6, <1>7 DEF EngineInv

\* RemoveSubscriber: what leaves the map is with the Remove.
LEMMA RemoveSubscriberEngineInv ==
  ASSUME EngineInv, NEW n \in Names, RemoveSubscriber(n)
  PROVE  EngineInv'
<1> USE EngineAssumption DEF Components
<1>1. subscribers \in [Names -> Subs \cup {None}]
  BY DEF EngineInv, EngineTypeOK
<1>2. /\ Registered(subscribers') \subseteq Registered(subscribers)
      /\ Registered(subscribers) \subseteq Registered(subscribers') \cup {subscribers[n]}
  <2>1. subscribers' = [subscribers EXCEPT ![n] = None]
    BY DEF RemoveSubscriber
  <2> QED BY <1>1, <2>1, RegisteredSet
<1>3. /\ pools' = pools /\ subscribers[n] \in Subs
      /\ removing' = removing \cup {subscribers[n]}
      /\ UNCHANGED <<ever, lost, once, taken, owned, failed, caller, closed>>
  BY <1>1 DEF RemoveSubscriber, closing
<1>4. InMaps' \subseteq InMaps /\ InMaps \subseteq InMaps' \cup {subscribers[n]}
  BY <1>2, <1>3 DEF InMaps
<1>5. EngineTypeOK'
  <2>1. subscribers' \in [Names -> Subs \cup {None}]
    BY <1>1 DEF RemoveSubscriber
  <2> QED BY <1>3, <2>1 DEF EngineInv, EngineTypeOK
<1>6. Known' /\ Traced' /\ LateOnly'
  BY <1>3, <1>4 DEF EngineInv, Known, Traced, LateOnly, Late
<1>7. ListShrinks' /\ Order' /\ Results'
  BY <1>3 DEF EngineInv, ListShrinks, Order, Results, Result
<1> QED BY <1>5, <1>6, <1>7 DEF EngineInv

\* The second half of a Remove closes what it took.
LEMMA RemoveEndEngineInv ==
  ASSUME EngineInv, NEW x \in Components, RemoveEnd(x)
  PROVE  EngineInv'
<1>1. /\ removing' = removing \ {x} /\ closed' = closed \cup {x}
      /\ UNCHANGED <<pools, subscribers, ever, lost, once, taken, owned, failed, caller>>
  BY DEF RemoveEnd, closing
<1>2. EngineTypeOK'
  BY <1>1 DEF EngineInv, EngineTypeOK
<1>3. Known' /\ Traced' /\ LateOnly' /\ ListShrinks'
  BY <1>1 DEF EngineInv, Known, Traced, LateOnly, Late, ListShrinks, InMaps
<1>4. Order' /\ Results'
  BY <1>1 DEF EngineInv, Order, Results, Result
<1> QED BY <1>2, <1>3, <1>4 DEF EngineInv

\* A call of Close that is only entering.
LEMMA CloseCallEngineInv ==
  ASSUME EngineInv, NEW k \in Closers, CloseCall(k)
  PROVE  EngineInv'
<1>1. /\ caller' = [caller EXCEPT ![k] = "in"]
      /\ UNCHANGED <<regs, once, taken, owned, failed, closed>>
  BY DEF CloseCall
<1>2. EngineTypeOK'
  BY <1>1 DEF EngineInv, EngineTypeOK, regs
<1>3. Known' /\ Traced' /\ LateOnly' /\ ListShrinks' /\ Order'
  BY <1>1 DEF EngineInv, Known, Traced, LateOnly, Late, ListShrinks, Order, InMaps, regs
<1>4. Results'
  BY <1>1 DEF EngineInv, EngineTypeOK, Results, Result
<1> QED BY <1>2, <1>3, <1>4 DEF EngineInv

\* The swap: what was in the maps is on the list, and the maps are empty.
LEMMA CloseSwapEngineInv ==
  ASSUME EngineInv, CloseSwap
  PROVE  EngineInv'
<1>1. /\ once = "new" /\ once' = "subs" /\ owned' = InMaps /\ taken' = InMaps
      /\ UNCHANGED <<removing, ever, lost, failed, caller, closed>>
  BY DEF CloseSwap, InMaps
<1>2. InMaps' = {}
  BY RegisteredEmpty DEF CloseSwap, InMaps
<1>3. InMaps \subseteq Components
  BY DEF EngineInv, Known, EngineTypeOK
<1>4. EngineTypeOK'
  <2>1. /\ pools' \in [Names -> Pools \cup {None}]
        /\ subscribers' \in [Names -> Subs \cup {None}]
    BY DEF CloseSwap, Empty
  <2> QED BY <1>1, <1>3, <2>1 DEF EngineInv, EngineTypeOK
<1>5. Known' /\ Traced' /\ LateOnly' /\ ListShrinks'
  <2>1. taken = {}
    BY <1>1 DEF EngineInv, Order
  <2> QED BY <1>1, <1>2, <2>1 DEF EngineInv, Known, Traced, LateOnly, ListShrinks
<1>6. Order'
  BY <1>1 DEF Order
<1>7. Results'
  BY <1>1 DEF EngineInv, Results
<1> QED BY <1>4, <1>5, <1>6, <1>7 DEF EngineInv

\* Closing a subscriber takes it off the list, whether it failed or not.
LEMMA CloseSubscriberEngineInv ==
  ASSUME EngineInv, NEW s \in Subs, NEW ok \in BOOLEAN, CloseSubscriber(s, ok)
  PROVE  EngineInv'
<1>1. /\ once = "subs" /\ closed' = closed \cup {s} /\ taken' = taken \ {s}
      /\ failed' = (IF ok THEN failed ELSE failed \cup {s})
      /\ UNCHANGED <<pools, subscribers, removing, ever, lost, once, owned, caller>>
  BY DEF CloseSubscriber, regs
<1>2. EngineTypeOK'
  BY <1>1 DEF EngineInv, EngineTypeOK, Components
<1>3. Known' /\ Traced' /\ LateOnly' /\ ListShrinks' /\ Order'
  BY <1>1 DEF EngineInv, Known, Traced, LateOnly, Late, ListShrinks, Order, InMaps
<1>4. Results'
  BY <1>1 DEF EngineInv, Results
<1> QED BY <1>2, <1>3, <1>4 DEF EngineInv

\* Closing a pool: no subscriber is on the list.
LEMMA ClosePoolEngineInv ==
  ASSUME EngineInv, NEW p \in Pools, ClosePool(p)
  PROVE  EngineInv'
<1>1. /\ once \in {"subs", "pools"} /\ taken \cap Subs = {} /\ once' = "pools"
      /\ closed' = closed \cup {p} /\ taken' = taken \ {p}
      /\ UNCHANGED <<pools, subscribers, removing, ever, lost, owned, failed, caller>>
  BY DEF ClosePool, regs
<1>2. EngineTypeOK'
  BY <1>1 DEF EngineInv, EngineTypeOK, Components
<1>3. Known' /\ Traced' /\ LateOnly' /\ ListShrinks' /\ Order'
  BY <1>1 DEF EngineInv, Known, Traced, LateOnly, Late, ListShrinks, Order, InMaps
<1>4. Results'
  BY <1>1 DEF EngineInv, Results
<1> QED BY <1>2, <1>3, <1>4 DEF EngineInv

\* The end of closeOnce.
LEMMA CloseDoneEngineInv ==
  ASSUME EngineInv, CloseDone
  PROVE  EngineInv'
<1>1. /\ once \in {"subs", "pools"} /\ once' = "done" /\ taken = {}
      /\ UNCHANGED <<pools, subscribers, removing, ever, lost, taken, owned, failed,
                     caller, closed>>
  BY DEF CloseDone, regs
<1>2. EngineTypeOK'
  BY <1>1 DEF EngineInv, EngineTypeOK
<1>3. Known' /\ Traced' /\ LateOnly' /\ ListShrinks' /\ Order'
  BY <1>1 DEF EngineInv, Known, Traced, LateOnly, Late, ListShrinks, Order, InMaps
<1>4. Results'
  BY <1>1 DEF EngineInv, Results
<1> QED BY <1>2, <1>3, <1>4 DEF EngineInv

\* A caller gets the result of a Close that is over.
LEMMA CloseReturnEngineInv ==
  ASSUME EngineInv, NEW k \in Closers, CloseReturn(k)
  PROVE  EngineInv'
<1>1. /\ once = "done" /\ caller' = [caller EXCEPT ![k] = Result]
      /\ UNCHANGED <<regs, once, taken, owned, failed, closed>>
  BY DEF CloseReturn, Result
<1>2. EngineTypeOK'
  BY <1>1 DEF EngineInv, EngineTypeOK, regs, Result
<1>3. Known' /\ Traced' /\ LateOnly' /\ ListShrinks' /\ Order'
  BY <1>1 DEF EngineInv, Known, Traced, LateOnly, Late, ListShrinks, Order, InMaps, regs
<1>4. Results'
  BY <1>1 DEF EngineInv, EngineTypeOK, Results, Result
<1> QED BY <1>2, <1>3, <1>4 DEF EngineInv

\* Every step of the engine keeps the invariant, a stuttering one too.
LEMMA NextEngineInv == EngineInv /\ [EngineNext]_engineVars => EngineInv'
<1> SUFFICES ASSUME EngineInv, [EngineNext]_engineVars PROVE EngineInv'
  OBVIOUS
<1>1. CASE UNCHANGED engineVars
  BY <1>1 DEF EngineInv, EngineTypeOK, Known, Traced, LateOnly, Late, ListShrinks, Order, Results,
              Result, InMaps, engineVars, regs, closing
<1>2. CASE CloseStep
  BY <1>2, CloseSwapEngineInv, CloseDoneEngineInv, CloseReturnEngineInv, CloseSubscriberEngineInv,
     ClosePoolEngineInv DEF CloseStep
<1>3. CASE EngineNext /\ ~CloseStep
  BY <1>3, AddPoolEngineInv, AddSubscriberEngineInv, RemovePoolEngineInv, RemoveSubscriberEngineInv,
     RemoveEndEngineInv, CloseCallEngineInv DEF EngineNext
<1> QED BY <1>1, <1>2, <1>3

-----------------------------------------------------------------------------
(* The theorems about Engine. *)

\* The invariant holds throughout (engine.go:43-166).
THEOREM EngineInvHolds == EngineSpec => []EngineInv
BY InitEngineInv, NextEngineInv, PTL DEF EngineSpec

\* The engine's state keeps its types (engine.go:27-34).
THEOREM EngineTypeCorrect == EngineSpec => []EngineTypeOK
<1>1. EngineInv => EngineTypeOK
  BY DEF EngineInv
<1> QED BY <1>1, EngineInvHolds, PTL

\* No component the engine was ever given is left open by Close, except one an
\* Add replaced or brought after the swap (engine.go:62-90, 142-166).
THEOREM NothingForgotten == EngineSpec => []Accounted
<1>1. EngineInv => Accounted
  BY DEF EngineInv, Traced, LateOnly, Late, Order, Accounted
<1> QED BY <1>1, EngineInvHolds, PTL

\* A component that fails to close does not keep another open (engine.go:149-163).
THEOREM FailureIsContained == EngineSpec => []AllClosed
<1>1. EngineInv => AllClosed
  BY DEF EngineInv, ListShrinks, Order, AllClosed
<1> QED BY <1>1, EngineInvHolds, PTL

\* Pools close after the subscribers that may still use them (engine.go:157).
THEOREM PoolsCloseLast == EngineSpec => []SubscribersFirst
<1>1. EngineInv => SubscribersFirst
  BY DEF EngineInv, ListShrinks, Order, SubscribersFirst
<1> QED BY <1>1, EngineInvHolds, PTL

\* All callers of Close get one result, and get it late enough (engine.go:142-166).
THEOREM OneResult == EngineSpec => []SameResult
<1>1. EngineInv => SameResult
  BY DEF EngineInv, ListShrinks, Order, Results, SameResult
<1> QED BY <1>1, EngineInvHolds, PTL
=============================================================================
