------------------------------- MODULE Session --------------------------------
(***************************************************************************)
(* What a caller does with a checked-out connection, and what release does *)
(* before the next caller gets it: pkg/pooling/handle.go, the connection,  *)
(* transaction, result and notification types of pkg/vendors/postgres/pool *)
(* ("pg") and of pkg/sqldriver ("sql"), and the driver hooks Dead,         *)
(* NeedsCleanup and Recyclable that Core.release calls.                    *)
(*                                                                         *)
(* The session at the server is external: at most one transaction, at most *)
(* one unread result, one LISTEN channel.  pgx reports the transaction it  *)
(* has (TxStatus); a database/sql driver does not, so sqldriver keeps a    *)
(* record of its own.  A Tx is not tied to its handle: it can be used      *)
(* after the release, when the connection may be another caller's.         *)
(***************************************************************************)
EXTENDS Integers, FiniteSets

CONSTANTS
  Conns,                    \* the connection objects a pool ever has
  MaxHandles,               \* bound: how many acquisitions are made
  MaxTxs                    \* bound: how many Txs of a handle are not settled

Handles == 1 .. MaxHandles
NoHandle == 0

ASSUME SessionAssumption ==
  "none" \notin Conns /\ MaxHandles \in Nat /\ MaxTxs \in Nat

VARIABLES
  conn,      \* each connection: where it is, what the server and the vendor hold
  handle,    \* each handle, with the Tx and the Rows made through it
  kind,      \* the pool's vendor: "pg" or "sql"
  resets,    \* it has a ResetQuery, or its driver a SessionResetter
  shut,      \* Core.closed
  swept      \* Close has emptied the idle buckets

pool == <<kind, resets, shut, swept>>
vars == <<conn, handle, pool>>

\* What explains state a release cannot see; cleared with that state.
TxCauses == {"raw", "unsettled", "stale", "astray"}
EndCauses == {"cut", "own"}
SubCauses == {"hushed", "told"}
Causes == TxCauses \cup EndCauses \cup SubCauses \cup {"unread", "late"}

NewConn == [at |-> "new", dead |-> FALSE,
            tx |-> NoHandle,     \* the server's transaction, by who began it
            busy |-> NoHandle,   \* the unread result, by who asked for it
            subs |-> FALSE,      \* the channel is subscribed
            want |-> "keep",     \* LISTEN or UNLISTEN waiting for the commit
            listening |-> FALSE, \* pgConn.listening
            rec |-> NoHandle,    \* sqldriver's conn.tx
            cause |-> {}]
NewHandle == [conn |-> "none", live |-> FALSE, owned |-> FALSE,
              txs |-> 0,           \* Txs begun and not settled
              rows |-> "none"]

Init ==
  /\ conn = [c \in Conns |-> NewConn]
  /\ handle = [h \in Handles |-> NewHandle]
  /\ kind \in {"pg", "sql"} /\ resets \in BOOLEAN
  /\ shut = FALSE /\ swept = FALSE

SetConn(c, r) == conn' = [conn EXCEPT ![c] = r]
SetHandle(h, r) == handle' = [handle EXCEPT ![h] = r]
\* Out of its owner's hands: Core.release is at work on it.
Returning(c) == conn[c].at \in {"release", "cleanup", "unwind", "tidy"}
\* connWrapper.live: the caller still has this connection.
Live(h) == handle[h].live /\ ~handle[h].owned
\* A statement can be sent: nothing unread is in the way.
Free(r) == ~r.dead /\ r.busy = NoHandle

\* The transaction ends; LISTEN and UNLISTEN in it count from its commit.
EndTx(r, commit) ==
  [r EXCEPT !.tx = NoHandle, !.want = "keep", !.cause = @ \ TxCauses,
            !.subs = IF commit /\ r.want # "keep" THEN r.want = "on" ELSE @]
\* The connection is lost; the server's session ends with it.
Lost(r) == [r EXCEPT !.dead = TRUE, !.subs = FALSE, !.want = "keep", !.cause = {}]
Gone(r) == [Lost(r) EXCEPT !.at = "gone", !.tx = NoHandle, !.busy = NoHandle]

-------------------------------------------------------------------------------
(* Acquisition and the calls on a connection *)

\* A handle is made per acquisition and never again; the connection is dialled,
\* or an idle one the pool takes for alive.
Fresh(h, c) ==
  /\ h = 1 + Cardinality({g \in Handles : handle[g].conn # "none"})
  /\ ~shut /\ conn[c].at \in {"new", "pool"}
CheckOut(h, c) ==
  /\ Fresh(h, c)
  /\ SetConn(c, [conn[c] EXCEPT !.at = "out"])
  /\ SetHandle(h, [NewHandle EXCEPT !.conn = c, !.live = TRUE])
  /\ UNCHANGED pool

\* Acquire.  pgx knows a connection it has closed; a sql driver need not.
PgAcquire(h, c) == kind = "pg" /\ ~conn[c].dead /\ CheckOut(h, c)
SqlAcquire(h, c) == kind = "sql" /\ CheckOut(h, c)

\* Acquire and query in one call: the result owns the connection; a query that
\* fails releases it at once.
QueryOwned(h, c, ok) ==
  /\ Fresh(h, c) /\ (ok => Free(conn[c]))
  /\ SetConn(c, [conn[c] EXCEPT !.at = IF ok THEN "out" ELSE "release",
                                !.busy = IF ok THEN h ELSE @])
  /\ SetHandle(h, [NewHandle EXCEPT !.conn = c, !.live = ok, !.owned = TRUE,
                                    !.rows = IF ok THEN "open" ELSE "none"])
  /\ UNCHANGED pool

\* Query and QueryRow of the pool.
PgPoolQuery(h, c, ok) == kind = "pg" /\ ~conn[c].dead /\ QueryOwned(h, c, ok)
SqlPoolQuery(h, c, ok) == kind = "sql" /\ QueryOwned(h, c, ok)

\* A query leaves a result the caller has to close.
Ask(h, c, cause) ==
  /\ handle[h].rows # "open" /\ Free(conn[c])
  /\ SetConn(c, [conn[c] EXCEPT !.busy = h, !.cause = @ \cup cause])
  /\ SetHandle(h, [handle[h] EXCEPT !.rows = "open"])
  /\ UNCHANGED pool

\* Query and QueryRow of the connection, SendBatch of pgx.
PgQuery(h, c) == kind = "pg" /\ Live(h) /\ Ask(h, c, {})
SqlQuery(h, c) == kind = "sql" /\ Live(h) /\ Ask(h, c, {})

\* Query and QueryRow of a Tx that is not settled: pgx asks no handle, so it may
\* be another caller's connection, or nobody's; sqldriver goes through its owner.
PgTxQuery(h, c) ==
  /\ kind = "pg" /\ handle[h].txs > 0
  /\ Ask(h, c, IF handle[h].live THEN {} ELSE {"late"})
SqlTxQuery(h, c) ==
  kind = "sql" /\ handle[h].txs > 0 /\ Live(h) /\ Ask(h, c, {})

\* h ends the transaction under a caller: another's, or its own, of which that
\* many Txs are left.
Ended(h, r, left) ==
  IF r.tx = NoHandle THEN {}
  ELSE IF ~handle[h].live THEN {"cut"}
  ELSE IF left > 0 THEN {"own"} ELSE {}

\* The statements whose text matters to the next caller.
Texts == {"begin", "commit", "rollback", "listen"}

\* What a statement sent as text does, with what explains it.
Said(h, r, text, why) ==
  CASE text = "begin" ->
         [r EXCEPT !.tx = IF @ = NoHandle THEN h ELSE @,
                   !.cause = IF r.tx = NoHandle THEN @ \cup why ELSE @]
    [] text \in {"commit", "rollback"} ->
         [EndTx(r, text = "commit") EXCEPT
            !.cause = @ \cup Ended(h, r, handle[h].txs)]
    [] text = "listen" ->
         [r EXCEPT !.subs = @ \/ r.tx = NoHandle,
                   !.want = IF r.tx = NoHandle THEN @ ELSE "on",
                   !.cause = @ \cup {"told"}]

\* Exec: nobody looks at the text.  pgx sees a transaction by its status, sqldriver
\* is told nothing; a subscription made so is not marked.
PgExec(h, c, text) ==
  /\ kind = "pg" /\ Live(h) /\ Free(conn[c])
  /\ SetConn(c, Said(h, conn[c], text, {}))
  /\ UNCHANGED <<handle, pool>>
SqlExec(h, c, text) ==
  /\ kind = "sql" /\ Live(h) /\ Free(conn[c]) /\ text # "listen"
  /\ SetConn(c, Said(h, conn[c], text, {"raw"}))
  /\ UNCHANGED <<handle, pool>>

\* Exec of a Tx.  pgx's asks no handle; sqldriver's is its owner's Exec, above.
PgTxExec(h, c, text) ==
  /\ kind = "pg" /\ handle[h].txs > 0 /\ Free(conn[c])
  /\ SetConn(c, Said(h, conn[c], text, IF handle[h].live THEN {} ELSE {"astray"}))
  /\ UNCHANGED <<handle, pool>>

\* The result closes, and then the connection goes back if the result owns it.
Finish(h, c, owned) ==
  /\ handle[h].rows = "open"
  /\ SetConn(c, [conn[c] EXCEPT
        !.busy = IF @ = h THEN NoHandle ELSE @,
        !.cause = IF conn[c].busy = h THEN @ \ {"unread", "late"} ELSE @,
        !.at = IF owned /\ handle[h].live THEN "release" ELSE @])
  /\ SetHandle(h, [handle[h] EXCEPT !.rows = "closed", !.live = @ /\ ~owned])
  /\ UNCHANGED pool

\* Close of a result set, once, with the statement prepared for it; Scan or
\* Release of a single row; Close of a batch.
PgCloseRows(h, c) == kind = "pg" /\ Finish(h, c, handle[h].owned)
SqlCloseRows(h, c) == kind = "sql" /\ Finish(h, c, handle[h].owned)

\* BEGIN.  In a transaction a server takes it for a no-op, or begins anew; either
\* way a Tx that is not settled stays so.
Begun(h, c) ==
  [conn[c] EXCEPT !.tx = IF @ = NoHandle THEN h ELSE @, !.cause = @ \ EndCauses]
Starts(h, c) ==
  /\ Live(h) /\ handle[h].txs < MaxTxs /\ Free(conn[c])
  /\ SetHandle(h, [handle[h] EXCEPT !.txs = @ + 1])
  /\ UNCHANGED pool

\* Mutant: sqldriver's begin forgets to record the transaction.
SqlBeginUnrecorded(h, c) == kind = "sql" /\ Starts(h, c) /\ SetConn(c, Begun(h, c))

\* Conn.Begin: sqldriver records the transaction on the connection.
PgBegin(h, c) == kind = "pg" /\ Starts(h, c) /\ SetConn(c, Begun(h, c))
SqlBegin(h, c) ==
  kind = "sql" /\ Starts(h, c) /\ SetConn(c, [Begun(h, c) EXCEPT !.rec = h])

\* Commit and Rollback of the pgx vendor, once per Tx and with no look at the
\* handle.  pgx closes a connection on which they fail, an unread result included.
PgSettle(h, c, commit, ok) ==
  /\ handle[h].txs > 0 /\ kind = "pg"
  /\ SetHandle(h, [handle[h] EXCEPT !.txs = @ - 1])
  /\ LET r == conn[c] IN
     SetConn(c, IF r.dead THEN r
                ELSE IF ok /\ Free(r)
                THEN [EndTx(r, commit) EXCEPT
                        !.cause = @ \cup Ended(h, r, handle[h].txs - 1)]
                ELSE Lost(r))
  /\ UNCHANGED pool

\* Commit and Rollback of sqldriver: settled() is deferred, so the record goes
\* whatever the driver did.  With an unread result the driver sends nothing; a
\* Tx the release has rolled back may refuse.
SqlSettle(h, c, commit, ok) ==
  /\ handle[h].txs > 0 /\ kind = "sql"
  /\ SetHandle(h, [handle[h] EXCEPT !.txs = @ - 1])
  /\ LET r == conn[c]
         done == [EndTx(r, commit) EXCEPT !.rec = NoHandle,
                    !.cause = @ \cup Ended(h, r, handle[h].txs - 1)]
         kept == [r EXCEPT !.rec = NoHandle, !.cause =
                    IF r.tx = NoHandle THEN @
                    ELSE @ \cup {IF handle[h].live THEN "unsettled" ELSE "stale"}]
     IN \/ ok /\ Free(r) /\ SetConn(c, done)
        \/ ~ok /\ (~Free(r) \/ ~handle[h].live) /\ SetConn(c, kept)
        \/ ~ok /\ SetConn(c, Lost(kept))
  /\ UNCHANGED pool

-------------------------------------------------------------------------------
(* Notifications, pgx only *)

\* Mutant: Listen marks the connection only once LISTEN has been answered.
ListenMarkedLate(h, c, sent, answered) ==
  /\ Live(h) /\ kind = "pg"
  /\ LET r == conn[c]
         at == sent /\ Free(r)
     IN SetConn(c, [r EXCEPT !.listening = @ \/ (at /\ answered),
                             !.subs = @ \/ (at /\ r.tx = NoHandle),
                             !.want = IF at /\ r.tx # NoHandle THEN "on" ELSE @])
  /\ UNCHANGED <<handle, pool>>

\* Listen: marked before the statement, which may reach the server unanswered.
Listen(h, c, sent, answered) ==
  /\ Live(h) /\ kind = "pg"
  /\ LET r == conn[c]
         at == sent /\ Free(r)
     IN SetConn(c, [r EXCEPT !.listening = TRUE, !.cause = @ \ {"hushed"},
                             !.subs = @ \/ (at /\ r.tx = NoHandle),
                             !.want = IF at /\ r.tx # NoHandle THEN "on" ELSE @])
  /\ UNCHANGED <<handle, pool>>

\* UNLISTEN, in a transaction from its commit on.
Silence(r) == [r EXCEPT !.subs = @ /\ r.tx # NoHandle,
                        !.want = IF r.tx = NoHandle THEN @ ELSE "off"]
\* UNLISTEN * has been answered, and the mark is cleared.
SilenceAll(r) ==
  [Silence(r) EXCEPT !.listening = FALSE,
                     !.cause = IF r.tx = NoHandle THEN @ \ SubCauses
                               ELSE @ \cup {"hushed"}]

\* Unlisten of the channel, or of everything: only that clears the mark.
Unlisten(h, c, all) ==
  /\ Live(h) /\ kind = "pg" /\ Free(conn[c])
  /\ SetConn(c, IF all THEN SilenceAll(conn[c]) ELSE Silence(conn[c]))
  /\ UNCHANGED <<handle, pool>>

-------------------------------------------------------------------------------
(* Release *)

\* Mutant: Release without the compare-and-swap.
ReleaseTwice(h, c) ==
  /\ handle[h].conn # "none" /\ ~handle[h].owned
  /\ conn[c].at = "out"
  /\ SetHandle(h, [handle[h] EXCEPT !.live = FALSE])
  /\ SetConn(c, [conn[c] EXCEPT !.at = "release"])
  /\ UNCHANGED pool

\* Handle.Release: the compare-and-swap lets the first call through.
Release(h, c) ==
  /\ Live(h)
  /\ SetHandle(h, [handle[h] EXCEPT !.live = FALSE])
  /\ SetConn(c, [conn[c] EXCEPT !.at = "release"])
  /\ UNCHANGED pool

\* pgxDriver.NeedsCleanup and adapter.NeedsCleanup.
PgNeedsCleanup(c) ==
  \/ conn[c].listening \/ resets
  \/ conn[c].busy # NoHandle \/ conn[c].tx # NoHandle
SqlNeedsCleanup(c) == conn[c].rec # NoHandle \/ resets
NeedsCleanup(c) == IF kind = "pg" THEN PgNeedsCleanup(c) ELSE SqlNeedsCleanup(c)
\* Dead: pgx knows; a driver need not have a Validator, and one that has may
\* report an unread result as well.
Dead(c) ==
  IF kind = "pg" THEN {conn[c].dead}
  ELSE IF Free(conn[c]) THEN {FALSE} ELSE BOOLEAN

\* Back in a bucket: what a sql release cannot see goes with it.
Put(r) == [r EXCEPT !.at = "pool",
                    !.cause = (@ \ EndCauses)
                              \cup (IF r.busy # NoHandle THEN {"unread"} ELSE {})]

\* Core.release: closed, then Dead, then NeedsCleanup.
Gate(c) ==
  /\ conn[c].at = "release"
  /\ \E dead \in Dead(c) :
       SetConn(c, IF shut \/ dead THEN Gone(conn[c])
                  ELSE IF NeedsCleanup(c) THEN [conn[c] EXCEPT !.at = "cleanup"]
                  ELSE Put(conn[c]))
  /\ UNCHANGED <<handle, pool>>

\* Cleanup statements run under a context that Close cancels.
Answered(c, ok) == ok => ~shut /\ ~conn[c].dead
\* pgxDriver's rollback and unlisten: a statement the connection answers; it does
\* not while a result is unread.
Run(c, ok) == Answered(c, ok) /\ (ok => Free(conn[c]))

\* Recyclable of pgx, first half: discard what is mid-protocol, unwind the
\* transaction.
Rollback(c, ok) ==
  /\ conn[c].at = "cleanup" /\ kind = "pg" /\ Run(c, ok)
  /\ SetConn(c, IF conn[c].busy # NoHandle THEN Gone(conn[c])
                ELSE IF conn[c].tx = NoHandle THEN [conn[c] EXCEPT !.at = "tidy"]
                ELSE IF ok THEN [EndTx(conn[c], FALSE) EXCEPT !.at = "tidy"]
                ELSE Gone(conn[c]))
  /\ UNCHANGED <<handle, pool>>

\* Mutant: a cleanup that fails is tried again.
TidyRetries(c, ok) ==
  /\ conn[c].at = "tidy" /\ kind = "pg" /\ Run(c, ok)
  /\ SetConn(c, IF ~ok THEN [conn[c] EXCEPT !.at = "cleanup"]
                ELSE Put(SilenceAll(conn[c])))
  /\ UNCHANGED <<handle, pool>>

\* Second half: UNLISTEN * where LISTEN was used, then the ResetQuery.
Tidy(c, ok) ==
  /\ conn[c].at = "tidy" /\ kind = "pg" /\ Run(c, ok)
  /\ SetConn(c, IF ~ok /\ (conn[c].listening \/ resets) THEN Gone(conn[c])
                ELSE Put(IF conn[c].listening THEN SilenceAll(conn[c]) ELSE conn[c]))
  /\ UNCHANGED <<handle, pool>>

\* conn.reset of sqldriver: with a transaction on record, Tx.Rollback, which takes
\* no context; a driver that refuses it loses the connection.  Then ResetSession.
Reset(c) ==
  /\ conn[c].at = "cleanup" /\ kind = "sql"
  /\ SetConn(c, [conn[c] EXCEPT !.at = IF conn[c].rec = NoHandle THEN "tidy"
                                       ELSE "unwind"])
  /\ UNCHANGED <<handle, pool>>
Unwind(c, ok) ==
  /\ conn[c].at = "unwind" /\ (ok => Free(conn[c]))
  /\ SetConn(c, IF ok THEN [EndTx(conn[c], FALSE) EXCEPT !.at = "tidy", !.rec = NoHandle]
                ELSE Gone(conn[c]))
  /\ UNCHANGED <<handle, pool>>
ResetSession(c, ok) ==
  /\ conn[c].at = "tidy" /\ kind = "sql" /\ (ok /\ resets => Answered(c, ok))
  /\ SetConn(c, IF ok THEN Put(conn[c]) ELSE Gone(conn[c]))
  /\ (~ok => resets)
  /\ UNCHANGED <<handle, pool>>

\* The connection breaks, noticed or not; an idle one is discarded when met.
Break(c) ==
  /\ conn[c].at \in {"out", "pool"} /\ ~conn[c].dead
  /\ SetConn(c, Lost(conn[c]))
  /\ UNCHANGED <<handle, pool>>
Discard(c) ==
  /\ conn[c].at = "pool" /\ conn[c].dead /\ SetConn(c, Gone(conn[c]))
  /\ UNCHANGED <<handle, pool>>

\* Core.Close: the flag, a bounded wait for what is out, and the idle buckets.
Shut == ~shut /\ shut' = TRUE /\ UNCHANGED <<conn, handle, kind, resets, swept>>
Sweep ==
  /\ shut /\ ~swept /\ swept' = TRUE
  /\ conn' = [c \in Conns |-> IF conn[c].at = "pool" THEN Gone(conn[c]) ELSE conn[c]]
  /\ UNCHANGED <<handle, kind, resets, shut>>

\* What callers do, and what the pool does about a connection that is back.
Call ==
  \E h \in Handles : LET c == handle[h].conn IN
    /\ c # "none"
    /\ \/ PgQuery(h, c) \/ PgTxQuery(h, c) \/ PgCloseRows(h, c) \/ PgBegin(h, c)
       \/ SqlQuery(h, c) \/ SqlTxQuery(h, c) \/ SqlCloseRows(h, c) \/ SqlBegin(h, c)
       \/ \E text \in Texts : PgExec(h, c, text) \/ SqlExec(h, c, text) \/ PgTxExec(h, c, text)
       \/ \E commit, ok \in BOOLEAN : PgSettle(h, c, commit, ok) \/ SqlSettle(h, c, commit, ok)
       \/ \E sent, answered \in BOOLEAN : (answered => sent) /\ Listen(h, c, sent, answered)
       \/ \E all \in BOOLEAN : Unlisten(h, c, all)
       \/ Release(h, c)
Clean(c) ==
  \/ Gate(c) \/ Reset(c)
  \/ \E ok \in BOOLEAN : Rollback(c, ok) \/ Tidy(c, ok) \/ ResetSession(c, ok)
Take(h, c) ==
  \/ PgAcquire(h, c) \/ SqlAcquire(h, c)
  \/ \E ok \in BOOLEAN : PgPoolQuery(h, c, ok) \/ SqlPoolQuery(h, c, ok)

Next ==
  \/ \E h \in Handles, c \in Conns : Take(h, c)
  \/ Call \/ Shut \/ Sweep
  \/ \E c \in Conns : Clean(c) \/ Break(c) \/ Discard(c)
  \/ \E c \in Conns, ok \in BOOLEAN : Unwind(c, ok)
Spec == Init /\ [][Next]_vars

\* A release that has begun runs on: its statements, and ResetSession, are bounded by
\* CleanupTimeout.  Nothing bounds the Tx.Rollback of a sql driver (Unwind).
FairSpec == Spec /\ \A c \in Conns : WF_vars(Clean(c))

-------------------------------------------------------------------------------
(* Properties *)

\* Types; and a result that owns its connection has it exactly while it is open
\* (postgres/pool/rows.go:29-40, sqldriver/rows.go:40-56).
TypeOK ==
  /\ conn \in [Conns ->
       [at : {"new", "pool", "out", "release", "cleanup", "unwind", "tidy", "gone"},
        dead : BOOLEAN, tx : Handles \cup {NoHandle}, busy : Handles \cup {NoHandle},
        subs : BOOLEAN, want : {"keep", "on", "off"}, listening : BOOLEAN,
        rec : Handles \cup {NoHandle}, cause : SUBSET Causes]]
  /\ handle \in [Handles ->
       [conn : Conns \cup {"none"}, live : BOOLEAN, owned : BOOLEAN,
        txs : 0 .. MaxTxs, rows : {"none", "open", "closed"}]]
  /\ kind \in {"pg", "sql"} /\ resets \in BOOLEAN
  /\ shut \in BOOLEAN /\ swept \in BOOLEAN
  /\ \A h \in Handles : handle[h].owned => (handle[h].live <=> handle[h].rows = "open")

\* A connection that is out has exactly one handle that is not released, and any
\* other has none, whatever was released twice or used late: "releasing twice is
\* a no-op rather than a double return" (handle.go:41-49).
OneHolder ==
  \A c \in Conns :
     Cardinality({h \in Handles : handle[h].conn = c /\ handle[h].live})
       = IF conn[c].at = "out" THEN 1 ELSE 0

\* "Whatever the previous caller left behind must not be observable by the next
\* one" (postgres/pool/driver.go:92-97, sqldriver/conn.go:13-21): an idle
\* connection has no transaction, no unread result and no subscription.  The
\* exceptions are named, and each is text the vendor does not read or a Tx it does
\* not tie to its handle: a BEGIN sent through Exec of sqldriver ("raw"), a Commit
\* that failed on an unread result ("unsettled") or came late ("stale"), a BEGIN or
\* a query through a pgx Tx kept past its release ("astray", "late"), an unread
\* result a sql driver keeps to itself ("unread"), a LISTEN sent through Exec
\* ("told"), a blanket UNLISTEN in a transaction that did not commit ("hushed").
NextCallerClean ==
  \A c \in Conns : LET r == conn[c] IN
     r.at = "pool" /\ ~r.dead =>
       /\ r.tx # NoHandle =>
            r.cause \cap (IF kind = "sql" THEN TxCauses \ {"astray"} ELSE {"astray"}) # {}
       /\ r.busy # NoHandle => (IF kind = "sql" THEN "unread" ELSE "late") \in r.cause
       /\ r.subs => r.cause \cap SubCauses # {}
       /\ r.want # "keep" => r.tx # NoHandle

\* sqldriver's record is what release rolls back (sqldriver/conn.go:16-20): a
\* transaction that is open and was begun by Begin is recorded, and no record
\* is left on an idle connection for the next caller's release to act on.
RecordIsTransaction ==
  \A c \in Conns : LET r == conn[c] IN
     kind = "sql" =>
       /\ r.tx # NoHandle /\ ~r.dead => r.rec # NoHandle \/ r.cause \cap TxCauses # {}
       /\ r.at = "pool" => r.rec = NoHandle

\* Types; one holder for each connection, and one record for each transaction
\* (handle.go:41-49, sqldriver/conn.go:16-20).
Inv == TypeOK /\ OneHolder /\ RecordIsTransaction

\* The transaction a caller has open and did not settle is still open at the
\* server: nothing ends it but a Tx kept past its release ("cut"; handle.go:11-16),
\* or the caller itself, by another Tx or a COMMIT it sent as text ("own").
OwnTransaction ==
  \A h \in Handles : LET r == conn[handle[h].conn] IN
     handle[h].conn # "none" /\ handle[h].live /\ handle[h].txs > 0 /\ ~r.dead
       => r.tx # NoHandle \/ r.cause \cap EndCauses # {}

\* A released connection is idle or closed in the end (core.go:364-388), and with it
\* goes the caller's permit: no path through the cleanup keeps it but a sql driver's
\* Rollback that does not return, which no timeout ends (sqldriver/conn.go:146).
ReleaseEnds ==
  \A c \in Conns :
    [](Returning(c) => <>(~Returning(c) \/ [](conn[c].at = "unwind")))
===============================================================================
