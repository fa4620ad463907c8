------------------------------- MODULE Proxy -------------------------------
(***************************************************************************)
(* The transaction-mode proxy (examples/gpoolproxy: proxy.go, session.go,  *)
(* statements.go, relay.go, backend.go, driver.go).  A session has a pump  *)
(* that forwards the client's messages to a pooled backend, attached on    *)
(* demand, and a relay that carries the replies back and releases the      *)
(* backend at the transaction boundary.  Named prepared statements follow  *)
(* a client between backends: the proxy replays the remembered Parse, and  *)
(* swallows the completions of what it injected itself.                    *)
(*                                                                         *)
(* The pool is pooling.Core as Core.tla describes it, reduced to who holds *)
(* which backend: releasing a broken one replaces it by a new connection.  *)
(* The server is external: it answers messages in order, skips everything  *)
(* up to the next Sync after an error, and keeps the prepared statements   *)
(* of each connection.  What the relay does under session.mu is one step;  *)
(* the lock is held across steps by a pump that waits for a backend or for *)
(* room to write (the field busy) and by a cancellation (cancel).          *)
(***************************************************************************)
EXTENDS Integers, Sequences, FiniteSets, SequencesExt

CONSTANTS
  Clients, Backends,  \* client connections; places in the pool
  Names,              \* names of prepared statements
  Earlier, Leftover,  \* a client that has gone, and names it may have left behind, if any
  Veterans,           \* clients that may be connected at the start
  None,               \* no client, backend, statement or message
  Limit,              \* Config.MaxPreparedStatements
  MaxClients,         \* Config.MaxClients
  Menu,               \* per client, the messages it may send
  Cancelled,          \* clients whose queries somebody cancels
  Room,               \* messages that the sockets of a backend hold, each way
  Errors,             \* whether the server may refuse a message, or a connection
  MayClose,           \* whether anybody closes the proxy
  MaxMessages,        \* bound: messages of the clients
  MaxDeaths           \* bound: server connections that die

\* Messages that a ReadyForQuery answers: queries that begin or end a block, or
\* prepare and deallocate statements in SQL, and Sync; and messages that name a
\* statement.
Query == {"begin", "end", "sql"}
Ending == Query \cup {"sync"}
Naming == {"parse", "bind", "close"}

ASSUME ProxyAssumption ==
  /\ {None, Earlier} \cap (Clients \cup Backends \cup Names) = {}
  /\ Earlier # None /\ Clients \cap Backends = {}
  /\ \A c \in Clients : Menu[c] \subseteq (Ending \X {None}) \cup (Naming \X Names)
  /\ Cancelled \subseteq Clients /\ Veterans \subseteq Clients
  /\ Leftover \subseteq Names /\ Limit \in Nat \ {0} /\ MaxClients \in Nat \ {0}
  /\ Room \in Nat \ {0} /\ Errors \in BOOLEAN /\ MayClose \in BOOLEAN
  /\ MaxMessages \in Nat /\ MaxDeaths \in Nat

VARIABLES
  sess,    \* per client: the session (see NewSession)
  back,    \* per place in the pool: the connection (see NewBackend)
  close,   \* Proxy.Close: "no", "stopped", "woken" or "done"
  drift,   \* clients and backends whose accounts the proxy has lost: the server
           \* refused or skipped a Parse or Close already accounted for, or SQL
           \* changed the statements; or some client has pipelined (every client)
  sent, deaths  \* counters for the bounds

count == <<sent, deaths>>
proxyVars == <<sess, back, close, drift, count>>

\* phase: where serve stands.  gone, woken: the client has left; Close has set
\* the deadline.  want: the message the pump has read.  held: the backend attached.
\* statements, expect, pending: the fields of that name.  attach: the backends sent
\* to the relay that it has not finished with; it reads the first.  relaying: it
\* has not returned.  busy: the pump holds the lock.  cancel: the backend a
\* cancellation was handed together with the lock.  open: the client has not seen
\* a ReadyForQuery since its last Query or Sync.  stray: the kinds of reply it was
\* sent to somebody else's message.  owed: own completions swallowed minus
\* injected ones let through.
NewSession ==
  [phase |-> "none", gone |-> FALSE, woken |-> FALSE, want |-> <<>>, held |-> None,
   statements |-> <<>>, expect |-> <<>>, pending |-> 0, attach |-> <<>>,
   relaying |-> TRUE, busy |-> FALSE, cancel |-> None, open |-> FALSE, stray |-> {},
   owed |-> 0]

\* prepared: the proxy's view, least recently used first.  broken: fail was
\* called.  cut: reads fail.  status: txStatus, the last the relay has seen.  wire,
\* replies: what the server has yet to read, and the proxy.  tx, stmts, skip: the
\* server's transaction status, prepared statements, and whether it skips to the
\* next Sync.  foreign: whether the clients whose Bind has run another client's
\* statement had one of that name.
NewBackend ==
  [owner |-> None, broken |-> FALSE, cut |-> FALSE, status |-> "I", prepared |-> <<>>,
   wire |-> <<>>, replies |-> <<>>, tx |-> "I", stmts |-> [n \in Names |-> None],
   skip |-> FALSE, foreign |-> {}]

\* A connection in the pool may carry a statement an earlier client has left.
Left(n) == [NewBackend EXCEPT !.prepared = <<[n |-> n, by |-> Earlier]>>, !.stmts[n] = Earlier]

\* A veteran has prepared such a name itself, on a connection since discarded.
Knows(c, n) == [NewSession EXCEPT !.phase = "running", !.statements = <<[n |-> n, by |-> c]>>]

ProxyInit ==
  /\ \/ /\ Leftover = {}
        /\ sess = [c \in Clients |-> NewSession] /\ back = [b \in Backends |-> NewBackend]
     \/ \E n \in Leftover :
          /\ sess = [c \in Clients |-> IF c \in Veterans THEN Knows(c, n) ELSE NewSession]
          /\ back = [b \in Backends |-> Left(n)]
  /\ close = "no" /\ drift = {} /\ sent = 0 /\ deaths = 0

\* Mutant: currentBackend gives the lock back before the request is sent.
UnlockedAlways(c) == TRUE
\* A session's lock is free: neither the pump nor a cancellation holds it.
Unlocked(c) == sess[c].cancel = None /\ ~sess[c].busy
Set(c, s) == sess' = [sess EXCEPT ![c] = s]
SetB(b, r) == back' = [back EXCEPT ![b] = r]

-----------------------------------------------------------------------------
\* statements: a set with a limit, least recently used first; the text of a
\* client's Parse is told apart by the client.
Has(set, n) == \E i \in DOMAIN set : set[i].n = n
At(set, n) == CHOOSE i \in DOMAIN set : set[i].n = n
Text(set, n) == set[At(set, n)].by
Forget(set, n) == IF Has(set, n) THEN RemoveAt(set, At(set, n)) ELSE set
Lookup(set, n) == IF Has(set, n) THEN Append(Forget(set, n), [n |-> n, by |-> Text(set, n)]) ELSE set
\* What remember discards: the least recently used, at the limit and for a new name.
Evicted(set, n) == IF ~Has(set, n) /\ Len(set) >= Limit THEN <<Head(set).n>> ELSE <<>>
Remember(set, n, c) ==
  LET kept == IF Evicted(set, n) # <<>> THEN Tail(set) ELSE set
  IN Append(Forget(kept, n), [n |-> n, by |-> c])

\* known: a Bind of a name the client has parsed and not closed.
Msg(k, n, c, inj) == [k |-> k, n |-> n, by |-> c, inj |-> inj, known |-> FALSE]
Closes(names, c) == [i \in DOMAIN names |-> Msg("close", names[i], c, TRUE)]

\* Mutant: what the backend's limit evicts is forgotten and not closed.
ReconcileParseForgets(c, n, st, pr) ==
  [st |-> Lookup(Remember(st, n, c), n), pr |-> Remember(Lookup(pr, n), n, c),
   inj |-> Closes(IF Has(pr, n) THEN <<n>> ELSE <<>>, c)]

\* reconcile for a Parse: close the name if the backend has it, whoever put it
\* there, remember the Parse, and close what that evicts from the backend.
ReconcileParse(c, n, st, pr) ==
  [st |-> Lookup(Remember(st, n, c), n), pr |-> Remember(Lookup(pr, n), n, c),
   inj |-> Closes((IF Has(pr, n) THEN <<n>> ELSE <<>>) \o Evicted(pr, n), c)]

\* Mutant: a held name is taken for the client's own statement.
EnsurePreparedByName(c, n, st, pr) ==
  IF ~Has(st, n) \/ Has(pr, n)
  THEN [st |-> Lookup(st, n), pr |-> Lookup(pr, n), inj |-> <<>>]
  ELSE [st |-> Lookup(st, n), pr |-> Remember(pr, n, c),
        inj |-> <<Msg("parse", n, c, TRUE)>> \o Closes(Evicted(pr, n), c)]

\* ensurePrepared, for a Bind or Describe: replay the remembered Parse unless the
\* backend holds the same text.
EnsurePrepared(c, n, st, pr) ==
  IF ~Has(st, n)
  THEN [st |-> st, pr |-> pr, inj |-> <<>>]
  ELSE IF Has(pr, n) /\ Text(pr, n) = Text(st, n)
  THEN [st |-> Lookup(st, n), pr |-> Lookup(pr, n), inj |-> <<>>]
  ELSE [st |-> Lookup(st, n), pr |-> Remember(Lookup(pr, n), n, c),
        inj |-> Closes(IF Has(pr, n) THEN <<n>> ELSE <<>>, c)
                \o <<Msg("parse", n, c, TRUE)>> \o Closes(Evicted(pr, n), c)]

Reconcile(c, m, st, pr) ==
  CASE m.k = "parse" -> ReconcileParse(c, m.n, st, pr)
    [] m.k = "bind"  -> EnsurePrepared(c, m.n, st, pr)
    [] m.k = "close" -> [st |-> Forget(st, m.n), pr |-> Forget(pr, m.n), inj |-> <<>>]
    [] OTHER         -> [st |-> st, pr |-> pr, inj |-> <<>>]

Completion(m) == IF m.k = "parse" THEN "1" ELSE "3"
EndsTransactionUnit(m) == m.k \in Ending

-----------------------------------------------------------------------------
\* Serve: accept until Close.  accept: a place among MaxClients, or a refusal.
Serving == close = "no"
Active == {c \in Clients : sess[c].phase \notin {"none", "done"}}
Accept(c) ==
  /\ sess[c].phase = "none" /\ Serving /\ Cardinality(Active) < MaxClients
  /\ Set(c, [sess[c] EXCEPT !.phase = "startup"])
  /\ UNCHANGED <<back, close, drift, count>>

\* One step of the handshake with a client that is there to answer.
Step(c, from, to) ==
  /\ sess[c].phase = from
  /\ Set(c, [sess[c] EXCEPT !.phase = to])
  /\ UNCHANGED <<back, close, drift, count>>

\* startup reads packets, answers the ones that ask for encryption, and comes to
\* a known protocol version; authenticate; ready, which gives the client its key.
\* The backend that warm takes and lets go is back before the step ends.
StartupPacket(c) == Step(c, "startup", "auth")
Authenticate(c) == Step(c, "auth", "ready")
Ready(c) == Step(c, "ready", "greeted")

\* startup fails, and reject says so: a packet it cannot read, a client that
\* cannot answer or has left, or a cancellation, which is handled and no error.
StartupEnds(c) ==
  /\ sess[c].phase \in {"startup", "auth", "ready"}
  /\ Set(c, [NewSession EXCEPT !.phase = "done"])
  /\ UNCHANGED <<back, close, drift, count>>

\* Only now can the session be found by its key, and woken by Close.
Register(c) ==
  /\ sess[c].phase = "greeted"
  /\ Set(c, [sess[c] EXCEPT !.phase = "running"])
  /\ UNCHANGED <<back, close, drift, count>>
Registered(c) == sess[c].phase \in {"running", "leaving", "detached"}

\* The client sends a message, and the pump reads its header.  A client that sends
\* on before ReadyForQuery pipelines.
Send(c) ==
  /\ sess[c].phase = "running" /\ ~sess[c].gone /\ ~sess[c].woken /\ sess[c].want = <<>>
  /\ sent < MaxMessages /\ sent' = sent + 1
  /\ \E e \in Menu[c] :
       LET m == Msg(e[1], e[2], c, FALSE)
       IN Set(c, [sess[c] EXCEPT !.want = <<m>>, !.open = @ \/ EndsTransactionUnit(m)])
  /\ drift' = IF sess[c].open THEN drift \cup Clients ELSE drift
  /\ UNCHANGED <<back, close, deaths>>

\* The client closes its connection, or sends Terminate; before that, StartupEnds.
Leave(c) ==
  /\ sess[c].phase = "running" /\ ~sess[c].gone
  /\ Set(c, [sess[c] EXCEPT !.gone = TRUE])
  /\ UNCHANGED <<back, close, drift, count>>

\* fail: the connection cannot be used again.  interrupt: a read on it fails.
Fail(r) == [r EXCEPT !.broken = TRUE]
Interrupt(r) == [r EXCEPT !.cut = TRUE, !.wire = <<>>]

\* forward takes the lock, and keeps it until it returns.
ForwardLocks(c) ==
  /\ sess[c].phase = "running" /\ sess[c].want # <<>> /\ Unlocked(c)
  /\ Set(c, [sess[c] EXCEPT !.busy = TRUE])
  /\ UNCHANGED <<back, close, drift, count>>

\* ensureBackend: the backend attached, or one the pool hands out, and waits for if
\* there is none.  A cancelled context does not keep Acquire from an idle one.
EnsureBackend(c, b) == IF sess[c].held # None THEN b = sess[c].held ELSE back[b].owner = None
Attach(c, b) == IF sess[c].held = None THEN Append(sess[c].attach, b) ELSE sess[c].attach

\* forward: attach, reconcile, write, which waits for room, and count what a
\* ReadyForQuery will answer.
Forward(c) ==
  /\ sess[c].busy
  /\ \E b \in Backends :
       LET m == [sess[c].want[1] EXCEPT !.known = Has(sess[c].statements, sess[c].want[1].n)]
           r == Reconcile(c, m, sess[c].statements, back[b].prepared)
       IN /\ EnsureBackend(c, b) /\ Len(back[b].wire) < Room
          /\ Set(c, [sess[c] EXCEPT
               !.want = <<>>, !.busy = FALSE, !.held = b, !.attach = Attach(c, b),
               !.statements = r.st,
               !.expect = @ \o [i \in DOMAIN r.inj |-> Completion(r.inj[i])],
               !.pending = IF EndsTransactionUnit(m) THEN @ + 1 ELSE @])
          /\ SetB(b, [back[b] EXCEPT
               !.owner = c, !.prepared = r.pr,
               !.wire = IF back[b].cut THEN @ ELSE @ \o Append(r.inj, m)])
  /\ UNCHANGED <<close, drift, count>>

\* The client's socket cannot be relied on: it has gone, or Close has set the deadline.
Silent(c) == sess[c].gone \/ sess[c].woken
Whole(m) == m.k \in Naming

\* ensureBackend fails: the pool is empty, or full, and the context is cancelled, or
\* no connection can be opened.
AcquireFails(c) ==
  /\ sess[c].busy /\ sess[c].held = None /\ (~Serving \/ Errors)
  /\ Set(c, [sess[c] EXCEPT !.want = <<>>, !.busy = FALSE, !.phase = "leaving"])
  /\ UNCHANGED <<back, close, drift, count>>

\* forward fails once attached.  What the server has of the message is none, and
\* what reconcile did ends with the connection.
FailsOn(c, b) ==
  /\ sess[c].busy /\ EnsureBackend(c, b)
  /\ Set(c, [sess[c] EXCEPT !.want = <<>>, !.busy = FALSE, !.phase = "leaving",
                            !.held = b, !.attach = Attach(c, b)])
  /\ SetB(b, [Fail(back[b]) EXCEPT !.owner = c])
  /\ UNCHANGED <<close, drift, count>>

\* The backend cannot be written to; or the client is silent in the middle of a
\* body that is copied as it comes.
ForwardFails(c) == \E b \in Backends : back[b].cut /\ FailsOn(c, b)
BodyFails(c) ==
  /\ sess[c].busy /\ Silent(c) /\ ~Whole(sess[c].want[1])
  /\ \E b \in Backends : FailsOn(c, b)

\* The pump's read fails: of a header, or of a body that is read whole first.
PumpEnds(c) ==
  /\ sess[c].phase = "running" /\ ~sess[c].busy /\ Silent(c)
  /\ \A i \in DOMAIN sess[c].want : Whole(sess[c].want[i])
  /\ Set(c, [sess[c] EXCEPT !.phase = "leaving", !.want = <<>>])
  /\ UNCHANGED <<back, close, drift, count>>

\* detach: interrupt and fail the backend still attached, and close the channel.
Detach(c) ==
  /\ sess[c].phase = "leaving" /\ Unlocked(c)
  /\ IF sess[c].held = None THEN back' = back
     ELSE SetB(sess[c].held, Fail(Interrupt(back[sess[c].held])))
  /\ Set(c, [sess[c] EXCEPT !.phase = "detached"])
  /\ UNCHANGED <<close, drift, count>>

\* Recyclable: rollback reads to the next ReadyForQuery, which does not come from a
\* server that is gone or skips, and is another message's if one is unanswered; the
\* connection is then taken for lost.  The releases below never come to it: they are
\* of a backend whose last status is idle, or that detach has failed.
Recyclable(r) ==
  IF r.cut \/ r.skip \/ r.wire # <<>> \/ r.replies # <<>> THEN NewBackend
  ELSE [r EXCEPT !.owner = None, !.tx = "I", !.status = "I"]

\* Handle.Release: the pool discards a broken connection (Dead) and opens another in
\* its place; one whose last status is not idle (NeedsCleanup) is rolled back first.
\* A statement set lives and dies with its connection.
Release(r) ==
  IF r.broken THEN NewBackend
  ELSE IF r.status # "I" THEN Recyclable(r) ELSE [r EXCEPT !.owner = None]
Reconnected(b) == IF back[b].broken THEN drift \ {b} ELSE drift

\* wg.Wait and releaseBackend; unregister.
ReleaseBackend(c) ==
  /\ sess[c].phase = "detached" /\ ~sess[c].relaying /\ Unlocked(c)
  /\ IF sess[c].held = None THEN UNCHANGED <<back, drift>>
     ELSE SetB(sess[c].held, Release(back[sess[c].held])) /\ drift' = Reconnected(sess[c].held)
  /\ Set(c, [NewSession EXCEPT !.phase = "done"])
  /\ UNCHANGED <<close, count>>

-----------------------------------------------------------------------------
\* relay ends once the channel is closed and empty.
RelayEnds(c) ==
  /\ sess[c].phase = "detached" /\ sess[c].relaying
  /\ sess[c].attach = <<>>
  /\ Set(c, [sess[c] EXCEPT !.relaying = FALSE])
  /\ UNCHANGED <<back, close, drift, count>>

\* relayFrom's read fails: the connection is dead or interrupted; or, once swallows
\* has had the lock, its write does.
RelayFails(c) ==
  /\ sess[c].attach # <<>> /\ sess[c].relaying
  /\ LET b == sess[c].attach[1]
     IN /\ back[b].cut \/ (back[b].replies # <<>> /\ Unlocked(c) /\ Silent(c))
        /\ SetB(b, Fail(back[b]))
  /\ Set(c, [sess[c] EXCEPT !.relaying = FALSE])
  /\ UNCHANGED <<close, drift, count>>

\* One whole message leaves the source: its header, and its body forwarded, kept
\* or dropped.
Read(b) == [back[b] EXCEPT !.replies = Tail(@)]
Reading(c) == sess[c].attach # <<>> /\ sess[c].relaying /\ Unlocked(c)
Swallows(c, r) == sess[c].expect # <<>> /\ Head(sess[c].expect) = r.k

\* relayFrom: a completion the proxy owes itself is swallowed.
Swallow(c) ==
  /\ Reading(c)
  /\ LET b == sess[c].attach[1] IN
       /\ back[b].replies # <<>> /\ Swallows(c, Head(back[b].replies))
       /\ Set(c, [sess[c] EXCEPT !.expect = Tail(@),
                    !.owed = IF Head(back[b].replies).inj THEN @ ELSE @ + 1])
       /\ SetB(b, Read(b))
  /\ UNCHANGED <<close, drift, count>>

\* Mutant: the first ReadyForQuery outside a block releases the backend, whatever
\* is pending.
CompleteUnitUncounted(c, r) == r.k = "Z" /\ r.tx = "I"
\* Mutant: an ErrorResponse completes the unit.
CompleteUnitOnError(c, r) == r.k \in {"E", "Z"} /\ sess[c].pending <= 1 /\ r.tx \in {"", "I"}
\* completeUnit: nothing pending and no open block.
CompleteUnit(c, r) == r.k = "Z" /\ sess[c].pending <= 1 /\ r.tx = "I"

\* relayFrom: anything else goes to the client; the ReadyForQuery that completes
\* the last unit returns the backend to the pool.  What is written for a client
\* that has gone may still find room; if the flush fails, after the release or
\* before it, the relay ends and does not fail the backend.
Relay(c) ==
  /\ Reading(c)
  /\ LET b == sess[c].attach[1] IN
       /\ back[b].replies # <<>> /\ ~Swallows(c, Head(back[b].replies))
       /\ LET r == Head(back[b].replies)
              done == CompleteUnit(c, r)
              seen == [Read(b) EXCEPT !.status = IF r.k = "Z" THEN r.tx ELSE @]
          IN /\ \E flushed \in {TRUE, ~Silent(c)} : Set(c, [sess[c] EXCEPT
                  !.relaying = flushed,
                  !.stray = IF r.by = c THEN @ ELSE @ \cup {r.k},
                  !.owed = IF r.inj /\ r.k # "E" THEN @ - 1 ELSE @,
                  !.pending = IF r.k = "Z" /\ @ > 0 THEN @ - 1 ELSE @,
                  !.open = IF r.k = "Z" THEN FALSE ELSE @,
                  !.held = IF done THEN None ELSE @,
                  !.attach = IF done THEN Tail(@) ELSE @])
             /\ SetB(b, IF done THEN Release(seen) ELSE seen)
             /\ drift' = IF done THEN Reconnected(b) ELSE drift
  /\ UNCHANGED <<close, count>>

-----------------------------------------------------------------------------
\* currentBackend hands over the backend with the lock; cancel finds the session by
\* its key, and keeps the lock until the request is sent or has failed.
CurrentBackend(c) ==
  /\ Unlocked(c) /\ sess[c].held # None
  /\ Set(c, [sess[c] EXCEPT !.cancel = sess[c].held])
  /\ UNCHANGED <<back, close, drift, count>>
Cancel(c) == c \in Cancelled /\ Registered(c) /\ CurrentBackend(c)
CancelSent(c) ==
  /\ sess[c].cancel # None
  /\ Set(c, [sess[c] EXCEPT !.cancel = None])
  /\ UNCHANGED <<back, close, drift, count>>

\* Proxy.Close: stop accepting and acquiring, wake the registered sessions, wait
\* for all of them.
CloseStop ==
  /\ MayClose /\ Serving /\ close' = "stopped"
  /\ UNCHANGED <<sess, back, drift, count>>
CloseWake ==
  /\ close = "stopped" /\ close' = "woken"
  /\ sess' = [c \in Clients |-> [sess[c] EXCEPT
       !.woken = @ \/ Registered(c)]]
  /\ UNCHANGED <<back, drift, count>>
CloseDone ==
  /\ close = "woken" /\ Active = {} /\ close' = "done"
  /\ UNCHANGED <<sess, back, drift, count>>

-----------------------------------------------------------------------------
\* The server (external).
Reply(k, tx, m) == [k |-> k, tx |-> tx, by |-> m.by, inj |-> m.inj]

Refused(b, m) ==
  \/ m.k \in {"parse", "bind"} /\ (Errors \/ back[b].tx = "E")
  \/ m.k = "parse" /\ back[b].stmts[m.n] # None
  \/ m.k = "bind" /\ back[b].stmts[m.n] = None
  \/ m.k \in Query /\ (Errors \/ back[b].tx = "E")

\* PREPARE, DEALLOCATE and DISCARD, which the proxy relays without looking.
Changed(stmts, c) ==
  {[n \in Names |-> None]} \cup {[stmts EXCEPT ![n] = v] : n \in Names, v \in {c, None}}

\* A query, or a Sync, answered by ReadyForQuery.
ServerReady(b, m) ==
  LET tx == CASE m.k = "begin" /\ back[b].tx = "I" -> "T" [] m.k = "end" -> "I" [] OTHER -> back[b].tx
  IN /\ m.k \in Ending /\ (back[b].skip => m.k = "sync")
     /\ m.k = "sql" => back[b].tx # "E"
     /\ \E stmts \in IF m.k = "sql" THEN Changed(back[b].stmts, m.by) ELSE {back[b].stmts} :
          SetB(b, [back[b] EXCEPT !.wire = Tail(@), !.tx = tx, !.skip = FALSE, !.stmts = stmts,
                     !.replies = Append(@, Reply("Z", tx, m))])
     /\ drift' = IF m.k = "sql" THEN drift \cup {b} ELSE drift

\* Parse, Bind or Close, done.
ServerDoes(b, m) ==
  /\ m.k \in Naming /\ ~back[b].skip
  /\ m.k = "parse" => back[b].stmts[m.n] = None /\ back[b].tx # "E"
  /\ m.k = "bind" => back[b].stmts[m.n] # None /\ back[b].tx # "E"
  /\ LET k == CASE m.k = "parse" -> "1" [] m.k = "bind" -> "2" [] OTHER -> "3"
     IN SetB(b, [back[b] EXCEPT
          !.wire = Tail(@), !.replies = Append(@, Reply(k, "", m)),
          !.stmts = CASE m.k = "parse" -> [@ EXCEPT ![m.n] = m.by]
                      [] m.k = "close" -> [@ EXCEPT ![m.n] = None]
                      [] OTHER -> @,
          !.foreign = IF m.k = "bind" /\ back[b].stmts[m.n] # m.by THEN @ \cup {m.known} ELSE @])
  /\ drift' = drift

\* A Parse refused because its name is taken is the proxy's own doing, unless an
\* earlier message went amiss on this backend and left the name behind.
Drifts(b, m) ==
  IF \/ m.k = "close"
     \/ m.k = "parse" /\ (back[b].skip \/ back[b].tx = "E" \/ back[b].stmts[m.n] = None \/ b \in drift)
  THEN drift \cup {b, m.by} ELSE drift

\* An error: a query is answered by ReadyForQuery all the same, anything else
\* makes the server skip to the next Sync.
ServerRefuses(b, m) ==
  /\ Refused(b, m) /\ ~back[b].skip
  /\ LET tx == IF back[b].tx = "T" THEN "E" ELSE back[b].tx
         query == m.k \in Query
     IN SetB(b, [back[b] EXCEPT
          !.wire = Tail(@), !.tx = tx, !.skip = ~query,
          !.replies = @ \o <<Reply("E", "", m)>>
                        \o (IF query THEN <<Reply("Z", tx, m)>> ELSE <<>>)])
  /\ drift' = Drifts(b, m)
ServerSkips(b, m) ==
  /\ back[b].skip /\ m.k # "sync"
  /\ SetB(b, [back[b] EXCEPT !.wire = Tail(@)])
  /\ drift' = Drifts(b, m)

\* A server that cannot write its replies does not read on.
Server(b) ==
  /\ back[b].wire # <<>> /\ ~back[b].cut /\ Len(back[b].replies) < Room
  /\ LET m == Head(back[b].wire)
     IN ServerReady(b, m) \/ ServerDoes(b, m) \/ ServerRefuses(b, m) \/ ServerSkips(b, m)
  /\ UNCHANGED <<sess, close, count>>

ServerDies(b) ==
  /\ ~back[b].cut /\ deaths < MaxDeaths /\ deaths' = deaths + 1
  /\ SetB(b, [back[b] EXCEPT !.cut = TRUE, !.wire = <<>>])
  /\ UNCHANGED <<sess, close, drift, sent>>

-----------------------------------------------------------------------------
Session(c) ==
  \/ Accept(c) \/ StartupPacket(c) \/ Authenticate(c) \/ Ready(c) \/ StartupEnds(c)
  \/ Register(c) \/ Send(c) \/ Leave(c)
  \/ ForwardLocks(c) \/ Forward(c) \/ AcquireFails(c) \/ ForwardFails(c) \/ BodyFails(c)
  \/ PumpEnds(c) \/ Detach(c) \/ ReleaseBackend(c)
  \/ RelayEnds(c) \/ RelayFails(c) \/ Swallow(c) \/ Relay(c)
  \/ Cancel(c) \/ CancelSent(c)

ProxyNext ==
  \/ \E c \in Clients : Session(c)
  \/ \E b \in Backends : Server(b) \/ ServerDies(b)
  \/ CloseStop \/ CloseWake \/ CloseDone

ProxySpec == ProxyInit /\ [][ProxyNext]_proxyVars

\* Goroutines that can run do, and the server answers; nobody has to connect,
\* send, leave, cancel or close, and no connection has to die.  A cancellation
\* that takes the lock again and again does not keep the session from it: a Go
\* mutex hands itself to whoever has waited longest.
Pump(c) ==
  \/ Ready(c) \/ Register(c)
  \/ ForwardLocks(c) \/ Forward(c) \/ AcquireFails(c) \/ ForwardFails(c) \/ PumpEnds(c)
  \/ Detach(c) \/ ReleaseBackend(c)
Relaying(c) == RelayEnds(c) \/ RelayFails(c) \/ Swallow(c) \/ Relay(c)
ProxyFairSpec ==
  /\ ProxySpec
  /\ \A c \in Clients : SF_proxyVars(Pump(c)) /\ SF_proxyVars(Relaying(c)) /\ WF_proxyVars(CancelSent(c))
  /\ \A b \in Backends : WF_proxyVars(Server(b))
  /\ WF_proxyVars(CloseWake \/ CloseDone)

-----------------------------------------------------------------------------
\* Types; the attach channel and the relay hold at most one backend between them,
\* so sending on it under the lock never blocks (session.go:548).
ProxyTypeOK ==
  /\ close \in {"no", "stopped", "woken", "done"} /\ drift \subseteq Clients \cup Backends
  /\ \A c \in Clients :
       /\ sess[c].phase \in {"none", "startup", "auth", "ready", "greeted",
                              "running", "leaving", "detached", "done"}
       /\ sess[c].held \in Backends \cup {None} /\ sess[c].cancel \in Backends \cup {None}
       /\ Len(sess[c].attach) <= 1
       /\ Len(sess[c].statements) <= Limit /\ sess[c].pending \in 0 .. MaxMessages
  /\ \A b \in Backends :
       /\ back[b].owner \in Clients \cup {None} /\ back[b].tx \in {"I", "T", "E"}
       /\ Len(back[b].prepared) <= Limit

\* A backend is handed on when its client's units are answered, pipelined or not
\* (session.go:72, relay.go:71): one that nobody holds has no Query or Sync left
\* to answer, no ReadyForQuery on its way and no block open; and a backend has the
\* one holder that is attached to it.
UnitsAnswered ==
  /\ \A b \in Backends : back[b].owner = None =>
       /\ \A i \in DOMAIN back[b].wire : ~EndsTransactionUnit(back[b].wire[i])
       /\ \A i \in DOMAIN back[b].replies : back[b].replies[i].k # "Z"
       /\ back[b].tx = "I"
  /\ \A c \in Clients, b \in Backends : sess[c].held = b <=> back[b].owner = c

\* No client takes the end of another client's unit for its own (session.go:72):
\* every ReadyForQuery it is sent answers a Query or Sync of its own.
ReadyGoesHome == \A c \in Clients : "Z" \notin sess[c].stray

\* No client is ever sent the reply to another client's message: "a pipelined
\* client is fully answered before its backend is handed on" (session.go:72-74).
RepliesGoHome == \A c \in Clients : sess[c].stray = {}

\* A prepared set and the server stay in step (config.go:63), and within the
\* limit, as long as the server has not refused or skipped a Parse or a Close and
\* no query has changed the statements in SQL.
PreparedAgrees ==
  \A b \in Backends \ drift : back[b].wire = <<>> /\ ~back[b].cut =>
    \A n \in Names :
      back[b].stmts[n] = IF Has(back[b].prepared, n) THEN Text(back[b].prepared, n) ELSE None

\* A client runs its own statement, never one of the same name another client
\* left on the backend (session.go:433), under the same condition.
RunsOwnUnlessDrift == \A b \in Backends : TRUE \in back[b].foreign => b \in drift

\* The same without the condition.
RunsOwnStatement == \A b \in Backends : TRUE \notin back[b].foreign

\* A client that binds a name it has not parsed gets the server's error
\* (session.go:473).
UnknownIsRefused == \A b \in Backends : FALSE \notin back[b].foreign

\* A client gets as many completions as it has asked for (session.go:66): between
\* transactions nothing is left to swallow, under the same condition.
ExpectSettles ==
  \A c \in Clients \ drift : sess[c].phase = "running" /\ sess[c].held = None =>
    sess[c].expect = <<>> /\ sess[c].owed = 0 /\ sess[c].pending = 0

\* The backend a cancellation names is the session's until the request is sent
\* (session.go:664).
CancelNamesHolder ==
  \A c \in Clients : sess[c].cancel # None =>
    sess[c].held = sess[c].cancel /\ back[sess[c].cancel].owner = c

\* The relay is never parked for good (session.go:634): once the pump has detached,
\* it has no backend left to read, or one whose reads fail.
NeverParked ==
  \A c \in Clients : sess[c].phase = "detached" /\ sess[c].relaying /\ sess[c].attach # <<>> =>
    back[sess[c].attach[1]].cut /\ back[sess[c].attach[1]].broken

\* Types; the proxy's view of a backend's statements and of the completions it owes
\* agrees with the server (statements.go:85, session.go:579), and a session that
\* ends does not wait for its relay for ever.
ProxyInv == ProxyTypeOK /\ PreparedAgrees /\ ExpectSettles /\ NeverParked

Done(c) == sess[c].phase = "done"
Starved(c) == sess[c].want # <<>> /\ sess[c].held = None

\* A session ends and gives its backend back once its client has gone
\* (session.go:630), unless it waits for a backend, and once Close has woken it
\* (proxy.go:302).
SessionEnds ==
  \A c \in Clients :
    /\ sess[c].gone ~> (Done(c) \/ Starved(c))
    /\ sess[c].woken ~> Done(c)

\* Close returns (proxy.go:290).
CloseReturns == close = "stopped" ~> close = "done"
=============================================================================
