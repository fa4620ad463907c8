# gpool in TLA+

gpool is a Go library of database connection pools and change-data-capture (CDC)
streams, with a PostgreSQL proxy built on it as an example. This directory models its
concurrent parts, checks them with TLC and proves most of their safety properties with TLAPS. Source
paths are relative to the repository; `core.go`, `permit.go`, `shard.go`,
`idle_conn.go`, `clock.go`, `handle.go`, `driver.go`, `discard.go` and `config.go` are
those of `src/pkg/pooling/` unless a directory is given.

## 1. Inventory

| Component | State | Operations | Interacts with |
|---|---|---|---|
| Permit set (`permit.go`) | channel of tokens, `limit`, `debt` | `tryAcquire`, `wait`, `release`, `resize`, `drain` | used by the pooling engine |
| Pooling engine (`core.go`, `shard.go`) | idle buckets, `totalConns`, `checkedOut`, `maxConns`, `closed`, `resizeMu` | `Acquire`, `Release`, `SetMaxConns`, `EvictIdle`, `Close`, the `maintain` goroutine | permit set, driver, clock; any number of goroutines |
| Connection life (`idle_conn.go`, `clock.go`, `driver.go`, `discard.go`) | two timestamps per connection, cached time | `expired`, `recyclable`, `reapExpired`, `whyUnusable` | engine, driver |
| Handles and sessions (`handle.go`, `src/pkg/vendors/postgres/pool/`, `src/pkg/sqldriver/`) | released and finished flags, the record of an open transaction, `listening` | queries, `Begin`, `Commit`, `Rollback`, `Listen`, `Close`, `Release`, the cleanup on release | engine, server session |
| PostgreSQL change stream (`src/pkg/vendors/postgres/cdc/event_stream.go`) | `received`, `lastPushed`, `flushed`, event channel, `done` | `run`, `emit`, `catchUp`, `All`, `Close` | replication slot, consumer's loop |
| PostgreSQL subscriber (`.../cdc/subscriber.go`) | current stream, control connection, tables, `closed`, lock | `SubscribeFrom`, table, slot and publication management, `Close` | change stream, server |
| MySQL CDC (`src/vendors/mysql/cdc/`) | position tracker, table filter, stream | `Subscribe`, the binary log loop, `AddTables`..., both `Close`s | source, consumer |
| SQL Server CDC (`src/vendors/mssql/cdc/`) | first LSN of the next poll, tables, stream | `Subscribe`, `poll`, table management, both `Close`s | capture and cleanup jobs, consumer |
| Engine registry (`src/pkg/gpool/engine.go`) | maps of pools and subscribers, `closeOnce` | `AddPool`, `RemovePool`, ..., `Close` | every vendor |
| Proxy (`src/examples/gpoolproxy/`) | session: backend held, `pending`, `expect`, statements; backend: statements, broken | `accept`, startup, pump, relay, `detach`, `cancel`, `Close` | pooling engine, client, server |
| Configuration, statistics, decoders, value conversion, SCRAM, ClickHouse adapter | none of their own | | |

What is hard here, and what makes each part correct:

* **Permit set.** Release tests the debt and sends a token in two steps; a resize
  moves one permit at a time; a waiter may be cancelled as a token reaches it. Correct
  when no interleaving loses, invents or drops a permit.
* **Pooling engine.** Five kinds of goroutine work on the same atomics and buckets
  without a common lock. Correct when each connection has one owner, the count is
  exact, the ceiling holds, every error path gives back slot and permit, `Close` leaves
  nothing behind, and nobody waits for ever.
* **Connection life.** Judgements use a cached time read earlier, and a connection may
  die between two of them. Correct when nothing unclean or half set up is reused,
  nothing is thrown away too early, and stale connections do leave.
* **Sessions.** A `Tx` or a result set outlives the handle it came from; a statement may
  take effect and report an error. Correct when a connection has one holder and the next
  one finds no transaction, result or subscription of the last.
* **Change streams.** A position is advanced by one goroutine and recorded by another;
  the process may crash anywhere. Correct when what will not be sent again was processed
  (at-least-once), a resume that cannot be honoured is refused, and `Close` neither hangs
  nor pulls the connection from under the reader.
* **Subscribers and registry.** Close racing with start, a stream closing itself, answers
  that are lost, one of several closes failing.
* **Proxy.** Two goroutines per session share a backend that belongs to another client a
  moment later. Correct when it is handed on with its units answered, replies and cancellations go to
  whom they belong, and a client runs its own prepared statements.

`PROJECT.json` lists every component with its status and every hazard at its line.

## 2. Modules

| Module | Models | Role |
|---|---|---|
| `PermitSet` | `permit.go` and the Go channel under it | state and operators, no `Spec`; shared by the next two |
| `Permits` | the permit set under any client | the **abstract specification** of how permits may be used |
| `Core` | `core.go`, `shard.go` | one step per access to shared state; **refines** `Permits` |
| `ConnLife` | `idle_conn.go`, `clock.go`, `recyclable`, `whyUnusable`, `destroy`'s reasons | looks inside the choices `Core` leaves open |
| `Session` | `handle.go`, both session packages, the driver hooks of `release` | what happens to a connection between `Acquire` and the next `Acquire` |
| `PgStream` | the PostgreSQL stream and its slot, through crashes | |
| `PgSubscriber` | the PostgreSQL subscriber around its lock | takes a stream as a reader and a connection |
| `MySQLStream`, `MSSQLStream` | subscriber and stream of those vendors | |
| `Engine` | `engine.go` | takes pools and subscribers as things to be closed |
| `Proxy` | sessions, backends, statements and Close of the proxy | takes the pool as who holds which backend |
| `PermitsProofs`, `CoreProofs`, `PgStreamProofs`, `PgSubscriberProofs`, `MySQLStreamProofs`, `MSSQLStreamProofs` | | theorems about the module of that name |
| `FacadeProofs` | | theorems about `Session` and `Engine` |
| `ConnectionProofs` | | theorems about `ConnLife` and `Proxy` |
| `MC*` | | model values, symmetry sets, logs and client menus |

In each module everything marked external in `PROJECT.json` (a server, a log, a crash, the
runtime) is modelled by what the code relies on.

**PermitSet, Permits.** The channel is Go's: buffered `tokens`, a FIFO `queue` of
parked receivers, and `grants`, the receivers handed a token that have not run since.
`resizeAt` and `resizeLeft` are the program point and the remaining units of the one
`resize` that `resizeMu` lets run. `Permits` adds holders that acquire, are cancelled and
release, a resize to any size up to the ceiling, and Close's `drain`.

**Core.** `pc` and `loc` hold each goroutine's program point and locals. A step is one
atomic load, store or compare-and-swap, one channel operation, one critical section of a
bucket, or the end of a driver call: `reserveSlot` is three steps, `destroy` two, and
`release` passes through five points. Whether a connection is dead, expired or dirty is
a free choice. Calls that find the pool closed at their first instruction change
nothing and are not actions. `DrainTimeout` may come at any moment, except while a
release is between its look at `closed` and its push; those steps are short of the 30
seconds of `closeDrainTimeout` as long as a reset ends by then. pgx's is bounded by
`CleanupTimeout` and by `bgCtx`; that sqldriver's `Rollback`, which takes no context, ends by then
is an assumption. In `ImplementsPermits` the permit set's variables are
shared and each goroutine's point maps to idle, parked, held or sending.

**ConnLife.** Real `time`, the `cached` time, and for each connection where it is, its two
timestamps, and what the driver would answer. Time moves on whenever the cached time is
less than `Resolution` behind, or the maintainer is not in its loop: it dials, closes, or its
warm-up is queued for a permit (`core.go:526`), the ways the code lets the cached time fall
behind. `verdict`, `why`, `lag` and `idled` exist for
the properties.

**Session.** Each connection has what the server holds (`tx`, `busy`, `subs`) beside what
the vendor believes (`rec`, `listening`); each handle has the `Tx` and `Rows` made
through it, which can be used after the release, and any number of which may be begun. Both
vendors are in one module (`kind`), one action per vendor where the code differs. `Exec`, of a
connection and of a `Tx`, carries a text nobody reads: a `BEGIN`, `COMMIT`, `ROLLBACK` or
`LISTEN` (the last with PostgreSQL only). `release` is stepped: `Gate`, then `Rollback` and `Tidy`
(pgx) or `Reset`, `Unwind` and `ResetSession` (sqldriver), each of which may fail. `cause` names
how state came about that no release can see; the properties allow exactly the named causes.

**PgStream.** `Log` is the server's log of transactions in commit order, each change with
its position and the length of its decoded message; the end of a change is their sum, as
`handleXLogData` computes it. Only `confirmed` (and `processed`, the consumer's own
record) survives a restart. The server sends again every transaction whose commit is not
before the confirmed position; its keepalives do not pass the next commit it has to send.
The reader leaves its loop when it is cancelled, when the connection fails, or at a message
it cannot parse, with the connection alive (`RecvGarbled`).

**PgSubscriber.** `mu` is `p.mu`. `SubscribeFrom` is publication, slot, resumability check,
dial and start, one step each under the lock; a stream's `Close` is once, wait, release,
of which only the last takes the lock. A statement may fail before it reaches the server
or after it took effect.

**MySQLStream, MSSQLStream.** The consumer records `Event.Position` itself, before or after
its loop body, and only that survives a crash. MySQL: an element of `Log` is a
transaction, a DDL statement or a rotation, and the source may use GTIDs or files.
SQL Server: each query is a step, of the retention check (`CheckRetained` lists the
instances, `AskInstance` asks each) as of a poll (`ReadMinimum` and `ReadInstance` are the
two of an instance), so the capture job, the cleanup job and table management move in
between; the second query of an instance fails when the cleanup job has passed the window
(`Answers`). The deadline may pass at any point.

**Engine.** The two maps, what `Close` has swapped out and still has to close, what a
`Remove` has in hand. `lost` is what nobody will close: replaced by an `Add`, or added
after the swap.

**Proxy.** A session goes through startup, authentication, ready, registration and
running. What the relay does under `session.mu` is one step; the pump keeps the lock while it
waits for a backend or for room to write (`busy`: `ForwardLocks`, then `Forward` or a failure), a
cancellation until its request is sent (`cancel`). A backend has `wire` and `replies` queues with
`Room` messages each; the server answers in order, skips to the next Sync after an error, and
keeps the statements of its connection. Clients send what they like, before ReadyForQuery too:
queries that begin or end a block, queries that `PREPARE`, `DEALLOCATE` or `DISCARD` in SQL
(`sql`), and the messages that name statements. A client may go, or Close set its deadline, at
any point: in the middle of a body, after the backend is attached (`BodyFails`), before or after the
flush of a reply (`Relay`); and an idle backend is still acquired after Close has cancelled the
context (`EnsureBackend`). `Release` discards a broken connection and rolls back one whose last
status is not idle (`Recyclable`), although no release of the proxy needs the second:
`completeUnit` releases at idle, and `detach` fails what is still attached. `drift` collects
clients and backends whose accounts the proxy cannot keep: the server refused or skipped a `Parse`
or `Close` it had already accounted for, SQL changed the statements of a backend, or a client
has pipelined (then all clients, and no backend). The code has no answer to the first two (section
3), so the properties about statements are stated without them. A `Parse` refused because its name is
taken is not drift, as the proxy is there to prevent it, unless the backend has drifted
before: then the name may be what the earlier refusal left behind, and the client whose
`Parse` it was has drifted too.

## 3. Runs

Each property of a run has in `PROJECT.json` a mutated definition with which TLC finds
it violated. `Inv` is in each module the conjunction of its named state invariants (`ProxyInv` in `Proxy`).

| Run | Instance | Shows |
|---|---|---|
| `Permits` | 3 holders, limit 2, ceiling 3 | `Conservation`, `NoTokenDropped` |
| `CoreResize` | 2 callers, 2 resizers between 1 and 2 | `Inv`: types, one owner per connection, exact count, consistent `Stat`, ceiling and permits agree; `ImplementsPermits` |
| `CoreClose` | 2 callers, limit 1, 2 buckets, warm-up, reaper, evictor, Close, fairness | `Inv`, here with the ceiling on connections and the reason for spinning; `ClosedIsEmpty`; `ImplementsPermits`; `CloseReturns`, `AcquireEndsWhileOpen` |
| `ConnLife` | 1 caller, 2 connections, health checks, warm-up, time to 2, fairness | `Inv`: types, a dead connection is counted as unhealthy; `NoEarlyExpiry`, `OnlyFitIsReturned`, `StaleIsReaped` |
| `Session` | both vendors, 1 connection, 2 checkouts, 2 `Tx` each, Close, fairness | `Inv`: types, one holder, transactions are recorded; `NextCallerClean`, `OwnTransaction`, `ReleaseEnds` |
| `PgStream` | two interleaved transactions, channel of 1, two restarts, fairness | `Inv`: types, order of the positions, order of the end of a stream; `AtLeastOnce`, `CloseEnds` |
| `PgSubscriber` | 2 callers, 2 tables, 2 streams, failing and lost statements, fairness | `Inv`: types, one replication connection, nothing open after Close; `BeginsWhereAsked`, `SyncedIsPublished`, `CloseReturns` |
| `MySQLStream` | transactions, DDL and a rotation, 2 tables, purge, Close, one failure, fairness | `Inv`: types, transaction identity, order of the end; `AtLeastOnce`, `PositionIsServed`, `Delivered` |
| `MSSQLStream` | 2 tables, cleanup, one management call, one failure, Close, fairness | `Inv`: types, commit order, stream ends before its connection; `AtLeastOnce`, `ResumeIsRetained`, `Delivered` |
| `Proxy` | 2 clients, 1 backend, 2 names and a limit of 1, 3 messages, errors, a death, cancels, Close | `ProxyInv`: types, statement sets agree with the server, completions settle, no parked relay; `UnitsAnswered`, `ReadyGoesHome`, `RunsOwnUnlessDrift`, `CancelNamesHolder` |
| `ProxyPipeline` | 2 clients, 1 backend, 1 name, 3 messages, nothing fails | a **violation** of `RepliesGoHome`: see below |
| `Engine` | 2 names, 1 pool, 2 subscribers, 2 callers of Close, fairness | `Accounted`, `SameResult`, `CloseReturns` |

### Claims of the repository that fail

The modules state these too. The first has a run of its own, `ProxyPipeline`; each of the
others shows in a small instance when its name is put in a configuration.

* `Proxy!RepliesGoHome`: `session.go:72-74` of the proxy says that a backend goes back to the pool
  only when `pending` reaches zero, "so a pipelined client is fully answered before its backend is
  handed on". `pending` counts what a ReadyForQuery answers. A client that sends Sync and,
  before its ReadyForQuery, the `Parse` of its next batch has one message on the backend that is
  not counted: `completeUnit` (614) releases the backend with the `Parse` unanswered, and its
  ParseComplete goes to the next client. For what is counted the comment is right:
  `UnitsAnswered` and `ReadyGoesHome`, with any pipelining, in the run `Proxy` and proved.

* `Core!AcquireEnds` (`PoliteSpec`, 2 callers, limit 1, Close): `core.go:232` says Acquire
  blocks "until one is available, the context is cancelled, or the pool is closed". A call
  that passed its closed check parks after Close has drained the permits, and nothing
  wakes it but its context.
* `Core!NothingIdleAfterClose` with a resizer growing 1 to 2 during Close: the drain is fed by
  tokens that stand for nobody, and a release in progress puts its connection into an
  emptied bucket (`core.go:546-557`).
* `Core!YieldJustified` with a resizer (2 callers, limit 2, target 1) and
  `Permits!NoGrantAboveLimit` (2 holders): a release between its two steps races a shrink, a
  permit is granted above the new limit while debt is unpaid, and `take` spins until a
  connection comes back.
* `Core!NoIdleSurplus` (the same instance): two releases that read the old ceiling push
  after the trim, and the quiet pool stays above its ceiling (`core.go:199`).
* `ConnLife!ReasonIsTheCause`: `whyUnusable` on release applies the idle bound to the
  `idleSince` of before the checkout, so a failed reset after a long checkout is counted as
  expired.
* `ConnLife!ClockFresh`: the goroutine that refreshes the clock also dials, closes and waits for
  permits.
  `NoEarlyExpiry` therefore allows for as much as the clock was behind.
* `core.go:502` has the reaper keep a quiet pool from holding on to dead connections. While the
  warm-up of the same goroutine is queued for a permit (`core.go:526`) behind callers that
  never release, nothing is reaped: the `[]Parked` of `ConnLife!StaleIsReaped`.
* `ConnLife!NeverPooledUnready` with `MinConns` 1: the warm-up does not ask whether what it
  pools is ready.
* `PgStream!NothingSkipped` with the log `WideRow` (`WalEnd` 8, `Keepalives` {4, 8}): a message
  longer than the rest of its transaction's log; acknowledging it confirms changes not
  processed (`event_stream.go:226`). With `MultiInsert`: two changes with one end make
  `lastPushed = flushed` while the second is being processed, and a keepalive confirms it.
  With `Interleaved` and `Keepalives` {5, 10, 12}: a keepalive at exactly an event's end does
  the same. `inexact` is set when an event with such an end is pushed, and `AtLeastOnce`
  is `NothingSkipped` until then.
* `PgStream!FinishedIsNotReplayed`: `event_stream.go:116` says that "work the consumer already
  finished is not replayed". A message that cannot be parsed (201, 221, 230), or a Close from
  another goroutine, makes the reader send its last status and leave while the consumer works
  through the channel; what it acknowledges after that is never reported. What does hold is
  `FinishedIsConfirmed`, about the moment the reader leaves its loop.
* `PgStream!CatchesUp` with the log `Plain` (`WalEnd` 10, `Keepalives` {8, 10}): a keepalive
  inside a transaction puts `flushed` above its changes, and the position stops following the
  server, although `src/README.md:463` says a quiet publication does not pin WAL.
* `PgSubscriber`: after a lost answer of `RemoveTables` or a `DropPublication` the local list
  and the publication differ (`subscriber.go:236`; the `synced` condition of
  `SyncedIsPublished`); a retry of `AddTables` after a lost answer fails until `SyncTables`.
  A `Config.StartLSN` behind the slot is silently ignored.
* `MySQLStream`: the GTID of a DDL statement is never folded into the position, so a
  caught-up position is refused once that part of the log has expired. `AddTables` on an
  empty filter narrows it from everything, `RemoveTables` of the last table widens it to
  everything (in SQL Server as well).
* `MSSQLStream`: adding a table makes an older recorded position be refused as expired
  (`Refused`). And a position the cleanup job has passed is "refused rather than quietly
  started from whatever remains" (`src/vendors/mssql/cdc/subscriber.go:107-110`) only if it was
  passed before `checkRetained` asked that instance: `StartIsRetained` fails, since the cleanup
  job may run between the question and the start, and the first poll clamps its window to what
  is left. `ResumeIsRetained` excuses exactly that (`check.since`).
* `Session!NextCallerClean` names what does leak, against `driver.go:92` of the pgx pool
  ("whatever the previous caller left behind must not be observable by the next one"): a `BEGIN`
  sent through `Exec` in sqldriver ("raw"); a `Commit` that fails on an unread result and clears
  the record ("unsettled", `src/pkg/sqldriver/tx.go:39`); a sqldriver `Tx` settled after its release
  ("stale"), a `BEGIN` or a query through a pgx `Tx` kept past it ("astray", "late",
  `src/pkg/vendors/postgres/pool/tx.go:46-85`, which ask no handle); an unread result the sql
  driver does not report ("unread"); a `LISTEN` sent through `Exec`, which marks nothing ("told",
  `conn.go:54`); a blanket `UNLISTEN` in a transaction that rolls back ("hushed", `notify.go:56`).
  `OwnTransaction` names who may end a caller's transaction: a `Tx` kept past its release ("cut"),
  and the caller, by a second `Tx` on the handle or by a `COMMIT` sent as text ("own").
* `Session!ReleaseEnds` has one excuse: `conn.reset` calls `Tx.Rollback()` (`src/pkg/sqldriver/conn.go:146`),
  which neither `CleanupTimeout` nor Close can end, although `core.go:406` bounds the reset by
  the former.
* `Proxy`, from `Proxy.cfg` with the change given: `RunsOwnStatement` (`SameName`, one name, 6
  messages, no death, Close, cancel, leftover or veteran) and `UnknownIsRefused` (`SameName`, no
  veteran) (`session.go:433`, `472`: after drift, which a refused message is enough for, or with a
  name another client left behind, a client runs a statement that is not its own); `CloseReturns`
  (`Blocks`, 1 message, `ProxyFairSpec`; `proxy.go:302`: a session that registers after the wake
  loop, or a client silent in its startup, is never woken); `SessionEnds` (`Blocks`, one client, 3
  messages, `ProxyFairSpec`; `session.go:384-412`, `523`: the pump holds the lock while it waits for
  room to write, the relay waits for the lock and so reads nothing, the server waits for the
  relay and so reads nothing; a client that has gone leaves both waiting. `session.go:45-57` speaks
  of a delay by one slow body). Also: a client
  learns its cancel key before it is registered, so an immediate cancel is ignored; a
  cancellation is on its way when the lock is given up, and the server may act on it late;
  a client whose backend dies keeps its handle until it sends or leaves.

### Bounds, and why they are enough

* *Callers, limit.* Two callers over a limit of one or two make a full pool, a queue and
  a releaser racing both, with each racing pair of operations; a third multiplies the states
  by ten without a new pair. `Permits`, which has no connections, has three. `CoreClose` has
  a limit of one because `AcquireEndsWhileOpen` fails above it (below); that its invariants hold for any
  limit is proved (section 4).
* *Connections.* At least as many as the ceiling; a connection leaves `open` before it leaves
  the count, so a correct pool needs no more. `CoreClose` has one more so
  that an incorrect one shows. `Session` has one connection, which both handles share: the
  properties are about what one caller leaves to the next. Two open `Tx` per handle (`MaxTxs`) are
  one to settle and one to be surprised.
* *Buckets.* Two in `CoreClose`, where probing in different orders matters (the code has 16); one
  elsewhere, where a probe can still miss a connection returned after it.
* *Close and resize together* disagree (above); the passing runs have one or the other.
* *Time* is above every configured idle time and reaches the lifetime, so both run out.
* *Channels* of one event are both empty and full. `Interleaved` has a change of the later
  transaction before those of the earlier, and a last message that ends past its commit.
* *Proxy.* One backend forces sharing; a limit of one statement forces eviction. Three
  messages are enough for a unit of two messages against a unit of one. What takes longer
  is given at the start instead: a statement an earlier client left on the backend
  (`Leftover`) and a client that already knows a name (`Veterans`); both are states a longer
  run reaches. Sockets that hold one message (`Room`) make every write wait. A client may send
  all three messages without waiting, so that `pending` reaches three.
* *Failures, restarts, management calls* are bounded by the constants named so; one of each
  is enough to come between any two steps. After the last one the system may stop, so
  these runs do not check for deadlock; nor do those in which Close ends everything.

### Fairness

* `Core!FairSpec`: every goroutine that can run does. Dials, closes and resets are driver
  calls with timeouts (of sqldriver's `Rollback` that is assumed). The maintainer's `select` picks at random among ready cases, so its
  exit, ready for ever once Close has cancelled, is not passed over for ever (strong fairness on
  `MaintainExit`). Callers need not release; `Polite` adds that they do, as `Acquire`'s
  comment demands, and is a hypothesis of `AcquireEndsWhileOpen` only. With a limit above one
  that property fails: the compare-and-swap loop of `reserveSlot` is lock-free and not
  wait-free, and no fairness of the scheduler excludes a caller whose swap always fails.
* `ConnLife!FairSpec`: the maintainer runs, its driver calls end, its `select` passes over
  neither ticker for ever. Nothing is assumed of its wait for a permit, which lasts as long as
  callers keep them all; `StaleIsReaped` excuses a wait that never ends.
* `Session!FairSpec`: a release that has begun goes on; its statements and `ResetSession` are
  bounded by `CleanupTimeout`. Nothing is assumed of a sql driver's `Rollback`.
* `PgStream!FairSpec`: reader, consumer and a begun Close run; the server goes on sending
  keepalives and the ticker goes on firing, as often as the reader comes back to its loop.
* `PgSubscriber!FairSpec`: a caller inside an operation goes on, and a reader told to stop does.
* `MySQLStream!FairSpec`, `MSSQLStream!FairSpec`: the consumer goes on consuming and subscribes
  again, the reader reads, the source writes (the capture job runs). Nothing is assumed of
  failures, deadlines and Close; `Delivered` excuses a closed subscriber and an expired log.
* `Engine!EngineFairSpec`: a Close that has begun goes on, because each component's Close returns;
  this is `CloseReturns` of `Core` and `PgSubscriber`.
* `Proxy!ProxyFairSpec` serves `SessionEnds` (a session ends once its client has gone or Close has woken
  it), which holds for `Blocks` with two messages, no deaths, no errors and no leftovers, and fails
  with three (section 3).

## 4. Proofs

`PermitsProofs` proves, for any finite set of holders, any initial limit and any ceiling not
below it: `TypeCorrect`, `PermitsConserved`, `PermitsWithinCeiling`, `NoTokenIsDropped` (the
default branches of the two non-blocking sends are dead code), all from `PermitsInvariant`.
Assumptions: `ParkersAssumption`, `CeilingAssumption` (finitely many goroutines, natural
sizes, the first limit within the ceiling) and `HoldersAssumption` (the drainer is not a
holder).

The argument. Conservation counts tokens, goroutines with a permit and reclaimed permits.
It is not inductive by itself: that a send to a parked receiver adds *one* goroutine to
the count needs to know that the receiver is queued once, is parked, and has no grant
already; that a cancellation loses nothing, that a cancelled waiter has no grant; that an
acquisition parks only with the buffer empty, the channel's hand-off rule. `Structure` says
that, and is inductive without counting. `Books` (Conservation and WithinCeiling) is
inductive given `Structure`. WithinCeiling for a grow with debt outstanding needs that a
resize which is sending has no debt left (`LocalsOK`). `NoTokenDropped` follows: the permit
about to be sent is itself counted, so there is a free place in the buffer.

`FacadeProofs` proves about `Engine`, for any names, components and callers of Close: `EngineTypeCorrect`,
`NothingForgotten` (`Accounted`), `FailureIsContained` (`AllClosed`), `PoolsCloseLast`
(`SubscribersFirst`), `OneResult` (`SameResult`), all from `EngineInvHolds`. Assumption:
`EngineAssumption` (pools and subscribers are different things, neither is `None`).

The argument. What Close promises is about its end; the invariant follows a component
through the engine until then. `Traced`: what was ever registered is registered, on Close's
list, closed, with a `Remove`, or given up by an `Add`. `LateOnly`: after the swap only late
additions are registered, so at the end the first two cases are empty or `lost`.
`ListShrinks`: something leaves the list only by being closed, which is why a failure is
contained. `Order`: the list has no subscriber left before the first pool. `Results`: a
caller's result is given after the last error was recorded, so all are the same.

`CoreProofs` proves, for any number of callers, resizers, evictors,
connections and buckets: `EngineImplementsPermits` (`ImplementsPermits`), `BooksHold` (`Inv`, with
`EveryConnectionOwnedOnce` and `TotalIsExact` as parts) and, for a pool that is not resized,
`CloseLeavesNothing` (`ClosedIsEmpty`). Assumptions: `CoreAssumption`, those of the permit
set, and `GoroutinesAssumption` (a goroutine is one of caller, resizer, evictor, maintainer,
closer). `Resizers = {}` in the last one is needed: a resize during Close breaks it (section
3), and the run `CoreClose` has none either.

The argument goes in layers, each inductive given the ones before.
* `Control`: at which point a goroutine stands and what it then has in hand. `StepsTo` sorts
  the 40-odd steps of `Core` into the eight things a step can do to connections and slots (keep
  all as it is, reserve or free a slot, dial, close, pop, sweep, push); the layers about
  ownership and counts have one case per kind and not one per step.
* The refinement needs only `Control`: each engine step is one of `Permits` or does not touch
  the permit set. `PermitBooks` is then what `PermitsProofs` proves, read through the mapping.
* `Ownership`: buckets, hands and lists of victims share out the open connections. `OneOwner`
  counts places and is not inductive; disjointness is.
* `Counts`: `totalConns` and `checkedOut` are the sizes of those sets, and a count that was
  loaded earlier is still a possible total. From it and `PermitBooks` the ceilings follow.
* `Locking`: ceiling and permit limit differ only inside `resizeMu`. `Fixed`: without
  resizers a compare-and-swap that succeeds compared a current count, so the total is never above
  the ceiling.
* `Closing`: the maintainer has exited before the drain; what the drain still wants and what
  it has add up to the limit; when the sweep starts no caller is between `release`'s look at
  `closed` and its push, because such a caller has a permit the drain would be missing; so
  a swept bucket stays empty.

`ConnectionProofs` proves about `ConnLife`: `LifeIsSound` (`Inv`), `NothingExpiresEarly` (`NoEarlyExpiry`) and the
action property `OnlyFitGoesBack` (`OnlyFitIsReturned`), from `LifeInvHolds`. Assumption:
`ConnLifeAssumption`. The argument: `Clocks` (no time the pool works with is ahead of the real
one, and a connection became idle at its stamp plus what the cached time was behind) bounds
the error of a judgement; `Judged` (a finding stands only while its goroutine is throwing the
connection away) is why none is judged twice and why the reason recorded is about this
stay in the pool; `Gate` carries the answers `recyclable` got to the push several steps later.

`FacadeProofs` proves about `Session`: `SessionIsSound` (`Inv`), `NextCallerFindsNothing` (`NextCallerClean`) and
`TransactionIsItsOwners` (`OwnTransaction`) for both vendors, any connections and any number of
checkouts. Assumption: `SessionAssumption`. `Links` makes live handles and connections that are
out correspond, so a `Tx` or `Rows` in use reaches its own connection; `Records` says how
much each vendor knows of the server's state at each stage of a release (`SqlKnows`,
`PgKnows`), which is what makes "clean" at the push a consequence of the gate's questions;
`Owners` says that an owner's transaction is open unless the connection died, a `Tx` kept
past its release cut it, or the owner ended it by other means. What a text sent through `Exec`
does is one lemma (`SaidRecord`) for all who send one.

`PgStreamProofs` proves `StreamIsSound` (`Inv`) and `DeliveryIsAtLeastOnce` (`AtLeastOnce`), for any
log and buffer. Assumption: `PgStreamAssumption` (commits ascend, a change is before its
commit). `AtLeastOnce` speaks of the server's position only. The invariant follows an event to
it: `InOrder` and `NothingLost` (what the cursor has passed is processed or, in the log's
order, in the hands of reader, channel and consumer), `NewestPushed` and `FlushedIsEarned`
(what the two counters point at), hence that `catchUp`'s test `lastPushed = flushed` means
nothing is on its way; `Through(flushed)` and so `Through(confirmed)`. Where exactness enters:
the event in the consumer's hand has an end that is no other's, no keepalive's and not past
its commit, because it would have been flagged when it was pushed (`Marked`). Section 3 has
a counterexample for each part of `Exact`.

`PgSubscriberProofs` proves `SubscriberIsSound` (`Inv`), `ListsAgree` (`SyncedIsPublished`) and,
for `StartLSN = 0`, `StreamsBeginWhereAsked` (`BeginsWhereAsked`); the hypothesis is needed because
`Config.StartLSN` is not compared with the slot (section 3), and the run has it too.
Assumption: `PgSubscriberAssumption`. `Locked`: what `SubscribeFrom` checked is so while it has
the lock. `OneStream`: connections belong to the one active stream the fields name. `OneCloser`:
one caller is past a stream's once. `ClosesAll`: Close has taken the only active stream,
and none starts after. `Resumable`: the slot does not move between `checkResumable` and the
start. `SyncedIsPublished` is inductive with the types.

`MySQLStreamProofs` proves `DeliveryIsAtLeastOnce` (`AtLeastOnce`), `PositionsAreServed`
(`PositionIsServed`) and `StreamIsSound` (`Inv`) for every log, whatever its mixture of
transactions, DDL and rotations, every buffer and every number of failures, with GTIDs and
with file positions, from `StreamInvHolds`. Assumption: `MySQLStreamAssumption` (the log is a
sequence of such elements and not empty). `AtLeastOnce` speaks of the recorded position
only; the invariant follows a row to it. `Cursor`: where the reader stands and what the
tracker may know there, so that `resume` leaves out nothing at or after the element being
read, and the file name is the one that element is in: without the second half a commit
after a rotation would not be known to give a position that exists. `Flow`: hand, channel
and the row being pushed are in the order of the log with no gap before them. `Starts`: a
position recorded from the hand therefore leaves out settled rows only, and a stream that
starts there begins at the right element. `Identity`: a delivered transaction's position
does not cover it and every later one's does, which makes the two identify each other.
`Ending`: the order in which once, reader and syncer go away.

`MSSQLStreamProofs` proves `DeliveryIsAtLeastOnce` (`AtLeastOnce`), `StreamIsSound` (`Inv`) and the
action property `ResumesAreRetained` (`ResumeIsRetained`, by `Checking`: of the instances asked,
the position has lost only what was cleaned up since), for every history, set of tables,
buffer and number of failures, from `StreamInvHolds`. Assumption: `MSSQLStreamAssumption`
(finitely many tables, the log a sequence of transactions over them). `Retention`: a
captured row is in its change table or accounted for, none there is older than its
instance's minimum LSN, and all that was cleaned up is; hence `checkRetained`'s comparison means
what it should, and an instance with no minimum has no row to miss. `Coverage`: before the
window of a poll every row is settled or on its way, in it a row may also be in the batch or
in an instance still to be read; so moving the window one past its end forgets nothing,
although capture, cleanup and table management moved between the queries (`Reading` carries a
clamped window from an instance's first query to its second). `Order` and
`Flow`: what was sent ascends, the batch is above it, what is on its way is its end. A row
behind the one in hand is thus settled (`BehindHand`), which is `Starts` after a recording.

`ConnectionProofs` proves about `Proxy`, for any clients, pipelining or not, any backends, names,
limit, number of messages and deaths, whatever the server refuses: `BackendsAreAnswered`
(`UnitsAnswered`), `ReadiesAreOwn` (`ReadyGoesHome`), `CancelsHold` (`CancelNamesHolder`),
`StatementsAreOwn` (`RunsOwnUnlessDrift`), `PreparedHolds` (`PreparedAgrees`), `RelaysEnd`
(`NeverParked`), `ProxyTypes`, and `ProxyInvHolds` (`ProxyInv`), in which `ExpectSettles` excuses drift,
pipelining included. Assumption: `ProxyAssumption`.

The argument. `Holding` has a part for each session, for each connection, and for each pair,
so that a step answers for one of each (`StepKeeps`). Holder and owner are the same relation
read from both ends; that the channel holds exactly the backend attached, and that a
cancellation has the lock, gives the first group. Two ideas carry the rest.
* `Runs`: the messages on the wire take the statements the server has to those the proxy
  believes it has, each finding its name free (a `Parse`) or the statement its client means (a
  `Bind` of a known name). `PreparedAgrees` says this of an empty wire only and is not
  inductive. What `reconcile` does at the end of the wire, with what it replays and
  closes, extends such a run (`ReconcileIs`, for each of its cases and whatever is evicted);
  what the server does at its head shortens it.
* `Settled`: the completions a session expects are a subsequence of the answers still to
  come, and as many of those were injected as are expected and owed. That the relay matches
  the *first* answer of the expected kind, which may be the client's own, keeps both: this is
  `SettledSwallow`, and why `owed` counts in both directions. Between transactions nothing is to come, so
  both are zero (`ExpectSettles`).
* The parts named `Unit` say that one unit is open at a time while nobody has pipelined
  (`Spared`: some client has not drifted): what ReadyForQuery answers is last on the wire, so the ReadyForQuery that releases a
  backend is the last thing it had to say. `ExpectSettles` rests on them.
* `Counted`, inductive given `Holding`, needs no such condition. The units a connection has yet to
  answer (`Unanswered`: the Queries and Syncs on the wire and the ReadyForQuerys among the replies,
  counted by `Tally`) are its owner's, and at most as many as the session has `pending`; if the last
  ReadyForQuery on its way says idle, the server is outside a block (`LastReady`). The
  one that brings `pending` to zero is therefore the last, and the idle it reports is so when the
  backend is handed on. `pending` bounds the units and does not equal them, since a backend that
  dies takes its units along. What is not counted may stay behind, which is the violation above.

The proof once showed an error of the model: `Settled` was lost at a `Parse` refused on a
backend that had drifted before, for which the model did not record that the client had
drifted too. TLC finds `ExpectSettles` violated by it with five messages, out of reach of the
run's three; `Drifts` now records it.

Only model-checked: all liveness properties, which are out of the prover's reach (fairness
and ENABLED).

## 5. Not modelled

* Decoders, identifier quoting and SQL text, value conversion: formatting, no state.
* Configuration: pure functions of one record. `Validate` compares `MinConns` with `MaxConns`
  before the default is filled in (`config.go:113`), so `MinConns` can exceed the default;
  the warm-up then stops at the limit.
* `Stat`'s cumulative counters, logging, hooks: written and never read.
* The factory's registry of constructors: filled by `init` functions, then only read.
* Batches, `COPY`, `WaitForNotification`: each occupies its connection as a query does.
* SCRAM, the user list and the encoding of messages in the proxy; its TLS.
* ClickHouse: a thin adapter to the `database/sql` pool.

## 6. Plan

Done: the modules above, and the proofs of section 4, which state every safety property the
runs check. Left: the vendor sessions and the factory, which are modelled in part
(`PROJECT.json`), and the claims of section 3, to be stated again when the code changes.
