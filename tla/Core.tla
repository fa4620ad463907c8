-------------------------------- MODULE Core --------------------------------
(***************************************************************************)
(* The pooling engine of pkg/pooling/core.go, with the idle shards of      *)
(* shard.go and the permit set of permit.go.  Callers acquire and release, *)
(* the maintainer warms the pool up and reaps it, SetMaxConns resizes it,  *)
(* EvictIdle empties it and Close shuts it down, all at once.              *)
(*                                                                         *)
(* A step is one access to shared state: an atomic load, store or          *)
(* compare-and-swap, a channel operation, a critical section of a shard,   *)
(* or the end of a call into the driver.  Code between two such accesses   *)
(* touches only local variables and belongs to the step before it.         *)
(*                                                                         *)
(* Whether a connection is dead, expired or dirty is the driver's and the  *)
(* clock's business and is a free choice here (module ConnLife looks       *)
(* inside it).  A call that finds the pool closed at its first instruction *)
(* returns without changing anything and is not an action.                 *)
(***************************************************************************)
EXTENDS PermitSet

CONSTANTS
  Callers,      \* goroutines that use the pool
  Maintainer,   \* the goroutine that runs maintain
  Resizers,     \* goroutines that call SetMaxConns
  Evictors,     \* goroutines that call EvictIdle
  Closer,       \* the goroutine that calls Close
  MayClose,     \* whether Close is ever called
  Conns,        \* connections
  NoConn,       \* no connection
  Nobody,       \* no goroutine
  ShardCount,   \* idle buckets (16 in the code)
  MinConns,     \* Config.MinConns
  HealthChecks, \* whether Config.HealthCheckPeriod is positive
  Targets       \* the sizes SetMaxConns is called with

ASSUME CoreAssumption ==
  /\ Parkers = Callers \cup {Maintainer, Closer}
  /\ ShardCount \in Nat \ {0}
  /\ MinConns \in Nat /\ MinConns <= InitLimit
  /\ Targets \subseteq MinConns .. Ceiling
  /\ MayClose \in BOOLEAN /\ HealthChecks \in BOOLEAN
  /\ NoConn \notin Conns

\* A goroutine does one of these things only.
ASSUME GoroutinesAssumption ==
  /\ IsFiniteSet(Resizers) /\ IsFiniteSet(Evictors) /\ Nobody \notin Resizers
  /\ Callers \cap Resizers = {} /\ Callers \cap Evictors = {}
  /\ Resizers \cap Evictors = {} /\ Maintainer # Closer
  /\ {Maintainer, Closer} \cap (Callers \cup Resizers \cup Evictors) = {}

VARIABLES
  maxConns,     \* c.maxConns, the live ceiling
  totalConns,   \* c.totalConns
  checkedOut,   \* c.checkedOut
  closed,       \* c.closed
  resizeMu,     \* who holds c.resizeMu
  shards,       \* the idle connections, most recently released last
  open,         \* connections open at the server
  reclaimed,    \* permits Close has reclaimed
  pc,           \* where each goroutine stands
  loc           \* its local variables

coreVars == <<maxConns, totalConns, checkedOut, closed, resizeMu, shards, open,
              reclaimed>>
vars == <<permitVars, coreVars, pc, loc>>

Shards == 0 .. ShardCount - 1
Procs  == Callers \cup Resizers \cup Evictors \cup {Maintainer, Closer}

\* conn: the connection in hand.  victims: connections on their way to be
\* closed, and ret where to go on afterwards.  seen: a count loaded earlier.
\* shard, left: a scan's next bucket and how many it has still to visit.
\* want: SetMaxConns' argument, or what Close's drain has still to reclaim.
NoLocals == [conn |-> NoConn, victims |-> {}, ret |-> "none", seen |-> 0,
             shard |-> 0, left |-> 0, want |-> 0]

CallerPoints == {"free", "permit", "parked", "recheck", "probe", "load",
                 "compare", "cas", "dial", "full", "taken", "using", "rclosed",
                 "rfit", "rover", "rpush", "destroy", "uncount", "giveback",
                 "send"}
MaintainerPoints == {"warm", "wclosed", "wpermit", "parked", "load", "compare",
                     "cas", "dial", "push", "giveback", "send", "wait", "sweep",
                     "destroy", "uncount", "exited"}
ResizerPoints == {"rest", "lock", "store", "swap", "units", "trim", "probe",
                  "destroy", "uncount", "unlock"}
EvictorPoints == {"rest", "sweep", "destroy", "uncount"}
CloserPoints == {"open", "cancel", "join", "drain", "dparked", "sweep",
                 "destroy", "uncount", "closed"}

Locals == [conn : Conns \cup {NoConn}, victims : SUBSET Conns,
           ret : CallerPoints \cup MaintainerPoints \cup ResizerPoints \cup {"none"},
           seen : 0 .. Ceiling, shard : Shards, left : 0 .. ShardCount,
           want : 0 .. Ceiling]

TypeOK ==
  /\ PermitTypeOK
  /\ maxConns \in 0 .. Ceiling
  /\ totalConns \in 0 .. Ceiling
  /\ checkedOut \in 0 .. Ceiling
  /\ closed \in BOOLEAN
  /\ resizeMu \in Resizers \cup {Nobody}
  /\ shards \in [Shards -> Seq(Conns)]
  /\ open \subseteq Conns
  /\ reclaimed \in 0 .. Ceiling
  /\ pc \in [Procs -> CallerPoints \cup MaintainerPoints \cup ResizerPoints
                       \cup EvictorPoints \cup CloserPoints]
  /\ loc \in [Procs -> Locals]

\* New: nothing dialled, maintain started.
Init ==
  /\ PermitInit
  /\ maxConns = InitLimit
  /\ totalConns = 0
  /\ checkedOut = 0
  /\ closed = FALSE
  /\ resizeMu = Nobody
  /\ shards = [s \in Shards |-> << >>]
  /\ open = {}
  /\ reclaimed = 0
  /\ pc = [p \in Procs |-> CASE p \in Callers     -> "free"
                             [] p = Maintainer    -> "warm"
                             [] p = Closer        -> "open"
                             [] OTHER             -> "rest"]
  /\ loc = [p \in Procs |-> NoLocals]

Goto(p, l)   == pc' = [pc EXCEPT ![p] = l]
Move(p, a, b) == pc[p] = a /\ Goto(p, b)

settings == <<limit, debt, resizeAt, resizeLeft>>

-----------------------------------------------------------------------------
(* Parts shared by several operations. *)

\* releaseSlot.
ReleaseSlot == totalConns' = totalConns - 1

\* destroy: driver.Close first, then the count.
DestroyClose(p) ==
  /\ Move(p, "destroy", "uncount")
  /\ \E c \in loc[p].victims :
        /\ open' = open \ {c}
        /\ loc' = [loc EXCEPT ![p].victims = @ \ {c}]
  /\ UNCHANGED <<permitVars, maxConns, totalConns, checkedOut, closed, resizeMu,
                 shards, reclaimed>>

DestroyCount(p) ==
  /\ Move(p, "uncount", IF loc[p].victims = {} THEN loc[p].ret ELSE "destroy")
  /\ ReleaseSlot
  /\ UNCHANGED <<permitVars, maxConns, checkedOut, closed, resizeMu, shards,
                 open, reclaimed, loc>>

\* The connection in hand goes to destroy, and the goroutine on to r.
Doom(p, c, r) ==
  /\ Goto(p, "destroy")
  /\ loc' = [loc EXCEPT ![p].victims = {c}, ![p].conn = NoConn, ![p].ret = r]

\* popIdle, one bucket at a time from a random one.
ProbeFrom(p, s) ==
  /\ Goto(p, "probe")
  /\ loc' = [loc EXCEPT ![p].shard = s, ![p].left = ShardCount, ![p].seen = 0]

\* pop: the most recently released connection leaves its bucket.
Pop(s) == shards' = [shards EXCEPT ![s] = SubSeq(@, 1, Len(@) - 1)]

ProbePop(p) ==
  LET s == loc[p].shard
      n == Len(shards[s])
      c == shards[s][n]
  IN  /\ pc[p] = "probe" /\ n > 0
      /\ Pop(s)
      /\ \/ Doom(p, c, "probe")               \* dead or expired: keep looking
         \/ p \in Resizers /\ Doom(p, c, "trim")
         \/ /\ p \in Callers
            /\ Goto(p, "taken")
            /\ loc' = [loc EXCEPT ![p].conn = c, ![p].left = 0]
      /\ UNCHANGED <<permitVars, maxConns, totalConns, checkedOut, closed,
                     resizeMu, open, reclaimed>>

ProbeMiss(p) ==
  /\ pc[p] = "probe" /\ shards[loc[p].shard] = << >>
  /\ loc' = [loc EXCEPT ![p].left = @ - 1, ![p].shard = (@ + 1) % ShardCount]
  /\ Goto(p, CASE loc[p].left > 1   -> "probe"
               [] p \in Resizers    -> "unlock"
               [] OTHER             -> "load")
  /\ UNCHANGED <<permitVars, coreVars>>

\* reserveSlot: load the total, compare with the ceiling, compare-and-swap.
ReserveLoad(p) ==
  /\ Move(p, "load", "compare")
  /\ loc' = [loc EXCEPT ![p].seen = totalConns]
  /\ UNCHANGED <<permitVars, coreVars>>

\* Mutant: off by one.
AtMost(n, m) == n <= m

Below(n, m) == n < m

ReserveCompare(p) ==
  /\ pc[p] = "compare"
  /\ IF Below(loc[p].seen, maxConns) THEN Goto(p, "cas") /\ UNCHANGED loc
     ELSE /\ Goto(p, IF p = Maintainer THEN "giveback" ELSE "full")
          /\ loc' = [loc EXCEPT ![p].seen = 0, ![p].ret = "wait"]
  /\ UNCHANGED <<permitVars, coreVars>>

ReserveSwap(p) ==
  /\ pc[p] = "cas"
  /\ IF totalConns = loc[p].seen
     THEN totalConns' = totalConns + 1 /\ Goto(p, "dial")
     ELSE UNCHANGED totalConns /\ Goto(p, "load")
  /\ loc' = [loc EXCEPT ![p].seen = 0]
  /\ UNCHANGED <<permitVars, maxConns, checkedOut, closed, resizeMu, shards,
                 open, reclaimed>>

\* Where a goroutine goes on after releasing its permit.
AfterGive(p) == IF p \in Callers THEN "free" ELSE loc[p].ret

\* connect: a new connection, or an error and the slot is given back.
DialOK(p) ==
  /\ Move(p, "dial", IF p = Maintainer THEN "push" ELSE "taken")
  /\ \E c \in Conns \ open, s \in Shards :
        /\ open' = open \cup {c}
        /\ loc' = [loc EXCEPT ![p].conn = c, ![p].shard = s]
  /\ UNCHANGED <<permitVars, maxConns, totalConns, checkedOut, closed, resizeMu,
                 shards, reclaimed>>

\* Mutant: the error path of take returns without releasing the permit.
DialFailsKeepingPermit(p) ==
  /\ Move(p, "dial", AfterGive(p))
  /\ ReleaseSlot
  /\ loc' = [loc EXCEPT ![p] = NoLocals]
  /\ UNCHANGED <<permitVars, maxConns, checkedOut, closed, resizeMu, shards,
                 open, reclaimed>>

DialFails(p) ==
  /\ Move(p, "dial", "giveback")
  /\ ReleaseSlot
  /\ loc' = [loc EXCEPT ![p].ret = "wait"]
  /\ UNCHANGED <<permitVars, maxConns, checkedOut, closed, resizeMu, shards,
                 open, reclaimed>>

\* permits.release.
GiveRepay(p) ==
  /\ Move(p, "giveback", AfterGive(p))
  /\ Repay
  /\ loc' = [loc EXCEPT ![p] = NoLocals]
  /\ UNCHANGED <<channelVars, limit, resizeAt, resizeLeft, coreVars>>

GiveNoDebt(p) ==
  /\ Move(p, "giveback", "send")
  /\ NoDebt
  /\ UNCHANGED <<channelVars, limit, resizeAt, resizeLeft, coreVars, loc>>

GiveSend(p) ==
  /\ Move(p, "send", AfterGive(p))
  /\ Send
  /\ loc' = [loc EXCEPT ![p] = NoLocals]
  /\ UNCHANGED <<settings, coreVars>>

\* shard.push, then the permit.
Push(p, at, r) ==
  /\ Move(p, at, "giveback")
  /\ shards' = [shards EXCEPT ![loc[p].shard] = Append(@, loc[p].conn)]
  /\ loc' = [loc EXCEPT ![p] = [NoLocals EXCEPT !.ret = r]]
  /\ UNCHANGED <<permitVars, maxConns, totalConns, checkedOut, closed, resizeMu,
                 open, reclaimed>>

\* takeIf or drain of one bucket after the other, closing what each yields.
SweepFrom(p) ==
  /\ Goto(p, "sweep")
  /\ loc' = [loc EXCEPT ![p].shard = 0, ![p].left = ShardCount]

InShard(s) == {shards[s][i] : i \in 1 .. Len(shards[s])}

\* What a bucket may look like without some of its connections: the others, in the
\* order they were in.
Kept(q) ==
  UNION {{[i \in 1 .. n |-> q[f[i]]] :
            f \in {g \in [1 .. n -> 1 .. Len(q)] :
                     \A i, j \in 1 .. n : i < j => g[i] < g[j]}} : n \in 0 .. Len(q)}

SweepShard(p, kept) ==
  LET s == loc[p].shard
      taken == InShard(s) \ {kept[i] : i \in 1 .. Len(kept)}
  IN
  /\ pc[p] = "sweep" /\ loc[p].left > 0
  /\ shards' = [shards EXCEPT ![s] = kept]
  /\ loc' = [loc EXCEPT ![p].victims = taken, ![p].ret = "sweep",
                        ![p].left = @ - 1, ![p].shard = (@ + 1) % ShardCount]
  /\ Goto(p, IF taken = {} THEN "sweep" ELSE "destroy")
  /\ UNCHANGED <<permitVars, maxConns, totalConns, checkedOut, closed, resizeMu,
                 open, reclaimed>>

SweepDone(p, l) ==
  /\ loc[p].left = 0
  /\ Move(p, "sweep", l)
  /\ loc' = [loc EXCEPT ![p].ret = "none"]
  /\ UNCHANGED <<permitVars, coreVars>>

-----------------------------------------------------------------------------
(* Acquire *)

AcquireStart(p) ==
  /\ ~closed
  /\ Move(p, "free", "permit")
  /\ UNCHANGED <<permitVars, coreVars, loc>>

\* acquirePermit: tryAcquire, else wait; a done context ends the wait.
AcquireTry(p) ==
  /\ Move(p, "permit", "recheck")
  /\ Receive
  /\ UNCHANGED <<settings, coreVars, loc>>

AcquireWait(p) ==
  /\ Move(p, "permit", "parked")
  /\ Park(p)
  /\ UNCHANGED <<settings, coreVars, loc>>

AcquireServed(p) ==
  /\ Move(p, "parked", "recheck")
  /\ Resume(p)
  /\ UNCHANGED <<settings, coreVars, loc>>

\* Mutant: a cancelled waiter releases a permit it never got.
AcquireCancelledReleasing(p) ==
  /\ Move(p, "parked", "giveback")
  /\ Unpark(p)
  /\ UNCHANGED <<settings, coreVars, loc>>

AcquireCancelled(p) ==
  /\ Move(p, "parked", "free")
  /\ Unpark(p)
  /\ UNCHANGED <<settings, coreVars, loc>>

\* Close may have run meanwhile; if not, take starts probing.
AcquireRecheck(p) ==
  /\ pc[p] = "recheck"
  /\ IF closed THEN Goto(p, "giveback") /\ UNCHANGED loc
               ELSE \E s \in Shards : ProbeFrom(p, s)
  /\ UNCHANGED <<permitVars, coreVars>>

\* take at the ceiling with nothing idle in sight: give up if the context is
\* done, else yield and look again.
TakeYield(p) ==
  /\ pc[p] = "full"
  /\ \/ Goto(p, "giveback") /\ UNCHANGED loc
     \/ \E s \in Shards : ProbeFrom(p, s)
  /\ UNCHANGED <<permitVars, coreVars>>

AcquireReturn(p) ==
  /\ Move(p, "taken", "using")
  /\ checkedOut' = checkedOut + 1
  /\ UNCHANGED <<permitVars, maxConns, totalConns, closed, resizeMu, shards, open,
                 reclaimed, loc>>

Acquire(p) ==
  \/ AcquireStart(p) \/ AcquireTry(p) \/ AcquireWait(p) \/ AcquireServed(p)
  \/ AcquireCancelled(p) \/ AcquireRecheck(p) \/ TakeYield(p) \/ AcquireReturn(p)

-----------------------------------------------------------------------------
(* Release *)

ReleaseStart(p) ==
  /\ Move(p, "using", "rclosed")
  /\ checkedOut' = checkedOut - 1
  /\ UNCHANGED <<permitVars, maxConns, totalConns, closed, resizeMu, shards, open,
                 reclaimed, loc>>

\* Mutant: release does not look at closed.
ReleaseBlind(p) ==
  /\ Move(p, "rclosed", "rfit")
  /\ UNCHANGED <<permitVars, coreVars, loc>>

ReleaseClosed(p) ==
  /\ pc[p] = "rclosed"
  /\ IF closed THEN Doom(p, loc[p].conn, "giveback")
               ELSE Goto(p, "rfit") /\ UNCHANGED loc
  /\ UNCHANGED <<permitVars, coreVars>>

\* recyclable says no, or yes and the total is loaded.
ReleaseFit(p) ==
  /\ pc[p] = "rfit"
  /\ \/ Doom(p, loc[p].conn, "giveback")
     \/ /\ Goto(p, "rover")
        /\ loc' = [loc EXCEPT ![p].seen = totalConns]
  /\ UNCHANGED <<permitVars, coreVars>>

\* A shrink that landed meanwhile is paid with this connection.
ReleaseOver(p) ==
  /\ pc[p] = "rover"
  /\ IF loc[p].seen > maxConns THEN Doom(p, loc[p].conn, "giveback")
     ELSE /\ Goto(p, "rpush")
          /\ loc' = [loc EXCEPT ![p].seen = 0]
  /\ UNCHANGED <<permitVars, coreVars>>

ReleasePush(p) == Push(p, "rpush", "none")

Release(p) == ReleaseStart(p) \/ ReleaseClosed(p) \/ ReleaseFit(p)
              \/ ReleaseOver(p) \/ ReleasePush(p)

-----------------------------------------------------------------------------
(* maintain: warm up, then reap and warm up on every health tick.          *)

\* bgCtx is done once Close has called bgCancel.
Cancelled == pc[Closer] \notin {"open", "cancel"}

WarmCheck ==
  /\ Move(Maintainer, "warm", IF totalConns < MinConns THEN "wclosed" ELSE "wait")
  /\ UNCHANGED <<permitVars, coreVars, loc>>

WarmClosed ==
  /\ Move(Maintainer, "wclosed", IF closed THEN "wait" ELSE "wpermit")
  /\ UNCHANGED <<permitVars, coreVars, loc>>

WarmTry ==
  /\ Move(Maintainer, "wpermit", "load")
  /\ Receive
  /\ UNCHANGED <<settings, coreVars, loc>>

WarmWait ==
  /\ Move(Maintainer, "wpermit", "parked")
  /\ Park(Maintainer)
  /\ UNCHANGED <<settings, coreVars, loc>>

WarmServed ==
  /\ Move(Maintainer, "parked", "load")
  /\ Resume(Maintainer)
  /\ UNCHANGED <<settings, coreVars, loc>>

WarmCancelled ==
  /\ Cancelled
  /\ Move(Maintainer, "parked", "wait")
  /\ Unpark(Maintainer)
  /\ UNCHANGED <<settings, coreVars, loc>>

WarmPush == Push(Maintainer, "push", "warm")

HealthTick ==
  /\ HealthChecks
  /\ pc[Maintainer] = "wait"
  /\ SweepFrom(Maintainer)
  /\ UNCHANGED <<permitVars, coreVars>>

\* reapExpired: whatever is dead or expired by now.
Reap == \E kept \in Kept(shards[loc[Maintainer].shard]) : SweepShard(Maintainer, kept)

ReapDone == SweepDone(Maintainer, "warm")

MaintainExit ==
  /\ Cancelled
  /\ Move(Maintainer, "wait", "exited")
  /\ UNCHANGED <<permitVars, coreVars, loc>>

Maintain == WarmCheck \/ WarmClosed \/ WarmTry \/ WarmWait \/ WarmServed
            \/ WarmCancelled \/ WarmPush \/ HealthTick \/ Reap \/ ReapDone
            \/ MaintainExit

-----------------------------------------------------------------------------
(* SetMaxConns *)

SetMaxConns(r, n) ==
  /\ ~closed
  /\ Move(r, "rest", "lock")
  /\ loc' = [loc EXCEPT ![r].want = n]
  /\ UNCHANGED <<permitVars, coreVars>>

\* Mutant: SetMaxConns without resizeMu.
ResizeUnlocked(r) ==
  /\ Move(r, "lock", "store")
  /\ UNCHANGED <<permitVars, coreVars, loc>>

ResizeLock(r) ==
  /\ resizeMu = Nobody
  /\ Move(r, "lock", "store")
  /\ resizeMu' = r
  /\ UNCHANGED <<permitVars, maxConns, totalConns, checkedOut, closed, shards,
                 open, reclaimed, loc>>

\* The ceiling is published before the permits move.
ResizeStore(r) ==
  /\ Move(r, "store", "swap")
  /\ maxConns' = loc[r].want
  /\ UNCHANGED <<permitVars, totalConns, checkedOut, closed, resizeMu, shards,
                 open, reclaimed, loc>>

ResizePermits(r) ==
  /\ \/ Move(r, "swap", "units") /\ ResizeSwap(loc[r].want)
     \/ pc[r] = "units" /\ ResizeStep
        /\ Goto(r, IF resizeAt' = "off" THEN "trim" ELSE "units")
  /\ UNCHANGED <<coreVars, loc>>

\* trimIdle: close idle connections while there are more than n.
Trim(r) ==
  /\ pc[r] = "trim"
  /\ IF totalConns > loc[r].want THEN \E s \in Shards : ProbeFrom(r, s)
     ELSE Goto(r, "unlock") /\ UNCHANGED loc
  /\ UNCHANGED <<permitVars, coreVars>>

ResizeUnlock(r) ==
  /\ Move(r, "unlock", "rest")
  /\ resizeMu' = Nobody
  /\ loc' = [loc EXCEPT ![r] = NoLocals]
  /\ UNCHANGED <<permitVars, maxConns, totalConns, checkedOut, closed, shards,
                 open, reclaimed>>

Resize(r) == \/ \E n \in Targets : SetMaxConns(r, n)
             \/ ResizeLock(r) \/ ResizeStore(r) \/ ResizePermits(r)
             \/ Trim(r) \/ ResizeUnlock(r)

-----------------------------------------------------------------------------
(* EvictIdle *)

EvictIdle(p) ==
  /\ ~closed
  /\ pc[p] = "rest"
  /\ SweepFrom(p)
  /\ UNCHANGED <<permitVars, coreVars>>

Evict(p) == \/ EvictIdle(p)
            \/ SweepShard(p, << >>)
            \/ SweepDone(p, "rest")

-----------------------------------------------------------------------------
(* Close; closeOnce lets one call through. *)

CloseStart ==
  /\ MayClose
  /\ Move(Closer, "open", "cancel")
  /\ closed' = TRUE
  /\ UNCHANGED <<permitVars, maxConns, totalConns, checkedOut, resizeMu, shards,
                 open, reclaimed, loc>>

CloseCancel ==
  /\ Move(Closer, "cancel", "join")
  /\ UNCHANGED <<permitVars, coreVars, loc>>

\* bgDone is closed, which lasts; then the ceiling is loaded for the drain.
CloseJoin ==
  /\ pc[Maintainer] = "exited"
  /\ Move(Closer, "join", "drain")
  /\ loc' = [loc EXCEPT ![Closer].want = maxConns]
  /\ UNCHANGED <<permitVars, coreVars>>

Reclaim(l) ==
  /\ Goto(Closer, l)
  /\ loc' = [loc EXCEPT ![Closer].want = @ - 1]
  /\ reclaimed' = reclaimed + 1
  /\ UNCHANGED <<settings, maxConns, totalConns, checkedOut, closed, resizeMu,
                 shards, open>>

DrainReceive ==
  /\ pc[Closer] = "drain" /\ loc[Closer].want > 0
  /\ Receive
  /\ Reclaim("drain")

DrainPark ==
  /\ loc[Closer].want > 0
  /\ Move(Closer, "drain", "dparked")
  /\ Park(Closer)
  /\ UNCHANGED <<settings, coreVars, loc>>

DrainServed ==
  /\ pc[Closer] = "dparked"
  /\ Resume(Closer)
  /\ Reclaim("drain")

\* The steps of release between its look at closed and its push are short of
\* closeDrainTimeout (30s): a reset is bounded by CleanupTimeout, and by bgCtx,
\* which is done.  Dials and users may take longer.
Releasing(p) == pc[p] \in {"rclosed", "rfit", "rover", "rpush"}

\* Mutant: drain waits without a deadline.
DrainNoTimeout == FALSE

DrainTimeout ==
  /\ loc[Closer].want > 0
  /\ \A p \in Callers : ~Releasing(p)
  /\ \/ pc[Closer] = "dparked" /\ Unpark(Closer)
     \/ pc[Closer] = "drain" /\ UNCHANGED channelVars
  /\ SweepFrom(Closer)
  /\ UNCHANGED <<settings, coreVars>>

DrainReturn ==
  /\ pc[Closer] = "drain" /\ loc[Closer].want = 0
  /\ SweepFrom(Closer)
  /\ UNCHANGED <<permitVars, coreVars>>

CloseSweep == \/ SweepShard(Closer, << >>)
              \/ SweepDone(Closer, "closed")

Close == CloseStart \/ CloseCancel \/ CloseJoin \/ DrainReceive \/ DrainPark
         \/ DrainServed \/ DrainTimeout \/ DrainReturn \/ CloseSweep

-----------------------------------------------------------------------------
Shared(p) ==
  \/ DestroyClose(p) \/ DestroyCount(p) \/ ProbePop(p) \/ ProbeMiss(p)
  \/ ReserveLoad(p) \/ ReserveCompare(p) \/ ReserveSwap(p)
  \/ DialOK(p) \/ DialFails(p)
  \/ GiveRepay(p) \/ GiveNoDebt(p) \/ GiveSend(p)

Next ==
  \/ \E p \in Callers : Acquire(p) \/ Release(p)
  \/ \E p \in Procs : Shared(p)
  \/ \E r \in Resizers : Resize(r)
  \/ \E p \in Evictors : Evict(p)
  \/ Maintain
  \/ Close

Spec == Init /\ [][Next]_vars

-----------------------------------------------------------------------------
(* Safety. *)

Idle == UNION {InShard(s) : s \in Shards}

\* Every place a connection is at: a position in a bucket, a goroutine's hand,
\* a goroutine's list of connections to close.
Places(c) ==
  (UNION {{<<s, i>> : i \in {j \in DOMAIN shards[s] : shards[s][j] = c}} : s \in Shards})
  \cup {<<p, "hand">> : p \in {q \in Procs : loc[q].conn = c}}
  \cup {<<p, "doomed">> : p \in {q \in Procs : c \in loc[q].victims}}

\* "It is owned by exactly one place at a time" (idle_conn.go:8): an open
\* connection is idle once, or in one goroutine's hands; a closed one nowhere.
OneOwner == \A c \in Conns : Cardinality(Places(c)) = IF c \in open THEN 1 ELSE 0

\* totalConns is exact at every instant: open connections, slots reserved for a
\* dial, and connections closed but not yet subtracted (reserveSlot, releaseSlot,
\* destroy).  So the server never sees more connections than the count says.
ExactCount ==
  totalConns = Cardinality(open)
               + Cardinality({p \in Procs : pc[p] \in {"dial", "uncount"}})

\* Without a resize, MaxConns is a ceiling on connections to the server, not only
\* on checkouts (take, core.go:259-264), even when a probe misses an idle one.
OpenWithinMax == Cardinality(open) <= maxConns

\* What Stat samples fits together at every instant: callers' connections and
\* idle ones are part of the total, and the total never passes MaxConnsLimit.
StatConsistent ==
  /\ checkedOut + Cardinality(Idle) <= totalConns
  /\ totalConns <= Ceiling

\* "The ceiling and the permit set move as one" (core.go:177): whenever no
\* SetMaxConns is inside its critical section the two agree.
CeilingsAgree == resizeMu = Nobody => maxConns = limit /\ resizeAt = "off"

\* The argument for take's yield (core.go:280-283): a caller that finds the pool
\* full holds a permit, so not every connection is in another caller's use.
YieldJustified ==
  \A p \in Callers :
     pc[p] = "full" /\ totalConns >= maxConns /\ resizeMu = Nobody
       => Cardinality({q \in Callers : pc[q] = "using"}) < totalConns

\* Close: "closes everything idle" (core.go:546), and nothing is put back in a
\* bucket that nobody will empty again.
NothingIdleAfterClose == pc[Closer] = "closed" => Idle = {}

\* If Close reclaimed every permit, nothing is checked out and what is open is
\* being closed; if it did not, a connection still out "is closed by whoever
\* eventually releases it" (core.go:548), so with the last caller gone the count
\* is back to zero.
CleanClose ==
  pc[Closer] = "closed" =>
    /\ loc[Closer].want = 0
         => checkedOut = 0 /\ open \subseteq UNION {loc[p].victims : p \in Procs}
    /\ (\A p \in Procs : pc[p] \in {"free", "permit", "parked", "rest", "exited",
                                    "closed"})
         => open = {} /\ totalConns = 0

\* Close leaves nothing behind (core.go:546-549): nothing idle that nobody will
\* empty again, and nothing open once the last caller has gone.
ClosedIsEmpty == NothingIdleAfterClose /\ CleanClose

\* The pool's books: types; every open connection in one place, counted once, and
\* what Stat samples fits together (shard.go, reserveSlot, destroy); ceiling and
\* permits agree between resizes (SetMaxConns); and in a pool that is not resized
\* MaxConns bounds the connections and take spins only with reason.
Inv ==
  /\ TypeOK /\ OneOwner /\ ExactCount /\ StatConsistent /\ CeilingsAgree
  /\ Resizers = {} => OpenWithinMax /\ YieldJustified

\* trimIdle (core.go:199): "Whatever remains is checked out. It is judged again
\* on release, which re-reads the ceiling, so no surplus survives indefinitely."
\* With nothing checked out and nobody inside an operation, no pool is above
\* its ceiling with connections idle.  It does not hold: two releases that read the
\* old ceiling push after the trim (README.md, 3).
NoIdleSurplus ==
  (/\ \A p \in Callers : pc[p] = "free"
   /\ \A r \in Resizers : pc[r] = "rest"
   /\ pc[Maintainer] = "wait")
  => (totalConns > maxConns => Idle = {})

-----------------------------------------------------------------------------
(* The engine uses its permit set as module Permits says: every step is a  *)
(* step of Permits or leaves the permit set alone.                         *)

HasPermit(p) ==
  IF p \in Callers
  THEN pc[p] \notin {"free", "permit", "parked"}
  ELSE pc[p] \in {"load", "compare", "cas", "dial", "push", "giveback", "send"}

PermitPoint(p) == CASE pc[p] = "parked" -> "parked"
                    [] pc[p] = "send"   -> "sending"
                    [] OTHER -> IF HasPermit(p) THEN "held" ELSE "idle"

DrainPoint == CASE pc[Closer] \in {"open", "cancel", "join"} -> "off"
                [] pc[Closer] = "drain"   -> "recv"
                [] pc[Closer] = "dparked" -> "parked"
                [] OTHER                  -> "done"

PermitLayer == INSTANCE Permits WITH
                 Holders   <- Callers \cup {Maintainer},
                 Drainer   <- Closer,
                 pc        <- [p \in Callers \cup {Maintainer} |-> PermitPoint(p)],
                 drainAt   <- DrainPoint,
                 drainLeft <- loc[Closer].want,
                 reclaimed <- reclaimed

\* Core implements Permits: each goroutine acquires before it takes, and gives
\* back exactly once on every path out of Acquire, Release and warmUp, errors
\* included.
ImplementsPermits == PermitLayer!Spec

-----------------------------------------------------------------------------
(* Liveness.  A goroutine that can run does; dials, closes and resets end *)
(* (each has a timeout), as does Close's drain; select eventually notices  *)
(* bgCtx.  Contexts need not be cancelled and nobody need call anything.   *)

CallerStep(p) ==
  \/ AcquireTry(p) \/ AcquireWait(p) \/ AcquireServed(p) \/ AcquireRecheck(p)
  \/ TakeYield(p) \/ AcquireReturn(p)
  \/ ReleaseClosed(p) \/ ReleaseFit(p) \/ ReleaseOver(p) \/ ReleasePush(p)
  \/ Shared(p)

ResizerStep(r) == \/ ResizeLock(r) \/ ResizeStore(r) \/ ResizePermits(r)
                  \/ Trim(r) \/ ResizeUnlock(r) \/ Shared(r)

MaintainerStep == \/ Maintain /\ (pc[Maintainer] # "wait" \/ Cancelled)
                  \/ Shared(Maintainer)

Fairness ==
  /\ \A p \in Callers  : WF_vars(CallerStep(p))
  /\ \A r \in Resizers : WF_vars(ResizerStep(r))
  /\ \A p \in Evictors : WF_vars((pc[p] # "rest" /\ Evict(p)) \/ Shared(p))
  /\ WF_vars(MaintainerStep)
  /\ SF_vars(MaintainExit)
  /\ WF_vars((pc[Closer] # "open" /\ Close) \/ Shared(Closer))

FairSpec == Spec /\ Fairness

\* Callers release what they acquire ("The caller must Release the handle").
Polite == \A p \in Callers : WF_vars(ReleaseStart(p))

PoliteSpec == FairSpec /\ Polite

\* Close "never blocks indefinitely" (core.go:548), whatever callers do with the
\* connections they hold.
CloseReturns == (pc[Closer] = "cancel") ~> (pc[Closer] = "closed")

\* Acquire blocks "until one is available, the context is cancelled, or the pool
\* is closed" (core.go:232): with callers that release, a call always ends.
AcquireEnds ==
  \A p \in Callers : (pc[p] = "permit") ~> (pc[p] \in {"using", "free"})

\* With callers that release, nobody is passed over for ever, whoever competes for
\* the permit and whatever fails: in a pool that stays open every Acquire ends.
AcquireEndsWhileOpen ==
  Polite => \A p \in Callers :
              (pc[p] = "permit") ~> (pc[p] \in {"using", "free"} \/ closed)
=============================================================================
