------------------------------ MODULE ConnLife ------------------------------
(***************************************************************************)
(* What module Core leaves to chance: why a connection is reused or thrown *)
(* away.  Time, the cached clock of clock.go, the two timestamps and the   *)
(* bounds of idle_conn.go, the verdicts of the driver (Dead, Ready,        *)
(* NeedsCleanup, Recyclable) and the reasons of discard.go.                *)
(*                                                                         *)
(* Permits, buckets and counts are module Core's: here the idle            *)
(* connections are a set, a probe may miss any of them (the code allows    *)
(* it), as many connections may exist as Conns has members, and the        *)
(* maintainer may have to wait for a permit while callers have theirs.     *)
(***************************************************************************)
EXTENDS Integers, FiniteSets

CONSTANTS
  Callers,      \* goroutines that use the pool
  Maintainer,   \* the goroutine that runs maintain
  Conns,        \* connections, and the ceiling on how many there are
  MinConns,     \* Config.MinConns
  HealthChecks, \* whether Config.HealthCheckPeriod is positive
  MaxConnLifetime, MaxConnIdleTime,   \* 0: disabled (negative in the code)
  NeedsSetup,   \* whether the driver is a ReadinessChecker
  Resolution,   \* clockResolution
  MaxTime       \* bound: the clock stops here

ASSUME ConnLifeAssumption ==
  /\ MinConns \in 0 .. Cardinality(Conns)
  /\ MaxConnLifetime \in Nat /\ MaxConnIdleTime \in Nat
  /\ Resolution \in Nat \ {0} /\ MaxTime \in Nat
  /\ NeedsSetup \in BOOLEAN /\ HealthChecks \in BOOLEAN
  /\ Maintainer \notin Callers
  /\ {"nowhere", "idle"} \cap (Callers \cup {Maintainer}) = {}

Procs == Callers \cup {Maintainer}

VARIABLES
  time,         \* the real time
  cached,       \* coarseClock.nanos
  at,           \* where a connection is: nowhere, idle, or with a goroutine
  life,         \* its timestamps and the driver's state
  pc,           \* where each goroutine stands
  now           \* the time popIdle or reapExpired read when it began

vars == <<time, cached, at, life, pc, now>>

\* createdAt, idleSince: the timestamps of idleConn.  dead, ready, dirty: what
\* the driver would answer.  why: the counter its closing goes to.  The rest is
\* for the properties.  freed: when it last became idle, in real time.  lag: how
\* far the cached time was behind then.  idled: how long it had been idle, when
\* last judged.  verdict: what the pool found.
Lives == [createdAt : 0 .. MaxTime, idleSince : 0 .. MaxTime, dead : BOOLEAN,
          ready : BOOLEAN, dirty : BOOLEAN,
          why : {"none", "expired", "unhealthy"},
          freed : 0 .. MaxTime, lag : 0 .. MaxTime, idled : 0 .. MaxTime,
          verdict : {"fit", "dead", "unfit", "old"}]

Places == {"nowhere", "idle"} \cup Procs

Points == {"free", "probe", "dial", "using", "check", "reset", "age", "push",
           "why", "rwhy", "close", "rclose", "warm", "permit", "loop", "sweep"}

TypeOK ==
  /\ time \in 0 .. MaxTime
  /\ cached \in 0 .. MaxTime
  /\ at \in [Conns -> Places]
  /\ life \in [Conns -> Lives]
  /\ pc \in [Procs -> Points]
  /\ now \in [Procs -> 0 .. MaxTime]

Unborn == [createdAt |-> 0, idleSince |-> 0, dead |-> FALSE, ready |-> FALSE,
           dirty |-> FALSE, why |-> "none", freed |-> 0, lag |-> 0, idled |-> 0,
           verdict |-> "fit"]

\* New seeds the clock; maintain begins with a warm-up.
Init ==
  /\ time = 0
  /\ cached = 0
  /\ at = [c \in Conns |-> "nowhere"]
  /\ life = [c \in Conns |-> Unborn]
  /\ pc = [p \in Procs |-> IF p = Maintainer THEN "warm" ELSE "free"]
  /\ now = [p \in Procs |-> 0]

Goto(p, l) == pc' = [pc EXCEPT ![p] = l]
Move(p, a, b) == pc[p] = a /\ Goto(p, b)

\* The time read is kept as long as it is needed.
ForgetNow(p) ==
  now' = [now EXCEPT ![p] = IF pc'[p] \in {"probe", "why", "close", "sweep"} THEN @ ELSE 0]

Idle == {c \in Conns : at[c] = "idle"}
Held(p) == {c \in Conns : at[c] = p}

-----------------------------------------------------------------------------
(* idle_conn.go, core.go: the judgements. *)

expired(l, t, maxLifetime, maxIdle) ==
  \/ maxLifetime > 0 /\ t - l.createdAt >= maxLifetime
  \/ maxIdle > 0 /\ t - l.idleSince >= maxIdle

\* The test of popIdle and reapExpired.
Stale(l, t) == l.dead \/ expired(l, t, MaxConnLifetime, MaxConnIdleTime)

\* Mutant: expiry is asked before death.
whyUnusableByAge(l, t) ==
  IF expired(l, t, MaxConnLifetime, MaxConnIdleTime) THEN "expired"
  ELSE "unhealthy"

whyUnusable(l, t) ==
  CASE l.dead -> "unhealthy"
    [] ~l.dead /\ expired(l, t, MaxConnLifetime, MaxConnIdleTime) -> "expired"
    [] OTHER -> "unhealthy"

\* The pool takes c out of the idle set and finds against it: the driver calls
\* it dead, or it is past a bound.
Condemn(l) == [l EXCEPT !.verdict = IF l.dead THEN "dead" ELSE "old",
                        !.idled = time - l.freed]

\* Mutant: release leaves idleSince as it was.
IdleAgainUnstamped(l) == [l EXCEPT !.freed = time, !.lag = time - cached]

\* A connection in use becomes idle, stamped with the cached time.
IdleAgain(l) == [l EXCEPT !.idleSince = cached, !.freed = time,
                          !.lag = time - cached]

\* connect reads the exact time.  Setup, if any, is the caller's to complete.
Fresh ==
  [Unborn EXCEPT !.createdAt = time, !.idleSince = time, !.freed = time,
                 !.ready = ~NeedsSetup]

-----------------------------------------------------------------------------
(* The world: time passes, connections die.  The maintainer is prompt when *)
(* it can run, so the cached time falls further behind than Resolution     *)
(* only while the driver keeps it busy, dialling or closing, and while the *)
(* warm-up waits for a permit.                                             *)

Tick ==
  /\ time < MaxTime
  /\ pc[Maintainer] \in {"dial", "close", "permit"} \/ time - cached < Resolution
  /\ time' = time + 1
  /\ UNCHANGED <<cached, at, life, pc, now>>

Die(c) ==
  /\ at[c] # "nowhere" /\ ~life[c].dead
  /\ \A p \in Procs : pc[p] = "dial" => at[c] # p
  /\ life' = [life EXCEPT ![c].dead = TRUE]
  /\ UNCHANGED <<time, cached, at, pc, now>>

-----------------------------------------------------------------------------
(* Acquire: popIdle, else connect. *)

PopStart(p) ==
  /\ Move(p, "free", "probe")
  /\ now' = [now EXCEPT ![p] = cached]
  /\ UNCHANGED <<time, cached, at, life>>

Pop(p) ==
  /\ pc[p] = "probe"
  /\ \E c \in Idle :
       /\ at' = [at EXCEPT ![c] = p]
       /\ IF Stale(life[c], now[p])
          THEN Goto(p, "why") /\ life' = [life EXCEPT ![c] = Condemn(@)]
          ELSE Goto(p, "using") /\ UNCHANGED life
  /\ ForgetNow(p)
  /\ UNCHANGED <<time, cached>>

\* Nothing found: reserve a slot and dial, or give up.
Reserve(p, a) ==
  /\ Move(p, a, "dial")
  /\ \E c \in Conns : at[c] = "nowhere" /\ at' = [at EXCEPT ![c] = p]
  /\ ForgetNow(p)
  /\ UNCHANGED <<time, cached, life>>

PopGiveUp(p) ==
  /\ Move(p, "probe", "free")
  /\ Held(p) = {}
  /\ ForgetNow(p)
  /\ UNCHANGED <<time, cached, at, life>>

DialOK(p) ==
  /\ Move(p, "dial", IF p = Maintainer THEN "warm" ELSE "using")
  /\ life' = [c \in Conns |-> IF at[c] = p THEN Fresh ELSE life[c]]
  /\ at' = [c \in Conns |->
              IF at[c] = p /\ p = Maintainer THEN "idle" ELSE at[c]]
  /\ UNCHANGED <<time, cached, now>>

\* take: the slot and the permit go back.
DialFails(p) ==
  /\ p # Maintainer /\ Move(p, "dial", "free")
  /\ at' = [c \in Conns |-> IF at[c] = p THEN "nowhere" ELSE at[c]]
  /\ UNCHANGED <<time, cached, life, now>>

\* What a caller does to the connection it holds.
Use(p) ==
  /\ pc[p] = "using"
  /\ \E c \in Held(p) : \/ life' = [life EXCEPT ![c].ready = TRUE]
                        \/ life' = [life EXCEPT ![c].dirty = TRUE]
  /\ UNCHANGED <<time, cached, at, pc, now>>

-----------------------------------------------------------------------------
(* Release: recyclable, step by step. *)

ReleaseStart(p) ==
  /\ Move(p, "using", "check")
  /\ UNCHANGED <<time, cached, at, life, now>>

NotReady(l) == NeedsSetup /\ ~l.ready

\* Dead, then Ready, then NeedsCleanup.
ReleaseCheck(p) ==
  /\ pc[p] = "check"
  /\ \E c \in Held(p) :
       \/ /\ life[c].dead \/ NotReady(life[c])
          /\ Goto(p, "rwhy")
          /\ life' = [life EXCEPT ![c].verdict = IF life[c].dead
                                                 THEN "dead" ELSE "unfit"]
       \/ /\ ~life[c].dead /\ ~NotReady(life[c])
          /\ Goto(p, IF life[c].dirty THEN "reset" ELSE "age")
          /\ UNCHANGED life
  /\ UNCHANGED <<time, cached, at, now>>

\* Mutant: the answer of Recyclable is ignored.
ReleaseResetIgnored(p) ==
  /\ Move(p, "reset", "age")
  /\ \/ UNCHANGED life
     \/ \E c \in Held(p) : life' = [life EXCEPT ![c].dirty = FALSE]
  /\ UNCHANGED <<time, cached, at, now>>

\* Recyclable: the session is clean again, or its state is unknown.
ReleaseReset(p) ==
  /\ pc[p] = "reset"
  /\ \E c \in Held(p) :
       \/ Goto(p, "age") /\ life' = [life EXCEPT ![c].dirty = FALSE]
       \/ Goto(p, "rwhy") /\ life' = [life EXCEPT ![c].verdict = "unfit"]
  /\ UNCHANGED <<time, cached, at, now>>

\* Only the lifetime counts for a connection that was in use.
ReleaseAge(p) ==
  /\ pc[p] = "age"
  /\ \E c \in Held(p) :
       IF expired(life[c], cached, MaxConnLifetime, 0)
       THEN /\ Goto(p, "rwhy")
            /\ life' = [life EXCEPT ![c].verdict = "old", ![c].idled = 0]
       ELSE Goto(p, "push") /\ UNCHANGED life
  /\ UNCHANGED <<time, cached, at, now>>

ReleasePush(p) ==
  /\ Move(p, "push", "free")
  /\ \E c \in Held(p) : /\ at' = [at EXCEPT ![c] = "idle"]
                        /\ life' = [life EXCEPT ![c] = IdleAgain(@)]
  /\ UNCHANGED <<time, cached, now>>

\* Above a lowered ceiling the connection is closed instead.
ReleaseOver(p) ==
  /\ Move(p, "push", "free")
  /\ \E c \in Held(p) : /\ at' = [at EXCEPT ![c] = "nowhere"]
                        /\ life' = [life EXCEPT ![c] = Unborn]
  /\ UNCHANGED <<time, cached, now>>

-----------------------------------------------------------------------------
(* destroy *)

\* The reason is found first, with the time the probe or the sweep began at, or
\* with the time it is now when the connection is being released.
FindReason(p) ==
  /\ \/ Move(p, "why", "close")
     \/ Move(p, "rwhy", "rclose")
  /\ \E c \in Held(p) :
       LET t == IF pc[p] = "rwhy" THEN cached ELSE now[p] IN
       life' = [life EXCEPT ![c].why = whyUnusable(life[c], t)]
  /\ UNCHANGED <<time, cached, at, now>>

\* driver.Close, which may take its time, and the reason is counted.
Discard(p) ==
  /\ pc[p] \in {"close", "rclose"}
  /\ \E c \in Held(p) :
       /\ life[c].why # "none"
       /\ life' = [life EXCEPT ![c] = Unborn]
       /\ at' = [at EXCEPT ![c] = "nowhere"]
       /\ Goto(p, CASE p # Maintainer -> IF pc[p] = "close" THEN "probe" ELSE "free"
                    [] p = Maintainer /\ Held(p) # {c} -> "why"
                    [] OTHER -> "warm")
  /\ ForgetNow(p)
  /\ UNCHANGED <<time, cached>>

\* EvictIdle and trimIdle.
Evict(c) ==
  /\ at[c] = "idle"
  /\ at' = [at EXCEPT ![c] = "nowhere"]
  /\ life' = [life EXCEPT ![c] = Unborn]
  /\ UNCHANGED <<time, cached, pc, now>>

-----------------------------------------------------------------------------
(* maintain *)

WarmDone ==
  /\ Cardinality({c \in Conns : at[c] # "nowhere"}) >= MinConns
  /\ Move(Maintainer, "warm", "loop")
  /\ UNCHANGED <<time, cached, at, life, now>>

\* permits.acquire(c.bgCtx): the maintainer queues behind the callers.
WarmWait ==
  /\ Cardinality({c \in Conns : at[c] # "nowhere"}) < MinConns
  /\ Move(Maintainer, "warm", "permit")
  /\ UNCHANGED <<time, cached, at, life, now>>

\* It has the permit, and reserves a slot; or the pool has reached its ceiling,
\* which may have been lowered, meanwhile.
WarmUp == Reserve(Maintainer, "permit")
WarmFull ==
  /\ Move(Maintainer, "permit", "loop")
  /\ UNCHANGED <<time, cached, at, life, now>>

\* A dial that fails ends the round.
WarmFails ==
  /\ Move(Maintainer, "dial", "loop")
  /\ at' = [c \in Conns |-> IF at[c] = Maintainer THEN "nowhere" ELSE at[c]]
  /\ UNCHANGED <<time, cached, life, now>>

ClockUpdate ==
  /\ pc[Maintainer] = "loop"
  /\ cached' = time
  /\ UNCHANGED <<time, at, life, pc, now>>

HealthTick ==
  /\ HealthChecks
  /\ Move(Maintainer, "loop", "sweep")
  /\ now' = [now EXCEPT ![Maintainer] = cached]
  /\ UNCHANGED <<time, cached, at, life>>

\* Mutant: the reaper looks at age only.
ReapableByAge(l, t) == expired(l, t, MaxConnLifetime, MaxConnIdleTime)

Reapable(l, t) == Stale(l, t)

\* reapExpired, the buckets as one.
Reap ==
  LET taken == {c \in Idle : Reapable(life[c], now[Maintainer])} IN
  /\ Move(Maintainer, "sweep", IF taken = {} THEN "warm" ELSE "why")
  /\ at' = [c \in Conns |-> IF c \in taken THEN Maintainer ELSE at[c]]
  /\ life' = [c \in Conns |-> IF c \in taken THEN Condemn(life[c]) ELSE life[c]]
  /\ ForgetNow(Maintainer)
  /\ UNCHANGED <<time, cached>>

-----------------------------------------------------------------------------
CallerStep(p) ==
  \/ PopStart(p) \/ Pop(p) \/ Reserve(p, "probe") \/ PopGiveUp(p) \/ Use(p)
  \/ ReleaseStart(p) \/ ReleaseCheck(p) \/ ReleaseReset(p) \/ ReleaseAge(p)
  \/ ReleasePush(p) \/ ReleaseOver(p)

Background == \/ WarmDone \/ WarmWait \/ WarmUp \/ WarmFull \/ WarmFails
              \/ ClockUpdate \/ HealthTick \/ Reap

Next ==
  \/ Tick
  \/ \E c \in Conns : Die(c) \/ Evict(c)
  \/ \E p \in Callers : CallerStep(p)
  \/ Background
  \/ \E p \in Procs : DialOK(p) \/ DialFails(p) \/ FindReason(p)
                       \/ Discard(p)

Spec == Init /\ [][Next]_vars

\* The maintainer runs, its dials and closes end (both have timeouts), and its
\* select, which picks at random, passes over neither ticker for ever.  Nothing
\* is asked of the wait for a permit: it lasts as long as callers keep them all.
FairSpec ==
  /\ Spec
  /\ WF_vars(WarmDone \/ WarmWait \/ Reap)
  /\ WF_vars(DialOK(Maintainer) \/ WarmFails)
  /\ WF_vars(FindReason(Maintainer) \/ Discard(Maintainer))
  /\ SF_vars(ClockUpdate) /\ SF_vars(HealthTick)

-----------------------------------------------------------------------------
\* The release gate (recyclable, core.go:390; driver.go:51): what a caller puts
\* back is ready and clean, though it may have given up in the middle of the setup
\* or left a session behind, and both were asked for steps earlier.
OnlyFitIsReturned ==
  [][\A c \in Conns : at[c] \in Callers /\ at'[c] = "idle" =>
        /\ NeedsSetup => life[c].ready
        /\ ~life[c].dirty]_vars

\* "A connection that is both dead and past its lifetime is a connection that
\* died" (core.go:424): found dead, it is never counted as expired, on any of the
\* paths, though the reason is worked out later than the finding.
DeadIsUnhealthy ==
  \A c \in Conns : life[c].why = "expired" => life[c].verdict # "dead"

\* A connection is thrown away for age only if it has really lived out its
\* lifetime, or has really been idle for MaxConnIdleTime, short of what the cached
\* time was behind when it was stamped; time spent in use does not count as idle
\* (core.go:385, 415), and a probe's or a sweep's older time only helps it.
NoEarlyExpiry ==
  \A c \in Conns : at[c] # "nowhere" /\ life[c].verdict = "old" =>
    \/ MaxConnLifetime > 0 /\ time - life[c].createdAt >= MaxConnLifetime
    \/ MaxConnIdleTime > 0 /\ life[c].idled + life[c].lag >= MaxConnIdleTime

\* Types; and what is found dead is counted as unhealthy (core.go:424).
Inv == TypeOK /\ DeadIsUnhealthy

\* The warm-up is queued for a permit (core.go:526).
Parked == pc[Maintainer] = "permit"

\* reapExpired: a quiet pool does not keep dead or outlived connections.  Each
\* leaves the idle set, whoever takes it, unless the goroutine that reaps waits
\* for ever behind callers that never give a permit back (core.go:526).
StaleIsReaped ==
  \A c \in Conns :
    []( at[c] = "idle" /\ Stale(life[c], time)
          => <>(at[c] # "idle" \/ []Parked) )

-----------------------------------------------------------------------------
(* What comments say and the code does not do; README.md, 3, tells how each *)
(* fails.                                                                   *)

\* "The pool destroys rather than pools a connection that never became ready"
\* (driver.go:76).
NeverPooledUnready == NeedsSetup => \A c \in Idle : life[c].ready

\* discardUnhealthy is "dead, never ready, or failed its reset" (discard.go:18),
\* and discardExpired a bound being reached: what was thrown away because it was
\* not ready or not reset is not counted as expired.
ReasonIsTheCause ==
  \A c \in Conns : life[c].why = "expired" => life[c].verdict = "old"

\* clock.go:38: "the cached time, at most clockResolution stale".
ClockFresh == time - cached <= Resolution
=============================================================================
