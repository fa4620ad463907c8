------------------------------ MODULE Permits ------------------------------
(***************************************************************************)
(* The permit set of pkg/pooling/permit.go under every client it has:      *)
(* holders that acquire, give up and release, one resize at a time, and    *)
(* the drain of Close.  What the pool needs of it: no permit is ever lost  *)
(* or invented, whatever the interleaving, and no token is ever dropped.   *)
(***************************************************************************)
EXTENDS PermitSet

CONSTANTS
  Holders,      \* goroutines that acquire and release permits
  Drainer       \* the goroutine that runs Close

ASSUME HoldersAssumption == /\ Parkers = Holders \cup {Drainer}
                            /\ Drainer \notin Holders

VARIABLES
  pc,           \* where each holder stands
  drainAt,      \* where the drain stands
  drainLeft,    \* permits drain has still to reclaim
  reclaimed     \* permits drain has reclaimed

clientVars == <<pc, drainAt, drainLeft, reclaimed>>
vars == <<permitVars, clientVars>>

Points == {"idle", "parked", "held", "sending"}

TypeOK ==
  /\ PermitTypeOK
  /\ pc \in [Holders -> Points]
  /\ drainAt \in {"off", "recv", "parked", "done"}
  /\ drainLeft \in Nat
  /\ reclaimed \in Nat

Init ==
  /\ PermitInit
  /\ pc = [p \in Holders |-> "idle"]
  /\ drainAt = "off"
  /\ drainLeft = 0
  /\ reclaimed = 0

Goto(p, l) == pc' = [pc EXCEPT ![p] = l]

settings  == <<limit, debt, resizeAt, resizeLeft>>
drainVars == <<drainAt, drainLeft, reclaimed>>

-----------------------------------------------------------------------------
(* acquire: tryAcquire, else wait. *)

TryAcquire(p) ==
  /\ pc[p] = "idle"
  /\ Receive
  /\ Goto(p, "held")
  /\ UNCHANGED <<settings, drainVars>>

Wait(p) ==
  /\ pc[p] = "idle"
  /\ Park(p)
  /\ Goto(p, "parked")
  /\ UNCHANGED <<settings, drainVars>>

WaitServed(p) ==
  /\ pc[p] = "parked"
  /\ Resume(p)
  /\ Goto(p, "held")
  /\ UNCHANGED <<settings, drainVars>>

\* ctx.Done wins: the waiter leaves without a permit.
WaitCancelled(p) ==
  /\ pc[p] = "parked"
  /\ Unpark(p)
  /\ Goto(p, "idle")
  /\ UNCHANGED <<settings, drainVars>>

-----------------------------------------------------------------------------
(* release: pay a pending shrink with the token, else send it back. *)

ReleaseRepay(p) ==
  /\ pc[p] = "held"
  /\ Repay
  /\ Goto(p, "idle")
  /\ UNCHANGED <<channelVars, limit, resizeAt, resizeLeft, drainVars>>

ReleaseNoDebt(p) ==
  /\ pc[p] = "held"
  /\ NoDebt
  /\ Goto(p, "sending")
  /\ UNCHANGED <<channelVars, limit, resizeAt, resizeLeft, drainVars>>

ReleaseSend(p) ==
  /\ pc[p] = "sending"
  /\ Send
  /\ Goto(p, "idle")
  /\ UNCHANGED <<settings, drainVars>>

-----------------------------------------------------------------------------
(* resize, called by SetMaxConns with a size it has range-checked. *)

Resize ==
  /\ \/ \E n \in 0 .. Ceiling : ResizeSwap(n)
     \/ ResizeStep
  /\ UNCHANGED clientVars

-----------------------------------------------------------------------------
(* drain(ctx, n), called once, by Close. *)

DrainStart ==
  /\ drainAt = "off"
  /\ \E n \in 0 .. Ceiling : drainLeft' = n
  /\ drainAt' = "recv"
  /\ UNCHANGED <<permitVars, pc, reclaimed>>

DrainReceive ==
  /\ drainAt = "recv" /\ drainLeft > 0
  /\ Receive
  /\ drainLeft' = drainLeft - 1
  /\ reclaimed' = reclaimed + 1
  /\ UNCHANGED <<settings, pc, drainAt>>

DrainPark ==
  /\ drainAt = "recv" /\ drainLeft > 0
  /\ Park(Drainer)
  /\ drainAt' = "parked"
  /\ UNCHANGED <<settings, pc, drainLeft, reclaimed>>

DrainServed ==
  /\ drainAt = "parked"
  /\ Resume(Drainer)
  /\ drainLeft' = drainLeft - 1
  /\ reclaimed' = reclaimed + 1
  /\ drainAt' = "recv"
  /\ UNCHANGED <<settings, pc>>

\* The 30s context is done; with a token also ready, select may pick either.
DrainTimeout ==
  /\ \/ drainAt = "parked" /\ Unpark(Drainer)
     \/ drainAt = "recv" /\ drainLeft > 0 /\ UNCHANGED channelVars
  /\ drainAt' = "done"
  /\ UNCHANGED <<settings, pc, drainLeft, reclaimed>>

DrainReturn ==
  /\ drainAt = "recv" /\ drainLeft = 0
  /\ drainAt' = "done"
  /\ UNCHANGED <<permitVars, pc, drainLeft, reclaimed>>

Drain == DrainStart \/ DrainReceive \/ DrainPark \/ DrainServed
         \/ DrainTimeout \/ DrainReturn

-----------------------------------------------------------------------------
Acquire(p) == TryAcquire(p) \/ Wait(p) \/ WaitServed(p) \/ WaitCancelled(p)
Release(p) == ReleaseRepay(p) \/ ReleaseNoDebt(p) \/ ReleaseSend(p)

Next == \/ \E p \in Holders : Acquire(p) \/ Release(p)
        \/ Resize
        \/ Drain

Spec == Init /\ [][Next]_vars

-----------------------------------------------------------------------------
(* Properties. *)

\* The goroutines that have a permit: handed one, holding it, or between the
\* two halves of release.
Outstanding == grants \cup {p \in Holders : pc[p] \in {"held", "sending"}}

\* Permits that exist, wherever they are.
Extant == tokens + Cardinality(Outstanding) + reclaimed

\* No interleaving of acquire, cancellation, the two halves of release, the
\* units of resize and drain loses or invents a permit (permit.go, all of it):
\* those that exist, plus what a resize in progress has still to add or take,
\* are the limit plus the debt.
Conservation == Extant + resizeLeft = limit + debt

\* The non-blocking sends of release and resize never meet a full channel, so
\* the default branches that would drop a token (permit.go:79 and 160) are dead.
NoTokenDropped ==
  (resizeAt = "send" \/ \E p \in Holders : pc[p] = "sending") => Room

\* Never more permits than the hard ceiling, even while a shrink is unpaid and
\* the limit has been raised again (MaxConnsLimit, config.go:38).
WithinCeiling == Extant <= Ceiling

\* After a shrink has returned, a free permit is only taken if that leaves no
\* more holders than the limit: "the pool simply stops replacing them until it
\* is back under the new ceiling" (core.go:157).  It does not hold: a release that
\* found no debt sends its token after the shrink (README.md, 3).
NoGrantAboveLimit ==
  [][\A p \in Holders :
        resizeAt = "off" /\ pc[p] = "idle" /\ pc'[p] = "held"
          => Cardinality({q \in Holders : pc'[q] = "held"}) <= limit]_vars
=============================================================================
