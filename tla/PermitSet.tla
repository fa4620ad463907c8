----------------------------- MODULE PermitSet -----------------------------
(***************************************************************************)
(* The resizable permit set of pkg/pooling/permit.go: a buffered channel   *)
(* of tokens, an effective limit and a debt.  This module owns the state   *)
(* and gives one action per atomic instruction; the modules that use it    *)
(* (Permits, Core) conjoin these actions with their processes' own steps.  *)
(*                                                                         *)
(* The channel is Go's: a send hands its token to the first goroutine      *)
(* parked on the channel, and only when none is parked does it fill the    *)
(* buffer; receivers park in arrival order.  A goroutine that was handed a *)
(* token is in `grants' until it runs again.                               *)
(*                                                                         *)
(* resize runs under Core.resizeMu, so at most one is in progress and its  *)
(* local variables (what it is about to do, the units left) are state of   *)
(* this module.                                                            *)
(***************************************************************************)
EXTENDS Integers, Sequences, FiniteSets

CONSTANTS
  Parkers,      \* the goroutines that may wait for a token
  InitLimit,    \* tokens the set is created with (Config.MaxConns)
  Ceiling       \* capacity of the channel (Config.MaxConnsLimit)

ASSUME ParkersAssumption == IsFiniteSet(Parkers)
ASSUME CeilingAssumption == /\ InitLimit \in Nat
                            /\ Ceiling \in Nat
                            /\ InitLimit <= Ceiling

VARIABLES
  tokens,       \* tokens in the channel's buffer: len(p.tokens)
  queue,        \* goroutines parked on the channel, oldest first
  grants,       \* goroutines handed a token that have not run since
  limit,        \* p.limit
  debt,         \* p.debt
  resizeAt,     \* where a resize in progress stands
  resizeLeft    \* its units left to do: > 0 growing, < 0 shrinking

channelVars == <<tokens, queue, grants>>
permitVars  == <<tokens, queue, grants, limit, debt, resizeAt, resizeLeft>>

ResizePoints == {"off", "unit", "send", "owe"}

PermitTypeOK ==
  /\ tokens \in 0 .. Ceiling
  /\ queue \in Seq(Parkers)
  /\ grants \subseteq Parkers
  /\ limit \in 0 .. Ceiling
  /\ debt \in Nat
  /\ resizeAt \in ResizePoints
  /\ resizeLeft \in Int

\* newPermits: n tokens in a channel of capacity ceiling.
PermitInit ==
  /\ tokens = InitLimit
  /\ queue = << >>
  /\ grants = {}
  /\ limit = InitLimit
  /\ debt = 0
  /\ resizeAt = "off"
  /\ resizeLeft = 0

-----------------------------------------------------------------------------
(* The channel. *)

\* A receive that finds a token in the buffer.
Receive ==
  /\ tokens > 0
  /\ tokens' = tokens - 1
  /\ UNCHANGED <<queue, grants>>

\* A blocking receive that finds none parks behind the others.
Park(p) ==
  /\ tokens = 0
  /\ queue' = Append(queue, p)
  /\ UNCHANGED <<tokens, grants>>

\* The sequence q without its k-th element.
Without(q, k) == [i \in 1 .. Len(q) - 1 |-> IF i < k THEN q[i] ELSE q[i + 1]]

\* The context of a parked goroutine is done before a token reaches it.
Unpark(p) ==
  /\ \E k \in 1 .. Len(queue) : /\ queue[k] = p
                                /\ queue' = Without(queue, k)
  /\ UNCHANGED <<tokens, grants>>

\* A goroutine that was handed a token runs again.
Resume(p) ==
  /\ p \in grants
  /\ grants' = grants \ {p}
  /\ UNCHANGED <<tokens, queue>>

\* There is somewhere for a sent token to go.
Room == queue # << >> \/ tokens < Ceiling

\* The non-blocking send: hand over, else buffer, else drop the token.
Send ==
  \/ /\ queue # << >>
     /\ grants' = grants \cup {Head(queue)}
     /\ queue' = Tail(queue)
     /\ UNCHANGED tokens
  \/ /\ queue = << >>
     /\ tokens' = IF Room THEN tokens + 1 ELSE tokens
     /\ UNCHANGED <<queue, grants>>

-----------------------------------------------------------------------------
(* The debt.  The load and compare-and-swap loop of repayDebt is one step: *)
(* its compare-and-swap, or the load that finds no debt.                   *)

Repay == /\ debt > 0
         /\ debt' = debt - 1

NoDebt == /\ debt <= 0
          /\ UNCHANGED debt

-----------------------------------------------------------------------------
(* resize, one action per atomic instruction. *)

\* The Swap of the limit.
ResizeSwap(n) ==
  /\ resizeAt = "off"
  /\ limit' = n
  /\ resizeLeft' = n - limit
  /\ resizeAt' = "unit"
  /\ UNCHANGED <<channelVars, debt>>

\* One unit of growth: cancel debt if there is any, else send a new token.
GrowRepay ==
  /\ resizeAt = "unit" /\ resizeLeft > 0
  /\ Repay
  /\ resizeLeft' = resizeLeft - 1
  /\ UNCHANGED <<channelVars, limit, resizeAt>>

\* Mutant: growing without cancelling the debt first.
GrowIgnoringDebt ==
  /\ resizeAt = "unit" /\ resizeLeft > 0
  /\ resizeAt' = "send"
  /\ UNCHANGED <<channelVars, limit, debt, resizeLeft>>

GrowNoDebt ==
  /\ resizeAt = "unit" /\ resizeLeft > 0
  /\ NoDebt
  /\ resizeAt' = "send"
  /\ UNCHANGED <<channelVars, limit, resizeLeft>>

GrowSend ==
  /\ resizeAt = "send"
  /\ Send
  /\ resizeLeft' = resizeLeft - 1
  /\ resizeAt' = "unit"
  /\ UNCHANGED <<limit, debt>>

\* One unit of shrinking: take a free token, else record it as debt.
ShrinkReceive ==
  /\ resizeAt = "unit" /\ resizeLeft < 0
  /\ Receive
  /\ resizeLeft' = resizeLeft + 1
  /\ UNCHANGED <<limit, debt, resizeAt>>

ShrinkMiss ==
  /\ resizeAt = "unit" /\ resizeLeft < 0
  /\ tokens = 0
  /\ resizeAt' = "owe"
  /\ UNCHANGED <<channelVars, limit, debt, resizeLeft>>

\* Mutant: a shrink that forgets what it could not reclaim.
ShrinkForget ==
  /\ resizeAt = "owe"
  /\ resizeLeft' = resizeLeft + 1
  /\ resizeAt' = "unit"
  /\ UNCHANGED <<channelVars, limit, debt>>

ShrinkOwe ==
  /\ resizeAt = "owe"
  /\ debt' = debt + 1
  /\ resizeLeft' = resizeLeft + 1
  /\ resizeAt' = "unit"
  /\ UNCHANGED <<channelVars, limit>>

\* All units done: resize returns.
ResizeReturn ==
  /\ resizeAt = "unit" /\ resizeLeft = 0
  /\ resizeAt' = "off"
  /\ UNCHANGED <<channelVars, limit, debt, resizeLeft>>

ResizeStep ==
  \/ GrowRepay \/ GrowNoDebt \/ GrowSend
  \/ ShrinkReceive \/ ShrinkMiss \/ ShrinkOwe
  \/ ResizeReturn
=============================================================================
