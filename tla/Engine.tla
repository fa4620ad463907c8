-------------------------------- MODULE Engine --------------------------------
(***************************************************************************)
(* The engine facade (pkg/gpool/engine.go): pools and subscribers under    *)
(* names, added, replaced and removed while Close shuts everything down.   *)
(* Of a component only its Close matters here: Core, Session and           *)
(* PgSubscriber are what pools and subscribers do inside.                  *)
(***************************************************************************)
CONSTANTS
  Names,               \* registration names
  Pools, Subs,         \* components
  None,                \* no registration
  Closers              \* callers of Engine.Close

ASSUME EngineAssumption == None \notin Pools \cup Subs /\ Pools \cap Subs = {}

VARIABLES
  pools, subscribers,  \* the two maps
  removing,            \* components out of the maps, their Close not yet called
  once,                \* closeOnce: "new", "subs", "pools", "done"
  taken,               \* what Close swapped out and has still to close
  owned,               \* all it swapped out
  closed,              \* components closed
  failed,              \* subscribers whose Close reported an error
  caller,              \* Close callers: "idle", "in", or the error they got
  ever,                \* components ever registered
  lost                 \* those replaced, or added once Close had swapped

regs == <<pools, subscribers, removing, ever, lost>>
closing == <<once, taken, owned, failed, caller>>
engineVars == <<regs, closing, closed>>

Components == Pools \cup Subs
Empty == [n \in Names |-> None]
Registered(m) == {m[n] : n \in Names} \ {None}
\* Close has swapped the maps: nobody is left to close what comes now.
Late == once # "new"

\* NewEngine: a default pool and a default subscriber may be given.
EngineInit ==
  /\ \E n \in Names, p \in Pools \cup {None}, s \in Subs \cup {None} :
       pools = [Empty EXCEPT ![n] = p] /\ subscribers = [Empty EXCEPT ![n] = s]
  /\ removing = {}
  /\ once = "new" /\ taken = {} /\ owned = {} /\ failed = {}
  /\ caller = [k \in Closers |-> "idle"]
  /\ closed = {} /\ lost = {}
  /\ ever = Registered(pools) \cup Registered(subscribers)

\* What an Add gives up: the registration it replaces, and itself when late.
GivesUp(m, n, x) == ({m[n]} \ {None, x}) \cup (IF Late THEN {x} ELSE {})

\* AddPool, AddSubscriber: a registration is replaced without closing it, and
\* nobody asks whether the engine is closed.
AddPool(n, p) ==
  /\ pools' = [pools EXCEPT ![n] = p] /\ lost' = lost \cup GivesUp(pools, n, p)
  /\ ever' = ever \cup {p}
  /\ UNCHANGED <<subscribers, removing, closing, closed>>
AddSubscriber(n, s) ==
  /\ subscribers' = [subscribers EXCEPT ![n] = s]
  /\ lost' = lost \cup GivesUp(subscribers, n, s) /\ ever' = ever \cup {s}
  /\ UNCHANGED <<pools, removing, closing, closed>>

\* RemovePool, RemoveSubscriber: out of the map under the lock, closed after it.
RemovePool(n) ==
  /\ pools[n] # None
  /\ pools' = [pools EXCEPT ![n] = None] /\ removing' = removing \cup {pools[n]}
  /\ UNCHANGED <<subscribers, ever, lost, closing, closed>>
RemoveSubscriber(n) ==
  /\ subscribers[n] # None
  /\ subscribers' = [subscribers EXCEPT ![n] = None]
  /\ removing' = removing \cup {subscribers[n]}
  /\ UNCHANGED <<pools, ever, lost, closing, closed>>
RemoveEnd(x) ==
  /\ x \in removing /\ removing' = removing \ {x} /\ closed' = closed \cup {x}
  /\ UNCHANGED <<pools, subscribers, ever, lost, closing>>

-------------------------------------------------------------------------------
(* Close *)

CloseCall(k) ==
  /\ caller[k] = "idle" /\ caller' = [caller EXCEPT ![k] = "in"]
  /\ UNCHANGED <<regs, once, taken, owned, failed, closed>>

\* Mutant: only what is closed first is swapped; the pools are read later.
CloseSwapSubscribers ==
  /\ once = "new" /\ \E k \in Closers : caller[k] = "in"
  /\ once' = "subs"
  /\ owned' = Registered(subscribers) /\ taken' = owned'
  /\ pools' = Empty /\ subscribers' = Empty
  /\ UNCHANGED <<removing, ever, lost, failed, caller, closed>>

\* The first caller, in closeOnce, swaps both maps under the lock.
CloseSwap ==
  /\ once = "new" /\ \E k \in Closers : caller[k] = "in"
  /\ once' = "subs"
  /\ owned' = Registered(pools) \cup Registered(subscribers) /\ taken' = owned'
  /\ pools' = Empty /\ subscribers' = Empty
  /\ UNCHANGED <<removing, ever, lost, failed, caller, closed>>

\* One subscriber; one that fails does not stop the others.
CloseSubscriber(s, ok) ==
  /\ once = "subs" /\ s \in taken /\ closed' = closed \cup {s}
  /\ taken' = taken \ {s}
  /\ failed' = IF ok THEN failed ELSE failed \cup {s}
  /\ UNCHANGED <<regs, once, owned, caller>>

\* The pools after the subscribers.
ClosePool(p) ==
  /\ once \in {"subs", "pools"} /\ taken \cap Subs = {} /\ p \in taken
  /\ once' = "pools" /\ taken' = taken \ {p} /\ closed' = closed \cup {p}
  /\ UNCHANGED <<regs, owned, failed, caller>>

\* Mutant: Close is done when nothing is registered any more.
CloseDoneWhenEmpty ==
  /\ once \in {"subs", "pools"} /\ taken = {}
  /\ Registered(pools) \cup Registered(subscribers) = {}
  /\ once' = "done"
  /\ UNCHANGED <<regs, taken, owned, failed, caller, closed>>

CloseDone ==
  /\ once \in {"subs", "pools"} /\ taken = {}
  /\ once' = "done"
  /\ UNCHANGED <<regs, taken, owned, failed, caller, closed>>

\* Mutant: a later caller returns at once, with what there is of the error.
CloseReturnEarly(k) ==
  /\ caller[k] = "in" /\ once # "new"
  /\ caller' = [caller EXCEPT ![k] = IF failed = {} THEN "nil" ELSE "error"]
  /\ UNCHANGED <<regs, once, taken, owned, failed, closed>>

\* closeOnce.Do holds later callers until the first is done; all get closeErr.
CloseReturn(k) ==
  /\ caller[k] = "in" /\ once = "done"
  /\ caller' = [caller EXCEPT ![k] = IF failed = {} THEN "nil" ELSE "error"]
  /\ UNCHANGED <<regs, once, taken, owned, failed, closed>>

\* What closing has left to do.
CloseStep ==
  \/ CloseSwap \/ CloseDone
  \/ \E k \in Closers : CloseReturn(k)
  \/ \E s \in Subs, ok \in BOOLEAN : CloseSubscriber(s, ok)
  \/ \E p \in Pools : ClosePool(p)

EngineNext ==
  \/ \E n \in Names, p \in Pools : AddPool(n, p)
  \/ \E n \in Names, s \in Subs : AddSubscriber(n, s)
  \/ \E n \in Names : RemovePool(n) \/ RemoveSubscriber(n)
  \/ \E x \in Components : RemoveEnd(x)
  \/ \E k \in Closers : CloseCall(k)
  \/ CloseStep

EngineSpec == EngineInit /\ [][EngineNext]_engineVars

\* A Close that has begun goes on: each component's Close returns (Core's and
\* PgSubscriber's CloseReturns).
EngineFairSpec == EngineSpec /\ WF_engineVars(CloseStep)

-------------------------------------------------------------------------------
(* Properties *)

\* Types; Close's work list is part of what it took, and an error belongs to a
\* subscriber that was closed.
EngineTypeOK ==
  /\ pools \in [Names -> Pools \cup {None}] /\ subscribers \in [Names -> Subs \cup {None}]
  /\ removing \subseteq Components
  /\ once \in {"new", "subs", "pools", "done"}
  /\ owned \subseteq Components /\ taken \subseteq owned
  /\ closed \subseteq Components /\ failed \subseteq closed \cap Subs
  /\ caller \in [Closers -> {"idle", "in", "nil", "error"}]
  /\ ever \subseteq Components /\ lost \subseteq ever

\* "A host application can shut everything down through a single Close"
\* (engine.go:19-21, 139-166): when Close has returned, a component that was ever
\* in the engine is closed, about to be by the Remove that took it, or one the
\* engine had let go: replaced by an Add, or added after the swap.
Accounted == once = "done" => ever \subseteq closed \cup removing \cup lost

\* "One component failing to close does not stop the others" (engine.go:140):
\* what Close took is closed when it is done, whatever errors there were.
AllClosed == once = "done" => owned \subseteq closed

\* "Pools close last" (engine.go:157): when Close has reached the pools, every
\* subscriber it took is closed.
SubscribersFirst == once \in {"pools", "done"} => owned \cap Subs \subseteq closed

\* "Repeat calls return the result of the first" (engine.go:139-140): no two
\* callers of Close are told different things, and none before all is closed.
SameResult ==
  \A k, l \in Closers : {caller[k], caller[l]} \subseteq {"nil", "error"} =>
     /\ caller[k] = caller[l]
     /\ owned \subseteq closed

\* Every call of Close returns (engine.go:142-166), the second one included.
CloseReturns == \A k \in Closers : caller[k] = "in" ~> caller[k] \in {"nil", "error"}
===============================================================================
