----------------------------- MODULE CoreProofs -----------------------------
(***************************************************************************)
(* The pooling engine's books, proved for every number of goroutines,      *)
(* connections and buckets.  In layers, each resting on the ones before:   *)
(*                                                                         *)
(*   Control      where goroutines stand and with what in hand             *)
(*   EngineImplementsPermits  the engine uses its permit set as Permits    *)
(*                says, so what PermitsProofs proves holds here            *)
(*   Ownership    buckets and hands share out the open connections         *)
(*   Counts       totalConns and checkedOut are exact                      *)
(*   Locking      ceiling and limit move together, under resizeMu          *)
(*   Fixed        without SetMaxConns the total stays below the ceiling    *)
(*   Closing      join, drain and sweep leave the buckets empty            *)
(*                                                                         *)
(* Together they give Inv and ClosedIsEmpty.                               *)
(*                                                                         *)
(* Under Control every step of Next moves one goroutine and does one of    *)
(* eight things to the connections and their count (Moves).  The later     *)
(* layers rest on that short list and not on the actions.                  *)
(***************************************************************************)
EXTENDS Core, FiniteSetTheorems, SequenceTheorems, TLAPS

-----------------------------------------------------------------------------
(* What one step can do. *)

Points == CallerPoints \cup MaintainerPoints \cup ResizerPoints \cup EvictorPoints
          \cup CloserPoints

\* A count loaded earlier is a number; that it is in range takes ExactCount.
WeakLocals == [conn : Conns \cup {NoConn}, victims : SUBSET Conns,
               ret : CallerPoints \cup MaintainerPoints \cup ResizerPoints \cup {"none"},
               seen : Int, shard : Shards, left : 0 .. ShardCount, want : 0 .. Ceiling]

GlobalTypes ==
  /\ maxConns \in 0 .. Ceiling /\ totalConns \in Int /\ checkedOut \in Int
  /\ closed \in BOOLEAN /\ resizeMu \in Resizers \cup {Nobody}
  /\ shards \in [Shards -> Seq(Conns)] /\ open \in SUBSET Conns
  /\ reclaimed \in Nat

\* destroy has something to close, and lists are empty everywhere else.
VictimsAt(l, x) ==
  /\ l = "destroy" => x.victims # {}
  /\ x.victims # {} => l \in {"destroy", "uncount"}

CallerAt(l, x) ==
  /\ l \in CallerPoints
  /\ VictimsAt(l, x)
  /\ x.conn # NoConn <=> l \in {"taken", "using", "rclosed", "rfit", "rover", "rpush"}
  /\ l \in {"destroy", "uncount"} => x.ret \in {"probe", "giveback"}
  /\ l = "probe" \/ (l \in {"destroy", "uncount"} /\ x.ret = "probe") => x.left > 0

MaintainerAt(l, x) ==
  /\ l \in MaintainerPoints
  /\ VictimsAt(l, x)
  /\ x.conn # NoConn <=> l = "push"
  /\ l \in {"destroy", "uncount"} => x.ret = "sweep"
  /\ l \in {"giveback", "send"} => x.ret \in {"wait", "warm"}

ResizerAt(l, x) ==
  /\ l \in ResizerPoints
  /\ VictimsAt(l, x)
  /\ x.conn = NoConn
  /\ l \in {"destroy", "uncount"} => x.ret \in {"probe", "trim"}
  /\ l = "probe" \/ (l \in {"destroy", "uncount"} /\ x.ret = "probe") => x.left > 0

EvictorAt(l, x) ==
  /\ l \in EvictorPoints
  /\ VictimsAt(l, x)
  /\ x.conn = NoConn
  /\ l \in {"destroy", "uncount"} => x.ret = "sweep"

CloserAt(l, x) ==
  /\ l \in CloserPoints
  /\ VictimsAt(l, x)
  /\ x.conn = NoConn
  /\ l \in {"destroy", "uncount"} => x.ret = "sweep"
  /\ l \in {"open", "cancel", "join"} => x.want = 0
  /\ l = "dparked" => x.want > 0
  /\ l \in {"sweep", "destroy", "uncount"} /\ x.left > 0 => x.shard = ShardCount - x.left

\* The goroutine p may stand at l with the locals x.
GoodAt(p, l, x) ==
  /\ p \in Callers   => CallerAt(l, x)
  /\ p = Maintainer  => MaintainerAt(l, x)
  /\ p \in Resizers  => ResizerAt(l, x)
  /\ p \in Evictors  => EvictorAt(l, x)
  /\ p = Closer      => CloserAt(l, x)

Control ==
  /\ GlobalTypes
  /\ pc \in [Procs -> Points] /\ loc \in [Procs -> WeakLocals]
  /\ \A p \in Procs : GoodAt(p, pc[p], loc[p])

-----------------------------------------------------------------------------
(* What a step of p to l with locals x does to connections and counts. *)

\* The connections a goroutine with locals x answers for.
Hand(x) == (IF x.conn = NoConn THEN {} ELSE {x.conn}) \cup x.victims

\* The points at which a goroutine has a slot without an open connection.
Slots == {"dial", "uncount"}

\* Nothing changes owner.
Keeps(p, l, x) ==
  /\ UNCHANGED <<totalConns, shards, open>>
  /\ Hand(x) = Hand(loc[p])
  /\ l \in Slots <=> pc[p] \in Slots

\* The compare-and-swap of reserveSlot succeeds.
Reserves(p, l, x) ==
  /\ pc[p] = "cas" /\ totalConns = loc[p].seen
  /\ totalConns' = totalConns + 1
  /\ l = "dial"
  /\ UNCHANGED <<shards, open>>
  /\ Hand(x) = Hand(loc[p])

\* releaseSlot.
Frees(p, l, x) ==
  /\ pc[p] \in Slots /\ l \notin Slots
  /\ totalConns' = totalConns - 1
  /\ UNCHANGED <<shards, open>>
  /\ Hand(x) = Hand(loc[p])

Dials(p, l, x) ==
  /\ pc[p] = "dial" /\ l \notin Slots
  /\ UNCHANGED <<totalConns, shards>>
  /\ Hand(loc[p]) = {}
  /\ \E c \in Conns \ open : open' = open \cup {c} /\ Hand(x) = {c}

Closes(p, l, x) ==
  /\ pc[p] = "destroy" /\ l = "uncount"
  /\ UNCHANGED <<totalConns, shards>>
  /\ \E c \in Hand(loc[p]) : open' = open \ {c} /\ Hand(x) = Hand(loc[p]) \ {c}

\* pop.
Pops(p, l, x) ==
  /\ pc[p] = "probe" /\ l \notin Slots
  /\ UNCHANGED <<totalConns, open>>
  /\ Hand(loc[p]) = {}
  /\ shards[loc[p].shard] # << >>
  /\ Pop(loc[p].shard)
  /\ Hand(x) = {shards[loc[p].shard][Len(shards[loc[p].shard])]}

\* takeIf or drain of one bucket.
Sweeps(p, l, x) ==
  /\ pc[p] = "sweep" /\ l \notin Slots
  /\ UNCHANGED <<totalConns, open>>
  /\ Hand(loc[p]) = {}
  /\ \E kept \in Kept(shards[loc[p].shard]) :
        /\ shards' = [shards EXCEPT ![loc[p].shard] = kept]
        /\ Hand(x) = InShard(loc[p].shard) \ {kept[i] : i \in 1 .. Len(kept)}

Pushes(p, l, x) ==
  /\ pc[p] \in {"rpush", "push"} /\ l \notin Slots
  /\ UNCHANGED <<totalConns, open>>
  /\ Hand(x) = {}
  /\ \E c \in Conns :
        /\ Hand(loc[p]) = {c}
        /\ shards' = [shards EXCEPT ![loc[p].shard] = Append(@, c)]

Moves(p, l, x) ==
  \/ Keeps(p, l, x) \/ Reserves(p, l, x) \/ Frees(p, l, x) \/ Dials(p, l, x)
  \/ Closes(p, l, x) \/ Pops(p, l, x) \/ Sweeps(p, l, x) \/ Pushes(p, l, x)

\* checkedOut follows the callers that enter and leave "using".
ChecksOut(p, l) ==
  \/ UNCHANGED checkedOut /\ (l = "using" <=> pc[p] = "using")
  \/ checkedOut' = checkedOut + 1 /\ l = "using" /\ pc[p] # "using"
  \/ checkedOut' = checkedOut - 1 /\ l # "using" /\ pc[p] = "using"

\* A step of the goroutine p: to l, with locals x.
StepsTo(p, l, x) ==
  /\ x \in WeakLocals /\ GoodAt(p, l, x)
  /\ pc' = [pc EXCEPT ![p] = l]
  /\ loc' = [loc EXCEPT ![p] = x]
  /\ Moves(p, l, x)
  /\ ChecksOut(p, l)
  /\ x.seen \in {0, loc[p].seen, totalConns}
  /\ l = "cas" => x.seen < maxConns
  /\ l = "rfit" => ~closed
  /\ pc[p] # "exited"

-----------------------------------------------------------------------------
(* Facts about the pieces. *)

\* What Control says of one goroutine.
LEMMA ControlAt ==
  ASSUME Control, NEW p \in Procs
  PROVE  /\ loc[p] \in WeakLocals /\ GoodAt(p, pc[p], loc[p])
         /\ pc[p] \in Points /\ loc[p].shard \in Shards /\ loc[p].left \in 0 .. ShardCount
         /\ loc[p].want \in 0 .. Ceiling /\ loc[p].seen \in Int
         /\ loc[p].victims \in SUBSET Conns /\ loc[p].conn \in Conns \cup {NoConn}
BY DEF Control, WeakLocals

\* A goroutine is of one kind.
LEMMA Kinds ==
  /\ \A p \in Callers : /\ p \in Procs /\ p # Maintainer /\ p # Closer
                        /\ p \notin Resizers /\ p \notin Evictors
  /\ \A p \in Resizers : /\ p \in Procs /\ p # Maintainer /\ p # Closer
                         /\ p \notin Callers /\ p \notin Evictors
  /\ \A p \in Evictors : /\ p \in Procs /\ p # Maintainer /\ p # Closer
                         /\ p \notin Callers /\ p \notin Resizers
  /\ Maintainer \in Procs /\ Closer \in Procs /\ Maintainer # Closer
  /\ Maintainer \notin Callers \cup Resizers \cup Evictors
  /\ Closer \notin Callers \cup Resizers \cup Evictors
BY GoroutinesAssumption DEF Procs

\* What may hold at a point, for each kind of goroutine.
LEMMA GoodCaller ==
  ASSUME NEW p \in Callers, NEW l, NEW x
  PROVE  GoodAt(p, l, x) <=> CallerAt(l, x)
BY Kinds DEF GoodAt

\* For the maintainer GoodAt is MaintainerAt,
LEMMA GoodMaintainer ==
  ASSUME NEW l, NEW x
  PROVE  GoodAt(Maintainer, l, x) <=> MaintainerAt(l, x)
BY Kinds DEF GoodAt

\* for a goroutine that resizes ResizerAt,
LEMMA GoodResizer ==
  ASSUME NEW p \in Resizers, NEW l, NEW x
  PROVE  GoodAt(p, l, x) <=> ResizerAt(l, x)
BY Kinds DEF GoodAt

\* for one that evicts EvictorAt,
LEMMA GoodEvictor ==
  ASSUME NEW p \in Evictors, NEW l, NEW x
  PROVE  GoodAt(p, l, x) <=> EvictorAt(l, x)
BY Kinds DEF GoodAt

\* and for Close CloserAt.
LEMMA GoodCloser ==
  ASSUME NEW l, NEW x
  PROVE  GoodAt(Closer, l, x) <=> CloserAt(l, x)
BY Kinds DEF GoodAt

\* A point that is good for a goroutine is one of the points.
LEMMA GoodPoint ==
  ASSUME NEW p \in Procs, NEW l, NEW x, GoodAt(p, l, x)
  PROVE  l \in Points
BY DEF GoodAt, CallerAt, MaintainerAt, ResizerAt, EvictorAt, CloserAt, Points, Procs

\* The wrap-around of a scan.
LEMMA NextShard ==
  ASSUME NEW s \in Shards
  PROVE  /\ (s + 1) % ShardCount \in Shards
         /\ s + 1 < ShardCount => (s + 1) % ShardCount = s + 1
<1>1. ShardCount \in Nat \ {0}
  BY CoreAssumption
<1> QED BY <1>1 DEF Shards

\* An emptied bucket and an untouched one are both what a takeIf may leave.
LEMMA KeptNone ==
  ASSUME NEW q \in Seq(Conns)
  PROVE  << >> \in Kept(q)
<1> DEFINE F(n) == {g \in [1 .. n -> 1 .. Len(q)] : \A i, j \in 1 .. n : i < j => g[i] < g[j]}
           K(n) == {[i \in 1 .. n |-> q[f[i]]] : f \in F(n)}
<1>1. Kept(q) = UNION {K(n) : n \in 0 .. Len(q)}
  BY DEF Kept
<1>2. [i \in 1 .. 0 |-> i] \in F(0)
  OBVIOUS
<1>3. << >> = [i \in 1 .. 0 |-> q[[j \in 1 .. 0 |-> j][i]]]
  OBVIOUS
<1>4. << >> \in K(0)
  BY <1>2, <1>3
<1>5. 0 \in 0 .. Len(q)
  OBVIOUS
<1> HIDE DEF K
<1> QED BY <1>1, <1>4, <1>5

\* What a takeIf leaves is a sequence of connections, and all of them were there.
LEMMA KeptType ==
  ASSUME NEW q \in Seq(Conns), NEW kept \in Kept(q)
  PROVE  /\ kept \in Seq(Conns)
         /\ Len(kept) <= Len(q)
         /\ \A i \in 1 .. Len(kept) : \E j \in 1 .. Len(q) : kept[i] = q[j]
<1>1. PICK n \in 0 .. Len(q) : \E f \in [1 .. n -> 1 .. Len(q)] :
         /\ \A i, j \in 1 .. n : i < j => f[i] < f[j]
         /\ kept = [i \in 1 .. n |-> q[f[i]]]
  BY DEF Kept
<1>f. PICK f \in [1 .. n -> 1 .. Len(q)] :
         /\ \A i, j \in 1 .. n : i < j => f[i] < f[j]
         /\ kept = [i \in 1 .. n |-> q[f[i]]]
  BY <1>1
<1>2. n \in Nat /\ Len(q) \in Nat /\ \A i \in 1 .. n : f[i] \in 1 .. Len(q)
  BY <1>f
<1>3. kept \in [1 .. n -> Conns]
  BY <1>f, <1>2
<1>4. kept \in Seq(Conns) /\ Len(kept) = n
  BY <1>2, <1>3
<1> QED BY <1>f, <1>2, <1>4

\* The locals at the start of popIdle's scan.
LEMMA ProbeLocals ==
  ASSUME NEW y \in WeakLocals, NEW s \in Shards
  PROVE  /\ [y EXCEPT !.shard = s, !.left = ShardCount, !.seen = 0] \in WeakLocals
         /\ Hand([y EXCEPT !.shard = s, !.left = ShardCount, !.seen = 0]) = Hand(y)
<1>1. PICK m \in Int : m = 0
  OBVIOUS
<1>2. PICK n \in 0 .. ShardCount : n = ShardCount
  BY CoreAssumption
<1>3. [y EXCEPT !.shard = s, !.left = n, !.seen = m] \in WeakLocals
  BY DEF WeakLocals
<1> QED BY <1>1, <1>2, <1>3 DEF WeakLocals, Hand

\* The locals after one more permit is reclaimed.
LEMMA ReclaimLocals ==
  ASSUME NEW y \in WeakLocals, y.want > 0
  PROVE  /\ [y EXCEPT !.want = @ - 1] \in WeakLocals
         /\ Hand([y EXCEPT !.want = @ - 1]) = Hand(y)
         /\ [y EXCEPT !.want = @ - 1].seen = y.seen
<1>1. y.want - 1 \in 0 .. Ceiling
  BY CeilingAssumption DEF WeakLocals
<1> QED BY <1>1 DEF WeakLocals, Hand

\* A step that leaves connections and counts alone.
LEMMA QuietStep ==
  ASSUME Control, NEW p \in Procs, NEW l, NEW x \in WeakLocals,
         pc' = [pc EXCEPT ![p] = l], loc' = [loc EXCEPT ![p] = x],
         UNCHANGED <<totalConns, shards, open, checkedOut>>,
         pc[p] \notin {"dial", "uncount", "using", "exited"},
         l \notin {"dial", "uncount", "using"},
         l = "cas" => x.seen < maxConns, l = "rfit" => ~closed,
         GoodAt(p, l, x), Hand(x) = Hand(loc[p]),
         x.seen \in {0, loc[p].seen, totalConns}
  PROVE  StepsTo(p, l, x)
BY DEF StepsTo, Moves, Keeps, ChecksOut, Slots

\* The same with the locals left alone too.
LEMMA Hop ==
  ASSUME Control, NEW p \in Procs, NEW l,
         pc' = [pc EXCEPT ![p] = l], UNCHANGED <<loc, totalConns, shards, open, checkedOut>>,
         pc[p] \notin {"dial", "uncount", "using", "exited"},
         l \notin {"dial", "uncount", "using", "cas"},
         l = "rfit" => ~closed,
         GoodAt(p, l, loc[p])
  PROVE  StepsTo(p, l, loc[p])
<1>1. loc[p] \in WeakLocals /\ loc' = [loc EXCEPT ![p] = loc[p]]
  BY ControlAt DEF Control
<1> QED BY <1>1, QuietStep

-----------------------------------------------------------------------------
(* The operations, action by action. *)

\* Every step of Acquire.
LEMMA AcquireSteps ==
  ASSUME Control, NEW p \in Callers, Acquire(p)
  PROVE  \E l, x : StepsTo(p, l, x)
<1>a. /\ p \in Procs /\ loc[p] \in WeakLocals /\ CallerAt(pc[p], loc[p])
      /\ totalConns \in Int /\ maxConns \in Int /\ NoConn \notin Conns
  BY ControlAt, Kinds, GoodCaller, CoreAssumption, CeilingAssumption DEF Control, GlobalTypes
<1>b. 0 \in Shards /\ ShardCount \in 0 .. ShardCount /\ ShardCount > 0
  BY CoreAssumption DEF Shards
<1>1. CASE AcquireStart(p)
  <2>1. /\ pc[p] = "free" /\ pc' = [pc EXCEPT ![p] = "permit"]
        /\ UNCHANGED <<loc, totalConns, shards, open, checkedOut>>
    BY <1>1 DEF AcquireStart, Move, Goto, coreVars
  <2>2. CallerAt("permit", loc[p])
    BY <1>a, <2>1 DEF CallerAt, VictimsAt, CallerPoints
  <2> QED BY <1>a, <2>1, <2>2, GoodCaller, Hop
<1>2. CASE AcquireTry(p)
  <2>1. /\ pc[p] = "permit" /\ pc' = [pc EXCEPT ![p] = "recheck"]
        /\ UNCHANGED <<loc, totalConns, shards, open, checkedOut>>
    BY <1>2 DEF AcquireTry, Move, Goto, coreVars
  <2>2. CallerAt("recheck", loc[p])
    BY <1>a, <2>1 DEF CallerAt, VictimsAt, CallerPoints
  <2> QED BY <1>a, <2>1, <2>2, GoodCaller, Hop
<1>3. CASE AcquireWait(p)
  <2>1. /\ pc[p] = "permit" /\ pc' = [pc EXCEPT ![p] = "parked"]
        /\ UNCHANGED <<loc, totalConns, shards, open, checkedOut>>
    BY <1>3 DEF AcquireWait, Move, Goto, coreVars
  <2>2. CallerAt("parked", loc[p])
    BY <1>a, <2>1 DEF CallerAt, VictimsAt, CallerPoints
  <2> QED BY <1>a, <2>1, <2>2, GoodCaller, Hop
<1>4. CASE AcquireServed(p)
  <2>1. /\ pc[p] = "parked" /\ pc' = [pc EXCEPT ![p] = "recheck"]
        /\ UNCHANGED <<loc, totalConns, shards, open, checkedOut>>
    BY <1>4 DEF AcquireServed, Move, Goto, coreVars
  <2>2. CallerAt("recheck", loc[p])
    BY <1>a, <2>1 DEF CallerAt, VictimsAt, CallerPoints
  <2> QED BY <1>a, <2>1, <2>2, GoodCaller, Hop
<1>5. CASE AcquireCancelled(p)
  <2>1. /\ pc[p] = "parked" /\ pc' = [pc EXCEPT ![p] = "free"]
        /\ UNCHANGED <<loc, totalConns, shards, open, checkedOut>>
    BY <1>5 DEF AcquireCancelled, Move, Goto, coreVars
  <2>2. CallerAt("free", loc[p])
    BY <1>a, <2>1 DEF CallerAt, VictimsAt, CallerPoints
  <2> QED BY <1>a, <2>1, <2>2, GoodCaller, Hop
<1>6. CASE AcquireRecheck(p)
  <2>1. CASE pc' = [pc EXCEPT ![p] = "giveback"] /\ UNCHANGED loc
    <3>1. pc[p] = "recheck" /\ UNCHANGED <<totalConns, shards, open, checkedOut>>
      BY <1>6 DEF AcquireRecheck, coreVars
    <3>2. CallerAt("giveback", loc[p])
      BY <1>a, <3>1 DEF CallerAt, VictimsAt, CallerPoints
    <3> QED BY <1>a, <2>1, <3>1, <3>2, GoodCaller, Hop
  <2>2. CASE \E s \in Shards : ProbeFrom(p, s)
    <3>1. pc[p] = "recheck" /\ UNCHANGED <<totalConns, shards, open, checkedOut>>
      BY <1>6 DEF AcquireRecheck, coreVars
    <3>2. PICK s \in Shards : ProbeFrom(p, s)
      BY <2>2
    <3> DEFINE x == [loc[p] EXCEPT !.shard = s, !.left = ShardCount, !.seen = 0]
    <3>3. pc' = [pc EXCEPT ![p] = "probe"] /\ loc' = [loc EXCEPT ![p] = x]
      BY <3>2, <1>a DEF ProbeFrom, Goto
    <3>4. x \in WeakLocals /\ Hand(x) = Hand(loc[p])
      BY <1>a, <3>2, ProbeLocals
    <3>6. x.seen = 0
      BY <1>a DEF WeakLocals
    <3>5. CallerAt("probe", x)
      BY <1>a, <1>b, <3>1 DEF WeakLocals, CallerAt, VictimsAt, CallerPoints
    <3> HIDE DEF x
    <3> QED BY <1>a, <3>1, <3>3, <3>4, <3>5, <3>6, GoodCaller, QuietStep
  <2> QED BY <1>6, <2>1, <2>2 DEF AcquireRecheck, Goto
<1>7. CASE TakeYield(p)
  <2>1. CASE pc' = [pc EXCEPT ![p] = "giveback"] /\ UNCHANGED loc
    <3>1. pc[p] = "full" /\ UNCHANGED <<totalConns, shards, open, checkedOut>>
      BY <1>7 DEF TakeYield, coreVars
    <3>2. CallerAt("giveback", loc[p])
      BY <1>a, <3>1 DEF CallerAt, VictimsAt, CallerPoints
    <3> QED BY <1>a, <2>1, <3>1, <3>2, GoodCaller, Hop
  <2>2. CASE \E s \in Shards : ProbeFrom(p, s)
    <3>1. pc[p] = "full" /\ UNCHANGED <<totalConns, shards, open, checkedOut>>
      BY <1>7 DEF TakeYield, coreVars
    <3>2. PICK s \in Shards : ProbeFrom(p, s)
      BY <2>2
    <3> DEFINE x == [loc[p] EXCEPT !.shard = s, !.left = ShardCount, !.seen = 0]
    <3>3. pc' = [pc EXCEPT ![p] = "probe"] /\ loc' = [loc EXCEPT ![p] = x]
      BY <3>2, <1>a DEF ProbeFrom, Goto
    <3>4. x \in WeakLocals /\ Hand(x) = Hand(loc[p])
      BY <1>a, <3>2, ProbeLocals
    <3>6. x.seen = 0
      BY <1>a DEF WeakLocals
    <3>5. CallerAt("probe", x)
      BY <1>a, <1>b, <3>1 DEF WeakLocals, CallerAt, VictimsAt, CallerPoints
    <3> HIDE DEF x
    <3> QED BY <1>a, <3>1, <3>3, <3>4, <3>5, <3>6, GoodCaller, QuietStep
  <2> QED BY <1>7, <2>1, <2>2 DEF TakeYield, Goto
<1>8. CASE AcquireReturn(p)
  <2>1. /\ pc[p] = "taken" /\ pc' = [pc EXCEPT ![p] = "using"]
        /\ UNCHANGED <<loc, totalConns, shards, open>> /\ checkedOut' = checkedOut + 1
    BY <1>8 DEF AcquireReturn, Move, Goto
  <2>2. CallerAt("using", loc[p]) /\ loc' = [loc EXCEPT ![p] = loc[p]]
    BY <1>a, <2>1 DEF CallerAt, VictimsAt, CallerPoints, Control
  <2> QED BY <1>a, <2>1, <2>2, GoodCaller DEF StepsTo, Moves, Keeps, ChecksOut, Slots
<1> QED BY <1>1, <1>2, <1>3, <1>4, <1>5, <1>6, <1>7, <1>8 DEF Acquire

\* Every step of Release.
LEMMA ReleaseSteps ==
  ASSUME Control, NEW p \in Callers, Release(p)
  PROVE  \E l, x : StepsTo(p, l, x)
<1>a. /\ p \in Procs /\ loc[p] \in WeakLocals /\ CallerAt(pc[p], loc[p])
      /\ totalConns \in Int /\ maxConns \in Int /\ NoConn \notin Conns
  BY ControlAt, Kinds, GoodCaller, CoreAssumption, CeilingAssumption DEF Control, GlobalTypes
<1>b. 0 \in Shards /\ ShardCount \in 0 .. ShardCount /\ ShardCount > 0
  BY CoreAssumption DEF Shards
<1>1. CASE ReleaseStart(p)
  <2>1. /\ pc[p] = "using" /\ pc' = [pc EXCEPT ![p] = "rclosed"]
        /\ UNCHANGED <<loc, totalConns, shards, open>> /\ checkedOut' = checkedOut - 1
    BY <1>1 DEF ReleaseStart, Move, Goto
  <2>2. CallerAt("rclosed", loc[p]) /\ loc' = [loc EXCEPT ![p] = loc[p]]
    BY <1>a, <2>1 DEF CallerAt, VictimsAt, CallerPoints, Control
  <2> QED BY <1>a, <2>1, <2>2, GoodCaller DEF StepsTo, Moves, Keeps, ChecksOut, Slots
<1>2. CASE ReleaseClosed(p)
  <2>1. CASE Doom(p, loc[p].conn, "giveback")
    <3> DEFINE x == [loc[p] EXCEPT !.victims = {loc[p].conn}, !.conn = NoConn, !.ret = "giveback"]
    <3>1. pc[p] = "rclosed" /\ UNCHANGED <<totalConns, shards, open, checkedOut>>
      BY <1>2 DEF ReleaseClosed, coreVars
    <3>2. pc' = [pc EXCEPT ![p] = "destroy"] /\ loc' = [loc EXCEPT ![p] = x]
      BY <2>1, <1>a DEF Doom, Goto
    <3>3. loc[p].conn \in Conns /\ loc[p].victims = {}
      BY <1>a, <3>1 DEF CallerAt, VictimsAt, WeakLocals
    <3>4. x \in WeakLocals /\ Hand(x) = Hand(loc[p]) /\ x.seen = loc[p].seen
      BY <1>a, <3>3 DEF WeakLocals, Hand, CallerPoints
    <3>5. CallerAt("destroy", x)
      BY <1>a, <3>1, <3>3 DEF WeakLocals, CallerAt, VictimsAt, CallerPoints
    <3> HIDE DEF x
    <3> QED BY <1>a, <3>1, <3>2, <3>4, <3>5, GoodCaller, QuietStep
  <2>2. CASE pc' = [pc EXCEPT ![p] = "rfit"] /\ UNCHANGED loc /\ ~closed
    <3>1. pc[p] = "rclosed" /\ UNCHANGED <<totalConns, shards, open, checkedOut>>
      BY <1>2 DEF ReleaseClosed, coreVars
    <3>2. CallerAt("rfit", loc[p])
      BY <1>a, <3>1 DEF CallerAt, VictimsAt, CallerPoints
    <3> QED BY <1>a, <2>2, <3>1, <3>2, GoodCaller, Hop
  <2> QED BY <1>2, <2>1, <2>2 DEF ReleaseClosed, Goto
<1>3. CASE ReleaseFit(p)
  <2>1. CASE Doom(p, loc[p].conn, "giveback")
    <3> DEFINE x == [loc[p] EXCEPT !.victims = {loc[p].conn}, !.conn = NoConn, !.ret = "giveback"]
    <3>1. pc[p] = "rfit" /\ UNCHANGED <<totalConns, shards, open, checkedOut>>
      BY <1>3 DEF ReleaseFit, coreVars
    <3>2. pc' = [pc EXCEPT ![p] = "destroy"] /\ loc' = [loc EXCEPT ![p] = x]
      BY <2>1, <1>a DEF Doom, Goto
    <3>3. loc[p].conn \in Conns /\ loc[p].victims = {}
      BY <1>a, <3>1 DEF CallerAt, VictimsAt, WeakLocals
    <3>4. x \in WeakLocals /\ Hand(x) = Hand(loc[p]) /\ x.seen = loc[p].seen
      BY <1>a, <3>3 DEF WeakLocals, Hand, CallerPoints
    <3>5. CallerAt("destroy", x)
      BY <1>a, <3>1, <3>3 DEF WeakLocals, CallerAt, VictimsAt, CallerPoints
    <3> HIDE DEF x
    <3> QED BY <1>a, <3>1, <3>2, <3>4, <3>5, GoodCaller, QuietStep
  <2>2. CASE Goto(p, "rover") /\ loc' = [loc EXCEPT ![p].seen = totalConns]
    <3> DEFINE x == [loc[p] EXCEPT !.seen = totalConns]
    <3>1. pc[p] = "rfit" /\ UNCHANGED <<totalConns, shards, open, checkedOut>>
      BY <1>3 DEF ReleaseFit, coreVars
    <3>2. pc' = [pc EXCEPT ![p] = "rover"] /\ loc' = [loc EXCEPT ![p] = x]
      BY <2>2, <1>a DEF Goto
    <3>3. x \in WeakLocals /\ Hand(x) = Hand(loc[p]) /\ x.seen \in {0, totalConns}
      BY <1>a DEF WeakLocals, Hand
    <3>4. CallerAt("rover", x)
      BY <1>a, <3>1 DEF WeakLocals, CallerAt, VictimsAt, CallerPoints
    <3> HIDE DEF x
    <3> QED BY <1>a, <3>1, <3>2, <3>3, <3>4, GoodCaller, QuietStep
  <2> QED BY <1>3, <2>1, <2>2 DEF ReleaseFit
<1>4. CASE ReleaseOver(p)
  <2>1. CASE Doom(p, loc[p].conn, "giveback")
    <3> DEFINE x == [loc[p] EXCEPT !.victims = {loc[p].conn}, !.conn = NoConn, !.ret = "giveback"]
    <3>1. pc[p] = "rover" /\ UNCHANGED <<totalConns, shards, open, checkedOut>>
      BY <1>4 DEF ReleaseOver, coreVars
    <3>2. pc' = [pc EXCEPT ![p] = "destroy"] /\ loc' = [loc EXCEPT ![p] = x]
      BY <2>1, <1>a DEF Doom, Goto
    <3>3. loc[p].conn \in Conns /\ loc[p].victims = {}
      BY <1>a, <3>1 DEF CallerAt, VictimsAt, WeakLocals
    <3>4. x \in WeakLocals /\ Hand(x) = Hand(loc[p]) /\ x.seen = loc[p].seen
      BY <1>a, <3>3 DEF WeakLocals, Hand, CallerPoints
    <3>5. CallerAt("destroy", x)
      BY <1>a, <3>1, <3>3 DEF WeakLocals, CallerAt, VictimsAt, CallerPoints
    <3> HIDE DEF x
    <3> QED BY <1>a, <3>1, <3>2, <3>4, <3>5, GoodCaller, QuietStep
  <2>2. CASE Goto(p, "rpush") /\ loc' = [loc EXCEPT ![p].seen = 0]
    <3> DEFINE x == [loc[p] EXCEPT !.seen = 0]
    <3>1. pc[p] = "rover" /\ UNCHANGED <<totalConns, shards, open, checkedOut>>
      BY <1>4 DEF ReleaseOver, coreVars
    <3>2. pc' = [pc EXCEPT ![p] = "rpush"] /\ loc' = [loc EXCEPT ![p] = x]
      BY <2>2, <1>a DEF Goto
    <3>3. x \in WeakLocals /\ Hand(x) = Hand(loc[p]) /\ x.seen \in {0, totalConns}
      BY <1>a DEF WeakLocals, Hand
    <3>4. CallerAt("rpush", x)
      BY <1>a, <3>1 DEF WeakLocals, CallerAt, VictimsAt, CallerPoints
    <3> HIDE DEF x
    <3> QED BY <1>a, <3>1, <3>2, <3>3, <3>4, GoodCaller, QuietStep
  <2> QED BY <1>4, <2>1, <2>2 DEF ReleaseOver
<1>5. CASE ReleasePush(p)
  <2> DEFINE x == [NoLocals EXCEPT !.ret = "none"]
  <2>1. /\ pc[p] = "rpush" /\ pc' = [pc EXCEPT ![p] = "giveback"]
        /\ loc' = [loc EXCEPT ![p] = x]
        /\ shards' = [shards EXCEPT ![loc[p].shard] = Append(@, loc[p].conn)]
        /\ UNCHANGED <<totalConns, open, checkedOut>>
    BY <1>5 DEF ReleasePush, Push, Move, Goto
  <2>2. loc[p].conn \in Conns /\ Hand(loc[p]) = {loc[p].conn}
    BY <1>a, <2>1 DEF CallerAt, VictimsAt, WeakLocals, Hand
  <2>3. x \in WeakLocals /\ Hand(x) = {} /\ x.seen = 0
    BY <1>a, <1>b, CeilingAssumption DEF WeakLocals, NoLocals, Hand, CallerPoints
  <2>4. CallerAt("giveback", x)
    BY DEF NoLocals, CallerAt, VictimsAt, CallerPoints
  <2>5. Pushes(p, "giveback", x)
    BY <2>1, <2>2, <2>3 DEF Pushes, Slots
  <2> HIDE DEF x
  <2> QED BY <1>a, <2>1, <2>3, <2>4, <2>5, GoodCaller DEF StepsTo, Moves, ChecksOut
<1> QED BY <1>1, <1>2, <1>3, <1>4, <1>5 DEF Release

\* SweepShard's bookkeeping for the goroutine p.
LEMMA SweepShardStep ==
  ASSUME Control, NEW p \in Procs, pc[p] = "sweep", loc[p].conn = NoConn,
         loc[p].victims = {}, NEW kept \in Kept(shards[loc[p].shard]),
         SweepShard(p, kept),
         \A l, x : /\ l \in {"sweep", "destroy"} /\ x \in WeakLocals
                   /\ x.conn = NoConn /\ x.ret = "sweep"
                   /\ x.victims = {} <=> l = "sweep"
                   /\ x.want = loc[p].want /\ x.left = loc[p].left - 1
                   /\ x.left > 0 => x.shard = (loc[p].shard + 1) % ShardCount
                   /\ loc[p].left > 0
                   => GoodAt(p, l, x)
  PROVE  \E l, x : StepsTo(p, l, x)
<1> DEFINE s == loc[p].shard
           taken == InShard(s) \ {kept[i] : i \in 1 .. Len(kept)}
           l == IF taken = {} THEN "sweep" ELSE "destroy"
           x == [loc[p] EXCEPT !.victims = taken, !.ret = "sweep", !.left = @ - 1,
                               !.shard = (@ + 1) % ShardCount]
<1>1. /\ loc[p] \in WeakLocals /\ s \in Shards /\ loc[p].left \in 0 .. ShardCount
      /\ shards \in [Shards -> Seq(Conns)]
  BY ControlAt DEF Control, GlobalTypes
<1>2. /\ loc[p].left > 0 /\ pc' = [pc EXCEPT ![p] = l] /\ loc' = [loc EXCEPT ![p] = x]
      /\ shards' = [shards EXCEPT ![s] = kept]
      /\ UNCHANGED <<totalConns, open, checkedOut>>
  BY <1>1 DEF SweepShard, Goto
<1>3. taken \in SUBSET Conns
  BY <1>1 DEF InShard
<1>4. (s + 1) % ShardCount \in Shards
  BY <1>1, NextShard
<1> HIDE DEF taken
<1>z. loc[p].left - 1 \in 0 .. ShardCount
  BY <1>1, <1>2, CoreAssumption
<1>5. /\ x \in WeakLocals /\ x.conn = NoConn /\ x.ret = "sweep" /\ x.victims = taken
      /\ x.want = loc[p].want /\ x.left = loc[p].left - 1
      /\ x.shard = (s + 1) % ShardCount /\ x.seen = loc[p].seen
  BY <1>1, <1>3, <1>4, <1>z DEF WeakLocals, MaintainerPoints
<1> HIDE DEF x
<1>6. GoodAt(p, l, x)
  BY <1>2, <1>5
<1>7. Hand(x) = taken /\ Hand(loc[p]) = {}
  BY <1>5 DEF Hand
<1>8. Sweeps(p, l, x)
  BY <1>2, <1>7 DEF Sweeps, Slots, taken
<1> QED BY <1>2, <1>5, <1>6, <1>8 DEF StepsTo, Moves, ChecksOut

\* Every step of maintain.
LEMMA MaintainSteps ==
  ASSUME Control, Maintain
  PROVE  \E l, x : StepsTo(Maintainer, l, x)
<1>a. /\ Maintainer \in Procs /\ loc[Maintainer] \in WeakLocals /\ MaintainerAt(pc[Maintainer], loc[Maintainer])
      /\ totalConns \in Int /\ maxConns \in Int /\ NoConn \notin Conns
  BY ControlAt, Kinds, GoodMaintainer, CoreAssumption, CeilingAssumption DEF Control, GlobalTypes
<1>b. 0 \in Shards /\ ShardCount \in 0 .. ShardCount /\ ShardCount > 0
  BY CoreAssumption DEF Shards
<1>1. CASE WarmCheck
  <2>1. /\ pc[Maintainer] = "warm" /\ pc' = [pc EXCEPT ![Maintainer] = (IF totalConns < MinConns THEN "wclosed" ELSE "wait")]
        /\ UNCHANGED <<loc, totalConns, shards, open, checkedOut>>
    BY <1>1 DEF WarmCheck, Move, Goto, coreVars
  <2>2. MaintainerAt((IF totalConns < MinConns THEN "wclosed" ELSE "wait"), loc[Maintainer])
    BY <1>a, <2>1 DEF MaintainerAt, VictimsAt, MaintainerPoints
  <2> QED BY <1>a, <2>1, <2>2, GoodMaintainer, Hop
<1>2. CASE WarmClosed
  <2>1. /\ pc[Maintainer] = "wclosed" /\ pc' = [pc EXCEPT ![Maintainer] = (IF closed THEN "wait" ELSE "wpermit")]
        /\ UNCHANGED <<loc, totalConns, shards, open, checkedOut>>
    BY <1>2 DEF WarmClosed, Move, Goto, coreVars
  <2>2. MaintainerAt((IF closed THEN "wait" ELSE "wpermit"), loc[Maintainer])
    BY <1>a, <2>1 DEF MaintainerAt, VictimsAt, MaintainerPoints
  <2> QED BY <1>a, <2>1, <2>2, GoodMaintainer, Hop
<1>3. CASE WarmTry
  <2>1. /\ pc[Maintainer] = "wpermit" /\ pc' = [pc EXCEPT ![Maintainer] = "load"]
        /\ UNCHANGED <<loc, totalConns, shards, open, checkedOut>>
    BY <1>3 DEF WarmTry, Move, Goto, coreVars
  <2>2. MaintainerAt("load", loc[Maintainer])
    BY <1>a, <2>1 DEF MaintainerAt, VictimsAt, MaintainerPoints
  <2> QED BY <1>a, <2>1, <2>2, GoodMaintainer, Hop
<1>4. CASE WarmWait
  <2>1. /\ pc[Maintainer] = "wpermit" /\ pc' = [pc EXCEPT ![Maintainer] = "parked"]
        /\ UNCHANGED <<loc, totalConns, shards, open, checkedOut>>
    BY <1>4 DEF WarmWait, Move, Goto, coreVars
  <2>2. MaintainerAt("parked", loc[Maintainer])
    BY <1>a, <2>1 DEF MaintainerAt, VictimsAt, MaintainerPoints
  <2> QED BY <1>a, <2>1, <2>2, GoodMaintainer, Hop
<1>5. CASE WarmServed
  <2>1. /\ pc[Maintainer] = "parked" /\ pc' = [pc EXCEPT ![Maintainer] = "load"]
        /\ UNCHANGED <<loc, totalConns, shards, open, checkedOut>>
    BY <1>5 DEF WarmServed, Move, Goto, coreVars
  <2>2. MaintainerAt("load", loc[Maintainer])
    BY <1>a, <2>1 DEF MaintainerAt, VictimsAt, MaintainerPoints
  <2> QED BY <1>a, <2>1, <2>2, GoodMaintainer, Hop
<1>6. CASE WarmCancelled
  <2>1. /\ pc[Maintainer] = "parked" /\ pc' = [pc EXCEPT ![Maintainer] = "wait"]
        /\ UNCHANGED <<loc, totalConns, shards, open, checkedOut>>
    BY <1>6 DEF WarmCancelled, Move, Goto, coreVars
  <2>2. MaintainerAt("wait", loc[Maintainer])
    BY <1>a, <2>1 DEF MaintainerAt, VictimsAt, MaintainerPoints
  <2> QED BY <1>a, <2>1, <2>2, GoodMaintainer, Hop
<1>7. CASE MaintainExit
  <2>1. /\ pc[Maintainer] = "wait" /\ pc' = [pc EXCEPT ![Maintainer] = "exited"]
        /\ UNCHANGED <<loc, totalConns, shards, open, checkedOut>>
    BY <1>7 DEF MaintainExit, Move, Goto, coreVars
  <2>2. MaintainerAt("exited", loc[Maintainer])
    BY <1>a, <2>1 DEF MaintainerAt, VictimsAt, MaintainerPoints
  <2> QED BY <1>a, <2>1, <2>2, GoodMaintainer, Hop
<1>8. CASE WarmPush
  <2> DEFINE x == [NoLocals EXCEPT !.ret = "warm"]
  <2>1. /\ pc[Maintainer] = "push" /\ pc' = [pc EXCEPT ![Maintainer] = "giveback"]
        /\ loc' = [loc EXCEPT ![Maintainer] = x]
        /\ shards' = [shards EXCEPT ![loc[Maintainer].shard] = Append(@, loc[Maintainer].conn)]
        /\ UNCHANGED <<totalConns, open, checkedOut>>
    BY <1>8 DEF WarmPush, Push, Move, Goto
  <2>2. loc[Maintainer].conn \in Conns /\ Hand(loc[Maintainer]) = {loc[Maintainer].conn}
    BY <1>a, <2>1 DEF MaintainerAt, VictimsAt, WeakLocals, Hand
  <2>3. x \in WeakLocals /\ Hand(x) = {} /\ x.seen = 0
    BY <1>a, <1>b, CeilingAssumption DEF WeakLocals, NoLocals, Hand, MaintainerPoints
  <2>4. MaintainerAt("giveback", x)
    BY DEF NoLocals, MaintainerAt, VictimsAt, MaintainerPoints
  <2>5. Pushes(Maintainer, "giveback", x)
    BY <2>1, <2>2, <2>3 DEF Pushes, Slots
  <2> HIDE DEF x
  <2> QED BY <1>a, <2>1, <2>3, <2>4, <2>5, GoodMaintainer DEF StepsTo, Moves, ChecksOut
<1>9. CASE HealthTick
  <2> DEFINE x == [loc[Maintainer] EXCEPT !.shard = 0, !.left = ShardCount]
  <2>1. /\ pc[Maintainer] = "wait" /\ pc' = [pc EXCEPT ![Maintainer] = "sweep"]
        /\ loc' = [loc EXCEPT ![Maintainer] = x]
        /\ UNCHANGED <<totalConns, shards, open, checkedOut>>
    BY <1>9, <1>a DEF HealthTick, SweepFrom, Goto, coreVars
  <2>2. x \in WeakLocals /\ Hand(x) = Hand(loc[Maintainer]) /\ x.seen \in {0, loc[Maintainer].seen, totalConns}
    BY <1>a, <2>1, <1>b DEF WeakLocals, Hand
  <2>3. MaintainerAt("sweep", x)
    BY <1>a, <2>1, <1>b DEF WeakLocals, MaintainerAt, VictimsAt, MaintainerPoints
  <2> HIDE DEF x
  <2> QED BY <1>a, <2>1, <2>2, <2>3, GoodMaintainer, QuietStep
<1>10. CASE ReapDone
  <2> DEFINE x == [loc[Maintainer] EXCEPT !.ret = "none"]
  <2>1. /\ pc[Maintainer] = "sweep" /\ pc' = [pc EXCEPT ![Maintainer] = "warm"]
        /\ loc' = [loc EXCEPT ![Maintainer] = x]
        /\ UNCHANGED <<totalConns, shards, open, checkedOut>>
    BY <1>10, <1>a DEF ReapDone, SweepDone, Move, Goto, coreVars
  <2>2. x \in WeakLocals /\ Hand(x) = Hand(loc[Maintainer]) /\ x.seen \in {0, loc[Maintainer].seen, totalConns}
    BY <1>a, <2>1 DEF WeakLocals, Hand
  <2>3. MaintainerAt("warm", x)
    BY <1>a, <2>1 DEF WeakLocals, MaintainerAt, VictimsAt, MaintainerPoints
  <2> HIDE DEF x
  <2> QED BY <1>a, <2>1, <2>2, <2>3, GoodMaintainer, QuietStep
<1>11. CASE Reap
  <2>1. PICK kept \in Kept(shards[loc[Maintainer].shard]) : SweepShard(Maintainer, kept)
    BY <1>11 DEF Reap
  <2>2. pc[Maintainer] = "sweep"
    BY <2>1 DEF SweepShard
  <2>3. loc[Maintainer].conn = NoConn /\ loc[Maintainer].victims = {}
    BY <1>a, <2>2 DEF MaintainerAt, VictimsAt
  <2>4. ASSUME NEW l \in {"sweep", "destroy"}, NEW x \in WeakLocals, x.conn = NoConn,
               x.ret = "sweep", x.victims = {} <=> l = "sweep"
        PROVE  GoodAt(Maintainer, l, x)
    BY <2>4, GoodMaintainer DEF MaintainerAt, VictimsAt, MaintainerPoints
  <2> QED BY <1>a, <2>1, <2>2, <2>3, <2>4, SweepShardStep
<1> QED BY <1>1, <1>2, <1>3, <1>4, <1>5, <1>6, <1>7, <1>8, <1>9, <1>10, <1>11 DEF Maintain

\* Every step of SetMaxConns.
LEMMA ResizeSteps ==
  ASSUME Control, NEW r \in Resizers, Resize(r)
  PROVE  \E l, x : StepsTo(r, l, x)
<1>a. /\ r \in Procs /\ loc[r] \in WeakLocals /\ ResizerAt(pc[r], loc[r])
      /\ totalConns \in Int /\ maxConns \in Int /\ NoConn \notin Conns
  BY ControlAt, Kinds, GoodResizer, CoreAssumption, CeilingAssumption DEF Control, GlobalTypes
<1>b. 0 \in Shards /\ ShardCount \in 0 .. ShardCount /\ ShardCount > 0
  BY CoreAssumption DEF Shards
<1>1. CASE \E n \in Targets : SetMaxConns(r, n)
  <2>1. PICK n \in Targets : SetMaxConns(r, n)
    BY <1>1
  <2> DEFINE x == [loc[r] EXCEPT !.want = n]
  <2>2. /\ pc[r] = "rest" /\ pc' = [pc EXCEPT ![r] = "lock"]
        /\ loc' = [loc EXCEPT ![r] = x]
        /\ UNCHANGED <<totalConns, shards, open, checkedOut>>
    BY <1>a, <2>1 DEF SetMaxConns, Move, Goto, coreVars
  <2>3. n \in 0 .. Ceiling
    BY CoreAssumption, CeilingAssumption
  <2>4. x \in WeakLocals /\ Hand(x) = Hand(loc[r]) /\ x.seen = loc[r].seen
    BY <1>a, <2>3 DEF WeakLocals, Hand
  <2>5. ResizerAt("lock", x)
    BY <1>a, <2>2 DEF WeakLocals, ResizerAt, VictimsAt, ResizerPoints
  <2> HIDE DEF x
  <2> QED BY <1>a, <2>2, <2>4, <2>5, GoodResizer, QuietStep
<1>2. CASE ResizeLock(r)
  <2>1. /\ pc[r] = "lock" /\ pc' = [pc EXCEPT ![r] = "store"]
        /\ UNCHANGED <<loc, totalConns, shards, open, checkedOut>>
    BY <1>2 DEF ResizeLock, Move, Goto, coreVars
  <2>2. ResizerAt("store", loc[r])
    BY <1>a, <2>1 DEF ResizerAt, VictimsAt, ResizerPoints
  <2> QED BY <1>a, <2>1, <2>2, GoodResizer, Hop
<1>3. CASE ResizeStore(r)
  <2>1. /\ pc[r] = "store" /\ pc' = [pc EXCEPT ![r] = "swap"]
        /\ UNCHANGED <<loc, totalConns, shards, open, checkedOut>>
    BY <1>3 DEF ResizeStore, Move, Goto, coreVars
  <2>2. ResizerAt("swap", loc[r])
    BY <1>a, <2>1 DEF ResizerAt, VictimsAt, ResizerPoints
  <2> QED BY <1>a, <2>1, <2>2, GoodResizer, Hop
<1>4. CASE ResizePermits(r)
  <2>1. PICK l : /\ pc' = [pc EXCEPT ![r] = l]
                 /\ \/ pc[r] = "swap" /\ l = "units"
                    \/ pc[r] = "units" /\ l \in {"units", "trim"}
                 /\ UNCHANGED <<loc, totalConns, shards, open, checkedOut>>
    BY <1>4 DEF ResizePermits, Move, Goto, coreVars
  <2>2. ResizerAt(l, loc[r])
    BY <1>a, <2>1 DEF ResizerAt, VictimsAt, ResizerPoints
  <2> QED BY <1>a, <2>1, <2>2, GoodResizer, Hop
<1>5. CASE Trim(r)
  <2>1. CASE pc' = [pc EXCEPT ![r] = "unlock"] /\ UNCHANGED loc
    <3>1. pc[r] = "trim" /\ UNCHANGED <<totalConns, shards, open, checkedOut>>
      BY <1>5 DEF Trim, coreVars
    <3>2. ResizerAt("unlock", loc[r])
      BY <1>a, <3>1 DEF ResizerAt, VictimsAt, ResizerPoints
    <3> QED BY <1>a, <2>1, <3>1, <3>2, GoodResizer, Hop
  <2>2. CASE \E s \in Shards : ProbeFrom(r, s)
    <3>1. pc[r] = "trim" /\ UNCHANGED <<totalConns, shards, open, checkedOut>>
      BY <1>5 DEF Trim, coreVars
    <3>2. PICK s \in Shards : ProbeFrom(r, s)
      BY <2>2
    <3> DEFINE x == [loc[r] EXCEPT !.shard = s, !.left = ShardCount, !.seen = 0]
    <3>3. pc' = [pc EXCEPT ![r] = "probe"] /\ loc' = [loc EXCEPT ![r] = x]
      BY <3>2, <1>a DEF ProbeFrom, Goto
    <3>4. x \in WeakLocals /\ Hand(x) = Hand(loc[r])
      BY <1>a, <3>2, ProbeLocals
    <3>6. x.seen = 0
      BY <1>a DEF WeakLocals
    <3>5. ResizerAt("probe", x)
      BY <1>a, <1>b, <3>1 DEF WeakLocals, ResizerAt, VictimsAt, ResizerPoints
    <3> HIDE DEF x
    <3> QED BY <1>a, <3>1, <3>3, <3>4, <3>5, <3>6, GoodResizer, QuietStep
  <2> QED BY <1>5, <2>1, <2>2 DEF Trim, Goto
<1>6. CASE ResizeUnlock(r)
  <2>1. /\ pc[r] = "unlock" /\ pc' = [pc EXCEPT ![r] = "rest"]
        /\ loc' = [loc EXCEPT ![r] = NoLocals]
        /\ UNCHANGED <<totalConns, shards, open, checkedOut>>
    BY <1>6 DEF ResizeUnlock, Move, Goto
  <2>2. NoLocals \in WeakLocals /\ Hand(NoLocals) = Hand(loc[r]) /\ NoLocals.seen = 0
    BY <1>a, <1>b, <2>1, CeilingAssumption DEF NoLocals, WeakLocals, Hand, ResizerAt, VictimsAt
  <2>3. ResizerAt("rest", NoLocals)
    BY DEF NoLocals, ResizerAt, VictimsAt, ResizerPoints
  <2> QED BY <1>a, <2>1, <2>2, <2>3, GoodResizer, QuietStep
<1> QED BY <1>1, <1>2, <1>3, <1>4, <1>5, <1>6 DEF Resize

\* Every step of EvictIdle.
LEMMA EvictSteps ==
  ASSUME Control, NEW p \in Evictors, Evict(p)
  PROVE  \E l, x : StepsTo(p, l, x)
<1>a. /\ p \in Procs /\ loc[p] \in WeakLocals /\ EvictorAt(pc[p], loc[p])
      /\ totalConns \in Int /\ maxConns \in Int /\ NoConn \notin Conns
  BY ControlAt, Kinds, GoodEvictor, CoreAssumption, CeilingAssumption DEF Control, GlobalTypes
<1>b. 0 \in Shards /\ ShardCount \in 0 .. ShardCount /\ ShardCount > 0
  BY CoreAssumption DEF Shards
<1>1. CASE EvictIdle(p)
  <2> DEFINE x == [loc[p] EXCEPT !.shard = 0, !.left = ShardCount]
  <2>1. /\ pc[p] = "rest" /\ pc' = [pc EXCEPT ![p] = "sweep"]
        /\ loc' = [loc EXCEPT ![p] = x]
        /\ UNCHANGED <<totalConns, shards, open, checkedOut>>
    BY <1>1, <1>a DEF EvictIdle, SweepFrom, Goto, coreVars
  <2>2. x \in WeakLocals /\ Hand(x) = Hand(loc[p]) /\ x.seen \in {0, loc[p].seen, totalConns}
    BY <1>a, <2>1, <1>b DEF WeakLocals, Hand
  <2>3. EvictorAt("sweep", x)
    BY <1>a, <2>1, <1>b DEF WeakLocals, EvictorAt, VictimsAt, EvictorPoints
  <2> HIDE DEF x
  <2> QED BY <1>a, <2>1, <2>2, <2>3, GoodEvictor, QuietStep
<1>2. CASE SweepShard(p, << >>)
  <2>1. pc[p] = "sweep" /\ << >> \in Kept(shards[loc[p].shard])
    BY <1>2, <1>a, KeptNone, ControlAt DEF SweepShard, Control, GlobalTypes
  <2>2. loc[p].conn = NoConn /\ loc[p].victims = {}
    BY <1>a, <2>1 DEF EvictorAt, VictimsAt
  <2>3. ASSUME NEW l \in {"sweep", "destroy"}, NEW x \in WeakLocals, x.conn = NoConn,
               x.ret = "sweep", x.victims = {} <=> l = "sweep"
        PROVE  GoodAt(p, l, x)
    BY <2>3, GoodEvictor DEF EvictorAt, VictimsAt, EvictorPoints
  <2> QED BY <1>2, <1>a, <2>1, <2>2, <2>3, SweepShardStep
<1>3. CASE SweepDone(p, "rest")
  <2> DEFINE x == [loc[p] EXCEPT !.ret = "none"]
  <2>1. /\ pc[p] = "sweep" /\ pc' = [pc EXCEPT ![p] = "rest"]
        /\ loc' = [loc EXCEPT ![p] = x]
        /\ UNCHANGED <<totalConns, shards, open, checkedOut>>
    BY <1>3, <1>a DEF SweepDone, Move, Goto, coreVars
  <2>2. x \in WeakLocals /\ Hand(x) = Hand(loc[p]) /\ x.seen \in {0, loc[p].seen, totalConns}
    BY <1>a, <2>1 DEF WeakLocals, Hand
  <2>3. EvictorAt("rest", x)
    BY <1>a, <2>1 DEF WeakLocals, EvictorAt, VictimsAt, EvictorPoints
  <2> HIDE DEF x
  <2> QED BY <1>a, <2>1, <2>2, <2>3, GoodEvictor, QuietStep
<1> QED BY <1>1, <1>2, <1>3 DEF Evict

\* Every step of Close.
LEMMA CloseSteps ==
  ASSUME Control, Close
  PROVE  \E l, x : StepsTo(Closer, l, x)
<1>a. /\ Closer \in Procs /\ loc[Closer] \in WeakLocals /\ CloserAt(pc[Closer], loc[Closer])
      /\ totalConns \in Int /\ maxConns \in Int /\ NoConn \notin Conns
  BY ControlAt, Kinds, GoodCloser, CoreAssumption, CeilingAssumption DEF Control, GlobalTypes
<1>b. 0 \in Shards /\ ShardCount \in 0 .. ShardCount /\ ShardCount > 0
  BY CoreAssumption DEF Shards
<1>1. CASE CloseStart
  <2>1. /\ pc[Closer] = "open" /\ pc' = [pc EXCEPT ![Closer] = "cancel"]
        /\ UNCHANGED <<loc, totalConns, shards, open, checkedOut>>
    BY <1>1 DEF CloseStart, Move, Goto, coreVars
  <2>2. CloserAt("cancel", loc[Closer])
    BY <1>a, <2>1 DEF CloserAt, VictimsAt, CloserPoints
  <2> QED BY <1>a, <2>1, <2>2, GoodCloser, Hop
<1>2. CASE CloseCancel
  <2>1. /\ pc[Closer] = "cancel" /\ pc' = [pc EXCEPT ![Closer] = "join"]
        /\ UNCHANGED <<loc, totalConns, shards, open, checkedOut>>
    BY <1>2 DEF CloseCancel, Move, Goto, coreVars
  <2>2. CloserAt("join", loc[Closer])
    BY <1>a, <2>1 DEF CloserAt, VictimsAt, CloserPoints
  <2> QED BY <1>a, <2>1, <2>2, GoodCloser, Hop
<1>3. CASE CloseJoin
  <2> DEFINE x == [loc[Closer] EXCEPT !.want = maxConns]
  <2>1. /\ pc[Closer] = "join" /\ pc' = [pc EXCEPT ![Closer] = "drain"]
        /\ loc' = [loc EXCEPT ![Closer] = x]
        /\ UNCHANGED <<totalConns, shards, open, checkedOut>>
    BY <1>3, <1>a DEF CloseJoin, Move, Goto, coreVars
  <2>2. x \in WeakLocals /\ Hand(x) = Hand(loc[Closer]) /\ x.seen \in {0, loc[Closer].seen, totalConns}
    BY <1>a, <2>1, CeilingAssumption DEF WeakLocals, Hand, Control, GlobalTypes
  <2>3. CloserAt("drain", x)
    BY <1>a, <2>1, CeilingAssumption DEF WeakLocals, CloserAt, VictimsAt, CloserPoints
  <2> HIDE DEF x
  <2> QED BY <1>a, <2>1, <2>2, <2>3, GoodCloser, QuietStep
<1>4. CASE DrainReceive
  <2> DEFINE x == [loc[Closer] EXCEPT !.want = @ - 1]
  <2>1. /\ pc[Closer] = "drain" /\ pc' = [pc EXCEPT ![Closer] = "drain"] /\ loc[Closer].want > 0
        /\ loc' = [loc EXCEPT ![Closer] = x]
        /\ UNCHANGED <<totalConns, shards, open, checkedOut>>
    BY <1>4, <1>a DEF DrainReceive, Reclaim, Goto
  <2>2. x \in WeakLocals /\ Hand(x) = Hand(loc[Closer]) /\ x.seen \in {0, loc[Closer].seen, totalConns}
    BY <1>a, <2>1, ReclaimLocals
  <2>3. CloserAt("drain", x)
    BY <1>a, <2>1 DEF WeakLocals, CloserAt, VictimsAt, CloserPoints
  <2> HIDE DEF x
  <2> QED BY <1>a, <2>1, <2>2, <2>3, GoodCloser, QuietStep
<1>5. CASE DrainPark
  <2>1. /\ pc[Closer] = "drain" /\ pc' = [pc EXCEPT ![Closer] = "dparked"] /\ loc[Closer].want > 0
        /\ UNCHANGED <<loc, totalConns, shards, open, checkedOut>>
    BY <1>5 DEF DrainPark, Move, Goto, coreVars
  <2>2. CloserAt("dparked", loc[Closer])
    BY <1>a, <2>1 DEF CloserAt, VictimsAt, CloserPoints
  <2> QED BY <1>a, <2>1, <2>2, GoodCloser, Hop
<1>6. CASE DrainServed
  <2> DEFINE x == [loc[Closer] EXCEPT !.want = @ - 1]
  <2>1. /\ pc[Closer] = "dparked" /\ pc' = [pc EXCEPT ![Closer] = "drain"] /\ loc[Closer].want > 0
        /\ loc' = [loc EXCEPT ![Closer] = x]
        /\ UNCHANGED <<totalConns, shards, open, checkedOut>>
    BY <1>6, <1>a DEF DrainServed, Reclaim, Goto, CloserAt
  <2>2. x \in WeakLocals /\ Hand(x) = Hand(loc[Closer]) /\ x.seen \in {0, loc[Closer].seen, totalConns}
    BY <1>a, <2>1, ReclaimLocals
  <2>3. CloserAt("drain", x)
    BY <1>a, <2>1 DEF WeakLocals, CloserAt, VictimsAt, CloserPoints
  <2> HIDE DEF x
  <2> QED BY <1>a, <2>1, <2>2, <2>3, GoodCloser, QuietStep
<1>7. CASE DrainTimeout
  <2> DEFINE x == [loc[Closer] EXCEPT !.shard = 0, !.left = ShardCount]
  <2>1. /\ pc[Closer] \in {"drain", "dparked"} /\ pc' = [pc EXCEPT ![Closer] = "sweep"]
        /\ loc' = [loc EXCEPT ![Closer] = x]
        /\ UNCHANGED <<totalConns, shards, open, checkedOut>>
    BY <1>7, <1>a DEF DrainTimeout, SweepFrom, Goto, coreVars
  <2>2. x \in WeakLocals /\ Hand(x) = Hand(loc[Closer]) /\ x.seen \in {0, loc[Closer].seen, totalConns}
    BY <1>a, <2>1, <1>b DEF WeakLocals, Hand
  <2>3. CloserAt("sweep", x)
    BY <1>a, <2>1, <1>b DEF WeakLocals, CloserAt, VictimsAt, CloserPoints
  <2> HIDE DEF x
  <2> QED BY <1>a, <2>1, <2>2, <2>3, GoodCloser, QuietStep
<1>8. CASE DrainReturn
  <2> DEFINE x == [loc[Closer] EXCEPT !.shard = 0, !.left = ShardCount]
  <2>1. /\ pc[Closer] = "drain" /\ pc' = [pc EXCEPT ![Closer] = "sweep"]
        /\ loc' = [loc EXCEPT ![Closer] = x]
        /\ UNCHANGED <<totalConns, shards, open, checkedOut>>
    BY <1>8, <1>a DEF DrainReturn, SweepFrom, Goto, coreVars
  <2>2. x \in WeakLocals /\ Hand(x) = Hand(loc[Closer]) /\ x.seen \in {0, loc[Closer].seen, totalConns}
    BY <1>a, <2>1, <1>b DEF WeakLocals, Hand
  <2>3. CloserAt("sweep", x)
    BY <1>a, <2>1, <1>b DEF WeakLocals, CloserAt, VictimsAt, CloserPoints
  <2> HIDE DEF x
  <2> QED BY <1>a, <2>1, <2>2, <2>3, GoodCloser, QuietStep
<1>9. CASE SweepShard(Closer, << >>)
  <2>1. pc[Closer] = "sweep" /\ << >> \in Kept(shards[loc[Closer].shard])
    BY <1>9, <1>a, KeptNone, ControlAt DEF SweepShard, Control, GlobalTypes
  <2>2. loc[Closer].conn = NoConn /\ loc[Closer].victims = {}
    BY <1>a, <2>1 DEF CloserAt, VictimsAt
  <2>3. /\ loc[Closer].shard \in Shards /\ loc[Closer].left \in 0 .. ShardCount
        /\ loc[Closer].left > 0 => loc[Closer].shard = ShardCount - loc[Closer].left
    BY <1>a, <2>1, ControlAt DEF CloserAt
  <2>4. ASSUME NEW l \in {"sweep", "destroy"}, NEW x \in WeakLocals, x.conn = NoConn,
               x.ret = "sweep", x.victims = {} <=> l = "sweep", x.left = loc[Closer].left - 1,
               x.left > 0 => x.shard = (loc[Closer].shard + 1) % ShardCount,
               loc[Closer].left > 0
        PROVE  GoodAt(Closer, l, x)
    <3>1. x.left > 0 => x.shard = ShardCount - x.left
      BY <1>b, <2>3, <2>4, NextShard, CoreAssumption
    <3> QED BY <2>4, <3>1, GoodCloser DEF CloserAt, VictimsAt, CloserPoints
  <2> QED BY <1>9, <1>a, <2>1, <2>2, <2>4, SweepShardStep
<1>10. CASE SweepDone(Closer, "closed")
  <2> DEFINE x == [loc[Closer] EXCEPT !.ret = "none"]
  <2>1. /\ pc[Closer] = "sweep" /\ pc' = [pc EXCEPT ![Closer] = "closed"]
        /\ loc' = [loc EXCEPT ![Closer] = x]
        /\ UNCHANGED <<totalConns, shards, open, checkedOut>>
    BY <1>10, <1>a DEF SweepDone, Move, Goto, coreVars
  <2>2. x \in WeakLocals /\ Hand(x) = Hand(loc[Closer]) /\ x.seen \in {0, loc[Closer].seen, totalConns}
    BY <1>a, <2>1 DEF WeakLocals, Hand
  <2>3. CloserAt("closed", x)
    BY <1>a, <2>1 DEF WeakLocals, CloserAt, VictimsAt, CloserPoints
  <2> HIDE DEF x
  <2> QED BY <1>a, <2>1, <2>2, <2>3, GoodCloser, QuietStep
<1> QED BY <1>1, <1>2, <1>3, <1>4, <1>5, <1>6, <1>7, <1>8, <1>9, <1>10 DEF Close, CloseSweep

\* A loaded count is forgotten.
LEMMA ForgetSeen ==
  ASSUME NEW y \in WeakLocals
  PROVE  /\ [y EXCEPT !.seen = 0] \in WeakLocals
         /\ [y EXCEPT !.seen = 0, !.ret = "wait"] \in WeakLocals
<1>1. PICK m \in Int : m = 0
  OBVIOUS
<1>2. [y EXCEPT !.seen = m] \in WeakLocals
  BY DEF WeakLocals
<1>3. [y EXCEPT !.seen = m, !.ret = "wait"] \in WeakLocals
  BY DEF WeakLocals, MaintainerPoints
<1> QED BY <1>1, <1>2, <1>3

\* Where a goroutine has no connection in hand, and where nothing to close.
LEMMA EmptyHand ==
  ASSUME NEW p \in Procs, NEW l, NEW x, GoodAt(p, l, x)
  PROVE  /\ l \in {"destroy", "uncount", "probe", "load", "compare", "cas", "dial",
                   "giveback", "send"} => x.conn = NoConn
         /\ l \notin {"destroy", "uncount"} => x.victims = {}
BY DEF GoodAt, Procs, CallerAt, MaintainerAt, ResizerAt, EvictorAt, CloserAt, VictimsAt

\* Who runs which shared step.
LEMMA WhoIsAt ==
  ASSUME NEW p \in Procs, NEW l, NEW x, GoodAt(p, l, x)
  PROVE  /\ l = "probe" => p \in Callers \cup Resizers
         /\ l \in {"load", "compare", "cas", "dial", "giveback", "send"}
              => p \in Callers \cup {Maintainer}
         /\ l = "probe" => x.left > 0
         /\ p = Maintainer /\ l \in {"giveback", "send"} => x.ret \in {"wait", "warm"}
BY DEF GoodAt, Procs, CallerAt, MaintainerAt, ResizerAt, EvictorAt, CloserAt,
       CallerPoints, MaintainerPoints, ResizerPoints, EvictorPoints, CloserPoints

\* A connection popped by a scan and about to be closed.
LEMMA DoomedPop ==
  ASSUME Control, NEW p \in Procs, pc[p] = "probe", NEW c \in Conns, NEW r,
         r = "probe" \/ (r = "trim" /\ p \in Resizers), Doom(p, c, r)
  PROVE  \E x : /\ x \in WeakLocals /\ GoodAt(p, "destroy", x)
                /\ pc' = [pc EXCEPT ![p] = "destroy"] /\ loc' = [loc EXCEPT ![p] = x]
                /\ Hand(x) = {c} /\ x.seen = loc[p].seen
<1> DEFINE x == [loc[p] EXCEPT !.victims = {c}, !.conn = NoConn, !.ret = r]
<1>1. loc[p] \in WeakLocals /\ GoodAt(p, "probe", loc[p])
  BY ControlAt
<1>2. pc' = [pc EXCEPT ![p] = "destroy"] /\ loc' = [loc EXCEPT ![p] = x]
  BY <1>1 DEF Doom, Goto
<1>3. x \in WeakLocals /\ Hand(x) = {c} /\ x.seen = loc[p].seen
  BY <1>1 DEF WeakLocals, Hand, ResizerPoints
<1>4. /\ p \in Callers \cup Resizers /\ loc[p].left > 0
      /\ x.left = loc[p].left /\ x.ret = r /\ x.victims = {c} /\ x.conn = NoConn
  BY <1>1, WhoIsAt DEF WeakLocals
<1> HIDE DEF x
<1>5. p \in Callers => CallerAt("destroy", x)
  BY <1>4, Kinds DEF CallerAt, VictimsAt, CallerPoints
<1>6. p \in Resizers => ResizerAt("destroy", x)
  BY <1>4 DEF ResizerAt, VictimsAt, ResizerPoints
<1> QED BY <1>2, <1>3, <1>4, <1>5, <1>6, GoodCaller, GoodResizer

\* Every step several operations share.
LEMMA SharedSteps ==
  ASSUME Control, NEW p \in Procs, Shared(p)
  PROVE  \E l, x : StepsTo(p, l, x)
<1>a. /\ loc[p] \in WeakLocals /\ GoodAt(p, pc[p], loc[p])
      /\ totalConns \in Int /\ maxConns \in Int /\ NoConn \notin Conns
      /\ shards \in [Shards -> Seq(Conns)] /\ loc[p].shard \in Shards
      /\ loc[p].left \in 0 .. ShardCount
  BY ControlAt, CoreAssumption, CeilingAssumption DEF Control, GlobalTypes
<1>b. 0 \in Shards /\ ShardCount \in 0 .. ShardCount /\ ShardCount \in Nat \ {0}
  BY CoreAssumption DEF Shards
<1>e. /\ pc[p] \in {"destroy", "uncount", "probe", "load", "compare", "cas", "dial",
                    "giveback", "send"} => loc[p].conn = NoConn
      /\ pc[p] \notin {"destroy", "uncount"} => loc[p].victims = {}
  BY <1>a, EmptyHand
<1>w. /\ pc[p] = "probe" => p \in Callers \cup Resizers /\ loc[p].left > 0
      /\ pc[p] \in {"load", "compare", "cas", "dial", "giveback", "send"}
           => p \in Callers \cup {Maintainer}
      /\ p = Maintainer /\ pc[p] \in {"giveback", "send"} => loc[p].ret \in {"wait", "warm"}
  BY <1>a, WhoIsAt
<1>1. CASE DestroyClose(p)
  <2>1. PICK c \in loc[p].victims :
          open' = open \ {c} /\ loc' = [loc EXCEPT ![p].victims = @ \ {c}]
    BY <1>1 DEF DestroyClose
  <2> DEFINE x == [loc[p] EXCEPT !.victims = @ \ {c}]
  <2>2. /\ pc[p] = "destroy" /\ pc' = [pc EXCEPT ![p] = "uncount"]
        /\ loc' = [loc EXCEPT ![p] = x]
        /\ UNCHANGED <<totalConns, shards, checkedOut>>
    BY <1>1, <1>a, <2>1 DEF DestroyClose, Move, Goto
  <2>3. /\ x \in WeakLocals /\ x.seen = loc[p].seen /\ x.conn = loc[p].conn
        /\ x.ret = loc[p].ret /\ x.left = loc[p].left /\ x.shard = loc[p].shard
        /\ x.victims = loc[p].victims \ {c} /\ x.want = loc[p].want
    BY <1>a, <2>1 DEF WeakLocals
  <2> HIDE DEF x
  <2>4. Hand(x) = Hand(loc[p]) \ {c} /\ c \in Hand(loc[p])
    BY <1>e, <2>1, <2>2, <2>3 DEF Hand
  <2>5. GoodAt(p, "uncount", x)
    BY <1>a, <2>2, <2>3 DEF GoodAt, CallerAt, MaintainerAt, ResizerAt, EvictorAt, CloserAt,
       VictimsAt, CallerPoints, MaintainerPoints, ResizerPoints, EvictorPoints, CloserPoints
  <2>6. Closes(p, "uncount", x)
    BY <2>1, <2>2, <2>4 DEF Closes
  <2> QED BY <2>2, <2>3, <2>5, <2>6 DEF StepsTo, Moves, ChecksOut
<1>2. CASE DestroyCount(p)
  <2> DEFINE l == IF loc[p].victims = {} THEN loc[p].ret ELSE "destroy"
  <2>1. /\ pc[p] = "uncount" /\ pc' = [pc EXCEPT ![p] = l]
        /\ loc' = [loc EXCEPT ![p] = loc[p]]
        /\ totalConns' = totalConns - 1
        /\ UNCHANGED <<shards, open, checkedOut>>
    BY <1>2, <1>a DEF DestroyCount, Move, Goto, ReleaseSlot, Control
  <2>2. GoodAt(p, l, loc[p])
    BY <1>a, <2>1 DEF GoodAt, CallerAt, MaintainerAt, ResizerAt, EvictorAt, CloserAt,
       VictimsAt, CallerPoints, MaintainerPoints, ResizerPoints, EvictorPoints, CloserPoints
  <2>3. l \in {"probe", "giveback", "sweep", "trim", "destroy"}
    BY <1>a, <2>1 DEF GoodAt, Procs, CallerAt, MaintainerAt, ResizerAt, EvictorAt, CloserAt
  <2> HIDE DEF l
  <2> QED BY <1>a, <2>1, <2>2, <2>3 DEF StepsTo, Moves, Frees, Slots, ChecksOut
<1>3. CASE ProbePop(p)
  <2> DEFINE s == loc[p].shard
             c == shards[s][Len(shards[s])]
  <2>1. /\ pc[p] = "probe" /\ Len(shards[s]) > 0 /\ Pop(s)
        /\ UNCHANGED <<totalConns, open, checkedOut>>
    BY <1>3 DEF ProbePop
  <2>2. c \in Conns /\ shards[s] # << >> /\ Hand(loc[p]) = {}
    BY <1>a, <1>e, <2>1 DEF Hand
  <2>3. ASSUME NEW r, r = "probe" \/ (r = "trim" /\ p \in Resizers), Doom(p, c, r)
        PROVE  \E l, x : StepsTo(p, l, x)
    <3>1. PICK x : /\ x \in WeakLocals /\ GoodAt(p, "destroy", x)
                   /\ pc' = [pc EXCEPT ![p] = "destroy"] /\ loc' = [loc EXCEPT ![p] = x]
                   /\ Hand(x) = {c} /\ x.seen = loc[p].seen
      BY <2>1, <2>2, <2>3, DoomedPop
    <3>2. Pops(p, "destroy", x)
      BY <2>1, <2>2, <3>1 DEF Pops, Slots
    <3> QED BY <2>1, <3>1, <3>2 DEF StepsTo, Moves, ChecksOut
  <2>4. CASE /\ p \in Callers
             /\ Goto(p, "taken")
             /\ loc' = [loc EXCEPT ![p].conn = c, ![p].left = 0]
    <3> DEFINE x == [loc[p] EXCEPT !.conn = c, !.left = 0]
    <3>1. pc' = [pc EXCEPT ![p] = "taken"] /\ loc' = [loc EXCEPT ![p] = x]
      BY <2>4 DEF Goto
    <3>2. 0 \in 0 .. ShardCount
      BY <1>b
    <3>3. x \in WeakLocals /\ x.seen = loc[p].seen /\ x.conn = c /\ x.victims = {}
      BY <1>a, <1>e, <2>1, <2>2, <3>2 DEF WeakLocals
    <3> HIDE DEF x
    <3>4. Hand(x) = {c} /\ x.conn # NoConn
      BY <1>a, <2>2, <3>3 DEF Hand
    <3>5. GoodAt(p, "taken", x)
      BY <2>4, <3>3, <3>4, GoodCaller DEF CallerAt, VictimsAt, CallerPoints
    <3>6. Pops(p, "taken", x)
      BY <2>1, <2>2, <3>4 DEF Pops, Slots
    <3> QED BY <2>1, <3>1, <3>3, <3>5, <3>6 DEF StepsTo, Moves, ChecksOut
  <2> QED BY <1>3, <2>3, <2>4 DEF ProbePop
<1>4. CASE ProbeMiss(p)
  <2> DEFINE x == [loc[p] EXCEPT !.left = @ - 1, !.shard = (@ + 1) % ShardCount]
             l == CASE loc[p].left > 1 -> "probe" [] p \in Resizers -> "unlock"
                    [] OTHER -> "load"
  <2>1. /\ pc[p] = "probe" /\ pc' = [pc EXCEPT ![p] = l] /\ loc' = [loc EXCEPT ![p] = x]
        /\ UNCHANGED <<totalConns, shards, open, checkedOut>>
    BY <1>4, <1>a DEF ProbeMiss, Goto, coreVars
  <2>2. (loc[p].shard + 1) % ShardCount \in Shards /\ loc[p].left - 1 \in 0 .. ShardCount
    BY <1>a, <1>b, <1>w, <2>1, NextShard
  <2>3. /\ x \in WeakLocals /\ x.seen = loc[p].seen /\ x.victims = {} /\ x.conn = NoConn
        /\ x.left = loc[p].left - 1
    BY <1>a, <1>e, <2>1, <2>2 DEF WeakLocals
  <2> HIDE DEF x
  <2>4. Hand(x) = Hand(loc[p])
    BY <1>e, <2>1, <2>3 DEF Hand
  <2>5. p \in Callers => CallerAt(l, x)
    BY <1>a, <2>3, Kinds DEF CallerAt, VictimsAt, CallerPoints
  <2>6. p \in Resizers => ResizerAt(l, x)
    BY <1>a, <2>3, Kinds DEF ResizerAt, VictimsAt, ResizerPoints
  <2>7. GoodAt(p, l, x) /\ l \in {"probe", "unlock", "load"}
    BY <1>w, <2>1, <2>5, <2>6, GoodCaller, GoodResizer
  <2> HIDE DEF l
  <2> QED BY <2>1, <2>3, <2>4, <2>7, QuietStep
<1>5. CASE ReserveLoad(p)
  <2> DEFINE x == [loc[p] EXCEPT !.seen = totalConns]
  <2>1. /\ pc[p] = "load" /\ pc' = [pc EXCEPT ![p] = "compare"]
        /\ loc' = [loc EXCEPT ![p] = x]
        /\ UNCHANGED <<totalConns, shards, open, checkedOut>>
    BY <1>5, <1>a DEF ReserveLoad, Move, Goto, coreVars
  <2>2. /\ x \in WeakLocals /\ x.seen = totalConns /\ x.victims = {} /\ x.conn = NoConn
    BY <1>a, <1>e, <2>1 DEF WeakLocals
  <2> HIDE DEF x
  <2>3. Hand(x) = Hand(loc[p])
    BY <1>e, <2>1, <2>2 DEF Hand
  <2>4. CallerAt("compare", x) /\ MaintainerAt("compare", x)
    BY <2>2 DEF CallerAt, MaintainerAt, VictimsAt, CallerPoints, MaintainerPoints
  <2>5. GoodAt(p, "compare", x)
    BY <1>w, <2>1, <2>4, GoodCaller, GoodMaintainer
  <2> QED BY <2>1, <2>2, <2>3, <2>5, QuietStep
<1>6. CASE ReserveCompare(p)
  <2>1. pc[p] = "compare" /\ UNCHANGED <<totalConns, shards, open, checkedOut>>
    BY <1>6 DEF ReserveCompare, coreVars
  <2>2. CASE loc[p].seen < maxConns /\ Goto(p, "cas") /\ UNCHANGED loc
    <3>1. pc' = [pc EXCEPT ![p] = "cas"] /\ loc' = [loc EXCEPT ![p] = loc[p]]
      BY <2>2 DEF Goto, Control
    <3>2. CallerAt("cas", loc[p]) /\ MaintainerAt("cas", loc[p])
      BY <1>e, <2>1 DEF CallerAt, MaintainerAt, VictimsAt, CallerPoints, MaintainerPoints
    <3>3. GoodAt(p, "cas", loc[p])
      BY <1>w, <2>1, <3>2, GoodCaller, GoodMaintainer
    <3> QED BY <1>a, <2>1, <2>2, <3>1, <3>3, QuietStep
  <2>3. CASE /\ Goto(p, IF p = Maintainer THEN "giveback" ELSE "full")
             /\ loc' = [loc EXCEPT ![p].seen = 0, ![p].ret = "wait"]
    <3> DEFINE x == [loc[p] EXCEPT !.seen = 0, !.ret = "wait"]
               l == IF p = Maintainer THEN "giveback" ELSE "full"
    <3>1. pc' = [pc EXCEPT ![p] = l] /\ loc' = [loc EXCEPT ![p] = x]
      BY <2>3 DEF Goto
    <3>2. /\ x \in WeakLocals /\ x.seen = 0 /\ x.victims = {} /\ x.conn = NoConn
          /\ x.ret = "wait"
      <4>1. x \in WeakLocals
        BY <1>a, ForgetSeen
      <4> QED BY <1>a, <1>e, <2>1, <4>1 DEF WeakLocals
    <3> HIDE DEF x
    <3>3. Hand(x) = Hand(loc[p])
      BY <1>e, <2>1, <3>2 DEF Hand
    <3>4. CallerAt("full", x) /\ MaintainerAt("giveback", x)
      BY <3>2 DEF CallerAt, MaintainerAt, VictimsAt, CallerPoints, MaintainerPoints
    <3>5. GoodAt(p, l, x) /\ l \in {"giveback", "full"}
      BY <1>w, <2>1, <3>4, Kinds, GoodCaller, GoodMaintainer
    <3> HIDE DEF l
    <3> QED BY <2>1, <3>1, <3>2, <3>3, <3>5, QuietStep
  <2> QED BY <1>6, <2>2, <2>3 DEF ReserveCompare, Below
<1>7. CASE ReserveSwap(p)
  <2> DEFINE x == [loc[p] EXCEPT !.seen = 0]
  <2>1. /\ pc[p] = "cas" /\ loc' = [loc EXCEPT ![p] = x]
        /\ UNCHANGED <<shards, open, checkedOut>>
    BY <1>7, <1>a DEF ReserveSwap
  <2>2. /\ x \in WeakLocals /\ x.seen = 0 /\ x.victims = {} /\ x.conn = NoConn
    <3>1. x \in WeakLocals
      BY <1>a, ForgetSeen
    <3> QED BY <1>a, <1>e, <2>1, <3>1 DEF WeakLocals
  <2> HIDE DEF x
  <2>3. Hand(x) = Hand(loc[p])
    BY <1>e, <2>1, <2>2 DEF Hand
  <2>4. ASSUME NEW l \in {"dial", "load"} PROVE GoodAt(p, l, x)
    <3>1. CallerAt(l, x) /\ MaintainerAt(l, x)
      BY <2>2 DEF CallerAt, MaintainerAt, VictimsAt, CallerPoints, MaintainerPoints
    <3> QED BY <1>w, <2>1, <3>1, GoodCaller, GoodMaintainer
  <2>5. CASE totalConns = loc[p].seen
    <3>1. totalConns' = totalConns + 1 /\ pc' = [pc EXCEPT ![p] = "dial"]
      BY <1>7, <2>5 DEF ReserveSwap, Goto
    <3>2. Reserves(p, "dial", x)
      BY <2>1, <2>3, <2>5, <3>1 DEF Reserves
    <3> QED BY <2>1, <2>2, <2>4, <3>1, <3>2 DEF StepsTo, Moves, ChecksOut
  <2>6. CASE totalConns # loc[p].seen
    <3>1. UNCHANGED totalConns /\ pc' = [pc EXCEPT ![p] = "load"]
      BY <1>7, <2>6 DEF ReserveSwap, Goto
    <3> QED BY <2>1, <2>2, <2>3, <2>4, <3>1, QuietStep
  <2> QED BY <2>5, <2>6
<1>8. CASE DialOK(p)
  <2>1. PICK c \in Conns \ open, s \in Shards :
          /\ open' = open \cup {c}
          /\ loc' = [loc EXCEPT ![p].conn = c, ![p].shard = s]
    BY <1>8 DEF DialOK
  <2> DEFINE x == [loc[p] EXCEPT !.conn = c, !.shard = s]
             l == IF p = Maintainer THEN "push" ELSE "taken"
  <2>2. /\ pc[p] = "dial" /\ pc' = [pc EXCEPT ![p] = l] /\ loc' = [loc EXCEPT ![p] = x]
        /\ UNCHANGED <<totalConns, shards, checkedOut>>
    BY <1>8, <1>a, <2>1 DEF DialOK, Move, Goto
  <2>3. /\ x \in WeakLocals /\ x.seen = loc[p].seen /\ x.victims = {} /\ x.conn = c
        /\ c # NoConn
    BY <1>a, <1>e, <2>1, <2>2 DEF WeakLocals
  <2> HIDE DEF x
  <2>4. Hand(x) = {c} /\ Hand(loc[p]) = {}
    BY <1>e, <2>2, <2>3 DEF Hand
  <2>5. CallerAt("taken", x) /\ MaintainerAt("push", x)
    BY <2>3 DEF CallerAt, MaintainerAt, VictimsAt, CallerPoints, MaintainerPoints
  <2>6. GoodAt(p, l, x) /\ l \in {"push", "taken"}
    BY <1>w, <2>2, <2>5, Kinds, GoodCaller, GoodMaintainer
  <2> HIDE DEF l
  <2>7. Dials(p, l, x)
    BY <2>1, <2>2, <2>4, <2>6 DEF Dials, Slots
  <2> QED BY <2>2, <2>3, <2>6, <2>7 DEF StepsTo, Moves, ChecksOut
<1>9. CASE DialFails(p)
  <2> DEFINE x == [loc[p] EXCEPT !.ret = "wait"]
  <2>1. /\ pc[p] = "dial" /\ pc' = [pc EXCEPT ![p] = "giveback"]
        /\ loc' = [loc EXCEPT ![p] = x] /\ totalConns' = totalConns - 1
        /\ UNCHANGED <<shards, open, checkedOut>>
    BY <1>9, <1>a DEF DialFails, Move, Goto, ReleaseSlot
  <2>2. /\ x \in WeakLocals /\ x.seen = loc[p].seen /\ x.victims = {} /\ x.conn = NoConn
        /\ x.ret = "wait"
    BY <1>a, <1>e, <2>1 DEF WeakLocals, MaintainerPoints
  <2> HIDE DEF x
  <2>3. Hand(x) = Hand(loc[p])
    BY <1>e, <2>1, <2>2 DEF Hand
  <2>4. CallerAt("giveback", x) /\ MaintainerAt("giveback", x)
    BY <2>2 DEF CallerAt, MaintainerAt, VictimsAt, CallerPoints, MaintainerPoints
  <2>5. GoodAt(p, "giveback", x)
    BY <1>w, <2>1, <2>4, GoodCaller, GoodMaintainer
  <2>6. Frees(p, "giveback", x)
    BY <2>1, <2>3 DEF Frees, Slots
  <2> QED BY <2>1, <2>2, <2>5, <2>6 DEF StepsTo, Moves, ChecksOut
<1>10. CASE GiveNoDebt(p)
  <2>1. /\ pc[p] = "giveback" /\ pc' = [pc EXCEPT ![p] = "send"]
        /\ UNCHANGED <<loc, totalConns, shards, open, checkedOut>>
    BY <1>10 DEF GiveNoDebt, Move, Goto, coreVars
  <2>2. GoodAt(p, "send", loc[p])
    <3>1. CallerAt("send", loc[p])
      BY <1>e, <2>1 DEF CallerAt, VictimsAt, CallerPoints
    <3>2. p = Maintainer => MaintainerAt("send", loc[p])
      BY <1>e, <1>w, <2>1 DEF MaintainerAt, VictimsAt, MaintainerPoints
    <3> QED BY <1>w, <2>1, <3>1, <3>2, GoodCaller, GoodMaintainer
  <2> QED BY <2>1, <2>2, Hop
<1>11. CASE GiveRepay(p) \/ GiveSend(p)
  <2>1. /\ pc[p] \in {"giveback", "send"} /\ pc' = [pc EXCEPT ![p] = AfterGive(p)]
        /\ loc' = [loc EXCEPT ![p] = NoLocals]
        /\ UNCHANGED <<totalConns, shards, open, checkedOut>>
    BY <1>11 DEF GiveRepay, GiveSend, Move, Goto, coreVars
  <2>2. NoLocals \in WeakLocals /\ Hand(NoLocals) = Hand(loc[p]) /\ NoLocals.seen = 0
    BY <1>b, <1>e, <2>1, CeilingAssumption DEF NoLocals, WeakLocals, Hand
  <2>3. /\ CallerAt("free", NoLocals) /\ MaintainerAt("wait", NoLocals)
        /\ MaintainerAt("warm", NoLocals)
    BY DEF NoLocals, CallerAt, MaintainerAt, VictimsAt, CallerPoints, MaintainerPoints
  <2>4. GoodAt(p, AfterGive(p), NoLocals) /\ AfterGive(p) \in {"free", "wait", "warm"}
    BY <1>w, <2>1, <2>3, Kinds, GoodCaller, GoodMaintainer DEF AfterGive
  <2> QED BY <2>1, <2>2, <2>4, QuietStep
<1> QED BY <1>1, <1>2, <1>3, <1>4, <1>5, <1>6, <1>7, <1>8, <1>9, <1>10, <1>11 DEF Shared

\* Every step of the engine is one goroutine's, and one of those listed.
LEMMA NextSteps ==
  ASSUME Control, Next
  PROVE  \E p \in Procs : \E l, x : StepsTo(p, l, x)
<1>1. ASSUME NEW p \in Callers, Acquire(p) \/ Release(p) PROVE \E l, x : StepsTo(p, l, x)
  BY <1>1, AcquireSteps, ReleaseSteps
<1>2. ASSUME NEW p \in Procs, Shared(p) PROVE \E l, x : StepsTo(p, l, x)
  BY <1>2, SharedSteps
<1>3. ASSUME NEW r \in Resizers, Resize(r) PROVE \E l, x : StepsTo(r, l, x)
  BY <1>3, ResizeSteps
<1>4. ASSUME NEW p \in Evictors, Evict(p) PROVE \E l, x : StepsTo(p, l, x)
  BY <1>4, EvictSteps
<1>5. ASSUME Maintain PROVE \E l, x : StepsTo(Maintainer, l, x)
  BY <1>5, MaintainSteps
<1>6. ASSUME Close PROVE \E l, x : StepsTo(Closer, l, x)
  BY <1>6, CloseSteps
<1> QED BY <1>1, <1>2, <1>3, <1>4, <1>5, <1>6, Kinds DEF Next

-----------------------------------------------------------------------------
(* What each operation leaves alone. *)

engineVars == <<maxConns, closed, resizeMu, reclaimed>>
resizeVars == <<limit, resizeAt, resizeLeft>>

\* Acquire moves neither the ceiling nor the limit.
LEMMA AcquireFrame ==
  ASSUME NEW p, Acquire(p)
  PROVE  UNCHANGED <<engineVars, resizeVars, debt>>
BY DEF Acquire, AcquireStart, AcquireTry, AcquireWait, AcquireServed, AcquireCancelled,
       AcquireRecheck, TakeYield, AcquireReturn, permitVars, coreVars, settings,
       engineVars, resizeVars

\* Release up to its permit touches the permit set not at all.
LEMMA ReleaseFrame ==
  ASSUME NEW p, Release(p)
  PROVE  UNCHANGED <<engineVars, permitVars>>
BY DEF Release, ReleaseStart, ReleaseClosed, ReleaseFit, ReleaseOver, ReleasePush, Push,
       permitVars, coreVars, engineVars

\* The shared parts move no setting; giving a permit back may pay debt.
LEMMA SharedFrame ==
  ASSUME NEW p, Shared(p)
  PROVE  /\ UNCHANGED <<engineVars, resizeVars>>
         /\ debt' = debt \/ (debt > 0 /\ debt' = debt - 1)
<1>1. CASE DestroyClose(p) \/ DestroyCount(p) \/ ProbePop(p) \/ ProbeMiss(p)
  BY <1>1 DEF DestroyClose, DestroyCount, ProbePop, ProbeMiss, permitVars, coreVars,
     engineVars, resizeVars
<1>2. CASE ReserveLoad(p) \/ ReserveCompare(p) \/ ReserveSwap(p) \/ DialOK(p) \/ DialFails(p)
  BY <1>2 DEF ReserveLoad, ReserveCompare, ReserveSwap, DialOK, DialFails, permitVars,
     coreVars, engineVars, resizeVars
<1>3. CASE GiveRepay(p) \/ GiveNoDebt(p) \/ GiveSend(p)
  BY <1>3 DEF GiveRepay, GiveNoDebt, GiveSend, Repay, NoDebt, coreVars, settings,
     engineVars, resizeVars
<1> QED BY <1>1, <1>2, <1>3 DEF Shared

\* maintain moves no setting.
LEMMA MaintainFrame ==
  ASSUME Maintain
  PROVE  UNCHANGED <<engineVars, resizeVars, debt>>
BY DEF Maintain, WarmCheck, WarmClosed, WarmTry, WarmWait, WarmServed, WarmCancelled,
       WarmPush, Push, HealthTick, Reap, SweepShard, ReapDone, SweepDone, MaintainExit,
       permitVars, coreVars, settings, engineVars, resizeVars

\* EvictIdle touches no permit.
LEMMA EvictFrame ==
  ASSUME NEW p, Evict(p)
  PROVE  UNCHANGED <<engineVars, permitVars>>
BY DEF Evict, EvictIdle, SweepShard, SweepDone, permitVars, coreVars, engineVars

\* SetMaxConns publishes its argument and locks or unlocks for itself.
LEMMA ResizeFrame ==
  ASSUME NEW r, Resize(r)
  PROVE  /\ UNCHANGED <<closed, reclaimed>>
         /\ maxConns' \in {maxConns, loc[r].want}
         /\ resizeMu' \in {resizeMu, r, Nobody}
BY DEF Resize, SetMaxConns, ResizeLock, ResizeStore, ResizePermits, Trim, ResizeUnlock,
       coreVars

\* Close sets closed and counts what it reclaims.
LEMMA CloseFrame ==
  ASSUME Close
  PROVE  /\ UNCHANGED <<maxConns, resizeMu, resizeVars, debt>>
         /\ closed' \in {closed, TRUE} /\ reclaimed' \in {reclaimed, reclaimed + 1}
BY DEF Close, CloseStart, CloseCancel, CloseJoin, DrainReceive, DrainPark, DrainServed,
       DrainTimeout, DrainReturn, Reclaim, CloseSweep, SweepShard, SweepDone, permitVars,
       coreVars, settings, resizeVars

-----------------------------------------------------------------------------
(* Control is an invariant. *)

\* Control holds of the pool New returns.
LEMMA InitControl ==
  ASSUME Init
  PROVE  Control
<1>1. GlobalTypes
  <2>1. shards \in [Shards -> Seq(Conns)] /\ open \in SUBSET Conns
    BY DEF Init
  <2>2. /\ maxConns \in 0 .. Ceiling /\ totalConns \in Int /\ checkedOut \in Int
        /\ resizeMu \in Resizers \cup {Nobody} /\ reclaimed \in Nat
    BY CeilingAssumption DEF Init
  <2>3. closed \in BOOLEAN
    BY DEF Init
  <2> QED BY <2>1, <2>2, <2>3 DEF GlobalTypes
<1>2. NoLocals \in WeakLocals
  BY CoreAssumption, CeilingAssumption DEF NoLocals, WeakLocals, Shards
<1>3. \A p \in Procs : loc[p] = NoLocals
  BY DEF Init
<1>4. \A p \in Procs :
        pc[p] = CASE p \in Callers -> "free" [] p = Maintainer -> "warm"
                  [] p = Closer -> "open" [] OTHER -> "rest"
  BY DEF Init
<1>5. /\ CallerAt("free", NoLocals) /\ MaintainerAt("warm", NoLocals)
      /\ CloserAt("open", NoLocals) /\ ResizerAt("rest", NoLocals)
      /\ EvictorAt("rest", NoLocals)
  BY DEF NoLocals, CallerAt, MaintainerAt, ResizerAt, EvictorAt, CloserAt, VictimsAt,
     CallerPoints, MaintainerPoints, ResizerPoints, EvictorPoints, CloserPoints
<1>6. ASSUME NEW p \in Procs PROVE GoodAt(p, pc[p], loc[p])
  BY <1>3, <1>4, <1>5, Kinds DEF GoodAt
<1>7. \A p \in Procs : pc[p] \in Points
  BY <1>6, GoodPoint
<1>8. pc = [p \in Procs |-> pc[p]] /\ loc = [p \in Procs |-> loc[p]]
  BY DEF Init
<1>9. pc \in [Procs -> Points] /\ loc \in [Procs -> WeakLocals]
  BY <1>2, <1>3, <1>7, <1>8
<1> QED BY <1>1, <1>6, <1>9 DEF Control

\* The buckets hold connections.
LEMMA ShardsType ==
  ASSUME Control, NEW p \in Procs, NEW l, NEW x, StepsTo(p, l, x)
  PROVE  shards' \in [Shards -> Seq(Conns)]
<1>1. shards \in [Shards -> Seq(Conns)] /\ loc[p].shard \in Shards
  BY ControlAt DEF Control, GlobalTypes
<1>2. CASE Pops(p, l, x)
  <2>1. SubSeq(shards[loc[p].shard], 1, Len(shards[loc[p].shard]) - 1) \in Seq(Conns)
    BY <1>1
  <2> QED BY <1>1, <1>2, <2>1 DEF Pops, Pop
<1>3. CASE Sweeps(p, l, x)
  <2>1. PICK kept \in Kept(shards[loc[p].shard]) :
          shards' = [shards EXCEPT ![loc[p].shard] = kept]
    BY <1>3 DEF Sweeps
  <2>2. kept \in Seq(Conns)
    BY <1>1, KeptType
  <2> QED BY <1>1, <2>1, <2>2
<1>4. CASE Pushes(p, l, x)
  <2>1. PICK c \in Conns : shards' = [shards EXCEPT ![loc[p].shard] = Append(@, c)]
    BY <1>4 DEF Pushes
  <2> QED BY <1>1, <2>1
<1> QED BY <1>1, <1>2, <1>3, <1>4 DEF StepsTo, Moves, Keeps, Reserves, Frees, Dials, Closes

\* Every step preserves Control.
LEMMA NextControl ==
  ASSUME Control, Next
  PROVE  Control'
<1>0. PICK p \in Procs : \E l, x : StepsTo(p, l, x)
  BY NextSteps
<1>1. PICK l, x : StepsTo(p, l, x)
  BY <1>0
<1>2. /\ x \in WeakLocals /\ GoodAt(p, l, x) /\ l \in Points
      /\ pc' = [pc EXCEPT ![p] = l] /\ loc' = [loc EXCEPT ![p] = x]
  BY <1>1, GoodPoint DEF StepsTo
<1>3. /\ pc' \in [Procs -> Points] /\ loc' \in [Procs -> WeakLocals]
      /\ \A q \in Procs : GoodAt(q, pc'[q], loc'[q])
  BY <1>2 DEF Control
<1>4. shards' \in [Shards -> Seq(Conns)]
  BY <1>1, ShardsType
<1>5. open' \in SUBSET Conns /\ totalConns' \in Int
  BY <1>1 DEF Control, GlobalTypes, StepsTo, Moves, Keeps, Reserves, Frees, Dials, Closes,
     Pops, Sweeps, Pushes
<1>6. checkedOut' \in Int
  BY <1>1 DEF Control, GlobalTypes, StepsTo, ChecksOut
<1>7. \A r \in Resizers : loc[r].want \in 0 .. Ceiling
  BY ControlAt, Kinds
<1>8. /\ maxConns' \in 0 .. Ceiling /\ closed' \in BOOLEAN
      /\ resizeMu' \in Resizers \cup {Nobody} /\ reclaimed' \in Nat
  <2>1. /\ maxConns \in 0 .. Ceiling /\ closed \in BOOLEAN
        /\ resizeMu \in Resizers \cup {Nobody} /\ reclaimed \in Nat
    BY DEF Control, GlobalTypes
  <2>2. CASE UNCHANGED engineVars
    BY <2>1, <2>2 DEF engineVars
  <2>3. CASE \E r \in Resizers : Resize(r)
    BY <1>7, <2>1, <2>3, ResizeFrame
  <2>4. CASE Close
    <3>1. closed' \in BOOLEAN
      BY <2>1, <2>4, CloseFrame, Zenon
    <3>2. maxConns' = maxConns /\ resizeMu' = resizeMu /\ reclaimed' \in Nat
      BY <2>1, <2>4, CloseFrame
    <3> QED BY <2>1, <3>1, <3>2
  <2> QED BY <2>2, <2>3, <2>4, AcquireFrame, ReleaseFrame, SharedFrame, MaintainFrame,
             EvictFrame DEF Next
<1> QED BY <1>3, <1>4, <1>5, <1>6, <1>8 DEF Control, GlobalTypes

\* Where every goroutine of the engine may stand, and with what in hand, at every
\* instant of every interleaving (core.go, all of it).
THEOREM ControlHolds == Spec => []Control
<1>1. ASSUME Control, UNCHANGED vars PROVE Control'
  BY <1>1 DEF vars, coreVars, Control, GlobalTypes
<1> QED BY <1>1, InitControl, NextControl, PTL DEF Spec

-----------------------------------------------------------------------------
(* The permit set the engine uses. *)

Holders == Callers \cup {Maintainer}

\* PermitPoint as a function of the point, and the value Core gives Permits' pc.
PointOf(p, l) ==
  CASE l = "parked" -> "parked"
    [] l = "send"   -> "sending"
    [] OTHER -> IF (IF p \in Callers THEN l \notin {"free", "permit", "parked"}
                    ELSE l \in {"load", "compare", "cas", "dial", "push", "giveback",
                                "send"})
                THEN "held" ELSE "idle"

PMap == [p \in Callers \cup {Maintainer} |-> PermitPoint(p)]

\* PMap in terms of the point.
LEMMA PMapIs == \A p \in Holders : PMap[p] = PointOf(p, pc[p])
BY DEF Holders, PMap, PermitPoint, HasPermit, PointOf

\* A holder's step moves its point only; another goroutine's step none.
LEMMA PMapStep ==
  ASSUME Control, NEW p \in Procs, NEW l, pc' = [pc EXCEPT ![p] = l]
  PROVE  /\ p \in Holders => PMap' = [PMap EXCEPT ![p] = PointOf(p, l)]
         /\ p \notin Holders => PMap' = PMap
<1>1. \A q \in Procs : pc'[q] = IF q = p THEN l ELSE pc[q]
  BY DEF Control
<1>2. \A q \in Holders : q \in Procs
  BY Kinds DEF Holders
<1>3. \A q \in Holders : PMap'[q] = PointOf(q, pc'[q])
  BY DEF Holders, PMap, PermitPoint, HasPermit, PointOf
<1>4. /\ PMap = [q \in Holders |-> PMap[q]]
      /\ PMap' = [q \in Holders |-> PMap'[q]]
  BY DEF PMap, Holders
<1>5. \A q \in Holders : PMap'[q] = IF q = p THEN PointOf(p, l) ELSE PMap[q]
  BY <1>1, <1>2, <1>3, PMapIs
<1> QED BY <1>4, <1>5

\* A step of anybody but Close leaves the drain alone.
LEMMA DrainStays ==
  ASSUME Control, NEW p \in Procs, p # Closer, NEW l, NEW x,
         pc' = [pc EXCEPT ![p] = l], loc' = [loc EXCEPT ![p] = x]
  PROVE  UNCHANGED <<DrainPoint, loc[Closer].want>>
<1>1. pc'[Closer] = pc[Closer] /\ loc'[Closer] = loc[Closer]
  BY Kinds DEF Control
<1> QED BY <1>1 DEF DrainPoint

\* A step that touches neither the permit set nor anybody's point is a stutter.
LEMMA PermitStutter ==
  ASSUME Control, NEW p \in Procs, NEW l, pc' = [pc EXCEPT ![p] = l],
         p \in Holders => PointOf(p, l) = PointOf(p, pc[p]),
         UNCHANGED <<permitVars, reclaimed, DrainPoint, loc[Closer].want>>
  PROVE  UNCHANGED PermitLayer!vars
<1>1. PMap' = PMap
  <2>1. CASE p \in Holders
    <3>1. PMap' = [PMap EXCEPT ![p] = PMap[p]]
      BY <2>1, PMapStep, PMapIs
    <3> QED BY <3>1 DEF PMap
  <2> QED BY <2>1, PMapStep
<1> QED BY <1>1 DEF PMap, PermitLayer!vars, PermitLayer!clientVars, PermitLayer!permitVars,
           permitVars

\* Acquire.
LEMMA AcquireRefines ==
  ASSUME Control, NEW p \in Callers, Acquire(p)
  PROVE  PermitLayer!Next \/ UNCHANGED PermitLayer!vars
<1>a. p \in Procs /\ p \in Holders /\ p # Closer
  BY Kinds DEF Holders
<1>b. PICK l, x : pc' = [pc EXCEPT ![p] = l] /\ loc' = [loc EXCEPT ![p] = x]
  BY AcquireSteps DEF StepsTo
<1>c. PMap[p] = PointOf(p, pc[p]) /\ PMap' = [PMap EXCEPT ![p] = PointOf(p, l)]
  BY <1>a, <1>b, PMapIs, PMapStep
<1>d. UNCHANGED <<DrainPoint, loc[Closer].want>>
  BY <1>a, <1>b, DrainStays
<1>l. pc'[p] = l
  BY <1>a, <1>b DEF Control
<1>1. CASE AcquireStart(p) \/ AcquireRecheck(p) \/ TakeYield(p) \/ AcquireReturn(p)
  <2>1. /\ UNCHANGED <<permitVars, reclaimed>>
        /\ \/ pc[p] = "free" /\ pc'[p] = "permit"
           \/ pc[p] \in {"recheck", "full"} /\ pc'[p] \in {"giveback", "probe"}
           \/ pc[p] = "taken" /\ pc'[p] = "using"
    BY <1>1, <1>a DEF AcquireStart, AcquireRecheck, TakeYield, AcquireReturn, Move, Goto,
       ProbeFrom, coreVars, Control
  <2>2. PointOf(p, l) = PointOf(p, pc[p])
    BY <1>l, <2>1 DEF PointOf
  <2> QED BY <1>a, <1>b, <1>d, <2>1, <2>2, PermitStutter
<1>2. CASE AcquireTry(p)
  <2>1. pc[p] = "permit" /\ pc'[p] = "recheck" /\ Receive /\ UNCHANGED <<settings, reclaimed>>
    BY <1>2, <1>a DEF AcquireTry, Move, Goto, coreVars, Control
  <2>2. PMap[p] = "idle" /\ PMap' = [PMap EXCEPT ![p] = "held"]
    BY <1>c, <1>l, <2>1 DEF PointOf
  <2>3. PermitLayer!TryAcquire(p)
    BY <1>d, <2>1, <2>2 DEF PMap, PermitLayer!TryAcquire, PermitLayer!Receive, Receive,
       PermitLayer!Goto, PermitLayer!settings, settings, PermitLayer!drainVars
  <2> QED BY <2>3, <1>a DEF PermitLayer!Next, PermitLayer!Acquire, Holders
<1>3. CASE AcquireWait(p)
  <2>1. pc[p] = "permit" /\ pc'[p] = "parked" /\ Park(p) /\ UNCHANGED <<settings, reclaimed>>
    BY <1>3, <1>a DEF AcquireWait, Move, Goto, coreVars, Control
  <2>2. PMap[p] = "idle" /\ PMap' = [PMap EXCEPT ![p] = "parked"]
    BY <1>c, <1>l, <2>1 DEF PointOf
  <2>3. PermitLayer!Wait(p)
    BY <1>d, <2>1, <2>2 DEF PMap, PermitLayer!Wait, PermitLayer!Park, Park,
       PermitLayer!Goto, PermitLayer!settings, settings, PermitLayer!drainVars
  <2> QED BY <2>3, <1>a DEF PermitLayer!Next, PermitLayer!Acquire, Holders
<1>4. CASE AcquireServed(p)
  <2>1. pc[p] = "parked" /\ pc'[p] = "recheck" /\ Resume(p) /\ UNCHANGED <<settings, reclaimed>>
    BY <1>4, <1>a DEF AcquireServed, Move, Goto, coreVars, Control
  <2>2. PMap[p] = "parked" /\ PMap' = [PMap EXCEPT ![p] = "held"]
    BY <1>c, <1>l, <2>1 DEF PointOf
  <2>3. PermitLayer!WaitServed(p)
    BY <1>d, <2>1, <2>2 DEF PMap, PermitLayer!WaitServed, PermitLayer!Resume, Resume,
       PermitLayer!Goto, PermitLayer!settings, settings, PermitLayer!drainVars
  <2> QED BY <2>3, <1>a DEF PermitLayer!Next, PermitLayer!Acquire, Holders
<1>5. CASE AcquireCancelled(p)
  <2>1. pc[p] = "parked" /\ pc'[p] = "free" /\ Unpark(p) /\ UNCHANGED <<settings, reclaimed>>
    BY <1>5, <1>a DEF AcquireCancelled, Move, Goto, coreVars, Control
  <2>2. PMap[p] = "parked" /\ PMap' = [PMap EXCEPT ![p] = "idle"]
    BY <1>c, <1>l, <2>1 DEF PointOf
  <2>3. PermitLayer!WaitCancelled(p)
    BY <1>d, <2>1, <2>2 DEF PMap, PermitLayer!WaitCancelled, PermitLayer!Unpark, Unpark,
       PermitLayer!Without, Without, PermitLayer!Goto, PermitLayer!settings, settings,
       PermitLayer!drainVars
  <2> QED BY <2>3, <1>a DEF PermitLayer!Next, PermitLayer!Acquire, Holders
<1> QED BY <1>1, <1>2, <1>3, <1>4, <1>5 DEF Acquire

\* Release gives the permit back only through the shared steps.
LEMMA ReleaseRefines ==
  ASSUME Control, NEW p \in Callers, Release(p)
  PROVE  UNCHANGED PermitLayer!vars
<1>a. p \in Procs /\ p \in Holders /\ p # Closer
  BY Kinds DEF Holders
<1>b. PICK l, x : pc' = [pc EXCEPT ![p] = l] /\ loc' = [loc EXCEPT ![p] = x]
  BY ReleaseSteps DEF StepsTo
<1>c. pc'[p] = l
  BY <1>a, <1>b DEF Control
<1>1. /\ UNCHANGED <<permitVars, reclaimed>>
      /\ pc[p] \in {"using", "rclosed", "rfit", "rover", "rpush"}
      /\ pc'[p] \in {"rclosed", "rfit", "rover", "rpush", "destroy", "giveback"}
  BY <1>a DEF Release, ReleaseStart, ReleaseClosed, ReleaseFit, ReleaseOver, ReleasePush,
     Push, Doom, Move, Goto, coreVars, Control
<1>2. PointOf(p, l) = PointOf(p, pc[p])
  BY <1>c, <1>1 DEF PointOf
<1> QED BY <1>a, <1>b, <1>1, <1>2, DrainStays, PermitStutter

\* The shared steps: one release of a permit on every path, and nothing else.
LEMMA SharedRefines ==
  ASSUME Control, NEW p \in Procs, Shared(p)
  PROVE  PermitLayer!Next \/ UNCHANGED PermitLayer!vars
<1>a. loc[p] \in WeakLocals /\ GoodAt(p, pc[p], loc[p])
  BY ControlAt
<1>w. /\ pc[p] = "probe" => p \in Callers \cup Resizers /\ loc[p].left > 0
      /\ pc[p] \in {"load", "compare", "cas", "dial", "giveback", "send"} => p \in Holders
      /\ p = Maintainer /\ pc[p] \in {"giveback", "send"} => loc[p].ret \in {"wait", "warm"}
  BY <1>a, WhoIsAt DEF Holders
<1>b. PICK l, x : /\ pc' = [pc EXCEPT ![p] = l] /\ loc' = [loc EXCEPT ![p] = x]
                  /\ GoodAt(p, l, x)
  BY SharedSteps DEF StepsTo
<1>c. p \in Holders => /\ PMap[p] = PointOf(p, pc[p])
                       /\ PMap' = [PMap EXCEPT ![p] = PointOf(p, l)]
  BY <1>b, PMapIs, PMapStep
<1>l. pc'[p] = l
  BY <1>b DEF Control
<1>1. CASE DestroyClose(p) \/ DestroyCount(p) \/ ProbePop(p) \/ ProbeMiss(p)
  <2>1. /\ UNCHANGED <<permitVars, reclaimed>>
        /\ pc[p] \in {"destroy", "uncount", "probe"}
        /\ p = Closer => /\ pc[p] # "probe" /\ loc'[p].want = loc[p].want
                         /\ l \in {"sweep", "destroy", "uncount"}
        /\ p \in Callers => l \in {"destroy", "uncount", "probe", "giveback", "taken", "load"}
        /\ p = Maintainer => pc[p] # "probe" /\ l \in {"sweep", "destroy", "uncount"}
    <3>1. UNCHANGED <<permitVars, reclaimed>> /\ pc[p] \in {"destroy", "uncount", "probe"}
      BY <1>1 DEF DestroyClose, DestroyCount, ProbePop, ProbeMiss, Move, coreVars
    <3>2. p \in Callers \cup Resizers => p # Closer /\ p # Maintainer
      BY Kinds
    <3>3. pc[p] = "probe" => p # Closer /\ p # Maintainer
      BY <1>w, <3>2
    <3>4. p = Closer => loc'[p].want = loc[p].want
      BY <1>1, <1>a, <3>1, <3>3 DEF DestroyClose, DestroyCount, ProbePop, ProbeMiss, WeakLocals,
         Control
    <3>5. \/ pc[p] = "destroy" /\ l = "uncount"
          \/ pc[p] = "uncount" /\ l \in {"destroy", loc[p].ret}
          \/ pc[p] = "probe" /\ p \in Callers /\ l \in {"destroy", "taken", "probe", "load"}
          \/ pc[p] = "probe" /\ p \in Resizers
      BY <1>1, <1>l, <1>w, Kinds DEF DestroyClose, DestroyCount, ProbePop, ProbeMiss, Move,
         Goto, Doom, Control
    <3>6. pc[p] = "uncount" => /\ p \in Callers => loc[p].ret \in {"probe", "giveback"}
                               /\ p \in {Maintainer, Closer} => loc[p].ret = "sweep"
      BY <1>a DEF GoodAt, CallerAt, MaintainerAt, CloserAt
    <3> QED BY <3>1, <3>2, <3>3, <3>4, <3>5, <3>6, Kinds
  <2>2. p \in Holders => PointOf(p, l) = PointOf(p, pc[p])
    BY <2>1, Kinds DEF PointOf, Holders
  <2>3. UNCHANGED <<DrainPoint, loc[Closer].want>>
    <3>1. CASE p = Closer
      BY <3>1, <1>l, <2>1 DEF DrainPoint
    <3> QED BY <3>1, <1>b, DrainStays
  <2> QED BY <1>b, <2>1, <2>2, <2>3, PermitStutter
<1>2. CASE ReserveLoad(p) \/ ReserveCompare(p) \/ ReserveSwap(p) \/ DialOK(p) \/ DialFails(p)
  <2>1. /\ UNCHANGED <<permitVars, reclaimed>>
        /\ pc[p] \in {"load", "compare", "cas", "dial"}
    BY <1>2 DEF ReserveLoad, ReserveCompare, ReserveSwap, DialOK, DialFails, Move, coreVars
  <2>2. l \in {"load", "compare", "cas", "dial", "giveback"}
        \/ (p = Maintainer /\ l = "push") \/ (p # Maintainer /\ l \in {"full", "taken"})
    BY <1>2, <1>l DEF ReserveLoad, ReserveCompare, ReserveSwap, DialOK, DialFails, Move, Goto,
       Control
  <2>3. PointOf(p, l) = PointOf(p, pc[p]) /\ p # Closer
    BY <1>w, <2>1, <2>2, Kinds DEF PointOf, Holders
  <2> QED BY <1>b, <2>1, <2>3, DrainStays, PermitStutter
<1>3. CASE GiveRepay(p) \/ GiveNoDebt(p) \/ GiveSend(p)
  <2>1. pc[p] \in {"giveback", "send"} /\ p \in Holders /\ p # Closer
    BY <1>3, <1>w, Kinds DEF GiveRepay, GiveNoDebt, GiveSend, Move, Holders
  <2>2. UNCHANGED <<DrainPoint, loc[Closer].want>>
    BY <1>b, <2>1, DrainStays
  <2>3. PointOf(p, AfterGive(p)) = "idle"
    BY <1>w, <2>1 DEF PointOf, AfterGive, Holders
  <2>4. CASE GiveRepay(p)
    <3>1. /\ pc[p] = "giveback" /\ l = AfterGive(p) /\ Repay
          /\ UNCHANGED <<channelVars, limit, resizeAt, resizeLeft, reclaimed>>
      BY <2>4, <1>l DEF GiveRepay, Move, Goto, coreVars, Control
    <3>2. PMap[p] = "held" /\ PMap' = [PMap EXCEPT ![p] = "idle"]
      BY <1>c, <2>1, <2>3, <3>1 DEF PointOf, Holders
    <3>3. PermitLayer!ReleaseRepay(p)
      BY <2>2, <3>1, <3>2 DEF PMap, PermitLayer!ReleaseRepay, PermitLayer!Repay, Repay,
         PermitLayer!Goto, PermitLayer!channelVars, channelVars, PermitLayer!drainVars
    <3> QED BY <2>1, <3>3 DEF PermitLayer!Next, PermitLayer!Release, Holders
  <2>5. CASE GiveNoDebt(p)
    <3>1. /\ pc[p] = "giveback" /\ l = "send" /\ NoDebt
          /\ UNCHANGED <<channelVars, limit, resizeAt, resizeLeft, reclaimed>>
      BY <2>5, <1>l DEF GiveNoDebt, Move, Goto, coreVars, Control
    <3>2. PMap[p] = "held" /\ PMap' = [PMap EXCEPT ![p] = "sending"]
      BY <1>c, <2>1, <3>1 DEF PointOf, Holders
    <3>3. PermitLayer!ReleaseNoDebt(p)
      BY <2>2, <3>1, <3>2 DEF PMap, PermitLayer!ReleaseNoDebt, PermitLayer!NoDebt, NoDebt,
         PermitLayer!Goto, PermitLayer!channelVars, channelVars, PermitLayer!drainVars
    <3> QED BY <2>1, <3>3 DEF PermitLayer!Next, PermitLayer!Release, Holders
  <2>6. CASE GiveSend(p)
    <3>1. pc[p] = "send" /\ l = AfterGive(p) /\ Send /\ UNCHANGED <<settings, reclaimed>>
      BY <2>6, <1>l DEF GiveSend, Move, Goto, coreVars, Control
    <3>2. PMap[p] = "sending" /\ PMap' = [PMap EXCEPT ![p] = "idle"]
      BY <1>c, <2>1, <2>3, <3>1 DEF PointOf, Holders
    <3>3. PermitLayer!ReleaseSend(p)
      BY <2>2, <3>1, <3>2 DEF PMap, PermitLayer!ReleaseSend, PermitLayer!Send, Send,
         PermitLayer!Room, Room, PermitLayer!Goto, PermitLayer!settings, settings,
         PermitLayer!drainVars
    <3> QED BY <2>1, <3>3 DEF PermitLayer!Next, PermitLayer!Release, Holders
  <2> QED BY <1>3, <2>4, <2>5, <2>6
<1> QED BY <1>1, <1>2, <1>3 DEF Shared

\* warmUp acquires as a caller does; the rest of maintain leaves the permits alone.
LEMMA MaintainRefines ==
  ASSUME Control, Maintain
  PROVE  PermitLayer!Next \/ UNCHANGED PermitLayer!vars
<1> DEFINE p == Maintainer
<1>a. p \in Procs /\ p \in Holders /\ p # Closer /\ p \notin Callers
  BY Kinds DEF Holders
<1> HIDE DEF p
<1>p. p = Maintainer
  BY DEF p
<1>b. PICK l, x : pc' = [pc EXCEPT ![p] = l] /\ loc' = [loc EXCEPT ![p] = x]
  BY MaintainSteps DEF StepsTo, p
<1>c. PMap[p] = PointOf(p, pc[p]) /\ PMap' = [PMap EXCEPT ![p] = PointOf(p, l)]
  BY <1>a, <1>b, PMapIs, PMapStep
<1>d. UNCHANGED <<DrainPoint, loc[Closer].want>>
  BY <1>a, <1>b, DrainStays
<1>l. pc'[p] = l
  BY <1>a, <1>b DEF Control
<1>1. CASE WarmCheck \/ WarmClosed \/ WarmPush \/ HealthTick \/ Reap \/ ReapDone \/ MaintainExit
  <2>1. /\ UNCHANGED <<permitVars, reclaimed>>
        /\ \/ pc[p] = "push" /\ pc'[p] = "giveback"
           \/ /\ pc[p] \in {"warm", "wclosed", "wait", "sweep"}
              /\ pc'[p] \in {"wclosed", "wait", "wpermit", "sweep", "destroy", "warm", "exited"}
    BY <1>1, <1>a, <1>p DEF WarmCheck, WarmClosed, WarmPush, Push, HealthTick, SweepFrom, Reap,
       SweepShard, ReapDone, SweepDone, MaintainExit, Move, Goto, coreVars, Control
  <2>2. PointOf(p, l) = PointOf(p, pc[p])
    BY <1>a, <1>l, <2>1 DEF PointOf
  <2> QED BY <1>a, <1>b, <1>d, <2>1, <2>2, PermitStutter
<1>2. CASE WarmTry
  <2>1. pc[p] = "wpermit" /\ pc'[p] = "load" /\ Receive /\ UNCHANGED <<settings, reclaimed>>
    BY <1>2, <1>a, <1>p DEF WarmTry, Move, Goto, coreVars, Control
  <2>2. PMap[p] = "idle" /\ PMap' = [PMap EXCEPT ![p] = "held"]
    BY <1>a, <1>c, <1>l, <2>1 DEF PointOf
  <2>3. PermitLayer!TryAcquire(p)
    BY <1>d, <2>1, <2>2 DEF PMap, PermitLayer!TryAcquire, PermitLayer!Receive, Receive,
       PermitLayer!Goto, PermitLayer!settings, settings, PermitLayer!drainVars
  <2> QED BY <2>3, <1>a DEF PermitLayer!Next, PermitLayer!Acquire, Holders
<1>3. CASE WarmWait
  <2>1. pc[p] = "wpermit" /\ pc'[p] = "parked" /\ Park(p) /\ UNCHANGED <<settings, reclaimed>>
    BY <1>3, <1>a, <1>p DEF WarmWait, Move, Goto, coreVars, Control
  <2>2. PMap[p] = "idle" /\ PMap' = [PMap EXCEPT ![p] = "parked"]
    BY <1>a, <1>c, <1>l, <2>1 DEF PointOf
  <2>3. PermitLayer!Wait(p)
    BY <1>d, <2>1, <2>2 DEF PMap, PermitLayer!Wait, PermitLayer!Park, Park,
       PermitLayer!Goto, PermitLayer!settings, settings, PermitLayer!drainVars
  <2> QED BY <2>3, <1>a DEF PermitLayer!Next, PermitLayer!Acquire, Holders
<1>4. CASE WarmServed
  <2>1. pc[p] = "parked" /\ pc'[p] = "load" /\ Resume(p) /\ UNCHANGED <<settings, reclaimed>>
    BY <1>4, <1>a, <1>p DEF WarmServed, Move, Goto, coreVars, Control
  <2>2. PMap[p] = "parked" /\ PMap' = [PMap EXCEPT ![p] = "held"]
    BY <1>a, <1>c, <1>l, <2>1 DEF PointOf
  <2>3. PermitLayer!WaitServed(p)
    BY <1>d, <2>1, <2>2 DEF PMap, PermitLayer!WaitServed, PermitLayer!Resume, Resume,
       PermitLayer!Goto, PermitLayer!settings, settings, PermitLayer!drainVars
  <2> QED BY <2>3, <1>a DEF PermitLayer!Next, PermitLayer!Acquire, Holders
<1>5. CASE WarmCancelled
  <2>1. pc[p] = "parked" /\ pc'[p] = "wait" /\ Unpark(p) /\ UNCHANGED <<settings, reclaimed>>
    BY <1>5, <1>a, <1>p DEF WarmCancelled, Move, Goto, coreVars, Control
  <2>2. PMap[p] = "parked" /\ PMap' = [PMap EXCEPT ![p] = "idle"]
    BY <1>a, <1>c, <1>l, <2>1 DEF PointOf
  <2>3. PermitLayer!WaitCancelled(p)
    BY <1>d, <2>1, <2>2 DEF PMap, PermitLayer!WaitCancelled, PermitLayer!Unpark, Unpark,
       PermitLayer!Without, Without, PermitLayer!Goto, PermitLayer!settings, settings,
       PermitLayer!drainVars
  <2> QED BY <2>3, <1>a DEF PermitLayer!Next, PermitLayer!Acquire, Holders
<1> QED BY <1>1, <1>2, <1>3, <1>4, <1>5 DEF Maintain

\* SetMaxConns resizes the permit set between its two ends.
LEMMA ResizeRefines ==
  ASSUME Control, NEW r \in Resizers, Resize(r)
  PROVE  PermitLayer!Next \/ UNCHANGED PermitLayer!vars
<1>a. r \in Procs /\ r \notin Holders /\ r # Closer /\ loc[r].want \in 0 .. Ceiling
  BY Kinds, ControlAt DEF Holders
<1>b. PICK l, x : pc' = [pc EXCEPT ![r] = l] /\ loc' = [loc EXCEPT ![r] = x]
  BY ResizeSteps DEF StepsTo
<1>c. PMap' = PMap
  BY <1>a, <1>b, PMapStep
<1>d. UNCHANGED <<DrainPoint, loc[Closer].want>>
  BY <1>a, <1>b, DrainStays
<1>1. CASE ResizePermits(r)
  <2>1. UNCHANGED reclaimed /\ (ResizeSwap(loc[r].want) \/ ResizeStep)
    BY <1>1 DEF ResizePermits, coreVars
  <2>2. UNCHANGED PermitLayer!clientVars
    BY <1>c, <1>d, <2>1 DEF PermitLayer!clientVars, PMap
  <2>3. ResizeSwap(loc[r].want) => PermitLayer!ResizeSwap(loc[r].want)
    BY DEF ResizeSwap, PermitLayer!ResizeSwap, channelVars, PermitLayer!channelVars
  <2>4. ResizeStep => PermitLayer!ResizeStep
    BY DEF ResizeStep, PermitLayer!ResizeStep, GrowRepay, PermitLayer!GrowRepay,
       GrowNoDebt, PermitLayer!GrowNoDebt, GrowSend, PermitLayer!GrowSend,
       ShrinkReceive, PermitLayer!ShrinkReceive, ShrinkMiss, PermitLayer!ShrinkMiss,
       ShrinkOwe, PermitLayer!ShrinkOwe, ResizeReturn, PermitLayer!ResizeReturn,
       Repay, PermitLayer!Repay, NoDebt, PermitLayer!NoDebt, Send, PermitLayer!Send,
       Room, PermitLayer!Room, Receive, PermitLayer!Receive,
       channelVars, PermitLayer!channelVars
  <2>5. PermitLayer!Resize
    BY <1>a, <2>1, <2>2, <2>3, <2>4 DEF PermitLayer!Resize
  <2> QED BY <2>5 DEF PermitLayer!Next
<1>2. CASE ~ResizePermits(r)
  <2>1. UNCHANGED <<permitVars, reclaimed>>
    BY <1>2 DEF Resize, SetMaxConns, ResizeLock, ResizeStore, Trim, ResizeUnlock, coreVars
  <2> QED BY <1>a, <1>b, <1>d, <2>1, PermitStutter
<1> QED BY <1>1, <1>2

\* EvictIdle.
LEMMA EvictRefines ==
  ASSUME Control, NEW p \in Evictors, Evict(p)
  PROVE  UNCHANGED PermitLayer!vars
<1>a. p \in Procs /\ p \notin Holders /\ p # Closer
  BY Kinds DEF Holders
<1>b. PICK l, x : pc' = [pc EXCEPT ![p] = l] /\ loc' = [loc EXCEPT ![p] = x]
  BY EvictSteps DEF StepsTo
<1>1. UNCHANGED <<permitVars, reclaimed>>
  BY EvictFrame DEF engineVars
<1> QED BY <1>a, <1>b, <1>1, DrainStays, PermitStutter

\* Close drains as Permits' drainer does.
LEMMA CloseRefines ==
  ASSUME Control, Close
  PROVE  PermitLayer!Next \/ UNCHANGED PermitLayer!vars
<1>a. Closer \in Procs /\ Closer \notin Holders
  BY Kinds DEF Holders
<1>b. PICK l, x : pc' = [pc EXCEPT ![Closer] = l] /\ loc' = [loc EXCEPT ![Closer] = x]
  BY CloseSteps DEF StepsTo
<1>c. PMap' = PMap
  BY <1>a, <1>b, PMapStep
<1>l. /\ pc'[Closer] = l /\ loc'[Closer] = x /\ loc[Closer] \in WeakLocals
      /\ CloserAt(pc[Closer], loc[Closer])
  BY <1>a, <1>b, ControlAt, GoodCloser DEF Control
<1>1. CASE CloseStart \/ CloseCancel \/ CloseSweep
  <2>1. /\ UNCHANGED <<permitVars, reclaimed>> /\ loc'[Closer].want = loc[Closer].want
        /\ \/ pc[Closer] \in {"open", "cancel"} /\ l \in {"cancel", "join"}
           \/ pc[Closer] = "sweep" /\ l \in {"sweep", "destroy", "closed"}
    <3>1. CASE CloseStart \/ CloseCancel
      BY <3>1, <1>a, <1>l DEF CloseStart, CloseCancel, Move, Goto, coreVars, Control
    <3>2. CASE SweepShard(Closer, << >>)
      BY <3>2, <1>a, <1>l DEF SweepShard, Goto, Control, WeakLocals
    <3>3. CASE SweepDone(Closer, "closed")
      BY <3>3, <1>a, <1>l DEF SweepDone, Move, Goto, coreVars, Control, WeakLocals
    <3> QED BY <1>1, <3>1, <3>2, <3>3 DEF CloseSweep
  <2>2. DrainPoint' = DrainPoint
    BY <1>l, <2>1 DEF DrainPoint
  <2> QED BY <1>a, <1>b, <2>1, <2>2, PermitStutter
<1>2. CASE CloseJoin
  <2>1. /\ pc[Closer] = "join" /\ l = "drain" /\ loc'[Closer].want = maxConns
        /\ UNCHANGED <<permitVars, reclaimed>>
    BY <1>2, <1>a, <1>l DEF CloseJoin, Move, Goto, coreVars, Control, WeakLocals
  <2>2. DrainPoint = "off" /\ DrainPoint' = "recv" /\ maxConns \in 0 .. Ceiling
    BY <1>l, <2>1 DEF DrainPoint, Control, GlobalTypes
  <2>3. PermitLayer!DrainStart
    BY <1>c, <2>1, <2>2 DEF PermitLayer!DrainStart, PMap, permitVars, PermitLayer!permitVars
  <2> QED BY <2>3 DEF PermitLayer!Next, PermitLayer!Drain
<1>3. CASE DrainReceive
  <2>1. /\ pc[Closer] = "drain" /\ l = "drain" /\ loc[Closer].want > 0 /\ Receive
        /\ loc'[Closer].want = loc[Closer].want - 1 /\ reclaimed' = reclaimed + 1
        /\ UNCHANGED settings
    BY <1>3, <1>a, <1>l DEF DrainReceive, Reclaim, Goto, Control, WeakLocals
  <2>2. DrainPoint = "recv" /\ DrainPoint' = "recv"
    BY <1>l, <2>1 DEF DrainPoint
  <2>3. PermitLayer!DrainReceive
    BY <1>c, <2>1, <2>2 DEF PermitLayer!DrainReceive, PMap, Receive, PermitLayer!Receive,
       settings, PermitLayer!settings
  <2> QED BY <2>3 DEF PermitLayer!Next, PermitLayer!Drain
<1>4. CASE DrainPark
  <2>1. /\ pc[Closer] = "drain" /\ l = "dparked" /\ loc[Closer].want > 0 /\ Park(Closer)
        /\ loc' = loc /\ UNCHANGED <<settings, reclaimed>>
    BY <1>4, <1>a, <1>l DEF DrainPark, Move, Goto, coreVars, Control
  <2>2. DrainPoint = "recv" /\ DrainPoint' = "parked"
    BY <1>l, <2>1 DEF DrainPoint
  <2>3. PermitLayer!DrainPark
    BY <1>c, <2>1, <2>2 DEF PermitLayer!DrainPark, PMap, Park, PermitLayer!Park,
       settings, PermitLayer!settings
  <2> QED BY <2>3 DEF PermitLayer!Next, PermitLayer!Drain
<1>5. CASE DrainServed
  <2>1. /\ pc[Closer] = "dparked" /\ l = "drain" /\ Resume(Closer)
        /\ loc'[Closer].want = loc[Closer].want - 1 /\ reclaimed' = reclaimed + 1
        /\ UNCHANGED settings
    BY <1>5, <1>a, <1>l DEF DrainServed, Reclaim, Goto, Control, WeakLocals
  <2>2. DrainPoint = "parked" /\ DrainPoint' = "recv"
    BY <1>l, <2>1 DEF DrainPoint
  <2>3. PermitLayer!DrainServed
    BY <1>c, <2>1, <2>2 DEF PermitLayer!DrainServed, PMap, Resume, PermitLayer!Resume,
       settings, PermitLayer!settings
  <2> QED BY <2>3 DEF PermitLayer!Next, PermitLayer!Drain
<1>6. CASE DrainTimeout
  <2>1. /\ \/ pc[Closer] = "dparked" /\ Unpark(Closer)
           \/ pc[Closer] = "drain" /\ UNCHANGED channelVars
        /\ l = "sweep" /\ loc[Closer].want > 0 /\ loc'[Closer].want = loc[Closer].want
        /\ UNCHANGED <<settings, reclaimed>>
    BY <1>6, <1>a, <1>l DEF DrainTimeout, SweepFrom, Goto, coreVars, Control, WeakLocals
  <2>2. /\ pc[Closer] = "dparked" => DrainPoint = "parked"
        /\ pc[Closer] = "drain" => DrainPoint = "recv"
        /\ DrainPoint' = "done"
    BY <1>l, <2>1 DEF DrainPoint
  <2>3. Unpark(Closer) => PermitLayer!Unpark(Closer)
    BY DEF Unpark, PermitLayer!Unpark, Without, PermitLayer!Without
  <2>4. PermitLayer!DrainTimeout
    BY <1>c, <2>1, <2>2, <2>3 DEF PermitLayer!DrainTimeout, PMap, channelVars,
       PermitLayer!channelVars, settings, PermitLayer!settings
  <2> QED BY <2>4 DEF PermitLayer!Next, PermitLayer!Drain
<1>7. CASE DrainReturn
  <2>1. /\ pc[Closer] = "drain" /\ l = "sweep" /\ loc[Closer].want = 0
        /\ loc'[Closer].want = loc[Closer].want
        /\ UNCHANGED <<permitVars, reclaimed>>
    BY <1>7, <1>a, <1>l DEF DrainReturn, SweepFrom, Goto, coreVars, Control, WeakLocals
  <2>2. DrainPoint = "recv" /\ DrainPoint' = "done"
    BY <1>l, <2>1 DEF DrainPoint
  <2>3. PermitLayer!DrainReturn
    BY <1>c, <2>1, <2>2 DEF PermitLayer!DrainReturn, PMap, permitVars, PermitLayer!permitVars
  <2> QED BY <2>3 DEF PermitLayer!Next, PermitLayer!Drain
<1> QED BY <1>1, <1>2, <1>3, <1>4, <1>5, <1>6, <1>7 DEF Close

\* New makes the permit set Permits starts from.
LEMMA InitRefines ==
  ASSUME Init
  PROVE  PermitLayer!Init
<1>1. PermitInit => PermitLayer!PermitInit
  BY DEF PermitInit, PermitLayer!PermitInit
<1>2. /\ \A p \in Callers : pc[p] = "free"
      /\ pc[Maintainer] = "warm" /\ pc[Closer] = "open" /\ loc[Closer] = NoLocals
      /\ Maintainer \notin Callers
  BY Kinds DEF Init
<1>3. PMap = [p \in Holders |-> "idle"]
  <2>1. \A p \in Holders : PMap[p] = "idle"
    BY <1>2, PMapIs DEF PointOf, Holders
  <2> QED BY <2>1 DEF PMap, Holders
<1>4. DrainPoint = "off" /\ loc[Closer].want = 0
  BY <1>2 DEF DrainPoint, NoLocals
<1> QED BY <1>1, <1>3, <1>4 DEF Init, PermitLayer!Init, PMap, Holders

\* Every step of the engine is a step of Permits or leaves the permit set alone.
LEMMA NextRefines ==
  ASSUME Control, Next
  PROVE  PermitLayer!Next \/ UNCHANGED PermitLayer!vars
BY AcquireRefines, ReleaseRefines, SharedRefines, ResizeRefines, EvictRefines,
   MaintainRefines, CloseRefines DEF Next

\* ImplementsPermits: whatever the engine does, its permit set sees acquires, releases,
\* one resize at a time and one drain, as module Permits says, with one release on
\* every path out of Acquire, Release and warmUp.
THEOREM EngineImplementsPermits == Spec => ImplementsPermits
<1>1. Control /\ [Next]_vars => [PermitLayer!Next]_(PermitLayer!vars)
  <2>1. ASSUME UNCHANGED vars PROVE UNCHANGED PermitLayer!vars
    BY <2>1 DEF vars, coreVars, permitVars, PermitLayer!vars, PermitLayer!clientVars,
       PermitLayer!permitVars, PermitPoint, HasPermit, DrainPoint
  <2> QED BY <2>1, NextRefines
<1> QED BY <1>1, InitRefines, ControlHolds, PTL DEF Spec, ImplementsPermits, PermitLayer!Spec

-----------------------------------------------------------------------------
(* What module PermitsProofs proves of every permit set, for this one. *)

PL == INSTANCE PermitsProofs WITH
        Holders   <- Callers \cup {Maintainer},
        Drainer   <- Closer,
        pc        <- [p \in Callers \cup {Maintainer} |-> PermitPoint(p)],
        drainAt   <- DrainPoint,
        drainLeft <- loc[Closer].want,
        reclaimed <- reclaimed

\* Goroutines that have a permit: handed one, holding it, or sending it back.
Permitted == grants \cup {p \in Holders : PMap[p] \in {"held", "sending"}}

\* No permit is lost or invented, and there are never more than the ceiling allows.
PermitBooks ==
  /\ PermitTypeOK
  /\ tokens + Cardinality(Permitted) + reclaimed + resizeLeft = limit + debt
  /\ tokens + Cardinality(Permitted) + reclaimed <= Ceiling
  /\ resizeAt = "off" => resizeLeft = 0

\* The instance with the theorems is the instance without.
LEMMA SamePermits ==
  /\ PL!Next <=> PermitLayer!Next
  /\ PL!Init <=> PermitLayer!Init
BY DEF PL!Init, PermitLayer!Init, PL!Next, PermitLayer!Next, PL!clientVars, PermitLayer!clientVars, PL!permitVars, PermitLayer!permitVars,
       PL!channelVars, PermitLayer!channelVars, PL!settings, PermitLayer!settings,
       PL!drainVars, PermitLayer!drainVars, PL!PermitInit, PermitLayer!PermitInit,
       PL!Acquire, PermitLayer!Acquire, PL!Release, PermitLayer!Release,
       PL!Resize, PermitLayer!Resize, PL!Drain, PermitLayer!Drain,
       PL!TryAcquire, PermitLayer!TryAcquire, PL!Wait, PermitLayer!Wait,
       PL!WaitServed, PermitLayer!WaitServed, PL!WaitCancelled, PermitLayer!WaitCancelled,
       PL!ReleaseRepay, PermitLayer!ReleaseRepay, PL!ReleaseNoDebt,
       PermitLayer!ReleaseNoDebt, PL!ReleaseSend, PermitLayer!ReleaseSend,
       PL!ResizeSwap, PermitLayer!ResizeSwap, PL!ResizeStep, PermitLayer!ResizeStep,
       PL!GrowRepay, PermitLayer!GrowRepay, PL!GrowNoDebt, PermitLayer!GrowNoDebt,
       PL!GrowSend, PermitLayer!GrowSend, PL!ShrinkReceive, PermitLayer!ShrinkReceive,
       PL!ShrinkMiss, PermitLayer!ShrinkMiss, PL!ShrinkOwe, PermitLayer!ShrinkOwe,
       PL!ResizeReturn, PermitLayer!ResizeReturn, PL!DrainStart, PermitLayer!DrainStart,
       PL!DrainReceive, PermitLayer!DrainReceive, PL!DrainPark, PermitLayer!DrainPark,
       PL!DrainServed, PermitLayer!DrainServed, PL!DrainTimeout, PermitLayer!DrainTimeout,
       PL!DrainReturn, PermitLayer!DrainReturn, PL!Goto, PermitLayer!Goto,
       PL!Receive, PermitLayer!Receive, PL!Park, PermitLayer!Park, PL!Without,
       PermitLayer!Without, PL!Unpark, PermitLayer!Unpark, PL!Resume, PermitLayer!Resume,
       PL!Room, PermitLayer!Room, PL!Send, PermitLayer!Send, PL!Repay, PermitLayer!Repay,
       PL!NoDebt, PermitLayer!NoDebt

\* PermitsProofs' inductive invariant in the engine's terms.
LEMMA BooksFromPermits ==
  ASSUME PL!IInv
  PROVE  PermitBooks
<1>1. PL!Outstanding = Permitted
  BY DEF PL!Outstanding, Permitted, PMap, Holders
<1>2. PL!Cardinality(Permitted) = Cardinality(Permitted)
  BY Zenon DEF PL!Cardinality, Cardinality
<1>3. PL!Extant = tokens + Cardinality(Permitted) + reclaimed
  BY <1>1, <1>2 DEF PL!Extant
<1>4. PermitTypeOK
  BY DEF PL!IInv, PL!Structure, PL!TypeOK, PL!PermitTypeOK, PermitTypeOK, PL!ResizePoints,
     ResizePoints
<1>5. /\ PL!Extant + resizeLeft = limit + debt /\ PL!Extant <= Ceiling
      /\ resizeAt = "off" => resizeLeft = 0
  BY DEF PL!IInv, PL!Structure, PL!Books, PL!Conservation, PL!WithinCeiling, PL!LocalsOK
<1> QED BY <1>3, <1>4, <1>5 DEF PermitBooks

\* Core's permits, whatever Acquire, Release, warmUp, SetMaxConns and Close are doing.
THEOREM PermitBooksHold == Spec => []PermitBooks
<1>1. PL!IsFiniteSet(Parkers)
  BY ParkersAssumption DEF IsFiniteSet, PL!IsFiniteSet
<1>2. Parkers = (Callers \cup {Maintainer}) \cup {Closer} /\ Closer \notin Callers \cup {Maintainer}
  BY CoreAssumption, Kinds
<1>3. PL!Spec => []PL!IInv
  BY <1>1, <1>2, CeilingAssumption, PL!PermitsInvariant
<1>4. [PermitLayer!Next]_(PermitLayer!vars) => [PL!Next]_(PL!vars)
  <2>1. UNCHANGED PermitLayer!vars => UNCHANGED PL!vars
    BY DEF PL!vars, PermitLayer!vars, PL!clientVars, PermitLayer!clientVars,
       PL!permitVars, PermitLayer!permitVars
  <2> QED BY <2>1, SamePermits
<1>5. PermitLayer!Init => PL!Init
  BY SamePermits
<1>6. PermitLayer!Spec => PL!Spec
  BY <1>4, <1>5, PTL DEF PermitLayer!Spec, PL!Spec
<1> QED BY <1>3, <1>6, EngineImplementsPermits, BooksFromPermits, PTL DEF ImplementsPermits

-----------------------------------------------------------------------------
(* Every open connection has one owner. *)

BucketOf == [s \in Shards |-> InShard(s)]
HandOf   == [p \in Procs |-> Hand(loc[p])]

\* The connections in a bucket.
Elems(q) == {q[i] : i \in 1 .. Len(q)}

Injective(q) == \A i, j \in 1 .. Len(q) : q[i] = q[j] => i = j

\* The buckets B and the hands H share out the connections O.
SharedOut(B, H, O) ==
  /\ \A s, t \in Shards : \A c : c \in B[s] /\ c \in B[t] => s = t
  /\ \A s \in Shards, p \in Procs : \A c : ~(c \in B[s] /\ c \in H[p])
  /\ \A p, q \in Procs : \A c : c \in H[p] /\ c \in H[q] => p = q
  /\ \A c : c \in O <=> (\E s \in Shards : c \in B[s]) \/ (\E p \in Procs : c \in H[p])

Ownership ==
  /\ \A s \in Shards : Injective(shards[s])
  /\ SharedOut(BucketOf, HandOf, open)

\* Connections move from a bucket to a goroutine's hand,
LEMMA MoveToHand ==
  ASSUME NEW B, NEW H, NEW O, SharedOut(B, H, O), DOMAIN B = Shards, DOMAIN H = Procs,
         NEW s \in Shards, NEW p \in Procs, H[p] = {}, NEW T, T \subseteq B[s]
  PROVE  SharedOut([B EXCEPT ![s] = @ \ T], [H EXCEPT ![p] = T], O)
<1> DEFINE B2 == [B EXCEPT ![s] = @ \ T]
           H2 == [H EXCEPT ![p] = T]
<1>1. \A t \in Shards : \A c : c \in B2[t] <=> c \in B[t] /\ ~(t = s /\ c \in T)
  OBVIOUS
<1>2. \A q \in Procs : \A c : c \in H2[q] <=> (q = p /\ c \in T) \/ (q # p /\ c \in H[q])
  OBVIOUS
<1> HIDE DEF B2, H2
<1> QED BY <1>1, <1>2 DEF SharedOut, B2, H2

\* from a hand to a bucket,
LEMMA MoveToBucket ==
  ASSUME NEW B, NEW H, NEW O, SharedOut(B, H, O), DOMAIN B = Shards, DOMAIN H = Procs,
         NEW s \in Shards, NEW p \in Procs, NEW c, H[p] = {c}
  PROVE  SharedOut([B EXCEPT ![s] = @ \cup {c}], [H EXCEPT ![p] = {}], O)
<1> DEFINE B2 == [B EXCEPT ![s] = @ \cup {c}]
           H2 == [H EXCEPT ![p] = {}]
<1>1. \A t \in Shards : \A d : d \in B2[t] <=> d \in B[t] \/ (t = s /\ d = c)
  OBVIOUS
<1>2. \A q \in Procs : \A d : d \in H2[q] <=> q # p /\ d \in H[q]
  OBVIOUS
<1> HIDE DEF B2, H2
<1> QED BY <1>1, <1>2 DEF SharedOut, B2, H2

\* from the server to a hand,
LEMMA Arrive ==
  ASSUME NEW B, NEW H, NEW O, SharedOut(B, H, O), DOMAIN B = Shards, DOMAIN H = Procs,
         NEW p \in Procs, H[p] = {}, NEW c, c \notin O
  PROVE  SharedOut(B, [H EXCEPT ![p] = {c}], O \cup {c})
<1> DEFINE H2 == [H EXCEPT ![p] = {c}]
<1>1. \A q \in Procs : \A d : d \in H2[q] <=> (q = p /\ d = c) \/ (q # p /\ d \in H[q])
  OBVIOUS
<1> HIDE DEF H2
<1> QED BY <1>1 DEF SharedOut, H2

\* and out of a hand for good.
LEMMA Leave ==
  ASSUME NEW B, NEW H, NEW O, SharedOut(B, H, O), DOMAIN B = Shards, DOMAIN H = Procs,
         NEW p \in Procs, NEW c \in H[p]
  PROVE  SharedOut(B, [H EXCEPT ![p] = @ \ {c}], O \ {c})
<1> DEFINE H2 == [H EXCEPT ![p] = @ \ {c}]
<1>1. \A q \in Procs : \A d : d \in H2[q] <=> d \in H[q] /\ ~(q = p /\ d = c)
  OBVIOUS
<1> HIDE DEF H2
<1> QED BY <1>1 DEF SharedOut, H2

\* pop takes the last connection of a bucket.
LEMMA PopBucket ==
  ASSUME NEW q \in Seq(Conns), q # << >>, Injective(q), NEW r, r = SubSeq(q, 1, Len(q) - 1)
  PROVE  /\ Injective(r)
         /\ Elems(r) = Elems(q) \ {q[Len(q)]}
<1>1. Len(q) \in Nat /\ Len(q) > 0
  OBVIOUS
<1>2. Len(r) = Len(q) - 1 /\ \A i \in 1 .. Len(q) - 1 : r[i] = q[i]
  <2>1. \A i \in 1 .. Len(q) - 1 : q[i] \in Conns
    BY <1>1
  <2>2. Len(r) = IF 1 <= Len(q) - 1 THEN (Len(q) - 1) - 1 + 1 ELSE 0
    BY <1>1, <2>1, SubSeqProperties
  <2>3. Len(r) = Len(q) - 1
    <3>1. ASSUME NEW m \in Nat, m > 0, NEW k, k = IF 1 <= m - 1 THEN (m - 1) - 1 + 1 ELSE 0
          PROVE  k = m - 1
      BY <3>1
    <3> QED BY <1>1, <2>2, <3>1, Zenon
  <2>4. \A i \in 1 .. Len(q) - 1 : r[i] = q[i]
    OBVIOUS
  <2> QED BY <2>3, <2>4
<1>3. \A i \in 1 .. Len(q) : i # Len(q) <=> i \in 1 .. Len(q) - 1
  BY <1>1
<1>4. Injective(r)
  BY <1>1, <1>2 DEF Injective
<1>5. \A i \in 1 .. Len(q) : q[i] = q[Len(q)] <=> i = Len(q)
  BY <1>1 DEF Injective
<1>6. \A i \in 1 .. Len(r) : i \in 1 .. Len(q) /\ i # Len(q) /\ r[i] = q[i]
  BY <1>1, <1>2
<1>7. \A i \in 1 .. Len(q) : i # Len(q) => i \in 1 .. Len(r) /\ r[i] = q[i]
  BY <1>1, <1>2
<1> QED BY <1>4, <1>5, <1>6, <1>7 DEF Elems

\* takeIf keeps connections in order, so what is kept has no duplicates either.
LEMMA KeptInjective ==
  ASSUME NEW q \in Seq(Conns), Injective(q), NEW kept \in Kept(q)
  PROVE  Injective(kept)
<1>1. PICK n \in 0 .. Len(q) : \E f \in [1 .. n -> 1 .. Len(q)] :
         /\ \A i, j \in 1 .. n : i < j => f[i] < f[j]
         /\ kept = [i \in 1 .. n |-> q[f[i]]]
  BY DEF Kept
<1>2. PICK f \in [1 .. n -> 1 .. Len(q)] :
         /\ \A i, j \in 1 .. n : i < j => f[i] < f[j]
         /\ kept = [i \in 1 .. n |-> q[f[i]]]
  BY <1>1
<1>3. n \in Nat /\ Len(q) \in Nat /\ \A i \in 1 .. n : f[i] \in 1 .. Len(q) /\ f[i] \in Int
  BY <1>2
<1>4. kept \in [1 .. n -> Conns]
  BY <1>2, <1>3
<1>5. kept \in Seq(Conns) /\ Len(kept) = n
  BY <1>3, <1>4
<1>6. ASSUME NEW i \in 1 .. n, NEW j \in 1 .. n, kept[i] = kept[j] PROVE i = j
  <2>1. q[f[i]] = q[f[j]]
    BY <1>2, <1>6
  <2>2. f[i] = f[j]
    BY <1>3, <2>1 DEF Injective
  <2>3. i < j \/ j < i \/ i = j
    BY <1>3
  <2>4. ~(f[i] < f[j]) /\ ~(f[j] < f[i])
    BY <1>3, <2>2
  <2> QED BY <1>2, <2>3, <2>4
<1> QED BY <1>5, <1>6 DEF Injective

\* push puts a connection at the end of a bucket it was not in.
LEMMA PushInjective ==
  ASSUME NEW q \in Seq(Conns), Injective(q), NEW c \in Conns,
         c \notin Elems(q)
  PROVE  /\ Injective(Append(q, c))
         /\ Elems(Append(q, c)) = Elems(q) \cup {c}
<1>1. /\ Len(q) \in Nat /\ Len(Append(q, c)) = Len(q) + 1
      /\ Append(q, c)[Len(q) + 1] = c
      /\ \A i \in 1 .. Len(q) : Append(q, c)[i] = q[i]
  OBVIOUS
<1>2. \A i \in 1 .. Len(q) + 1 : i \in 1 .. Len(q) \/ i = Len(q) + 1
  BY <1>1
<1>3. \A i \in 1 .. Len(q) : q[i] # c
  BY DEF Elems
<1>4. Injective(Append(q, c))
  BY <1>1, <1>2, <1>3 DEF Injective
<1>5. \A i \in 1 .. Len(q) : i \in 1 .. Len(q) + 1
  BY <1>1
<1>6. Len(q) + 1 \in 1 .. Len(q) + 1
  BY <1>1
<1> QED BY <1>1, <1>2, <1>4, <1>5, <1>6 DEF Elems

\* The step of p, seen on the hands.
LEMMA HandStep ==
  ASSUME Control, NEW p \in Procs, NEW l, NEW x, StepsTo(p, l, x)
  PROVE  HandOf' = [HandOf EXCEPT ![p] = Hand(x)]
<1>1. \A q \in Procs : loc'[q] = IF q = p THEN x ELSE loc[q]
  BY DEF StepsTo, Control
<1>2. HandOf' = [q \in Procs |-> Hand(loc'[q])]
  BY DEF HandOf, Hand
<1>3. \A q \in Procs : HandOf[q] = Hand(loc[q])
  BY DEF HandOf
<1>4. \A q \in Procs : Hand(loc'[q]) = IF q = p THEN Hand(x) ELSE HandOf[q]
  BY <1>1, <1>3
<1> QED BY <1>2, <1>4 DEF HandOf

\* A step that changes one bucket, seen on the buckets' contents.
LEMMA BucketStep ==
  ASSUME shards \in [Shards -> Seq(Conns)], NEW s \in Shards, NEW q,
         shards' = [shards EXCEPT ![s] = q], q \in Seq(Conns)
  PROVE  BucketOf' = [BucketOf EXCEPT ![s] = Elems(q)]
<1>1. \A t \in Shards : shards'[t] = IF t = s THEN q ELSE shards[t]
  OBVIOUS
<1>2. BucketOf' = [t \in Shards |-> Elems(shards'[t])]
  BY DEF BucketOf, InShard, Elems
<1>3. \A t \in Shards : BucketOf[t] = Elems(shards[t])
  BY DEF BucketOf, InShard, Elems
<1>4. \A t \in Shards : Elems(shards'[t]) = IF t = s THEN Elems(q) ELSE BucketOf[t]
  BY <1>1, <1>3
<1> QED BY <1>2, <1>4 DEF BucketOf

\* Every step preserves Ownership: one case per kind of move.
LEMMA NextOwnership ==
  ASSUME Control, Ownership, Next
  PROVE  Ownership'
<1>0. PICK p \in Procs : \E l, x : StepsTo(p, l, x)
  BY NextSteps
<1>1. PICK l, x : StepsTo(p, l, x)
  BY <1>0
<1>2. HandOf' = [HandOf EXCEPT ![p] = Hand(x)] /\ HandOf[p] = Hand(loc[p])
  BY <1>1, HandStep DEF HandOf
<1>3. /\ shards \in [Shards -> Seq(Conns)] /\ loc[p].shard \in Shards
      /\ DOMAIN BucketOf = Shards /\ DOMAIN HandOf = Procs
  BY ControlAt DEF Control, GlobalTypes, BucketOf, HandOf
<1>4. /\ \A s \in Shards : Injective(shards[s])
      /\ SharedOut(BucketOf, HandOf, open)
  BY DEF Ownership
<1>5. ASSUME UNCHANGED shards
      PROVE  BucketOf' = BucketOf /\ \A s \in Shards : Injective(shards'[s])
  BY <1>4, <1>5 DEF BucketOf, InShard
<1>6. CASE Keeps(p, l, x) \/ Reserves(p, l, x) \/ Frees(p, l, x)
  <2>1. UNCHANGED <<shards, open>> /\ Hand(x) = HandOf[p]
    BY <1>6, <1>2 DEF Keeps, Reserves, Frees
  <2>2. HandOf' = HandOf
    BY <1>2, <1>3, <2>1 DEF HandOf
  <2> QED BY <1>4, <1>5, <2>1, <2>2 DEF Ownership
<1>7. CASE Dials(p, l, x)
  <2>1. PICK c \in Conns \ open : open' = open \cup {c} /\ Hand(x) = {c}
    BY <1>7 DEF Dials
  <2>2. SharedOut(BucketOf, [HandOf EXCEPT ![p] = {c}], open \cup {c})
    BY <1>2, <1>3, <1>4, <1>7, <2>1, Arrive DEF Dials
  <2> QED BY <1>2, <1>5, <1>7, <2>1, <2>2 DEF Ownership, Dials
<1>8. CASE Closes(p, l, x)
  <2>1. PICK c \in HandOf[p] : open' = open \ {c} /\ Hand(x) = HandOf[p] \ {c}
    BY <1>2, <1>8 DEF Closes
  <2>2. SharedOut(BucketOf, [HandOf EXCEPT ![p] = @ \ {c}], open \ {c})
    BY <1>3, <1>4, <2>1, Leave
  <2>3. HandOf' = [HandOf EXCEPT ![p] = @ \ {c}]
    BY <1>2, <2>1
  <2> QED BY <1>5, <1>8, <2>1, <2>2, <2>3 DEF Ownership, Closes
<1> DEFINE s == loc[p].shard
           q == shards[s]
           old == Elems(q)
<1>9. q \in Seq(Conns) /\ Injective(q) /\ BucketOf[s] = old /\ InShard(s) = old
  BY <1>3, <1>4 DEF BucketOf, InShard, Elems
<1>10. ASSUME NEW r, shards' = [shards EXCEPT ![s] = r], Injective(r)
       PROVE  \A t \in Shards : Injective(shards'[t])
  <2>1. \A t \in Shards : shards'[t] = IF t = s THEN r ELSE shards[t]
    BY <1>3, <1>10
  <2> QED BY <1>4, <1>10, <2>1
<1>11. CASE Pops(p, l, x)
  <2> DEFINE r == SubSeq(q, 1, Len(q) - 1)
             c == q[Len(q)]
  <2>1. /\ shards' = [shards EXCEPT ![s] = r] /\ q # << >> /\ UNCHANGED open
        /\ Hand(x) = {c} /\ HandOf[p] = {}
    BY <1>2, <1>3, <1>11 DEF Pops, Pop
  <2>2. Injective(r) /\ Elems(r) = old \ {c}
    BY <1>9, <2>1, PopBucket
  <2>3. {c} \subseteq BucketOf[s] /\ r \in Seq(Conns)
    BY <1>9, <2>1 DEF Elems
  <2> HIDE DEF r, c
  <2>4. BucketOf' = [BucketOf EXCEPT ![s] = old \ {c}]
    BY <1>3, <2>1, <2>2, <2>3, BucketStep
  <2>5. BucketOf' = [BucketOf EXCEPT ![s] = @ \ {c}]
    BY <1>3, <1>9, <2>4
  <2>6. SharedOut([BucketOf EXCEPT ![s] = @ \ {c}], [HandOf EXCEPT ![p] = {c}], open)
    BY <1>3, <1>4, <2>1, <2>3, MoveToHand
  <2>7. HandOf' = [HandOf EXCEPT ![p] = {c}]
    BY <1>2, <2>1
  <2>8. \A t \in Shards : Injective(shards'[t])
    BY <1>10, <2>1, <2>2
  <2> QED BY <2>1, <2>5, <2>6, <2>7, <2>8 DEF Ownership
<1>12. CASE Sweeps(p, l, x)
  <2>1. PICK r \in Kept(q) : /\ shards' = [shards EXCEPT ![s] = r]
                             /\ Hand(x) = old \ Elems(r)
    BY <1>9, <1>12 DEF Sweeps, Elems
  <2> DEFINE R == Elems(r)
             T == old \ R
  <2>2. Injective(r) /\ R \subseteq old /\ r \in Seq(Conns)
    <3>1. Injective(r)
      BY <1>9, <2>1, KeptInjective
    <3>2. r \in Seq(Conns) /\ \A i \in 1 .. Len(r) : \E j \in 1 .. Len(q) : r[i] = q[j]
      BY <1>9, <2>1, KeptType
    <3> QED BY <3>1, <3>2 DEF Elems
  <2>3. HandOf[p] = {} /\ UNCHANGED open /\ Hand(x) = T
    BY <1>2, <1>12, <2>1 DEF Sweeps
  <2>4. BucketOf' = [BucketOf EXCEPT ![s] = R]
    BY <1>3, <2>1, <2>2, BucketStep
  <2>5. T \subseteq BucketOf[s] /\ BucketOf[s] \ T = R
    BY <1>9, <2>2
  <2> HIDE DEF R, T
  <2>6. BucketOf' = [BucketOf EXCEPT ![s] = @ \ T]
    BY <1>3, <2>4, <2>5
  <2>7. SharedOut([BucketOf EXCEPT ![s] = @ \ T], [HandOf EXCEPT ![p] = T], open)
    BY <1>3, <1>4, <2>3, <2>5, MoveToHand
  <2>8. HandOf' = [HandOf EXCEPT ![p] = T]
    BY <1>2, <2>3
  <2>9. \A t \in Shards : Injective(shards'[t])
    BY <1>10, <2>1, <2>2
  <2> QED BY <2>3, <2>6, <2>7, <2>8, <2>9 DEF Ownership
<1>13. CASE Pushes(p, l, x)
  <2>1. PICK c \in Conns : HandOf[p] = {c} /\ shards' = [shards EXCEPT ![s] = Append(q, c)]
    BY <1>2, <1>3, <1>13 DEF Pushes
  <2>2. Hand(x) = {} /\ UNCHANGED open
    BY <1>13 DEF Pushes
  <2>3. c \notin old
    <3>1. c \in HandOf[p]
      BY <2>1
    <3> QED BY <1>3, <1>4, <1>9, <3>1 DEF SharedOut
  <2>4. /\ Injective(Append(q, c))
        /\ Elems(Append(q, c)) = old \cup {c}
    BY <1>9, <2>3, PushInjective
  <2>5. BucketOf' = [BucketOf EXCEPT ![s] = old \cup {c}]
    <3>1. Append(q, c) \in Seq(Conns)
      BY <1>9
    <3> QED BY <1>3, <2>1, <2>4, <3>1, BucketStep
  <2>6. BucketOf' = [BucketOf EXCEPT ![s] = @ \cup {c}]
    BY <1>3, <1>9, <2>5
  <2>7. SharedOut([BucketOf EXCEPT ![s] = @ \cup {c}], [HandOf EXCEPT ![p] = {}], open)
    BY <1>3, <1>4, <2>1, MoveToBucket
  <2>8. HandOf' = [HandOf EXCEPT ![p] = {}]
    BY <1>2, <2>2
  <2>9. \A t \in Shards : Injective(shards'[t])
    BY <1>10, <2>1, <2>4
  <2> QED BY <2>2, <2>6, <2>7, <2>8, <2>9 DEF Ownership
<1> QED BY <1>1, <1>6, <1>7, <1>8, <1>11, <1>12, <1>13 DEF StepsTo, Moves

\* A new pool owns nothing.
LEMMA InitOwnership ==
  ASSUME Init
  PROVE  Ownership
<1>1. \A s \in Shards : shards[s] = << >>
  BY DEF Init
<1>2. \A p \in Procs : loc[p] = NoLocals
  BY DEF Init
<1>3. \A s \in Shards : BucketOf[s] = {}
  BY <1>1 DEF BucketOf, InShard
<1>4. \A p \in Procs : HandOf[p] = {}
  BY <1>2 DEF HandOf, Hand, NoLocals
<1>5. \A s \in Shards : Injective(shards[s])
  BY <1>1 DEF Injective
<1> QED BY <1>3, <1>4, <1>5 DEF Ownership, SharedOut, Init

\* Buckets, hands and lists of victims share the open connections out among them, at
\* every instant (shard.go's push, pop, takeIf and drain; take, release, destroy).
THEOREM OwnershipHolds == Spec => []Ownership
<1>1. ASSUME Ownership, UNCHANGED vars PROVE Ownership'
  <2>1. UNCHANGED <<shards, loc, open>>
    BY <1>1 DEF vars, coreVars
  <2>2. BucketOf' = BucketOf /\ HandOf' = HandOf
    BY <2>1 DEF BucketOf, InShard, HandOf, Hand
  <2> QED BY <1>1, <2>1, <2>2 DEF Ownership
<1> QED BY <1>1, InitOwnership, NextOwnership, ControlHolds, PTL DEF Spec

\* A connection on the way to be closed is in nobody's hand, and NoConn is none.
LEMMA HandParts ==
  ASSUME Control, NEW p \in Procs, NEW c \in Conns
  PROVE  /\ c \in Hand(loc[p]) <=> loc[p].conn = c \/ c \in loc[p].victims
         /\ ~(loc[p].conn = c /\ c \in loc[p].victims)
<1>1. loc[p] \in WeakLocals /\ GoodAt(p, pc[p], loc[p]) /\ c # NoConn
  BY ControlAt, CoreAssumption
<1>2. loc[p].victims # {} => pc[p] \in {"destroy", "uncount"}
  BY <1>1, EmptyHand
<1>3. pc[p] \in {"destroy", "uncount"} => loc[p].conn = NoConn
  BY <1>1, EmptyHand
<1> QED BY <1>1, <1>2, <1>3 DEF Hand

\* With ownership shared out, a connection is in one place if it is open and in none
\* otherwise.
LEMMA PlacesCount ==
  ASSUME Control, Ownership, NEW c \in Conns
  PROVE  Cardinality(Places(c)) = IF c \in open THEN 1 ELSE 0
<1> DEFINE I(s) == {j \in DOMAIN shards[s] : shards[s][j] = c}
           A == UNION {{<<s, i>> : i \in {j \in DOMAIN shards[s] : shards[s][j] = c}} : s \in Shards}
           B == {<<p, "hand">> : p \in {q \in Procs : loc[q].conn = c}}
           C == {<<p, "doomed">> : p \in {q \in Procs : c \in loc[q].victims}}
<1>1. Places(c) = A \cup B \cup C
  BY Zenon DEF Places
<1>2. \A s \in Shards : I(s) # {} <=> c \in BucketOf[s]
  BY DEF Control, GlobalTypes, BucketOf, InShard
<1>3. \A s \in Shards : \A i, j \in I(s) : i = j
  BY DEF Control, GlobalTypes, Ownership, Injective
<1>4. \A p \in Procs : /\ c \in HandOf[p] <=> loc[p].conn = c \/ c \in loc[p].victims
                       /\ ~(loc[p].conn = c /\ c \in loc[p].victims)
  BY HandParts DEF HandOf
<1>5. /\ \A s, t \in Shards : c \in BucketOf[s] /\ c \in BucketOf[t] => s = t
      /\ \A s \in Shards, p \in Procs : ~(c \in BucketOf[s] /\ c \in HandOf[p])
      /\ \A p, q \in Procs : c \in HandOf[p] /\ c \in HandOf[q] => p = q
      /\ c \in open <=> (\E s \in Shards : c \in BucketOf[s])
                          \/ (\E p \in Procs : c \in HandOf[p])
  BY DEF Ownership, SharedOut
<1>6. \A z : z \in A <=> \E s \in Shards : \E i \in I(s) : z = <<s, i>>
  OBVIOUS
<1> HIDE DEF I
<1>7. \A z : z \in B <=> \E p \in Procs : loc[p].conn = c /\ z = <<p, "hand">>
  OBVIOUS
<1>8. \A z : z \in C <=> \E p \in Procs : c \in loc[p].victims /\ z = <<p, "doomed">>
  OBVIOUS
<1> HIDE DEF A, B, C
<1>9. CASE c \notin open
  <2>1. A = {} /\ B = {} /\ C = {}
    BY <1>2, <1>4, <1>5, <1>6, <1>7, <1>8, <1>9
  <2>2. Places(c) = {}
    BY <1>1, <2>1
  <2> QED BY <1>9, <2>2, FS_EmptySet
<1>10. CASE c \in open
  <2>1. \E z : Places(c) = {z}
    <3>1. CASE \E s \in Shards : c \in BucketOf[s]
      <4>1. PICK s \in Shards : c \in BucketOf[s]
        BY <3>1
      <4>2. PICK i \in I(s) : TRUE
        BY <1>2, <4>1
      <4>3. B = {} /\ C = {}
        BY <1>4, <1>5, <1>7, <1>8, <4>1
      <4>4. \A t \in Shards : \A j \in I(t) : t = s /\ j = i
        BY <1>2, <1>3, <1>5, <4>1, <4>2
      <4>5. A = {<<s, i>>}
        BY <1>6, <4>2, <4>4
      <4> QED BY <1>1, <4>3, <4>5
    <3>2. CASE \E p \in Procs : c \in HandOf[p]
      <4>1. PICK p \in Procs : c \in HandOf[p]
        BY <3>2
      <4>2. A = {}
        BY <1>2, <1>5, <1>6, <4>1
      <4>3. \A q \in Procs : loc[q].conn = c \/ c \in loc[q].victims => q = p
        BY <1>4, <1>5, <4>1
      <4>4. CASE loc[p].conn = c
        <5>1. B = {<<p, "hand">>}
          BY <1>7, <4>3, <4>4
        <5>2. C = {}
          BY <1>4, <1>8, <4>3, <4>4
        <5> QED BY <1>1, <4>2, <5>1, <5>2
      <4>5. CASE c \in loc[p].victims
        <5>1. C = {<<p, "doomed">>}
          BY <1>8, <4>3, <4>5
        <5>2. B = {}
          BY <1>4, <1>7, <4>3, <4>5
        <5> QED BY <1>1, <4>2, <5>1, <5>2
      <4> QED BY <1>4, <4>1, <4>4, <4>5
    <3> QED BY <1>5, <1>10, <3>1, <3>2
  <2> QED BY <1>10, <2>1, FS_Singleton
<1> QED BY <1>9, <1>10

\* OneOwner: an open connection is idle once or in one goroutine's hands, a closed one
\* nowhere, whatever Acquire, Release, the reaper, SetMaxConns, EvictIdle and Close
\* do at once (shard.go, idle_conn.go).
THEOREM EveryConnectionOwnedOnce == Spec => []OneOwner
<1>1. Control /\ Ownership => OneOwner
  BY PlacesCount DEF OneOwner
<1> QED BY <1>1, ControlHolds, OwnershipHolds, PTL

-----------------------------------------------------------------------------
(* The counts are exact. *)

Slotted == {p \in Procs : pc[p] \in {"dial", "uncount"}}
Users   == {p \in Callers : pc[p] = "using"}

Counts ==
  /\ IsFiniteSet(open)
  /\ totalConns = Cardinality(open) + Cardinality(Slotted)
  /\ totalConns <= Ceiling
  /\ checkedOut = Cardinality(Users)
  /\ \A p \in Procs : loc[p].seen \in 0 .. Ceiling
  /\ \A p \in Procs : pc[p] = "cas" => loc[p].seen < Ceiling

\* There are finitely many goroutines.
LEMMA FiniteProcs == IsFiniteSet(Procs) /\ IsFiniteSet(Callers)
<1>1. IsFiniteSet(Callers \cup {Maintainer, Closer})
  BY ParkersAssumption, CoreAssumption
<1>2. IsFiniteSet(Resizers \cup Evictors)
  BY GoroutinesAssumption, FS_Union
<1>3. IsFiniteSet((Callers \cup {Maintainer, Closer}) \cup (Resizers \cup Evictors))
  BY <1>1, <1>2, FS_Union
<1>4. Procs = (Callers \cup {Maintainer, Closer}) \cup (Resizers \cup Evictors)
  BY DEF Procs
<1> QED BY <1>1, <1>3, <1>4, FS_Subset

\* The goroutines of P that stand in S when f says where they are.
Standing(P, f, S) == {q \in P : f[q] \in S}

\* How a step of p to l changes the number of goroutines of P that stand in S.
LEMMA StandCount ==
  ASSUME NEW P, IsFiniteSet(P), NEW f, P \subseteq DOMAIN f, NEW p \in P, NEW l, NEW S,
         NEW A, A = Standing(P, f, S),
         NEW B, B = Standing(P, [f EXCEPT ![p] = l], S)
  PROVE  /\ IsFiniteSet(A) /\ Cardinality(A) \in Nat
         /\ IsFiniteSet(B) /\ Cardinality(B) \in Nat
         /\ f[p] \notin S /\ l \in S => Cardinality(B) = Cardinality(A) + 1
         /\ f[p] \in S /\ l \notin S => Cardinality(B) = Cardinality(A) - 1
         /\ (f[p] \in S <=> l \in S) => B = A
<1>1. \A q \in P : [f EXCEPT ![p] = l][q] = IF q = p THEN l ELSE f[q]
  OBVIOUS
<1>0. A = {q \in P : f[q] \in S} /\ B = {q \in P : [f EXCEPT ![p] = l][q] \in S}
  BY DEF Standing
<1>2. IsFiniteSet(A) /\ Cardinality(A) \in Nat /\ IsFiniteSet(B) /\ Cardinality(B) \in Nat
  BY <1>0, FS_Subset, FS_CardinalityType
<1>3. ASSUME f[p] \notin S, l \in S PROVE Cardinality(B) = Cardinality(A) + 1
  <2>1. B = A \cup {p} /\ p \notin A
    BY <1>0, <1>1, <1>3
  <2> QED BY <1>2, <2>1, FS_AddElement
<1>4. ASSUME f[p] \in S, l \notin S PROVE Cardinality(B) = Cardinality(A) - 1
  <2>1. A = B \cup {p} /\ p \notin B
    BY <1>0, <1>1, <1>4
  <2>2. Cardinality(A) = Cardinality(B) + 1
    BY <1>2, <2>1, FS_AddElement
  <2> QED BY <1>2, <2>2
<1>5. ASSUME f[p] \in S <=> l \in S PROVE B = A
  BY <1>0, <1>1, <1>5
<1> QED BY <1>2, <1>3, <1>4, <1>5

\* Only callers are "using".
LEMMA OnlyCallersUse ==
  ASSUME NEW p \in Procs, p \notin Callers, NEW l, NEW x, GoodAt(p, l, x)
  PROVE  l # "using"
BY DEF GoodAt, Procs, MaintainerAt, ResizerAt, EvictorAt, CloserAt, MaintainerPoints,
       ResizerPoints, EvictorPoints, CloserPoints

\* Every step preserves Counts: one case per kind of move.
LEMMA NextCounts ==
  ASSUME Control, Ownership, Counts, Next
  PROVE  Counts'
<1>0. PICK p \in Procs : \E l, x : StepsTo(p, l, x)
  BY NextSteps
<1>1. PICK l, x : StepsTo(p, l, x)
  BY <1>0
<1>2. /\ pc \in [Procs -> Points] /\ loc \in [Procs -> WeakLocals]
      /\ pc' = [pc EXCEPT ![p] = l] /\ loc' = [loc EXCEPT ![p] = x]
      /\ x \in WeakLocals /\ GoodAt(p, l, x) /\ GoodAt(p, pc[p], loc[p])
      /\ maxConns \in 0 .. Ceiling /\ Ceiling \in Nat
  BY <1>1, ControlAt, CeilingAssumption DEF Control, GlobalTypes, StepsTo
<1>3. /\ IsFiniteSet(open) /\ Cardinality(open) \in Nat
      /\ totalConns = Cardinality(open) + Cardinality(Slotted)
      /\ totalConns <= Ceiling /\ checkedOut = Cardinality(Users)
      /\ \A q \in Procs : loc[q].seen \in 0 .. Ceiling
      /\ \A q \in Procs : pc[q] = "cas" => loc[q].seen < Ceiling
  BY FS_CardinalityType DEF Counts
<1>4. /\ Cardinality(Slotted) \in Nat /\ Cardinality(Slotted') \in Nat
      /\ pc[p] \notin Slots /\ l \in Slots => Cardinality(Slotted') = Cardinality(Slotted) + 1
      /\ pc[p] \in Slots /\ l \notin Slots => Cardinality(Slotted') = Cardinality(Slotted) - 1
      /\ (pc[p] \in Slots <=> l \in Slots) => Slotted' = Slotted
  <2>1. Slotted = Standing(Procs, pc, Slots)
    BY DEF Slotted, Slots, Standing
  <2>2. Slotted' = Standing(Procs, [pc EXCEPT ![p] = l], Slots)
    BY <1>2 DEF Slotted, Slots, Standing
  <2>3. Procs \subseteq DOMAIN pc
    BY <1>2
  <2> QED BY <2>1, <2>2, <2>3, FiniteProcs, StandCount
<1>5. totalConns \in 0 .. Ceiling
  BY <1>3, <1>4, <1>2
<1>6. /\ IsFiniteSet(open')
      /\ totalConns' = Cardinality(open') + Cardinality(Slotted')
      /\ totalConns' <= Ceiling
  <2>1. CASE Keeps(p, l, x) \/ Pops(p, l, x) \/ Sweeps(p, l, x) \/ Pushes(p, l, x)
    BY <1>3, <1>4, <2>1 DEF Keeps, Pops, Sweeps, Pushes, Slots
  <2>2. CASE Reserves(p, l, x)
    <3>1. /\ totalConns' = totalConns + 1 /\ open' = open /\ totalConns < Ceiling
          /\ pc[p] \notin Slots /\ l \in Slots
      BY <1>3, <2>2 DEF Reserves, Slots
    <3> QED BY <1>2, <1>3, <1>4, <1>5, <3>1
  <2>3. CASE Frees(p, l, x)
    BY <1>2, <1>3, <1>4, <1>5, <2>3 DEF Frees
  <2>4. CASE Dials(p, l, x)
    <3>1. PICK c \in Conns \ open : open' = open \cup {c}
      BY <2>4 DEF Dials
    <3>2. IsFiniteSet(open') /\ Cardinality(open') = Cardinality(open) + 1
      BY <1>3, <3>1, FS_AddElement
    <3>3. totalConns' = totalConns /\ pc[p] \in Slots /\ l \notin Slots
      BY <2>4 DEF Dials, Slots
    <3> QED BY <1>3, <1>4, <3>2, <3>3
  <2>5. CASE Closes(p, l, x)
    <3>1. PICK c \in Hand(loc[p]) : open' = open \ {c}
      BY <2>5 DEF Closes
    <3>2. c \in open
      <4>1. c \in HandOf[p]
        BY <3>1 DEF HandOf
      <4> QED BY <4>1 DEF Ownership, SharedOut
    <3>3. IsFiniteSet(open') /\ Cardinality(open') = Cardinality(open) - 1
      BY <1>3, <3>1, <3>2, FS_RemoveElement
    <3>4. totalConns' = totalConns /\ pc[p] \notin Slots /\ l \in Slots
      BY <2>5 DEF Closes, Slots
    <3> QED BY <1>3, <1>4, <3>3, <3>4
  <2> QED BY <1>1, <2>1, <2>2, <2>3, <2>4, <2>5 DEF StepsTo, Moves
<1>7. checkedOut' = Cardinality(Users')
  <2>1. CASE p \in Callers
    <3>1. Users = Standing(Callers, pc, {"using"})
      BY DEF Users, Standing
    <3>2. Users' = Standing(Callers, [pc EXCEPT ![p] = l], {"using"})
      BY <1>2 DEF Users, Standing
    <3>3. Callers \subseteq DOMAIN pc
      BY <1>2, Kinds
    <3>4. /\ pc[p] # "using" /\ l = "using" => Cardinality(Users') = Cardinality(Users) + 1
          /\ pc[p] = "using" /\ l # "using" => Cardinality(Users') = Cardinality(Users) - 1
          /\ (pc[p] = "using" <=> l = "using") => Users' = Users
      <4>1. /\ pc[p] \notin {"using"} /\ l \in {"using"}
                 => Cardinality(Users') = Cardinality(Users) + 1
            /\ pc[p] \in {"using"} /\ l \notin {"using"}
                 => Cardinality(Users') = Cardinality(Users) - 1
            /\ (pc[p] \in {"using"} <=> l \in {"using"}) => Users' = Users
        BY <2>1, <3>1, <3>2, <3>3, FiniteProcs, StandCount
      <4> QED BY <4>1
    <3> QED BY <1>1, <1>3, <3>4 DEF StepsTo, ChecksOut
  <2>2. CASE p \notin Callers
    <3>1. l # "using" /\ pc[p] # "using"
      BY <1>2, <2>2, OnlyCallersUse
    <3>2. Users' = Users
      BY <1>2, <2>2, Kinds DEF Users
    <3> QED BY <1>1, <1>3, <3>1, <3>2 DEF StepsTo, ChecksOut
  <2> QED BY <2>1, <2>2
<1>8. x.seen \in 0 .. Ceiling /\ (l = "cas" => x.seen < Ceiling)
  <2>1. x.seen \in {0, loc[p].seen, totalConns} /\ (l = "cas" => x.seen < maxConns)
    BY <1>1 DEF StepsTo
  <2> QED BY <1>2, <1>3, <1>5, <2>1
<1>9. /\ \A q \in Procs : loc'[q].seen \in 0 .. Ceiling
      /\ \A q \in Procs : pc'[q] = "cas" => loc'[q].seen < Ceiling
  BY <1>2, <1>3, <1>8
<1> QED BY <1>6, <1>7, <1>9 DEF Counts

\* A new pool counts nothing.
LEMMA InitCounts ==
  ASSUME Init
  PROVE  Counts
<1>1. \A p \in Procs : /\ pc[p] \in {"free", "warm", "open", "rest"}
                       /\ loc[p].seen = 0
  BY DEF Init, NoLocals
<1>2. Slotted = {} /\ Users = {} /\ open = {}
  BY <1>1, Kinds DEF Slotted, Users, Init
<1>3. \A p \in Procs : loc[p].seen \in 0 .. Ceiling /\ pc[p] # "cas"
  BY <1>1, CeilingAssumption
<1> QED BY <1>2, <1>3, FS_EmptySet, CeilingAssumption DEF Counts, Init

\* totalConns and checkedOut are what they count, and a count that was loaded is a
\* possible total, whatever happened since (reserveSlot, releaseSlot, Acquire, release).
THEOREM CountsHold == Spec => []Counts
<1>1. ASSUME Counts, UNCHANGED vars PROVE Counts'
  BY <1>1 DEF vars, coreVars, Counts, Slotted, Users
<1> QED BY <1>1, InitCounts, NextCounts, ControlHolds, OwnershipHolds, PTL DEF Spec

\* ExactCount: totalConns is the open connections, the slots reserved for a dial and
\* the connections closed but not yet subtracted, at every instant (reserveSlot,
\* releaseSlot, destroy).
THEOREM TotalIsExact == Spec => []ExactCount
<1>1. Counts => ExactCount
  BY DEF Counts, ExactCount, Slotted
<1> QED BY <1>1, CountsHold, PTL


-----------------------------------------------------------------------------
(* What Stat samples fits together. *)

\* A caller that uses a connection has one that is open and not idle, and no two
\* have the same.
LEMMA UsersDistinct ==
  ASSUME Control, Ownership
  PROVE  /\ Idle \subseteq open
         /\ \A p \in Users : loc[p].conn \in open \ Idle
         /\ \A p, q \in Users : loc[p].conn = loc[q].conn => p = q
<1>1. /\ \A s \in Shards, p \in Procs : \A c : ~(c \in BucketOf[s] /\ c \in HandOf[p])
      /\ \A p, q \in Procs : \A c : c \in HandOf[p] /\ c \in HandOf[q] => p = q
      /\ \A c : c \in open <=> (\E s \in Shards : c \in BucketOf[s])
                                 \/ (\E p \in Procs : c \in HandOf[p])
  BY DEF Ownership, SharedOut
<1>2. \A c : c \in Idle <=> \E s \in Shards : c \in BucketOf[s]
  BY DEF Idle, BucketOf
<1>3. ASSUME NEW p \in Users PROVE p \in Procs /\ loc[p].conn \in HandOf[p]
  <2>1. p \in Procs /\ p \in Callers /\ pc[p] = "using"
    BY <1>3, Kinds DEF Users
  <2>2. CallerAt(pc[p], loc[p])
    BY <2>1, ControlAt DEF GoodAt
  <2>3. loc[p].conn # NoConn
    BY <2>1, <2>2 DEF CallerAt
  <2> QED BY <2>1, <2>3 DEF HandOf, Hand
<1> QED BY <1>1, <1>2, <1>3

\* A finite set is counted in two parts.
LEMMA SplitCount ==
  ASSUME NEW S, IsFiniteSet(S), NEW T, T \subseteq S
  PROVE  Cardinality(S) = Cardinality(T) + Cardinality(S \ T)
<1>1. PICK U : U = S \ T
  OBVIOUS
<1>2. T \cup U = S /\ T \cap U = {}
  BY <1>1
<1>3. IsFiniteSet(T) /\ IsFiniteSet(U)
  BY <1>1, FS_Subset
<1>4. Cardinality(T) \in Nat /\ Cardinality(U) \in Nat
  BY <1>3, FS_CardinalityType
<1>5. Cardinality(T \cup U) = Cardinality(T) + Cardinality(U) - Cardinality(T \cap U)
  BY <1>3, FS_Union
<1>6. Cardinality({}) = 0
  BY FS_EmptySet
<1>7. Cardinality(S) = Cardinality(T) + Cardinality(U) - 0
  BY <1>2, <1>5, <1>6
<1> QED BY <1>1, <1>4, <1>7

\* Users and idle connections are parts of the total.
LEMMA StatFits ==
  ASSUME Control, Ownership, Counts
  PROVE  /\ checkedOut \in 0 .. Ceiling /\ totalConns \in 0 .. Ceiling
         /\ checkedOut + Cardinality(Idle) <= totalConns
<1>1. /\ IsFiniteSet(Users) /\ IsFiniteSet(Slotted)
      /\ Cardinality(Users) \in Nat /\ Cardinality(Slotted) \in Nat
  BY FiniteProcs, FS_Subset, FS_CardinalityType DEF Users, Slotted
<1>2. /\ IsFiniteSet(Idle) /\ IsFiniteSet(open) /\ IsFiniteSet(open \ Idle)
      /\ Cardinality(Idle) \in Nat /\ Cardinality(open \ Idle) \in Nat
      /\ Cardinality(open) \in Nat
  BY UsersDistinct, FS_Subset, FS_Difference, FS_CardinalityType DEF Counts
<1>3. Cardinality(open) = Cardinality(Idle) + Cardinality(open \ Idle)
  BY <1>2, UsersDistinct, SplitCount
<1>4. Cardinality(Users) <= Cardinality(open \ Idle)
  <2> DEFINE f == [p \in Users |-> loc[p].conn]
  <2>1. f \in [Users -> open \ Idle] /\ \A p, q \in Users : f[p] = f[q] => p = q
    BY UsersDistinct
  <2>2. f \in Injection(Users, open \ Idle)
    BY <2>1 DEF Injection, IsInjective
  <2> QED BY <1>1, <1>2, <2>2, FS_Injection
<1> QED BY <1>1, <1>2, <1>3, <1>4, CeilingAssumption DEF Counts

-----------------------------------------------------------------------------
(* resizeMu keeps the ceiling and the permit limit together. *)

Critical == {"store", "swap", "units", "trim", "probe", "destroy", "uncount", "unlock"}

\* The resizer r holds resizeMu while at l; between its two assignments the ceiling is
\* already the new size and the limit still the old one.
Inside(l, want) ==
  /\ l \in Critical
  /\ l = "units" \/ resizeAt = "off"
  /\ maxConns = IF l = "swap" THEN want ELSE limit

Locking ==
  /\ \A r \in Resizers : resizeMu = r => Inside(pc[r], loc[r].want)
  /\ \A r \in Resizers : resizeMu # r => pc[r] \notin Critical
  /\ resizeMu = Nobody => resizeAt = "off" /\ maxConns = limit

\* A step of somebody else leaves a resizer where it is.
LEMMA ResizersStay ==
  ASSUME Control, NEW p \in Procs, p \notin Resizers, NEW l, NEW x, StepsTo(p, l, x)
  PROVE  \A r \in Resizers : pc'[r] = pc[r] /\ loc'[r] = loc[r]
BY Kinds DEF StepsTo, Control

\* A step that touches none of Locking's state.
LEMMA LockingFrame ==
  ASSUME Locking, UNCHANGED <<maxConns, resizeMu, resizeVars>>,
         \A r \in Resizers : pc'[r] = pc[r] /\ loc'[r] = loc[r]
  PROVE  Locking'
BY DEF Locking, Inside, resizeVars

\* Inside the critical section, closing idle connections.
LEMMA LockingShared ==
  ASSUME Control, Locking, NEW r \in Resizers, Shared(r)
  PROVE  Locking'
<1>1. PICK l, x : StepsTo(r, l, x)
  BY SharedSteps, Kinds
<1>2. /\ \A q \in Resizers : q # r => pc'[q] = pc[q] /\ loc'[q] = loc[q]
      /\ pc'[r] = l /\ ResizerAt(l, x) /\ ResizerAt(pc[r], loc[r])
  BY <1>1, Kinds, GoodResizer, ControlAt DEF StepsTo, Control
<1>3. pc[r] \in {"destroy", "uncount", "probe"}
  BY <1>2 DEF Shared, DestroyClose, DestroyCount, ProbePop, ProbeMiss, ReserveLoad,
     ReserveCompare, ReserveSwap, DialOK, DialFails, GiveRepay, GiveNoDebt, GiveSend, Move,
     ResizerAt, ResizerPoints
<1>4. l \in {"destroy", "uncount", "probe", "trim", "unlock"}
  <2>1. r \in Procs /\ r \in DOMAIN pc /\ pc'[r] = l
    BY <1>2, Kinds DEF Control
  <2>2. CASE DestroyClose(r) \/ DestroyCount(r)
    BY <1>2, <1>3, <2>1, <2>2 DEF DestroyClose, DestroyCount, Move, Goto, ResizerAt
  <2>3. CASE ProbePop(r)
    BY <2>1, <2>3, Kinds DEF ProbePop, Doom, Goto
  <2>4. CASE ProbeMiss(r)
    BY <2>1, <2>4 DEF ProbeMiss, Goto
  <2> QED BY <1>3, <2>2, <2>3, <2>4 DEF Shared, ReserveLoad, ReserveCompare, ReserveSwap,
             DialOK, DialFails, GiveRepay, GiveNoDebt, GiveSend, Move
<1>5. UNCHANGED <<maxConns, resizeMu, limit, resizeAt>>
  BY SharedFrame DEF engineVars, resizeVars
<1>6. resizeMu = r
  BY <1>3 DEF Locking, Critical
<1>7. r # Nobody
  BY GoroutinesAssumption
<1> QED BY <1>2, <1>3, <1>4, <1>5, <1>6, <1>7 DEF Locking, Inside, Critical

\* The critical section of SetMaxConns, instruction by instruction.
LEMMA LockingResize ==
  ASSUME Control, Locking, NEW r \in Resizers, Resize(r)
  PROVE  Locking'
<1>1. PICK l, x : StepsTo(r, l, x)
  BY ResizeSteps, Kinds
<1>2. /\ \A q \in Resizers : q # r => pc'[q] = pc[q] /\ loc'[q] = loc[q]
      /\ r \in Procs /\ r # Nobody /\ r \in DOMAIN pc /\ r \in DOMAIN loc
      /\ loc[r] \in WeakLocals
  BY <1>1, Kinds, ControlAt, GoroutinesAssumption DEF StepsTo, Control
<1>3. CASE \E n \in Targets : SetMaxConns(r, n)
  <2>1. /\ pc[r] = "rest" /\ pc'[r] = "lock"
        /\ UNCHANGED <<maxConns, resizeMu, limit, resizeAt>>
    BY <1>2, <1>3 DEF SetMaxConns, Move, Goto, coreVars, permitVars
  <2>2. resizeMu # r
    BY <2>1 DEF Locking, Inside, Critical
  <2> QED BY <1>2, <2>1, <2>2 DEF Locking, Inside, Critical
<1>4. CASE ResizeLock(r)
  <2>1. /\ pc[r] = "lock" /\ pc'[r] = "store" /\ resizeMu = Nobody /\ resizeMu' = r
        /\ UNCHANGED <<maxConns, limit, resizeAt, loc>>
    BY <1>2, <1>4 DEF ResizeLock, Move, Goto, permitVars
  <2>2. \A q \in Resizers : resizeMu # q /\ pc[q] \notin Critical
    BY <2>1, GoroutinesAssumption DEF Locking
  <2> QED BY <1>2, <2>1, <2>2 DEF Locking, Inside, Critical
<1>5. CASE ResizeStore(r)
  <2>1. /\ pc[r] = "store" /\ pc'[r] = "swap" /\ maxConns' = loc[r].want
        /\ UNCHANGED <<resizeMu, limit, resizeAt, loc>>
    BY <1>2, <1>5 DEF ResizeStore, Move, Goto, permitVars
  <2>2. resizeMu = r
    BY <2>1 DEF Locking, Critical
  <2> QED BY <1>2, <2>1, <2>2 DEF Locking, Inside, Critical
<1>6. CASE ResizePermits(r)
  <2>1. UNCHANGED <<maxConns, resizeMu, loc>>
    BY <1>6 DEF ResizePermits, coreVars
  <2>2. CASE pc[r] = "swap"
    <3>1. pc'[r] = "units" /\ limit' = loc[r].want
      BY <1>2, <1>6, <2>2 DEF ResizePermits, Move, Goto, ResizeSwap
    <3>2. resizeMu = r
      BY <2>2 DEF Locking, Critical
    <3> QED BY <1>2, <2>1, <2>2, <3>1, <3>2 DEF Locking, Inside, Critical
  <2>3. CASE pc[r] = "units"
    <3>1. ResizeStep /\ pc'[r] = IF resizeAt' = "off" THEN "trim" ELSE "units"
      BY <1>2, <1>6, <2>3 DEF ResizePermits, Move, Goto
    <3>2. limit' = limit
      BY <3>1 DEF ResizeStep, GrowRepay, GrowNoDebt, GrowSend, ShrinkReceive, ShrinkMiss,
         ShrinkOwe, ResizeReturn
    <3>3. resizeMu = r
      BY <2>3 DEF Locking, Critical
    <3> QED BY <1>2, <2>1, <2>3, <3>1, <3>2, <3>3 DEF Locking, Inside, Critical
  <2> QED BY <1>6, <2>2, <2>3 DEF ResizePermits, Move
<1>7. CASE Trim(r)
  <2>1. /\ pc[r] = "trim" /\ pc'[r] \in {"probe", "unlock"}
        /\ UNCHANGED <<maxConns, resizeMu, limit, resizeAt>>
    BY <1>2, <1>7 DEF Trim, ProbeFrom, Goto, coreVars, permitVars
  <2>2. resizeMu = r
    BY <2>1 DEF Locking, Critical
  <2> QED BY <1>2, <2>1, <2>2 DEF Locking, Inside, Critical
<1>8. CASE ResizeUnlock(r)
  <2>1. /\ pc[r] = "unlock" /\ pc'[r] = "rest" /\ resizeMu' = Nobody
        /\ UNCHANGED <<maxConns, limit, resizeAt>>
    BY <1>2, <1>8 DEF ResizeUnlock, Move, Goto, permitVars
  <2>2. resizeMu = r
    BY <2>1 DEF Locking, Critical
  <2>3. \A q \in Resizers : q # Nobody
    BY GoroutinesAssumption
  <2> QED BY <1>2, <2>1, <2>2, <2>3 DEF Locking, Inside, Critical
<1> QED BY <1>3, <1>4, <1>5, <1>6, <1>7, <1>8 DEF Resize

\* Every step preserves Locking.
LEMMA NextLocking ==
  ASSUME Control, Locking, Next
  PROVE  Locking'
<1>1. ASSUME NEW p \in Callers, Acquire(p) \/ Release(p) PROVE Locking'
  <2>1. UNCHANGED <<maxConns, resizeMu, resizeVars>>
    BY <1>1, AcquireFrame, ReleaseFrame DEF engineVars, resizeVars, permitVars
  <2> QED BY <1>1, <2>1, AcquireSteps, ReleaseSteps, Kinds, ResizersStay, LockingFrame
<1>2. ASSUME NEW p \in Procs, Shared(p) PROVE Locking'
  <2>1. CASE p \in Resizers
    BY <1>2, <2>1, LockingShared
  <2>2. CASE p \notin Resizers
    <3>1. UNCHANGED <<maxConns, resizeMu, resizeVars>>
      BY <1>2, SharedFrame DEF engineVars
    <3> QED BY <1>2, <2>2, <3>1, SharedSteps, ResizersStay, LockingFrame
  <2> QED BY <2>1, <2>2
<1>3. ASSUME NEW p \in Evictors, Evict(p) PROVE Locking'
  <2>1. UNCHANGED <<maxConns, resizeMu, resizeVars>>
    BY <1>3, EvictFrame DEF engineVars, resizeVars, permitVars
  <2> QED BY <1>3, <2>1, EvictSteps, Kinds, ResizersStay, LockingFrame
<1>4. ASSUME Maintain PROVE Locking'
  <2>1. UNCHANGED <<maxConns, resizeMu, resizeVars>>
    BY <1>4, MaintainFrame DEF engineVars
  <2> QED BY <1>4, <2>1, MaintainSteps, Kinds, ResizersStay, LockingFrame
<1>5. ASSUME Close PROVE Locking'
  <2>1. UNCHANGED <<maxConns, resizeMu, resizeVars>>
    BY <1>5, CloseFrame
  <2> QED BY <1>5, <2>1, CloseSteps, Kinds, ResizersStay, LockingFrame
<1> QED BY <1>1, <1>2, <1>3, <1>4, <1>5, LockingResize DEF Next

\* The ceiling and the permit limit change inside SetMaxConns' critical section only,
\* and a resizer is in it exactly while it holds resizeMu (core.go:164-193).
THEOREM LockingHolds == Spec => []Locking
<1>1. Init => Locking
  <2>1. ASSUME Init, NEW r \in Resizers PROVE pc[r] = "rest" /\ resizeMu # r
    BY <2>1, Kinds, GoroutinesAssumption DEF Init
  <2> QED BY <2>1 DEF Init, PermitInit, Locking, Inside, Critical
<1>2. ASSUME Locking, UNCHANGED vars PROVE Locking'
  BY <1>2 DEF vars, coreVars, permitVars, Locking, Inside
<1> QED BY <1>1, <1>2, NextLocking, ControlHolds, PTL DEF Spec

-----------------------------------------------------------------------------
(* A pool that is not resized. *)

Fixed ==
  Resizers = {} =>
    /\ maxConns = InitLimit /\ limit = InitLimit /\ debt = 0 /\ resizeAt = "off"
    /\ totalConns <= InitLimit
    /\ \A p \in Procs : pc[p] = "cas" => loc[p].seen < InitLimit

\* Every step preserves Fixed.
LEMMA NextFixed ==
  ASSUME Control, Counts, Fixed, Next
  PROVE  Fixed'
<1> SUFFICES ASSUME Resizers = {}
             PROVE  /\ maxConns' = InitLimit /\ limit' = InitLimit /\ debt' = 0
                    /\ resizeAt' = "off" /\ totalConns' <= InitLimit
                    /\ \A p \in Procs : pc'[p] = "cas" => loc'[p].seen < InitLimit
  BY DEF Fixed
<1>1. /\ maxConns = InitLimit /\ limit = InitLimit /\ debt = 0 /\ resizeAt = "off"
      /\ totalConns <= InitLimit
      /\ \A p \in Procs : pc[p] = "cas" => loc[p].seen < InitLimit
  BY DEF Fixed
<1>2. maxConns' = maxConns /\ limit' = limit /\ debt' = debt /\ resizeAt' = resizeAt
  <2>1. \A p : Shared(p) => UNCHANGED <<maxConns, limit, debt, resizeAt>>
    BY <1>1, SharedFrame DEF engineVars, resizeVars
  <2> QED BY <2>1, AcquireFrame, ReleaseFrame, MaintainFrame, EvictFrame, CloseFrame
          DEF Next, engineVars, resizeVars, permitVars
<1>a. PICK p \in Procs : \E l, x : StepsTo(p, l, x)
  BY NextSteps
<1>3. PICK l, x : StepsTo(p, l, x)
  BY <1>a
<1>4. totalConns \in Int /\ InitLimit \in Nat /\ pc \in [Procs -> Points]
      /\ loc \in [Procs -> WeakLocals]
  BY CeilingAssumption DEF Control, GlobalTypes
<1>5. totalConns' <= InitLimit
  <2>1. CASE Reserves(p, l, x)
    BY <1>1, <1>4, <2>1 DEF Reserves
  <2>2. CASE Frees(p, l, x)
    BY <1>1, <1>4, <2>2 DEF Frees
  <2> QED BY <1>1, <1>3, <2>1, <2>2 DEF StepsTo, Moves, Keeps, Dials, Closes, Pops, Sweeps,
             Pushes
<1>6. l = "cas" => x.seen < InitLimit
  BY <1>1, <1>3 DEF StepsTo
<1>7. \A q \in Procs : pc'[q] = "cas" => loc'[q].seen < InitLimit
  BY <1>1, <1>3, <1>4, <1>6 DEF StepsTo
<1> QED BY <1>1, <1>2, <1>5, <1>7

\* Without SetMaxConns the ceiling never moves and reserveSlot keeps the total at or
\* below it, however stale the count a goroutine compared (core.go:292-303).
THEOREM FixedHolds == Spec => []Fixed
<1>1. Init => Fixed
  <2>1. ASSUME Init, NEW p \in Procs PROVE pc[p] # "cas"
    BY <2>1 DEF Init
  <2> QED BY <2>1, CeilingAssumption DEF Init, PermitInit, Fixed
<1>2. ASSUME Fixed, UNCHANGED vars PROVE Fixed'
  BY <1>2 DEF vars, coreVars, permitVars, Fixed
<1> QED BY <1>1, <1>2, NextFixed, ControlHolds, CountsHold, PTL DEF Spec

\* The goroutines with a permit can be counted; a caller past Acquire's wait is one.
LEMMA PermittedFinite ==
  ASSUME PermitBooks
  PROVE  /\ IsFiniteSet(Permitted) /\ Cardinality(Permitted) \in Nat
         /\ \A p \in Callers : pc[p] \notin {"free", "permit", "parked"} => p \in Permitted
<1>1. grants \subseteq Procs
  BY CoreAssumption DEF PermitBooks, PermitTypeOK, Procs
<1>2. Permitted \subseteq Procs
  BY <1>1, Kinds DEF Permitted, Holders
<1>3. IsFiniteSet(Permitted) /\ Cardinality(Permitted) \in Nat
  BY <1>2, FiniteProcs, FS_Subset, FS_CardinalityType
<1>4. \A p \in Callers : pc[p] \notin {"free", "permit", "parked"}
                          => PointOf(p, pc[p]) \in {"held", "sending"}
  BY DEF PointOf
<1>5. \A p \in Callers : pc[p] \notin {"free", "permit", "parked"} => p \in Permitted
  BY <1>4, PMapIs DEF Permitted, Holders
<1> QED BY <1>3, <1>5

\* A caller at the ceiling holds a permit and uses no connection, so there are fewer
\* users than permits.
LEMMA FullHasRoom ==
  ASSUME Control, PermitBooks, Fixed, Resizers = {}, NEW p \in Callers, pc[p] = "full"
  PROVE  Cardinality(Users) < InitLimit
<1>1. Users \cup {p} \subseteq Permitted /\ p \notin Users
  BY PermittedFinite DEF Users
<1>2. IsFiniteSet(Permitted)
  BY PermittedFinite
<1>3. IsFiniteSet(Users) /\ Cardinality(Users) \in Nat /\ Cardinality(Permitted) \in Nat
  BY <1>1, <1>2, FS_Subset, FS_CardinalityType
<1>4. Cardinality(Users \cup {p}) = Cardinality(Users) + 1
  BY <1>1, <1>3, FS_AddElement
<1>5. Cardinality(Users \cup {p}) <= Cardinality(Permitted)
  BY <1>1, <1>2, FS_Subset
<1>6. Cardinality(Permitted) <= InitLimit
  <2>1. /\ tokens + Cardinality(Permitted) + reclaimed + resizeLeft = InitLimit + 0
        /\ tokens \in Nat /\ reclaimed \in Nat /\ resizeLeft = 0
    BY CeilingAssumption DEF PermitBooks, PermitTypeOK, Fixed, Control, GlobalTypes
  <2> QED BY <1>3, <2>1, CeilingAssumption
<1> QED BY <1>3, <1>4, <1>5, <1>6, CeilingAssumption

-----------------------------------------------------------------------------
(* The books. *)

\* The layers together give the types.
LEMMA BooksTyped ==
  ASSUME Control, Ownership, Counts, PermitBooks
  PROVE  TypeOK
<1>1. loc \in [Procs -> Locals]
  <2>1. ASSUME NEW p \in Procs PROVE loc[p] \in Locals
    <3>1. loc[p] \in WeakLocals /\ loc[p].seen \in 0 .. Ceiling
      BY ControlAt DEF Counts
    <3> QED BY <3>1 DEF WeakLocals, Locals
  <2> QED BY <2>1 DEF Control
<1>2. reclaimed \in 0 .. Ceiling
  <2>2. Cardinality(Permitted) \in Nat
    BY PermittedFinite
  <2> QED BY <2>2, CeilingAssumption DEF PermitBooks, PermitTypeOK, Control, GlobalTypes
<1>3. closed \in BOOLEAN
  BY Zenon DEF Control, GlobalTypes
<1>4. /\ maxConns \in 0 .. Ceiling /\ totalConns \in 0 .. Ceiling
      /\ checkedOut \in 0 .. Ceiling /\ resizeMu \in Resizers \cup {Nobody}
      /\ shards \in [Shards -> Seq(Conns)] /\ open \subseteq Conns
  BY StatFits DEF Control, GlobalTypes
<1>5. pc \in [Procs -> CallerPoints \cup MaintainerPoints \cup ResizerPoints
                       \cup EvictorPoints \cup CloserPoints]
  BY DEF Control, Points
<1>6. PermitTypeOK
  BY DEF PermitBooks
<1> QED BY <1>1, <1>2, <1>3, <1>4, <1>5, <1>6 DEF TypeOK

\* Inv: the pool's books balance at every instant, for every number of goroutines,
\* connections and buckets and every interleaving of Acquire, Release, maintain,
\* SetMaxConns, EvictIdle and Close.
THEOREM BooksHold == Spec => []Inv
<1>1. ASSUME Control, Ownership, Counts, PermitBooks, Locking, Fixed
      PROVE  Inv
  <2>1. TypeOK
    BY <1>1, BooksTyped
  <2>2. OneOwner
    BY <1>1, PlacesCount DEF OneOwner
  <2>3. ExactCount
    BY <1>1 DEF Counts, ExactCount, Slotted
  <2>4. StatConsistent
    BY <1>1, StatFits DEF StatConsistent, Counts
  <2>5. CeilingsAgree
    BY <1>1 DEF Locking, CeilingsAgree
  <2>6. ASSUME Resizers = {} PROVE OpenWithinMax
    <3>1. Cardinality(open) \in Nat /\ Cardinality(Slotted) \in Nat
      BY <1>1, FiniteProcs, FS_Subset, FS_CardinalityType DEF Counts, Slotted
    <3> QED BY <1>1, <2>6, <3>1, CeilingAssumption DEF Counts, Fixed, OpenWithinMax
  <2>7. ASSUME Resizers = {} PROVE YieldJustified
    <3>1. ASSUME NEW p \in Callers, pc[p] = "full", totalConns >= maxConns
          PROVE  Cardinality(Users) < totalConns
      <4>1. Cardinality(Users) < InitLimit /\ maxConns = InitLimit
        BY <1>1, <2>7, <3>1, FullHasRoom DEF Fixed
      <4>2. Cardinality(Users) \in Nat /\ totalConns \in Int
        BY <1>1, FiniteProcs, FS_Subset, FS_CardinalityType DEF Users, Control, GlobalTypes
      <4> QED BY <3>1, <4>1, <4>2, CeilingAssumption
    <3> QED BY <3>1 DEF YieldJustified, Users
  <2> QED BY <2>1, <2>2, <2>3, <2>4, <2>5, <2>6, <2>7 DEF Inv
<1> QED BY <1>1, ControlHolds, OwnershipHolds, CountsHold, PermitBooksHold, LockingHolds,
           FixedHolds, PTL

-----------------------------------------------------------------------------
(* Close, in a pool that is not resized. *)

Draining  == {"drain", "dparked"}
Sweeping  == {"sweep", "destroy", "uncount"}
ToBucket  == {"rfit", "rover", "rpush"}

\* Close has emptied the bucket s.
Emptied(s, l, left) == l = "closed" \/ (l \in Sweeping /\ s < ShardCount - left)

\* maintain has been joined before the drain starts; the drain keeps count; nobody is
\* between release's look at closed and its push once the sweep starts; and a bucket
\* that was swept stays empty.
Closing ==
  /\ closed <=> pc[Closer] # "open"
  /\ pc[Closer] \notin {"open", "cancel", "join"} => pc[Maintainer] = "exited"
  /\ pc[Closer] \in {"open", "cancel", "join"} => reclaimed = 0
  /\ pc[Closer] \notin {"open", "cancel", "join"}
       => loc[Closer].want + reclaimed = InitLimit
  /\ pc[Closer] \in Sweeping \cup {"closed"}
       => \A p \in Callers : pc[p] \notin ToBucket
  /\ \A s \in Shards : Emptied(s, pc[Closer], loc[Closer].left) => shards[s] = << >>

\* A caller reaches release's push only through its look at closed.
LEMMA EntersRelease ==
  ASSUME Control, NEW p \in Callers, Acquire(p) \/ Release(p) \/ Shared(p),
         pc'[p] \in ToBucket
  PROVE  pc[p] \in ToBucket \/ ~closed
<1>1. p \in Procs /\ p \in DOMAIN pc /\ CallerAt(pc[p], loc[p]) /\ p # Maintainer
  BY Kinds, ControlAt, GoodCaller DEF Control
<1>2. CASE Acquire(p)
  BY <1>1, <1>2 DEF Acquire, AcquireStart, AcquireTry, AcquireWait, AcquireServed,
     AcquireCancelled, AcquireRecheck, TakeYield, AcquireReturn, Move, Goto, ProbeFrom,
     ToBucket
<1>3. CASE Release(p)
  BY <1>1, <1>3 DEF Release, ReleaseStart, ReleaseClosed, ReleaseFit, ReleaseOver,
     ReleasePush, Push, Move, Goto, Doom, ToBucket
<1>4. CASE Shared(p)
  <2>1. CASE DestroyClose(p) \/ DestroyCount(p)
    BY <1>1, <2>1 DEF DestroyClose, DestroyCount, Move, Goto, ToBucket, CallerAt
  <2>2. CASE ProbePop(p) \/ ProbeMiss(p)
    BY <1>1, <2>2 DEF ProbePop, ProbeMiss, Doom, Goto, ToBucket
  <2>3. CASE ReserveLoad(p) \/ ReserveCompare(p) \/ ReserveSwap(p)
    BY <1>1, <2>3 DEF ReserveLoad, ReserveCompare, ReserveSwap, Move, Goto, ToBucket
  <2>4. CASE DialOK(p) \/ DialFails(p)
    BY <1>1, <2>4 DEF DialOK, DialFails, Move, Goto, ToBucket
  <2>5. CASE GiveRepay(p) \/ GiveNoDebt(p) \/ GiveSend(p)
    BY <1>1, <2>5 DEF GiveRepay, GiveNoDebt, GiveSend, Move, Goto, ToBucket, AfterGive
  <2> QED BY <1>4, <2>1, <2>2, <2>3, <2>4, <2>5 DEF Shared
<1> QED BY <1>2, <1>3, <1>4

\* Only a caller between "rover" and "giveback", or the maintainer, fills a bucket.
LEMMA EmptyStaysEmpty ==
  ASSUME Control, NEW p \in Procs, NEW l, NEW x, StepsTo(p, l, x),
         pc[p] \notin {"rpush", "push"}, NEW s \in Shards, shards[s] = << >>
  PROVE  shards'[s] = << >>
<1>1. shards \in [Shards -> Seq(Conns)] /\ loc[p].shard \in Shards
  BY ControlAt DEF Control, GlobalTypes
<1>2. CASE Pops(p, l, x)
  BY <1>1, <1>2 DEF Pops, Pop
<1>3. CASE Sweeps(p, l, x)
  <2>1. PICK kept \in Kept(shards[loc[p].shard]) :
          shards' = [shards EXCEPT ![loc[p].shard] = kept]
    BY <1>3 DEF Sweeps
  <2>2. CASE s = loc[p].shard
    <3>1. kept \in Seq(Conns) /\ Len(kept) <= Len(shards[s])
      BY <1>1, <2>1, <2>2, KeptType
    <3>2. kept = << >>
      BY <3>1
    <3> QED BY <1>1, <2>1, <2>2, <3>2
  <2> QED BY <1>1, <2>1, <2>2
<1> QED BY <1>2, <1>3 DEF StepsTo, Moves, Keeps, Reserves, Frees, Dials, Closes, Pushes

\* Whoever else moves, Close's progress stands.
LEMMA ClosingOthers ==
  ASSUME Control, Closing, NEW p \in Procs, p # Closer, NEW l, NEW x, StepsTo(p, l, x),
         UNCHANGED <<closed, reclaimed>>,
         p \in Callers /\ l \in ToBucket => pc[p] \in ToBucket \/ ~closed
  PROVE  Closing'
<1>1. /\ pc'[Closer] = pc[Closer] /\ loc'[Closer] = loc[Closer]
      /\ \A q \in Procs : pc'[q] = IF q = p THEN l ELSE pc[q]
      /\ pc[p] # "exited"
  BY Kinds DEF StepsTo, Control
<1>2. pc[Maintainer] = "exited" => pc'[Maintainer] = "exited"
  BY <1>1, Kinds
<1>3. /\ closed' <=> pc'[Closer] # "open"
      /\ pc'[Closer] \notin {"open", "cancel", "join"} => pc'[Maintainer] = "exited"
      /\ pc'[Closer] \in {"open", "cancel", "join"} => reclaimed' = 0
      /\ pc'[Closer] \notin {"open", "cancel", "join"}
           => loc'[Closer].want + reclaimed' = InitLimit
  BY <1>1, <1>2 DEF Closing
<1>4. ASSUME pc'[Closer] \in Sweeping \cup {"closed"}, NEW q \in Callers
      PROVE  pc'[q] \notin ToBucket
  BY <1>1, <1>4, Kinds DEF Closing, Sweeping
<1>5. ASSUME NEW s \in Shards, Emptied(s, pc'[Closer], loc'[Closer].left)
      PROVE  shards'[s] = << >>
  <2>1. shards[s] = << >> /\ pc[Closer] \in Sweeping \cup {"closed"}
    BY <1>1, <1>5 DEF Closing, Emptied
  <2>2. pc[Maintainer] = "exited" /\ \A q \in Callers : pc[q] # "rpush"
    BY <2>1 DEF Closing, Sweeping, ToBucket
  <2>3. pc[p] \notin {"rpush", "push"}
    <3>1. GoodAt(p, pc[p], loc[p])
      BY ControlAt
    <3>2. p \notin Callers /\ p # Maintainer => pc[p] \notin {"rpush", "push"}
      BY <3>1 DEF Procs, GoodAt, ResizerAt, EvictorAt, CloserAt, ResizerPoints,
         EvictorPoints, CloserPoints
    <3>3. p \in Callers => pc[p] # "push"
      BY <3>1 DEF GoodAt, CallerAt, CallerPoints
    <3> QED BY <1>1, <2>2, <3>2, <3>3
  <2> QED BY <2>1, <2>3, EmptyStaysEmpty
<1> QED BY <1>3, <1>4, <1>5 DEF Closing

\* With every permit reclaimed no caller has one.
LEMMA AllReclaimed ==
  ASSUME Control, PermitBooks, Fixed, Resizers = {}, reclaimed = InitLimit
  PROVE  \A p \in Callers : pc[p] \in {"free", "permit", "parked"}
<1>1. /\ tokens + Cardinality(Permitted) + reclaimed + resizeLeft = InitLimit + 0
      /\ tokens \in Nat /\ resizeLeft = 0
  BY CeilingAssumption DEF PermitBooks, PermitTypeOK, Fixed
<1>2. Cardinality(Permitted) = 0
  BY <1>1, PermittedFinite, CeilingAssumption
<1>3. Permitted = {}
  BY <1>2, PermittedFinite, FS_EmptySet
<1> QED BY <1>3, PermittedFinite

\* Close's own steps.
LEMMA ClosingClose ==
  ASSUME Control, Closing, PermitBooks, Fixed, Resizers = {}, Close
  PROVE  Closing'
<1>1. PICK l, x : StepsTo(Closer, l, x)
  BY CloseSteps
<1>2. /\ Closer \in Procs /\ Closer \in DOMAIN pc /\ Closer \in DOMAIN loc
      /\ \A q \in Procs : q # Closer => pc'[q] = pc[q]
      /\ Maintainer \in Procs /\ Maintainer # Closer
      /\ \A q \in Callers : q \in Procs /\ q # Closer
  BY <1>1, Kinds DEF StepsTo, Control
<1>3. /\ loc[Closer] \in WeakLocals /\ CloserAt(pc[Closer], loc[Closer])
      /\ loc[Closer].want \in Nat /\ reclaimed \in Nat /\ maxConns = InitLimit
      /\ loc[Closer].left \in Nat /\ ShardCount \in Nat /\ InitLimit \in Nat
      /\ \A s \in Shards : s \in Nat /\ s < ShardCount
  BY <1>2, ControlAt, GoodCloser, CoreAssumption, CeilingAssumption
     DEF Control, GlobalTypes, Fixed, Shards
<1>4. CASE CloseStart
  <2>1. /\ pc[Closer] = "open" /\ pc'[Closer] = "cancel" /\ closed'
        /\ UNCHANGED <<reclaimed, shards, loc>>
    BY <1>2, <1>4 DEF CloseStart, Move, Goto
  <2> QED BY <2>1 DEF Closing, Emptied, Sweeping
<1>5. CASE CloseCancel
  <2>1. /\ pc[Closer] = "cancel" /\ pc'[Closer] = "join"
        /\ UNCHANGED <<closed, reclaimed, shards, loc>>
    BY <1>2, <1>5 DEF CloseCancel, Move, Goto, coreVars
  <2> QED BY <2>1 DEF Closing, Emptied, Sweeping
<1>6. CASE CloseJoin
  <2>1. /\ pc[Closer] = "join" /\ pc'[Closer] = "drain" /\ pc[Maintainer] = "exited"
        /\ loc'[Closer].want = maxConns /\ UNCHANGED <<closed, reclaimed, shards>>
    BY <1>2, <1>3, <1>6 DEF CloseJoin, Move, Goto, coreVars, WeakLocals
  <2>2. loc'[Closer].want + reclaimed' = InitLimit /\ pc'[Maintainer] = "exited"
    BY <1>2, <1>3, <2>1 DEF Closing
  <2> QED BY <2>1, <2>2 DEF Closing, Emptied, Sweeping
<1>7. CASE DrainReceive \/ DrainServed
  <2>1. /\ pc[Closer] \in Draining /\ pc'[Closer] = "drain"
        /\ loc'[Closer].want = loc[Closer].want - 1 /\ reclaimed' = reclaimed + 1
        /\ UNCHANGED <<closed, shards>>
    BY <1>2, <1>3, <1>7 DEF DrainReceive, DrainServed, Reclaim, Goto, Draining, WeakLocals
  <2>2. loc'[Closer].want + reclaimed' = InitLimit /\ pc'[Maintainer] = "exited"
    BY <1>2, <1>3, <2>1 DEF Closing, Draining
  <2> QED BY <2>1, <2>2 DEF Closing, Emptied, Sweeping, Draining
<1>8. CASE DrainPark
  <2>1. /\ pc[Closer] = "drain" /\ pc'[Closer] = "dparked"
        /\ UNCHANGED <<closed, reclaimed, shards, loc>>
    BY <1>2, <1>8 DEF DrainPark, Move, Goto, coreVars
  <2> QED BY <1>2, <2>1 DEF Closing, Emptied, Sweeping
<1>9. CASE DrainTimeout \/ DrainReturn
  <2>1. /\ pc[Closer] \in Draining /\ pc'[Closer] = "sweep"
        /\ loc'[Closer].left = ShardCount /\ loc'[Closer].want = loc[Closer].want
        /\ UNCHANGED <<closed, reclaimed, shards>>
    BY <1>2, <1>3, <1>9 DEF DrainTimeout, DrainReturn, SweepFrom, Goto, coreVars, Draining,
       WeakLocals
  <2>2. \A q \in Callers : pc[q] \notin ToBucket
    <3>1. CASE DrainTimeout
      BY <3>1 DEF DrainTimeout, Releasing, ToBucket
    <3>2. CASE DrainReturn
      <4>1. reclaimed = InitLimit
        BY <1>3, <2>1, <3>2 DEF DrainReturn, Closing, Draining
      <4> QED BY <4>1, AllReclaimed DEF ToBucket
    <3> QED BY <1>9, <3>1, <3>2
  <2>3. \A s \in Shards : ~Emptied(s, pc'[Closer], loc'[Closer].left)
    BY <1>3, <2>1 DEF Emptied
  <2>4. /\ closed' /\ pc'[Maintainer] = "exited"
        /\ loc'[Closer].want + reclaimed' = InitLimit
    BY <1>2, <2>1 DEF Closing, Draining
  <2> QED BY <1>2, <2>1, <2>2, <2>3, <2>4 DEF Closing
<1>10. CASE SweepShard(Closer, << >>)
  <2>1. /\ pc[Closer] = "sweep" /\ pc'[Closer] \in {"sweep", "destroy"}
        /\ loc[Closer].left > 0 /\ shards' = [shards EXCEPT ![loc[Closer].shard] = << >>]
        /\ UNCHANGED <<closed, reclaimed>>
    BY <1>2, <1>10 DEF SweepShard, Goto
  <2>2. loc'[Closer].left = loc[Closer].left - 1 /\ loc'[Closer].want = loc[Closer].want
    BY <1>2, <1>3, <1>10 DEF SweepShard, WeakLocals
  <2>3. loc[Closer].shard = ShardCount - loc[Closer].left
    BY <1>3, <2>1 DEF CloserAt
  <2>4. ASSUME NEW s \in Shards, Emptied(s, pc'[Closer], loc'[Closer].left)
        PROVE  shards'[s] = << >>
    <3>1. s < ShardCount - (loc[Closer].left - 1)
      BY <2>1, <2>2, <2>4 DEF Emptied
    <3>2. s = loc[Closer].shard \/ s < ShardCount - loc[Closer].left
      BY <1>3, <2>3, <3>1
    <3>3. s # loc[Closer].shard => shards[s] = << >>
      BY <2>1, <3>2 DEF Closing, Emptied, Sweeping
    <3> QED BY <2>1, <3>3 DEF Control, GlobalTypes
  <2>5. /\ closed' /\ pc'[Maintainer] = "exited"
        /\ loc'[Closer].want + reclaimed' = InitLimit
        /\ \A q \in Callers : pc'[q] \notin ToBucket
    BY <1>2, <2>1, <2>2 DEF Closing, Sweeping
  <2> QED BY <2>1, <2>4, <2>5 DEF Closing
<1>11. CASE SweepDone(Closer, "closed")
  <2>1. /\ pc[Closer] = "sweep" /\ pc'[Closer] = "closed" /\ loc[Closer].left = 0
        /\ UNCHANGED <<closed, reclaimed, shards>>
    BY <1>2, <1>11 DEF SweepDone, Move, Goto, coreVars
  <2>2. loc'[Closer].want = loc[Closer].want
    BY <1>2, <1>3, <1>11 DEF SweepDone, WeakLocals
  <2>3. \A s \in Shards : shards[s] = << >>
    BY <1>3, <2>1 DEF Closing, Emptied, Sweeping
  <2>4. /\ closed' /\ pc'[Maintainer] = "exited"
        /\ loc'[Closer].want + reclaimed' = InitLimit
        /\ \A q \in Callers : pc'[q] \notin ToBucket
    BY <1>2, <2>1, <2>2 DEF Closing, Sweeping
  <2> QED BY <2>1, <2>3, <2>4 DEF Closing
<1> QED BY <1>4, <1>5, <1>6, <1>7, <1>8, <1>9, <1>10, <1>11 DEF Close, CloseSweep

\* Close closing what it swept.
LEMMA ClosingDestroys ==
  ASSUME Control, Closing, Shared(Closer)
  PROVE  Closing'
<1>1. /\ Closer \in Procs /\ Closer \in DOMAIN pc /\ Closer \in DOMAIN loc
      /\ Maintainer \in Procs /\ Maintainer # Closer
      /\ \A q \in Callers : q \in Procs /\ q # Closer
      /\ loc[Closer] \in WeakLocals /\ CloserAt(pc[Closer], loc[Closer])
  BY Kinds, ControlAt, GoodCloser DEF Control
<1>2. DestroyClose(Closer) \/ DestroyCount(Closer)
  BY <1>1 DEF Shared, ProbePop, ProbeMiss, ReserveLoad, ReserveCompare, ReserveSwap, DialOK,
     DialFails, GiveRepay, GiveNoDebt, GiveSend, Move, CloserAt, CloserPoints
<1>3. /\ pc[Closer] \in {"destroy", "uncount"} /\ pc'[Closer] \in Sweeping
      /\ \A q \in Procs : q # Closer => pc'[q] = pc[q]
      /\ UNCHANGED <<closed, reclaimed, shards>>
  BY <1>1, <1>2 DEF DestroyClose, DestroyCount, Move, Goto, Sweeping, CloserAt, Control
<1>4. loc'[Closer].left = loc[Closer].left /\ loc'[Closer].want = loc[Closer].want
  BY <1>1, <1>2 DEF DestroyClose, DestroyCount, WeakLocals
<1>5. \A s \in Shards : Emptied(s, pc'[Closer], loc'[Closer].left)
                          => Emptied(s, pc[Closer], loc[Closer].left)
  BY <1>3, <1>4 DEF Emptied, Sweeping
<1> QED BY <1>1, <1>3, <1>4, <1>5 DEF Closing, Sweeping

\* Every step preserves Closing.
LEMMA NextClosing ==
  ASSUME Control, Closing, PermitBooks, Fixed, Resizers = {}, Next
  PROVE  Closing'
<1>1. ASSUME NEW p \in Callers, Acquire(p) \/ Release(p) PROVE Closing'
  <2>1. UNCHANGED <<closed, reclaimed>> /\ p \in Procs /\ p # Closer
    BY <1>1, AcquireFrame, ReleaseFrame, Kinds DEF engineVars
  <2>2. PICK l, x : StepsTo(p, l, x)
    BY <1>1, AcquireSteps, ReleaseSteps
  <2>3. pc'[p] = l
    BY <2>1, <2>2 DEF StepsTo, Control
  <2> QED BY <1>1, <2>1, <2>2, <2>3, EntersRelease, ClosingOthers
<1>2. ASSUME NEW p \in Procs, p # Closer, Shared(p) PROVE Closing'
  <2>1. UNCHANGED <<closed, reclaimed>>
    BY <1>2, SharedFrame DEF engineVars
  <2>2. PICK l, x : StepsTo(p, l, x)
    BY <1>2, SharedSteps
  <2>3. pc'[p] = l
    BY <2>1, <2>2 DEF StepsTo, Control
  <2> QED BY <1>2, <2>1, <2>2, <2>3, EntersRelease, ClosingOthers
<1>3. ASSUME NEW p \in Evictors, Evict(p) PROVE Closing'
  <2>1. UNCHANGED <<closed, reclaimed>> /\ p \in Procs /\ p # Closer /\ p \notin Callers
    BY <1>3, EvictFrame, Kinds DEF engineVars
  <2> QED BY <1>3, <2>1, EvictSteps, ClosingOthers
<1>4. ASSUME Maintain PROVE Closing'
  <2>1. /\ UNCHANGED <<closed, reclaimed>>
        /\ Maintainer \in Procs /\ Maintainer # Closer /\ Maintainer \notin Callers
    BY <1>4, MaintainFrame, Kinds DEF engineVars
  <2> QED BY <1>4, <2>1, MaintainSteps, ClosingOthers
<1> QED BY <1>1, <1>2, <1>3, <1>4, ClosingClose, ClosingDestroys DEF Next

\* A new pool is not closing.
LEMMA InitClosing ==
  ASSUME Init
  PROVE  Closing
<1>1. pc[Closer] = "open"
  BY Kinds DEF Init
<1> QED BY <1>1 DEF Init, Closing, Emptied, Sweeping

\* How Close proceeds in a pool that is not resized: join, drain, sweep, in this order
\* and against every interleaving with the callers (core.go:546-567).
THEOREM ClosingHolds == Resizers = {} => (Spec => []Closing)
<1> SUFFICES ASSUME Resizers = {} PROVE Spec => []Closing
  OBVIOUS
<1>1. ASSUME Closing, UNCHANGED vars PROVE Closing'
  BY <1>1 DEF vars, coreVars, Closing
<1> QED BY <1>1, InitClosing, NextClosing, ControlHolds, PermitBooksHold, FixedHolds, PTL
        DEF Spec

\* Once Close has returned, the layers together say the pool is empty.
LEMMA ClosedEmpty ==
  ASSUME Control, Ownership, Counts, PermitBooks, Fixed, Closing, Resizers = {}
  PROVE  ClosedIsEmpty
<1> SUFFICES ASSUME pc[Closer] = "closed"
             PROVE  /\ Idle = {}
                    /\ loc[Closer].want = 0
                         => /\ checkedOut = 0
                            /\ open \subseteq UNION {loc[p].victims : p \in Procs}
                    /\ (\A p \in Procs : pc[p] \in {"free", "permit", "parked", "rest",
                                                    "exited", "closed"})
                         => open = {} /\ totalConns = 0
  BY DEF ClosedIsEmpty, NothingIdleAfterClose, CleanClose
<1>1. \A s \in Shards : shards[s] = << >>
  BY DEF Closing, Emptied
<1>2. \A s \in Shards : InShard(s) = {}
  BY <1>1 DEF InShard
<1>3. Idle = {}
  BY <1>2 DEF Idle
<1>4. \A c \in open : \E p \in Procs : c \in Hand(loc[p])
  BY <1>2 DEF Ownership, SharedOut, BucketOf, HandOf
<1>5. ASSUME NEW p \in Procs, p \notin Callers PROVE loc[p].conn = NoConn
  <2>1. GoodAt(p, pc[p], loc[p])
    BY ControlAt
  <2>2. pc[Maintainer] = "exited"
    BY DEF Closing
  <2> QED BY <1>5, <2>1, <2>2 DEF Procs, GoodAt, MaintainerAt, ResizerAt, EvictorAt, CloserAt
<1>6. ASSUME loc[Closer].want = 0
      PROVE  checkedOut = 0 /\ open \subseteq UNION {loc[p].victims : p \in Procs}
  <2>1. reclaimed = InitLimit
    BY <1>6, CeilingAssumption DEF Closing, Control, GlobalTypes
  <2>2. \A p \in Callers : pc[p] \in {"free", "permit", "parked"}
    BY <2>1, AllReclaimed
  <2>3. Users = {}
    BY <2>2 DEF Users
  <2>4. checkedOut = 0
    BY <2>3, FS_EmptySet DEF Counts
  <2>5. ASSUME NEW p \in Callers PROVE loc[p].conn = NoConn
    <3>1. CallerAt(pc[p], loc[p])
      BY ControlAt, Kinds, GoodCaller
    <3> QED BY <2>2, <3>1 DEF CallerAt
  <2>6. \A p \in Procs : Hand(loc[p]) = loc[p].victims
    BY <1>5, <2>5 DEF Hand
  <2> QED BY <1>4, <2>4, <2>6
<1>7. ASSUME \A p \in Procs : pc[p] \in {"free", "permit", "parked", "rest", "exited", "closed"}
      PROVE  open = {} /\ totalConns = 0
  <2>1. ASSUME NEW p \in Procs PROVE Hand(loc[p]) = {} /\ p \notin Slotted
    <3>1. GoodAt(p, pc[p], loc[p]) /\ pc[p] \in {"free", "permit", "parked", "rest", "exited", "closed"}
      BY <1>7, ControlAt
    <3>2. loc[p].victims = {}
      BY <3>1, EmptyHand
    <3>3. p \in Callers => loc[p].conn = NoConn
      BY <3>1 DEF GoodAt, CallerAt
    <3> QED BY <1>5, <3>1, <3>2, <3>3 DEF Hand, Slotted
  <2>2. open = {} /\ Slotted = {}
    BY <1>4, <2>1 DEF Slotted
  <2> QED BY <2>2, FS_EmptySet DEF Counts
<1> QED BY <1>3, <1>6, <1>7

\* ClosedIsEmpty: in a pool that is not resized, Close leaves nothing behind, however
\* many callers are inside Acquire or Release when it is called and whether or not its
\* drain times out (core.go:546-567).
THEOREM CloseLeavesNothing == Resizers = {} => (Spec => []ClosedIsEmpty)
<1> SUFFICES ASSUME Resizers = {} PROVE Spec => []ClosedIsEmpty
  OBVIOUS
<1>1. Control /\ Ownership /\ Counts /\ PermitBooks /\ Fixed /\ Closing => ClosedIsEmpty
  BY ClosedEmpty
<1> QED BY <1>1, ControlHolds, OwnershipHolds, CountsHold, PermitBooksHold, FixedHolds,
           ClosingHolds, PTL
=============================================================================
