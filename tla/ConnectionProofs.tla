-------------------------- MODULE ConnectionProofs --------------------------
(***************************************************************************)
(* The proofs about ConnLife and about Proxy: what a connection goes       *)
(* through in the pool, and what the clients that take turns on one see.   *)
(*                                                                         *)
(* ConnLife: a dead connection is never counted as expired, nothing is     *)
(* thrown away for age too early, and only what is fit goes back to the    *)
(* pool, for any number of goroutines and connections, any bounds on age   *)
(* and any lag of the clock.                                               *)
(*                                                                         *)
(* Proxy: for any number of clients, backends, names and messages, and any *)
(* limit.  The invariant, Holding, has a part for every session, a part    *)
(* for every connection and a part for every pair, so that a step has to   *)
(* account for one of each only (StepKeeps).  Two ideas carry it.  Runs:   *)
(* the messages still on the wire take the server's statements to the      *)
(* proxy's view of them, each finding its name free or the statement that  *)
(* the client means; PreparedAgrees and RunsOwnUnlessDrift are what is     *)
(* left of it at the end and at the head of the wire.  Settled: the        *)
(* completions the session expects are a subsequence of the answers to     *)
(* come, and as many of these were injected as are expected and owed.      *)
(* The parts named Unit hold while nobody has pipelined: drift then does   *)
(* not name every client (Spared).                                         *)
(*                                                                         *)
(* A second invariant, Counted, holds for clients that pipeline as well:   *)
(* the units a connection has yet to answer, on the wire and among the     *)
(* replies, are all its owner's and no more than the session has pending.  *)
(* Tally counts them.  So the ReadyForQuery that releases a connection is  *)
(* the last one, and what it says of the transaction is so.                *)
(***************************************************************************)
EXTENDS ConnLife, Proxy, FiniteSetTheorems, FunctionTheorems, SequenceTheorems, TLAPS


-----------------------------------------------------------------------------
(* THE LIFE OF A CONNECTION.  The inductive invariant. *)

\* The points at which a goroutine holds no connection, and those at which it has
\* found against what it holds.
Empty == {"free", "probe", "warm", "permit", "loop", "sweep"}
Doomed == {"why", "rwhy", "close", "rclose"}

\* Every time the pool works with is one that was.  The time a connection became
\* idle is its stamp and what the cached time was behind.
Clocks ==
  /\ cached <= time /\ \A p \in Procs : now[p] <= cached
  /\ \A c \in Conns : life[c].freed <= time /\ life[c].freed = life[c].idleSince + life[c].lag

\* A caller holds one connection, and only inside an operation; so the maintainer.
Hands ==
  /\ \A c \in Conns : at[c] \in Procs => pc[at[c]] \notin Empty
  /\ \A c, d \in Conns : at[c] \in Callers /\ at[c] = at[d] => c = d

\* A finding stands only while the goroutine that made it is throwing the connection
\* away, so no connection is judged twice.
Judged ==
  \A c \in Conns : life[c].verdict # "fit" \/ life[c].why # "none" =>
    at[c] \in Procs /\ pc[at[c]] \in Doomed

\* The driver does not take back that a connection is dead.
Died == \A c \in Conns : life[c].verdict = "dead" => life[c].dead

\* What recyclable asked is still so at the later steps of release.
Gate ==
  \A c \in Conns : at[c] \in Callers =>
    /\ pc[at[c]] \in {"reset", "age", "push"} => ~NotReady(life[c])
    /\ pc[at[c]] \in {"age", "push"} => ~life[c].dirty

LifeInv ==
  TypeOK /\ Clocks /\ Hands /\ Judged /\ Died /\ Gate /\ DeadIsUnhealthy /\ NoEarlyExpiry

-----------------------------------------------------------------------------
(* Facts about the steps. *)

\* A place is nowhere, idle or one goroutine.
LEMMA Kinds ==
  /\ Callers \subseteq Procs /\ Maintainer \in Procs /\ Maintainer \notin Callers
  /\ "idle" \notin Procs /\ "nowhere" \notin Procs
  /\ \A p \in Procs : p \in Callers \/ p = Maintainer
BY ConnLifeAssumption DEF Procs

\* The constants.
LEMMA Numbers ==
  /\ MaxTime \in Nat /\ MaxConnLifetime \in Nat /\ MaxConnIdleTime \in Nat
  /\ NeedsSetup \in BOOLEAN /\ Unborn \in Lives
BY ConnLifeAssumption DEF Unborn, Lives

\* The invariant holds when New returns.
LEMMA LifeInit == Init => LifeInv
<1> SUFFICES ASSUME Init PROVE LifeInv
  OBVIOUS
<1>1. TypeOK
  BY Numbers DEF Init, TypeOK, Places, Points
<1>2. \A c \in Conns : life[c] = Unborn /\ at[c] = "nowhere"
  BY DEF Init
<1>3. Clocks
  BY <1>2, Numbers DEF Init, Clocks, Unborn
<1>4. Hands /\ Judged /\ Died /\ Gate
  BY <1>2, Kinds DEF Hands, Judged, Died, Gate, Unborn
<1>5. DeadIsUnhealthy /\ NoEarlyExpiry
  BY <1>2 DEF DeadIsUnhealthy, NoEarlyExpiry, Unborn
<1> QED
  BY <1>1, <1>3, <1>4, <1>5 DEF LifeInv

\* The time a goroutine keeps was read earlier, or is forgotten.
LEMMA NowStep ==
  ASSUME LifeInv, NEW p \in Procs, pc' \in [Procs -> Points],
         ForgetNow(p) \/ now' = now \/ now' = [now EXCEPT ![p] = cached]
  PROVE  now' \in [Procs -> 0 .. MaxTime] /\ \A q \in Procs : now'[q] <= cached
<1>1. /\ now \in [Procs -> 0 .. MaxTime] /\ cached \in 0 .. MaxTime
      /\ \A q \in Procs : now[q] <= cached
  BY DEF LifeInv, TypeOK, Clocks
<1>2. CASE ForgetNow(p)
  <2>1. PICK t \in {0, now[p]} : now' = [now EXCEPT ![p] = t]
    BY <1>2 DEF ForgetNow
  <2> QED
    BY <2>1, <1>1, Numbers
<1> QED
  BY <1>1, <1>2, Numbers

\* One connection's part of the invariant, as a predicate of where it is, where its
\* goroutine stands and what is known of it.
Good(a, l, x) ==
  /\ x.freed <= time /\ x.freed = x.idleSince + x.lag
  /\ a \in Procs => l \notin Empty
  /\ x.verdict # "fit" \/ x.why # "none" => a \in Procs /\ l \in Doomed
  /\ x.verdict = "dead" => x.dead
  /\ a \in Callers => /\ l \in {"reset", "age", "push"} => ~NotReady(x)
                      /\ l \in {"age", "push"} => ~x.dirty
  /\ x.why = "expired" => x.verdict # "dead"
  /\ a # "nowhere" /\ x.verdict = "old" =>
       \/ MaxConnLifetime > 0 /\ time - x.createdAt >= MaxConnLifetime
       \/ MaxConnIdleTime > 0 /\ x.idled + x.lag >= MaxConnIdleTime

Single == \A c, d \in Conns : at[c] \in Callers /\ at[c] = at[d] => c = d

\* The invariant, connection by connection.
LEMMA InvIsGood ==
  ASSUME TypeOK
  PROVE  LifeInv <=> /\ cached <= time /\ \A p \in Procs : now[p] <= cached
                     /\ Single /\ \A c \in Conns : Good(at[c], pc[at[c]], life[c])
<1>1. \A c \in Conns :
        life[c].dead \in BOOLEAN /\ life[c].ready \in BOOLEAN /\ life[c].dirty \in BOOLEAN
  BY DEF TypeOK, Lives
<1>2. LifeInv => /\ cached <= time /\ \A p \in Procs : now[p] <= cached
                 /\ Single /\ \A c \in Conns : Good(at[c], pc[at[c]], life[c])
  BY <1>1 DEF LifeInv, Clocks, Hands, Judged, Died, Gate, DeadIsUnhealthy, NoEarlyExpiry, Good,
         Single
<1>3. ASSUME cached <= time, \A p \in Procs : now[p] <= cached, Single,
             \A c \in Conns : Good(at[c], pc[at[c]], life[c])
      PROVE  LifeInv
  BY <1>1, <1>3 DEF LifeInv, Clocks, Hands, Judged, Died, Gate, DeadIsUnhealthy, NoEarlyExpiry,
         Good, Single
<1> QED
  BY <1>2, <1>3

\* A goroutine moves: what others hold is not affected.
LEMMA MoveStep ==
  ASSUME LifeInv, NEW p \in Procs, NEW l \in Points, pc' = [pc EXCEPT ![p] = l],
         at' \in [Conns -> Places], life' \in [Conns -> Lives],
         time' = time, cached' \in {cached, time},
         ForgetNow(p) \/ now' = now \/ now' = [now EXCEPT ![p] = cached],
         Single',
         \A c \in Conns : \/ at'[c] = at[c] /\ life'[c] = life[c] /\ at[c] # p
                          \/ at'[c] \in Procs => at'[c] = p /\ Good(p, l, life'[c]),
         \A c \in Conns : at'[c] \notin Procs =>
           (at'[c] = at[c] /\ life'[c] = life[c]) \/ Good(at'[c], l, life'[c])
  PROVE  LifeInv'
<1>0. TypeOK /\ cached <= time /\ \A c \in Conns : Good(at[c], pc[at[c]], life[c])
  BY InvIsGood DEF LifeInv
<1>1. pc' \in [Procs -> Points] /\ pc'[p] = l /\ \A q \in Procs : q # p => pc'[q] = pc[q]
  BY <1>0 DEF TypeOK
<1>2. now' \in [Procs -> 0 .. MaxTime] /\ \A q \in Procs : now'[q] <= cached
  BY <1>1, NowStep
<1>3. TypeOK'
  BY <1>0, <1>1, <1>2 DEF TypeOK
<1>4. cached' <= time' /\ \A q \in Procs : now'[q] <= cached'
  BY <1>0, <1>2, Numbers DEF TypeOK
<1>5. ASSUME NEW c \in Conns PROVE Good(at[c], pc[at[c]], life[c])'
  <2>1. ASSUME NEW a, NEW m, NEW x, Good(a, m, x), NEW k, a \in Procs => m = k
        PROVE  Good(a, k, x)'
    <3>1. Callers \subseteq Procs
      BY Kinds
    <3> QED
      BY <2>1, <3>1 DEF Good, NotReady
  <2>2. CASE at'[c] \in Procs
    <3>1. CASE at'[c] = p /\ Good(p, l, life'[c])
      BY <3>1, <2>1, <1>1
    <3>2. CASE at'[c] = at[c] /\ life'[c] = life[c] /\ at[c] # p
      <4>1. pc'[at'[c]] = pc[at[c]]
        BY <3>2, <2>2, <1>1
      <4> QED
        BY <4>1, <3>2, <2>1, <1>0
    <3> QED
      BY <3>1, <3>2, <2>2
  <2>3. CASE at'[c] \notin Procs
    <3>1. CASE Good(at'[c], l, life'[c])
      BY <3>1, <2>1, <2>3
    <3>2. CASE at'[c] = at[c] /\ life'[c] = life[c]
      BY <3>2, <2>1, <2>3, <1>0
    <3> QED
      BY <3>1, <3>2, <2>3
  <2> QED
    BY <2>2, <2>3
<1>6. \A c \in Conns : life'[c].dead \in BOOLEAN /\ life'[c].dirty \in BOOLEAN
  BY <1>3 DEF TypeOK, Lives
<1> QED
  BY <1>3, <1>4, <1>5, <1>6 DEF LifeInv, Clocks, Hands, Judged, Died, Gate, DeadIsUnhealthy,
     NoEarlyExpiry, Good, Single

\* A goroutine moves and one connection, its own or nobody's, changes.
LEMMA OneStep ==
  ASSUME LifeInv, NEW p \in Procs, NEW l \in Points, pc' = [pc EXCEPT ![p] = l],
         NEW c \in Conns, NEW a \in Places, NEW x \in Lives,
         at' = [at EXCEPT ![c] = a], life' = [life EXCEPT ![c] = x],
         time' = time, cached' = cached,
         ForgetNow(p) \/ now' = now \/ now' = [now EXCEPT ![p] = cached],
         at[c] \in Procs => at[c] = p,
         a \in Procs => a = p,
         a \in Callers => at[c] = p \/ pc[p] \in Empty,
         \A d \in Conns : d # c /\ at[d] = p => Good(p, l, life[d]),
         Good(a, l, x)
  PROVE  LifeInv'
<1>0. at \in [Conns -> Places] /\ life \in [Conns -> Lives] /\ Single /\ Hands
  BY InvIsGood DEF LifeInv, TypeOK
<1>1. at' \in [Conns -> Places] /\ life' \in [Conns -> Lives]
  BY <1>0
<1>2. /\ at'[c] = a /\ life'[c] = x
      /\ \A d \in Conns : d # c => at'[d] = at[d] /\ life'[d] = life[d]
  BY <1>0
<1>3. \A d \in Conns : d # c /\ at[d] = a => a \notin Callers
  BY <1>0, Kinds DEF Single, Hands
<1>4. Single'
  BY <1>0, <1>2, <1>3 DEF Single
<1>5. \A d \in Conns : \/ at'[d] = at[d] /\ life'[d] = life[d] /\ at[d] # p
                       \/ at'[d] \in Procs => at'[d] = p /\ Good(p, l, life'[d])
  <2> SUFFICES ASSUME NEW d \in Conns, at'[d] \in Procs
               PROVE  \/ at'[d] = at[d] /\ life'[d] = life[d] /\ at[d] # p
                      \/ at'[d] = p /\ Good(p, l, life'[d])
    OBVIOUS
  <2>1. CASE d = c
    BY <2>1, <1>2
  <2>2. CASE d # c
    BY <2>2, <1>2
  <2> QED
    BY <2>1, <2>2
<1>6. \A d \in Conns : at'[d] \notin Procs =>
        (at'[d] = at[d] /\ life'[d] = life[d]) \/ Good(at'[d], l, life'[d])
  <2> SUFFICES ASSUME NEW d \in Conns
               PROVE  (at'[d] = at[d] /\ life'[d] = life[d]) \/ Good(at'[d], l, life'[d])
    OBVIOUS
  <2>1. CASE d = c
    BY <2>1, <1>2
  <2>2. CASE d # c
    BY <2>2, <1>2
  <2> QED
    BY <2>1, <2>2
<1> QED
  BY <1>1, <1>4, <1>5, <1>6, MoveStep

\* A goroutine moves, and what it holds may be held there.
LEMMA BareStep ==
  ASSUME LifeInv, NEW p \in Procs, NEW l \in Points, pc' = [pc EXCEPT ![p] = l],
         UNCHANGED <<at, life, time>>, cached' \in {cached, time},
         ForgetNow(p) \/ now' = now \/ now' = [now EXCEPT ![p] = cached],
         \A d \in Conns : at[d] = p => Good(p, l, life[d])
  PROVE  LifeInv'
<1>0. at \in [Conns -> Places] /\ life \in [Conns -> Lives] /\ Single
  BY InvIsGood DEF LifeInv, TypeOK
<1>1. Single'
  BY <1>0 DEF Single
<1>2. \A d \in Conns : \/ at'[d] = at[d] /\ life'[d] = life[d] /\ at[d] # p
                       \/ at'[d] \in Procs => at'[d] = p /\ Good(p, l, life'[d])
  OBVIOUS
<1> QED
  BY <1>0, <1>1, <1>2, MoveStep

\* What the invariant says of a connection and of the goroutine that holds it.
LEMMA GoodNow ==
  ASSUME LifeInv, NEW c \in Conns
  PROVE  /\ Good(at[c], pc[at[c]], life[c]) /\ life[c] \in Lives /\ at[c] \in Places
         /\ at[c] \in Procs => at[c] \in Callers \/ at[c] = Maintainer
BY InvIsGood, Kinds DEF LifeInv, TypeOK

\* A caller that has a connection has no other.
LEMMA Alone ==
  ASSUME LifeInv, NEW p \in Callers, NEW c \in Conns, at[c] = p
  PROVE  \A d \in Conns : d # c => at[d] # p
BY DEF LifeInv, Hands

\* At some points a goroutine has none.
LEMMA Bare ==
  ASSUME LifeInv, NEW p \in Procs, pc[p] \in Empty
  PROVE  \A d \in Conns : at[d] # p
BY DEF LifeInv, Hands

-----------------------------------------------------------------------------
(* Acquire. *)

\* popIdle takes a connection: a stale one is condemned.
LEMMA PopStep ==
  ASSUME LifeInv, NEW p \in Callers, Pop(p)
  PROVE  LifeInv'
<1>0. p \in Procs /\ pc[p] = "probe" /\ now[p] <= time /\ now[p] \in Nat /\ time \in Nat
  BY Kinds, Numbers DEF Pop, LifeInv, TypeOK, Clocks
<1>1. PICK c \in Conns :
        /\ at[c] = "idle" /\ at' = [at EXCEPT ![c] = p]
        /\ IF Stale(life[c], now[p])
           THEN pc' = [pc EXCEPT ![p] = "why"] /\ life' = [life EXCEPT ![c] = Condemn(life[c])]
           ELSE pc' = [pc EXCEPT ![p] = "using"] /\ UNCHANGED life
  BY DEF Pop, Idle, Goto, LifeInv, TypeOK
<1>2. /\ ForgetNow(p) /\ UNCHANGED <<time, cached>> /\ p \in Places
      /\ \A d \in Conns : at[d] # p
  BY <1>0, Bare DEF Pop, Empty, Places
<1>3. Good("idle", pc["idle"], life[c]) /\ life[c] \in Lives
  BY <1>1, GoodNow
<1>4. life[c].verdict = "fit" /\ life[c].why = "none"
  BY <1>3, Kinds DEF Good
<1>5. CASE Stale(life[c], now[p])
  <2>1. PICK x : x = Condemn(life[c])
    OBVIOUS
  <2>2. /\ x.verdict = (IF life[c].dead THEN "dead" ELSE "old")
        /\ x.idled = time - life[c].freed
        /\ x.createdAt = life[c].createdAt /\ x.idleSince = life[c].idleSince
        /\ x.freed = life[c].freed /\ x.lag = life[c].lag /\ x.why = life[c].why
        /\ x.dead = life[c].dead /\ x.ready = life[c].ready /\ x.dirty = life[c].dirty
    BY <1>3, <2>1 DEF Condemn, Lives
  <2>3. life[c].freed <= time /\ life[c].freed = life[c].idleSince + life[c].lag
    BY <1>3 DEF Good
  <2>4. time - life[c].freed \in 0 .. MaxTime
    BY <1>0, <1>3, <2>3, Numbers DEF LifeInv, TypeOK, Lives
  <2>5. x \in Lives
    BY <1>3, <2>1, <2>4 DEF Condemn, Lives
  <2>6. x.verdict = "old" =>
          \/ MaxConnLifetime > 0 /\ time - x.createdAt >= MaxConnLifetime
          \/ MaxConnIdleTime > 0 /\ x.idled + x.lag >= MaxConnIdleTime
    BY <1>0, <1>3, <1>5, <2>2, <2>3, Numbers DEF Stale, expired, Lives
  <2>7. Good(p, "why", x)
    <3>1. life[c].dead \in BOOLEAN
      BY <1>3 DEF Lives
    <3>2. x.verdict = "dead" => x.dead
      BY <3>1, <2>2
    <3> QED
      BY <1>0, <1>4, <2>2, <2>3, <2>6, <3>2 DEF Good, Empty, Doomed
  <2>8. life' = [life EXCEPT ![c] = x] /\ pc' = [pc EXCEPT ![p] = "why"]
    BY <1>1, <1>5, <2>1
  <2>9. "why" \in Points /\ at[c] \notin Procs /\ pc[p] \in Empty
    BY <1>0, <1>1, Kinds DEF Points, Empty
  <2> QED
    BY <1>0, <1>1, <1>2, <2>5, <2>7, <2>8, <2>9, OneStep
<1>6. CASE ~Stale(life[c], now[p])
  <2>1. Good(p, "using", life[c])
    BY <1>3, <1>4 DEF Good, Empty
  <2>2. life' = [life EXCEPT ![c] = life[c]] /\ pc' = [pc EXCEPT ![p] = "using"]
    BY <1>1, <1>6 DEF LifeInv, TypeOK
  <2>3. "using" \in Points /\ at[c] \notin Procs /\ pc[p] \in Empty
    BY <1>0, <1>1, Kinds DEF Points, Empty
  <2> QED
    BY <1>0, <1>1, <1>2, <1>3, <2>1, <2>2, <2>3, OneStep
<1> QED
  BY <1>5, <1>6

\* A slot is reserved for a dial.
LEMMA ReserveStep ==
  ASSUME LifeInv, NEW p \in Procs, NEW l \in {"probe", "permit"}, Reserve(p, l)
  PROVE  LifeInv'
<1>1. PICK c \in Conns : at[c] = "nowhere" /\ at' = [at EXCEPT ![c] = p]
  BY DEF Reserve
<1>2. /\ pc[p] = l /\ pc' = [pc EXCEPT ![p] = "dial"] /\ p \in Places
      /\ ForgetNow(p) /\ UNCHANGED <<time, cached, life>>
  BY DEF Reserve, Move, Goto, Places
<1>3. Good("nowhere", pc["nowhere"], life[c]) /\ life[c] \in Lives
  BY <1>1, GoodNow
<1>4. Good(p, "dial", life[c])
  BY <1>3, Kinds DEF Good, Empty
<1>5. life' = [life EXCEPT ![c] = life[c]]
  BY <1>2 DEF LifeInv, TypeOK
<1>6. \A d \in Conns : at[d] # p
  BY <1>2, Bare DEF Empty
<1>7. "dial" \in Points /\ at[c] \notin Procs /\ pc[p] \in Empty
  BY <1>1, <1>2, Kinds DEF Points, Empty
<1>8. /\ pc' = [pc EXCEPT ![p] = "dial"] /\ ForgetNow(p) /\ time' = time /\ cached' = cached
      /\ life[c] \in Lives /\ p \in Places
  BY <1>2, <1>3
<1> QED
  BY <1>1, <1>4, <1>5, <1>6, <1>7, <1>8, OneStep

\* connect succeeds: the connection is new.
LEMMA DialStep ==
  ASSUME LifeInv, NEW p \in Procs, DialOK(p)
  PROVE  LifeInv'
<1>0. at \in [Conns -> Places] /\ life \in [Conns -> Lives] /\ Single
  BY InvIsGood DEF LifeInv, TypeOK
<1>1. PICK l \in {"warm", "using"} :
        /\ pc' = [pc EXCEPT ![p] = l] /\ l = IF p = Maintainer THEN "warm" ELSE "using"
        /\ pc[p] = "dial" /\ UNCHANGED <<time, cached, now>>
  BY DEF DialOK, Move, Goto
<1>2. PICK a \in Places : a = IF p = Maintainer THEN "idle" ELSE p
  BY DEF Places
<1>3. Fresh \in Lives /\ Good(a, l, Fresh)
  <2>1. PICK r \in BOOLEAN : r = ~NeedsSetup
    BY Numbers
  <2>2. Fresh = [Unborn EXCEPT !.createdAt = time, !.idleSince = time, !.freed = time,
                               !.ready = r]
    BY <2>1 DEF Fresh
  <2>3. time \in 0 .. MaxTime /\ time \in Nat
    BY Numbers DEF LifeInv, TypeOK
  <2>4. Fresh \in Lives
    BY <2>2, <2>3, Numbers DEF Lives
  <2>5. /\ Fresh.freed = time /\ Fresh.idleSince = time /\ Fresh.lag = 0
        /\ Fresh.verdict = "fit" /\ Fresh.why = "none"
    BY <2>2 DEF Unborn
  <2>6. Good(a, l, Fresh)
    BY <2>3, <2>5, <1>1, <1>2, Kinds DEF Good, Empty
  <2> QED
    BY <2>4, <2>6
<1>4. /\ \A c \in Conns : at[c] = p => at'[c] = a /\ life'[c] = Fresh
      /\ \A c \in Conns : at[c] # p => at'[c] = at[c] /\ life'[c] = life[c]
      /\ DOMAIN at' = Conns /\ DOMAIN life' = Conns
  BY <1>2 DEF DialOK
<1>5. at' \in [Conns -> Places] /\ life' \in [Conns -> Lives]
  <2>1. \A c \in Conns : at'[c] \in Places /\ life'[c] \in Lives
    BY <1>0, <1>3, <1>4
  <2> QED
    BY <2>1 DEF DialOK
<1>6. Single'
  BY <1>0, <1>2, <1>4, Kinds DEF Single
<1>7. \A c \in Conns : \/ at'[c] = at[c] /\ life'[c] = life[c] /\ at[c] # p
                       \/ at'[c] \in Procs => at'[c] = p /\ Good(p, l, life'[c])
  BY <1>2, <1>3, <1>4, Kinds
<1>8. \A c \in Conns : at'[c] \notin Procs =>
        (at'[c] = at[c] /\ life'[c] = life[c]) \/ Good(at'[c], l, life'[c])
  BY <1>2, <1>3, <1>4
<1>9. l \in Points
  BY DEF Points
<1> QED
  BY <1>1, <1>5, <1>6, <1>7, <1>8, <1>9, MoveStep

\* connect fails, and the slot is given up.
LEMMA DialFailsStep ==
  ASSUME LifeInv, NEW p \in Procs, DialFails(p) \/ (p = Maintainer /\ WarmFails)
  PROVE  LifeInv'
<1>0. at \in [Conns -> Places] /\ life \in [Conns -> Lives] /\ Single
  BY InvIsGood DEF LifeInv, TypeOK
<1>1. PICK l \in {"loop", "free"} :
        /\ pc' = [pc EXCEPT ![p] = l]
        /\ pc[p] = "dial" /\ UNCHANGED <<time, cached, now, life>>
  BY DEF DialFails, WarmFails, Move, Goto
<1>2. /\ \A c \in Conns : at[c] = p => at'[c] = "nowhere"
      /\ \A c \in Conns : at[c] # p => at'[c] = at[c]
      /\ at' \in [Conns -> Places]
  BY <1>0 DEF DialFails, WarmFails, Places
<1>3. Single'
  BY <1>0, <1>2, Kinds DEF Single
<1>4. \A c \in Conns : at[c] = p => Good("nowhere", l, life[c])
  <2> SUFFICES ASSUME NEW c \in Conns, at[c] = p PROVE Good("nowhere", l, life[c])
    OBVIOUS
  <2>1. Good(p, "dial", life[c])
    BY <1>1, GoodNow
  <2> QED
    BY <2>1, Kinds DEF Good, Doomed
<1>5. \A c \in Conns : \/ at'[c] = at[c] /\ life'[c] = life[c] /\ at[c] # p
                       \/ at'[c] \in Procs => at'[c] = p /\ Good(p, l, life'[c])
  BY <1>1, <1>2, Kinds
<1>6. \A c \in Conns : at'[c] \notin Procs =>
        (at'[c] = at[c] /\ life'[c] = life[c]) \/ Good(at'[c], l, life'[c])
  BY <1>1, <1>2, <1>4
<1>7. l \in Points /\ life' \in [Conns -> Lives]
  BY <1>0, <1>1 DEF Points
<1> QED
  BY <1>1, <1>2, <1>3, <1>5, <1>6, <1>7, MoveStep

-----------------------------------------------------------------------------
(* Release. *)

\* What a caller finds out about its connection, short of returning it.
LEMMA HeldStep ==
  ASSUME LifeInv, NEW p \in Callers, NEW c \in Conns, at[c] = p, NEW l \in Points \ Empty,
         NEW x \in Lives, pc' = [pc EXCEPT ![p] = l], life' = [life EXCEPT ![c] = x],
         UNCHANGED <<time, cached, at, now>>, Good(p, l, x)
  PROVE  LifeInv'
<1>1. p \in Procs /\ p \in Places
  BY Kinds DEF Places
<1>2. at' = [at EXCEPT ![c] = p]
  BY DEF LifeInv, TypeOK
<1>3. \A d \in Conns : d # c /\ at[d] = p => Good(p, l, life[d])
  BY Alone
<1>4. time' = time /\ cached' = cached /\ now' = now /\ l \in Points
  OBVIOUS
<1> QED
  BY <1>1, <1>2, <1>3, <1>4, OneStep

\* The connection a caller releases or that is thrown away leaves it.
LEMMA LeaveStep ==
  ASSUME LifeInv, NEW p \in Callers, NEW c \in Conns, at[c] = p, NEW l \in {"free", "probe"},
         NEW x \in Lives, NEW a \in {"idle", "nowhere"}, pc' = [pc EXCEPT ![p] = l],
         life' = [life EXCEPT ![c] = x], at' = [at EXCEPT ![c] = a],
         time' = time, cached' = cached, ForgetNow(p) \/ now' = now,
         x.verdict = "fit", x.why = "none", x.freed <= time, x.freed = x.idleSince + x.lag
  PROVE  LifeInv'
<1>1. p \in Procs /\ a \in Places /\ l \in Points /\ a \notin Procs /\ a \notin Callers
  BY Kinds DEF Places, Points
<1>2. \A d \in Conns : d # c /\ at[d] = p => Good(p, l, life[d])
  BY Alone
<1>3. Good(a, l, x)
  BY <1>1 DEF Good
<1>4. /\ at[c] \in Procs => at[c] = p
      /\ a \in Procs => a = p
      /\ a \in Callers => at[c] = p \/ pc[p] \in Empty
      /\ ForgetNow(p) \/ now' = now \/ now' = [now EXCEPT ![p] = cached]
  BY <1>1
<1>5. p \in Procs /\ a \in Places /\ l \in Points
  BY <1>1
<1> QED
  BY <1>2, <1>3, <1>4, <1>5, OneStep, ZenonT(30)

\* What is written over a connection that is closed.
LEMMA UnbornIsFine ==
  /\ Unborn \in Lives /\ Unborn.verdict = "fit" /\ Unborn.why = "none"
  /\ Unborn.freed = 0 /\ Unborn.idleSince = 0 /\ Unborn.lag = 0
BY Numbers DEF Unborn

\* A caller uses what it holds.
LEMMA UseStep ==
  ASSUME LifeInv, NEW p \in Callers, Use(p)
  PROVE  LifeInv'
<1>1. PICK c \in Conns :
        /\ at[c] = p
        /\ life' = [life EXCEPT ![c].ready = TRUE] \/ life' = [life EXCEPT ![c].dirty = TRUE]
  BY DEF Use, Held
<1>2. /\ Good(p, "using", life[c]) /\ life[c] \in Lives /\ pc[p] = "using"
  BY <1>1, GoodNow DEF Use
<1>3. PICK x : /\ life' = [life EXCEPT ![c] = x]
               /\ x = [life[c] EXCEPT !.ready = TRUE] \/ x = [life[c] EXCEPT !.dirty = TRUE]
  BY <1>1 DEF LifeInv, TypeOK
<1>4. /\ x \in Lives /\ x.freed = life[c].freed /\ x.idleSince = life[c].idleSince
      /\ x.lag = life[c].lag /\ x.verdict = life[c].verdict /\ x.why = life[c].why
  BY <1>2, <1>3 DEF Lives
<1>5. Good(p, "using", x)
  BY <1>2, <1>4, Kinds DEF Good, Doomed
<1>6. /\ pc' = [pc EXCEPT ![p] = "using"] /\ "using" \in Points \ Empty
      /\ UNCHANGED <<time, cached, at, now>>
  BY <1>2, Kinds DEF Use, LifeInv, TypeOK, Points, Empty
<1> QED
  BY <1>1, <1>3, <1>4, <1>5, <1>6, HeldStep

\* The verdict of release, and the point it goes to with it.
LEMMA VerdictStep ==
  ASSUME LifeInv, NEW p \in Callers, NEW c \in Conns, at[c] = p, NEW v \in {"dead", "unfit"},
         pc[p] \in {"check", "reset"}, pc' = [pc EXCEPT ![p] = "rwhy"],
         life' = [life EXCEPT ![c].verdict = v], v = "dead" => life[c].dead,
         UNCHANGED <<time, cached, at, now>>
  PROVE  LifeInv'
<1>1. Good(p, pc[p], life[c]) /\ life[c] \in Lives
  BY GoodNow
<1>2. PICK x : x = [life[c] EXCEPT !.verdict = v]
  OBVIOUS
<1>3. life' = [life EXCEPT ![c] = x]
  BY <1>2 DEF LifeInv, TypeOK
<1>4. /\ x \in Lives /\ x.freed = life[c].freed /\ x.idleSince = life[c].idleSince
      /\ x.lag = life[c].lag /\ x.verdict = v /\ x.why = life[c].why /\ x.dead = life[c].dead
  BY <1>1, <1>2 DEF Lives
<1>5. life[c].why = "none" /\ life[c].dead \in BOOLEAN
  BY <1>1 DEF Good, Doomed, Lives
<1>6. Good(p, "rwhy", x)
  BY <1>1, <1>4, <1>5, Kinds DEF Good, Doomed, Empty
<1>7. "rwhy" \in Points \ Empty
  BY DEF Points, Empty
<1> QED
  BY <1>3, <1>4, <1>6, <1>7, HeldStep

\* Release asks whether the connection is dead, ready and clean.
LEMMA CheckStep ==
  ASSUME LifeInv, NEW p \in Callers, ReleaseCheck(p)
  PROVE  LifeInv'
<1>1. PICK c \in Conns :
        /\ at[c] = p
        /\ \/ /\ life[c].dead \/ NotReady(life[c])
              /\ Goto(p, "rwhy")
              /\ life' = [life EXCEPT ![c].verdict = IF life[c].dead THEN "dead" ELSE "unfit"]
           \/ /\ ~life[c].dead /\ ~NotReady(life[c])
              /\ Goto(p, IF life[c].dirty THEN "reset" ELSE "age")
              /\ UNCHANGED life
  BY DEF ReleaseCheck, Held
<1>2. pc[p] = "check" /\ UNCHANGED <<time, cached, at, now>>
  BY DEF ReleaseCheck
<1>3. Good(p, "check", life[c]) /\ life[c] \in Lives /\ life[c].dead \in BOOLEAN
  BY <1>1, <1>2, GoodNow DEF Lives
<1>4. CASE Goto(p, "rwhy")
  <2>1. PICK v \in {"dead", "unfit"} : v = IF life[c].dead THEN "dead" ELSE "unfit"
    OBVIOUS
  <2>2. life' = [life EXCEPT ![c].verdict = v]
    <3>1. Goto(p, IF life[c].dirty THEN "reset" ELSE "age") => FALSE
      BY <1>4, Kinds DEF Goto, LifeInv, TypeOK
    <3> QED
      BY <3>1, <2>1, <1>1
  <2>3. v = "dead" => life[c].dead
    BY <2>1
  <2> QED
    BY <1>1, <1>2, <1>4, <2>2, <2>3, VerdictStep DEF Goto
<1>5. CASE ~Goto(p, "rwhy")
  <2>1. PICK l \in {"reset", "age"} : l = IF life[c].dirty THEN "reset" ELSE "age"
    OBVIOUS
  <2>2. pc' = [pc EXCEPT ![p] = l] /\ life' = life /\ ~NotReady(life[c])
    BY <1>1, <1>5, <2>1 DEF Goto
  <2>3. life' = [life EXCEPT ![c] = life[c]]
    BY <2>2 DEF LifeInv, TypeOK
  <2>4. Good(p, l, life[c])
    <3>1. l = "age" => ~life[c].dirty
      BY <2>1
    <3> QED
      BY <1>3, <2>2, <3>1, Kinds DEF Good, Doomed, Empty
  <2>5. l \in Points \ Empty
    BY DEF Points, Empty
  <2> QED
    BY <1>1, <1>2, <1>3, <2>2, <2>3, <2>4, <2>5, HeldStep
<1> QED
  BY <1>4, <1>5

\* Release resets the session, or finds it unfit.
LEMMA ResetStep ==
  ASSUME LifeInv, NEW p \in Callers, ReleaseReset(p)
  PROVE  LifeInv'
<1>1. PICK c \in Conns :
        /\ at[c] = p
        /\ \/ Goto(p, "age") /\ life' = [life EXCEPT ![c].dirty = FALSE]
           \/ Goto(p, "rwhy") /\ life' = [life EXCEPT ![c].verdict = "unfit"]
  BY DEF ReleaseReset, Held
<1>2. pc[p] = "reset" /\ UNCHANGED <<time, cached, at, now>>
  BY DEF ReleaseReset
<1>3. Good(p, "reset", life[c]) /\ life[c] \in Lives
  BY <1>1, <1>2, GoodNow
<1>4. CASE Goto(p, "age") /\ life' = [life EXCEPT ![c].dirty = FALSE]
  <2>1. PICK x : x = [life[c] EXCEPT !.dirty = FALSE]
    OBVIOUS
  <2>2. life' = [life EXCEPT ![c] = x]
    BY <1>4, <2>1 DEF LifeInv, TypeOK
  <2>3. /\ x \in Lives /\ x.freed = life[c].freed /\ x.idleSince = life[c].idleSince
        /\ x.lag = life[c].lag /\ x.verdict = life[c].verdict /\ x.why = life[c].why
        /\ x.dirty = FALSE /\ x.ready = life[c].ready
    BY <1>3, <2>1 DEF Lives
  <2>4. Good(p, "age", x)
    BY <1>3, <2>3, Kinds DEF Good, Doomed, Empty, NotReady
  <2>5. "age" \in Points \ Empty
    BY DEF Points, Empty
  <2> QED
    BY <1>1, <1>2, <1>4, <2>2, <2>3, <2>4, <2>5, HeldStep DEF Goto
<1>5. CASE Goto(p, "rwhy") /\ life' = [life EXCEPT ![c].verdict = "unfit"]
  BY <1>1, <1>2, <1>5, VerdictStep DEF Goto
<1> QED
  BY <1>1, <1>4, <1>5

\* Release asks for the lifetime.
LEMMA AgeStep ==
  ASSUME LifeInv, NEW p \in Callers, ReleaseAge(p)
  PROVE  LifeInv'
<1>1. PICK c \in Conns :
        /\ at[c] = p
        /\ IF expired(life[c], cached, MaxConnLifetime, 0)
           THEN /\ Goto(p, "rwhy")
                /\ life' = [life EXCEPT ![c].verdict = "old", ![c].idled = 0]
           ELSE Goto(p, "push") /\ UNCHANGED life
  BY DEF ReleaseAge, Held
<1>2. pc[p] = "age" /\ UNCHANGED <<time, cached, at, now>>
  BY DEF ReleaseAge
<1>3. /\ Good(p, "age", life[c]) /\ life[c] \in Lives /\ cached <= time
      /\ cached \in Nat /\ time \in Nat
  BY <1>1, <1>2, GoodNow, Numbers DEF LifeInv, Clocks, TypeOK
<1>4. CASE expired(life[c], cached, MaxConnLifetime, 0)
  <2>1. PICK x : x = [life[c] EXCEPT !.verdict = "old", !.idled = 0]
    OBVIOUS
  <2>2. life' = [life EXCEPT ![c] = x] /\ pc' = [pc EXCEPT ![p] = "rwhy"]
    BY <1>1, <1>4, <2>1 DEF LifeInv, TypeOK, Goto
  <2>3. /\ x.freed = life[c].freed /\ x.idleSince = life[c].idleSince
        /\ x.lag = life[c].lag /\ x.verdict = "old" /\ x.why = life[c].why
        /\ x.createdAt = life[c].createdAt
    BY <1>3, <2>1 DEF Lives
  <2>4. x \in Lives
    <3>1. 0 \in 0 .. MaxTime
      BY Numbers
    <3> QED
      BY <1>3, <2>1, <3>1 DEF Lives
  <2>5. MaxConnLifetime > 0 /\ time - x.createdAt >= MaxConnLifetime
    BY <1>3, <1>4, <2>3, Numbers DEF expired, Lives
  <2>6. Good(p, "rwhy", x)
    BY <1>3, <2>3, <2>5, Kinds DEF Good, Doomed, Empty
  <2>7. "rwhy" \in Points \ Empty
    BY DEF Points, Empty
  <2> QED
    BY <1>1, <1>2, <2>2, <2>4, <2>6, <2>7, HeldStep
<1>5. CASE ~expired(life[c], cached, MaxConnLifetime, 0)
  <2>1. pc' = [pc EXCEPT ![p] = "push"] /\ life' = [life EXCEPT ![c] = life[c]]
    BY <1>1, <1>5 DEF LifeInv, TypeOK, Goto
  <2>2. Good(p, "push", life[c])
    BY <1>3 DEF Good, Doomed, Empty
  <2>3. "push" \in Points \ Empty
    BY DEF Points, Empty
  <2> QED
    BY <1>1, <1>2, <1>3, <2>1, <2>2, <2>3, HeldStep
<1> QED
  BY <1>4, <1>5

\* Release returns the connection, or closes it above a lowered ceiling.
LEMMA PushStep ==
  ASSUME LifeInv, NEW p \in Callers, ReleasePush(p) \/ ReleaseOver(p)
  PROVE  LifeInv'
<1>1. PICK c \in Conns :
        /\ at[c] = p
        /\ \/ at' = [at EXCEPT ![c] = "idle"] /\ life' = [life EXCEPT ![c] = IdleAgain(@)]
           \/ at' = [at EXCEPT ![c] = "nowhere"] /\ life' = [life EXCEPT ![c] = Unborn]
  BY DEF ReleasePush, ReleaseOver, Held
<1>2. pc[p] = "push" /\ pc' = [pc EXCEPT ![p] = "free"] /\ UNCHANGED <<time, cached, now>>
  BY DEF ReleasePush, ReleaseOver, Move, Goto
<1>3. /\ Good(p, "push", life[c]) /\ life[c] \in Lives /\ cached <= time
      /\ cached \in 0 .. MaxTime /\ time \in 0 .. MaxTime /\ cached \in Nat /\ time \in Nat
  BY <1>1, <1>2, GoodNow, Numbers DEF LifeInv, Clocks, TypeOK
<1>4. CASE at' = [at EXCEPT ![c] = "idle"] /\ life' = [life EXCEPT ![c] = IdleAgain(@)]
  <2>1. PICK t \in 0 .. MaxTime : t = time - cached
    BY <1>3, Numbers
  <2>2. PICK x : x = [life[c] EXCEPT !.idleSince = cached, !.freed = time, !.lag = t]
    OBVIOUS
  <2>3. life' = [life EXCEPT ![c] = x]
    BY <1>4, <2>1, <2>2 DEF IdleAgain, LifeInv, TypeOK
  <2>4. x \in Lives
    BY <1>3, <2>2 DEF Lives
  <2>5. /\ x.freed = time /\ x.idleSince = cached /\ x.lag = t
        /\ x.verdict = life[c].verdict /\ x.why = life[c].why
    BY <1>3, <2>2 DEF Lives
  <2>6. life[c].verdict = "fit" /\ life[c].why = "none"
    BY <1>3 DEF Good, Doomed
  <2>7. x.freed <= time /\ x.freed = x.idleSince + x.lag
    BY <1>3, <2>1, <2>5, Numbers
  <2> QED
    BY <1>1, <1>2, <1>4, <2>3, <2>4, <2>5, <2>6, <2>7, LeaveStep
<1>5. CASE at' = [at EXCEPT ![c] = "nowhere"] /\ life' = [life EXCEPT ![c] = Unborn]
  <2>1. Unborn.freed <= time /\ Unborn.freed = Unborn.idleSince + Unborn.lag
    BY <1>3, UnbornIsFine
  <2> QED
    BY <1>1, <1>2, <1>5, <2>1, UnbornIsFine, LeaveStep
<1> QED
  BY <1>1, <1>4, <1>5

-----------------------------------------------------------------------------
(* destroy, the maintainer and the world. *)

\* destroy finds the reason.
LEMMA ReasonStep ==
  ASSUME LifeInv, NEW p \in Procs, FindReason(p)
  PROVE  LifeInv'
<1>1. PICK l \in {"close", "rclose"} : pc' = [pc EXCEPT ![p] = l] /\ pc[p] \in {"why", "rwhy"}
  BY DEF FindReason, Move, Goto
<1>2. PICK c \in Conns : \E t : at[c] = p /\ life' = [life EXCEPT ![c].why = whyUnusable(life[c], t)]
  BY DEF FindReason, Held
<1>3. PICK t : at[c] = p /\ life' = [life EXCEPT ![c].why = whyUnusable(life[c], t)]
  BY <1>2
<1>4. Good(p, pc[p], life[c]) /\ life[c] \in Lives /\ life[c].dead \in BOOLEAN
  BY <1>3, GoodNow DEF Lives
<1>5. PICK w \in {"expired", "unhealthy"} : w = whyUnusable(life[c], t)
  BY DEF whyUnusable
<1>6. w = "expired" => ~life[c].dead
  BY <1>5 DEF whyUnusable
<1>7. PICK x : x = [life[c] EXCEPT !.why = w]
  OBVIOUS
<1>8. life' = [life EXCEPT ![c] = x]
  BY <1>3, <1>5, <1>7 DEF LifeInv, TypeOK
<1>9. /\ x \in Lives /\ x.freed = life[c].freed /\ x.idleSince = life[c].idleSince
      /\ x.lag = life[c].lag /\ x.verdict = life[c].verdict /\ x.why = w
      /\ x.dead = life[c].dead /\ x.createdAt = life[c].createdAt /\ x.idled = life[c].idled
  BY <1>4, <1>7 DEF Lives
<1>10. \A y : Good(p, pc[p], y) => Good(p, l, y)
  BY <1>1 DEF Good, Doomed, Empty
<1>11. life[c].verdict = "dead" => life[c].dead
  BY <1>4 DEF Good
<1>12. Good(p, l, x)
  <2>1. p # "nowhere"
    BY Kinds
  <2> QED
    BY <1>1, <1>4, <1>6, <1>9, <1>11, <2>1 DEF Good, Doomed, Empty
<1>13. \A d \in Conns : d # c /\ at[d] = p => Good(p, l, life[d])
  BY <1>10, GoodNow
<1>14. l \in Points /\ p \in Places /\ at' = [at EXCEPT ![c] = p]
  BY <1>3 DEF FindReason, Points, Places, LifeInv, TypeOK
<1>15. time' = time /\ cached' = cached /\ now' = now
  BY DEF FindReason
<1> QED
  BY <1>1, <1>3, <1>8, <1>9, <1>12, <1>13, <1>14, <1>15, OneStep

\* destroy closes the connection; the maintainer goes on with the next.
LEMMA DiscardStep ==
  ASSUME LifeInv, NEW p \in Procs, Discard(p)
  PROVE  LifeInv'
<1>1. PICK c \in Conns :
        /\ at[c] = p /\ life' = [life EXCEPT ![c] = Unborn]
        /\ at' = [at EXCEPT ![c] = "nowhere"]
        /\ Goto(p, CASE p # Maintainer -> IF pc[p] = "close" THEN "probe" ELSE "free"
                     [] p = Maintainer /\ Held(p) # {c} -> "why"
                     [] OTHER -> "warm")
  BY DEF Discard, Held
<1>2. /\ pc[p] \in {"close", "rclose"} /\ ForgetNow(p) /\ time' = time /\ cached' = cached
      /\ time \in Nat
  BY Numbers DEF Discard, LifeInv, TypeOK
<1>3. Unborn.freed <= time /\ Unborn.freed = Unborn.idleSince + Unborn.lag
  BY <1>2, UnbornIsFine
<1>4. CASE p # Maintainer
  <2>1. PICK l \in {"free", "probe"} : pc' = [pc EXCEPT ![p] = l]
    BY <1>1, <1>4 DEF Goto
  <2>2. p \in Callers
    BY <1>4, Kinds
  <2> QED
    BY <1>1, <1>2, <1>3, <2>1, <2>2, UnbornIsFine, LeaveStep
<1>5. CASE p = Maintainer
  <2>1. PICK l \in {"why", "warm"} :
          pc' = [pc EXCEPT ![p] = l] /\ (l = "warm" => Held(p) = {c})
    <3>1. CASE Held(p) # {c}
      BY <1>1, <1>5, <3>1 DEF Goto
    <3>2. CASE Held(p) = {c}
      BY <1>1, <1>5, <3>2 DEF Goto
    <3> QED
      BY <3>1, <3>2
  <2>2. \A y : Good(p, pc[p], y) => Good(p, "why", y)
    BY <1>2, <1>5, Kinds DEF Good, Doomed, Empty
  <2>3. \A d \in Conns : d # c /\ at[d] = p => Good(p, l, life[d])
    <3>1. CASE l = "why"
      BY <3>1, <2>2, GoodNow
    <3>2. CASE l = "warm"
      BY <3>2, <2>1 DEF Held
    <3> QED
      BY <3>1, <3>2
  <2>4. l \in Points /\ "nowhere" \in Places /\ "nowhere" \notin Procs /\ "nowhere" \notin Callers
    BY Kinds DEF Points, Places
  <2>5. Good("nowhere", l, Unborn)
    BY <1>3, <2>4, UnbornIsFine DEF Good
  <2> QED
    BY <1>1, <1>2, <2>1, <2>3, <2>4, <2>5, UnbornIsFine, OneStep
<1> QED
  BY <1>4, <1>5

\* EvictIdle and trimIdle.
LEMMA EvictStep ==
  ASSUME LifeInv, NEW c \in Conns, Evict(c)
  PROVE  LifeInv'
<1>1. PICK p \in Procs : p = Maintainer
  BY Kinds
<1>2. PICK l \in Points : l = pc[p]
  BY DEF LifeInv, TypeOK
<1>3. /\ at[c] = "idle" /\ life' = [life EXCEPT ![c] = Unborn]
      /\ at' = [at EXCEPT ![c] = "nowhere"] /\ pc' = [pc EXCEPT ![p] = l]
      /\ time' = time /\ cached' = cached /\ now' = now /\ time \in Nat
  BY <1>2, Numbers DEF Evict, LifeInv, TypeOK
<1>4. /\ at[c] \notin Procs /\ "nowhere" \in Places /\ "nowhere" \notin Procs
      /\ "nowhere" \notin Callers
  BY <1>3, Kinds DEF Places
<1>5. Good("nowhere", l, Unborn)
  BY <1>3, <1>4, UnbornIsFine DEF Good
<1>6. \A d \in Conns : d # c /\ at[d] = p => Good(p, l, life[d])
  BY <1>2, GoodNow
<1> QED
  BY <1>3, <1>4, <1>5, <1>6, UnbornIsFine, OneStep

\* A connection dies, wherever it is.
LEMMA DieStep ==
  ASSUME LifeInv, NEW c \in Conns, Die(c)
  PROVE  LifeInv'
<1>1. PICK p \in Procs : at[c] \in Procs => p = at[c]
  BY Kinds
<1>2. PICK l \in Points : l = pc[p]
  BY DEF LifeInv, TypeOK
<1>3. PICK x : x = [life[c] EXCEPT !.dead = TRUE]
  OBVIOUS
<1>4. /\ life' = [life EXCEPT ![c] = x] /\ at' = [at EXCEPT ![c] = at[c]]
      /\ pc' = [pc EXCEPT ![p] = l] /\ time' = time /\ cached' = cached /\ now' = now
  BY <1>2, <1>3 DEF Die, LifeInv, TypeOK
<1>5. Good(at[c], pc[at[c]], life[c]) /\ life[c] \in Lives /\ at[c] \in Places
  BY GoodNow
<1>6. /\ x \in Lives /\ x.freed = life[c].freed /\ x.idleSince = life[c].idleSince
      /\ x.lag = life[c].lag /\ x.verdict = life[c].verdict /\ x.why = life[c].why
      /\ x.dead = TRUE /\ x.createdAt = life[c].createdAt /\ x.idled = life[c].idled
      /\ x.ready = life[c].ready /\ x.dirty = life[c].dirty
  BY <1>3, <1>5 DEF Lives
<1>7. Callers \subseteq Procs
  BY Kinds
<1>8. Good(at[c], l, x)
  BY <1>1, <1>2, <1>5, <1>6, <1>7 DEF Good, NotReady
<1>9. \A d \in Conns : d # c /\ at[d] = p => Good(p, l, life[d])
  BY <1>2, GoodNow
<1>10. /\ at[c] \in Procs => at[c] = p
       /\ at[c] \in Callers => at[c] = p \/ pc[p] \in Empty
  BY <1>1, <1>7
<1> QED
  BY <1>4, <1>5, <1>6, <1>8, <1>9, <1>10, OneStep, ZenonT(30)

\* reapExpired condemns everything stale at once.
LEMMA ReapStep ==
  ASSUME LifeInv, Reap
  PROVE  LifeInv'
<1>0. /\ at \in [Conns -> Places] /\ life \in [Conns -> Lives] /\ Single /\ time \in Nat
      /\ now[Maintainer] \in Nat /\ now[Maintainer] <= time /\ time \in 0 .. MaxTime
      /\ Maintainer \in Procs
  BY InvIsGood, Numbers, Kinds DEF LifeInv, TypeOK, Clocks
<1> DEFINE taken == {c \in Conns : at[c] = "idle" /\ Stale(life[c], now[Maintainer])}
<1>1. /\ pc[Maintainer] = "sweep" /\ ForgetNow(Maintainer) /\ time' = time /\ cached' = cached
      /\ at' = [c \in Conns |-> IF c \in taken THEN Maintainer ELSE at[c]]
      /\ life' = [c \in Conns |-> IF c \in taken THEN Condemn(life[c]) ELSE life[c]]
  BY DEF Reap, Move, Idle, Reapable
<1>2. PICK l \in {"warm", "why"} :
        pc' = [pc EXCEPT ![Maintainer] = l] /\ (l = "warm" => taken = {})
  <2>1. Goto(Maintainer, IF taken = {} THEN "warm" ELSE "why")
    BY DEF Reap, Move, Idle, Reapable
  <2> QED
    BY <2>1 DEF Goto
<1>3. ASSUME NEW c \in taken PROVE Condemn(life[c]) \in Lives /\ Good(Maintainer, "why", Condemn(life[c]))
  <2>1. PICK x : x = Condemn(life[c])
    OBVIOUS
  <2>2. c \in Conns /\ life[c] \in Lives /\ at[c] = "idle" /\ Stale(life[c], now[Maintainer])
    BY <1>0
  <2>3. Good("idle", pc["idle"], life[c]) /\ life[c].dead \in BOOLEAN
    BY <2>2, GoodNow DEF Lives
  <2>4. life[c].verdict = "fit" /\ life[c].why = "none"
    BY <2>3, Kinds DEF Good
  <2>5. /\ x.verdict = (IF life[c].dead THEN "dead" ELSE "old")
        /\ x.idled = time - life[c].freed
        /\ x.createdAt = life[c].createdAt /\ x.idleSince = life[c].idleSince
        /\ x.freed = life[c].freed /\ x.lag = life[c].lag /\ x.why = life[c].why
        /\ x.dead = life[c].dead
    BY <2>1, <2>2 DEF Condemn, Lives
  <2>6. life[c].freed <= time /\ life[c].freed = life[c].idleSince + life[c].lag
    BY <2>3 DEF Good
  <2>7. time - life[c].freed \in 0 .. MaxTime
    BY <1>0, <2>2, <2>6, Numbers DEF Lives
  <2>8. x \in Lives
    BY <2>1, <2>2, <2>7 DEF Condemn, Lives
  <2>9. x.verdict = "old" =>
          \/ MaxConnLifetime > 0 /\ time - x.createdAt >= MaxConnLifetime
          \/ MaxConnIdleTime > 0 /\ x.idled + x.lag >= MaxConnIdleTime
    BY <1>0, <2>2, <2>5, <2>6, Numbers DEF Stale, expired, Lives
  <2>10. x.verdict = "dead" => x.dead
    BY <2>3, <2>5
  <2>11. Good(Maintainer, "why", x)
    BY <1>0, <2>4, <2>5, <2>6, <2>9, <2>10, Kinds DEF Good, Empty, Doomed
  <2> QED
    BY <2>1, <2>8, <2>11
<1> HIDE DEF taken
<1>4. at' \in [Conns -> Places] /\ life' \in [Conns -> Lives]
  <2>1. Maintainer \in Places
    BY <1>0 DEF Places
  <2> QED
    BY <1>0, <1>1, <1>3, <2>1
<1>5. /\ \A c \in Conns : c \in taken => at'[c] = Maintainer /\ life'[c] = Condemn(life[c])
      /\ \A c \in Conns : c \notin taken => at'[c] = at[c] /\ life'[c] = life[c]
  BY <1>1
<1>6. \A c \in Conns : at[c] # Maintainer
  BY <1>0, <1>1, Bare DEF Empty
<1>7. Single'
  BY <1>0, <1>5, Kinds DEF Single
<1>8. \A c \in Conns : \/ at'[c] = at[c] /\ life'[c] = life[c] /\ at[c] # Maintainer
                       \/ at'[c] \in Procs => at'[c] = Maintainer /\ Good(Maintainer, l, life'[c])
  BY <1>2, <1>3, <1>5, <1>6
<1>9. \A c \in Conns : at'[c] \notin Procs =>
        (at'[c] = at[c] /\ life'[c] = life[c]) \/ Good(at'[c], l, life'[c])
  BY <1>0, <1>5
<1>10. l \in Points
  BY DEF Points
<1> QED
  BY <1>0, <1>1, <1>2, <1>4, <1>7, <1>8, <1>9, <1>10, MoveStep

\* Time passes: every bound that was reached stays so.
LEMMA TickStep ==
  ASSUME LifeInv, Tick
  PROVE  LifeInv'
<1>1. /\ time \in Nat /\ time < MaxTime /\ time' = time + 1 /\ cached \in Nat
      /\ UNCHANGED <<cached, at, life, pc, now>>
  BY Numbers DEF Tick, LifeInv, TypeOK
<1>2. TypeOK'
  BY <1>1, Numbers DEF LifeInv, TypeOK
<1>3. \A c \in Conns : life[c] \in Lives
  BY DEF LifeInv, TypeOK
<1>4. Clocks'
  <2>1. \A c \in Conns : life[c].freed <= time => life[c].freed <= time + 1
    BY <1>1, <1>3 DEF Lives
  <2> QED
    BY <1>1, <2>1 DEF LifeInv, Clocks
<1>5. Hands' /\ Judged' /\ Died' /\ Gate' /\ DeadIsUnhealthy'
  BY <1>1 DEF LifeInv, Hands, Judged, Died, Gate, DeadIsUnhealthy, NotReady
<1>6. NoEarlyExpiry'
  <2> SUFFICES ASSUME NEW c \in Conns, at[c] # "nowhere", life[c].verdict = "old"
               PROVE  \/ MaxConnLifetime > 0 /\ time' - life[c].createdAt >= MaxConnLifetime
                      \/ MaxConnIdleTime > 0 /\ life[c].idled + life[c].lag >= MaxConnIdleTime
    BY <1>1 DEF NoEarlyExpiry
  <2>1. \/ MaxConnLifetime > 0 /\ time - life[c].createdAt >= MaxConnLifetime
        \/ MaxConnIdleTime > 0 /\ life[c].idled + life[c].lag >= MaxConnIdleTime
    BY DEF LifeInv, NoEarlyExpiry
  <2> QED
    BY <1>1, <1>3, <2>1, Numbers DEF Lives
<1> QED
  BY <1>2, <1>4, <1>5, <1>6 DEF LifeInv

\* Steps that only move a goroutine or refresh the clock.
LEMMA PlainSteps ==
  ASSUME LifeInv,
         \/ \E p \in Callers : PopStart(p) \/ PopGiveUp(p) \/ ReleaseStart(p)
         \/ WarmDone \/ WarmWait \/ WarmFull \/ ClockUpdate \/ HealthTick
  PROVE  LifeInv'
<1>1. ASSUME NEW p \in Callers, PopStart(p) \/ PopGiveUp(p) PROVE LifeInv'
  <2>1. PICK l \in {"probe", "free"} :
          /\ pc[p] \in Empty /\ pc' = [pc EXCEPT ![p] = l] /\ UNCHANGED <<at, life, time>>
          /\ cached' \in {cached, time}
          /\ ForgetNow(p) \/ now' = [now EXCEPT ![p] = cached]
    BY <1>1 DEF PopStart, PopGiveUp, Move, Goto, Empty
  <2>2. p \in Procs /\ l \in Points
    BY Kinds DEF Points
  <2>3. \A d \in Conns : at[d] # p
    BY <2>1, <2>2, Bare
  <2> QED
    BY <2>1, <2>2, <2>3, BareStep
<1>2. ASSUME NEW p \in Callers, ReleaseStart(p) PROVE LifeInv'
  <2>1. /\ pc[p] = "using" /\ pc' = [pc EXCEPT ![p] = "check"]
        /\ UNCHANGED <<at, life, time>> /\ cached' \in {cached, time} /\ now' = now
    BY <1>2 DEF ReleaseStart, Move, Goto
  <2>2. p \in Procs /\ "check" \in Points
    BY Kinds DEF Points
  <2>3. \A y : Good(p, "using", y) => Good(p, "check", y)
    BY DEF Good, Empty, Doomed
  <2>4. \A d \in Conns : at[d] = p => Good(p, "check", life[d])
    BY <2>1, <2>3, GoodNow
  <2> QED
    BY <2>1, <2>2, <2>4, BareStep
<1>3. CASE WarmDone \/ WarmWait \/ WarmFull \/ ClockUpdate \/ HealthTick
  <2>0. pc \in [Procs -> Points] /\ Maintainer \in Procs
    BY Kinds DEF LifeInv, TypeOK
  <2>1. PICK l \in {"loop", "sweep", "permit"} :
          /\ pc[Maintainer] \in Empty /\ pc' = [pc EXCEPT ![Maintainer] = l]
          /\ UNCHANGED <<at, life, time>> /\ cached' \in {cached, time}
          /\ now' = now \/ now' = [now EXCEPT ![Maintainer] = cached]
    <3>1. CASE WarmDone \/ WarmWait \/ WarmFull
      BY <3>1 DEF WarmDone, WarmWait, WarmFull, Move, Goto, Empty
    <3>2. CASE ClockUpdate
      BY <3>2, <2>0 DEF ClockUpdate, Empty
    <3>3. CASE HealthTick
      BY <3>3 DEF HealthTick, Move, Goto, Empty
    <3> QED
      BY <1>3, <3>1, <3>2, <3>3
  <2>2. l \in Points
    BY DEF Points
  <2>3. \A d \in Conns : at[d] # Maintainer
    BY <2>0, <2>1, Bare
  <2> QED
    BY <2>0, <2>1, <2>2, <2>3, BareStep
<1> QED
  BY <1>1, <1>2, <1>3

\* Every step preserves the invariant.
LEMMA LifeStep == LifeInv /\ [Next]_vars => LifeInv'
<1> SUFFICES ASSUME LifeInv, [Next]_vars PROVE LifeInv'
  OBVIOUS
<1>1. ASSUME NEW p \in Callers, CallerStep(p) PROVE LifeInv'
  <2>1. p \in Procs
    BY Kinds
  <2> QED
    BY <1>1, <2>1, PlainSteps, PopStep, ReserveStep, UseStep, CheckStep, ResetStep, AgeStep,
       PushStep DEF CallerStep
<1>2. CASE Background
  <2>1. CASE WarmUp
    <3>1. Reserve(Maintainer, "permit") /\ Maintainer \in Procs
      BY <2>1, Kinds DEF WarmUp
    <3> QED
      BY <3>1, ReserveStep
  <2>2. CASE WarmFails
    BY <2>2, Kinds, DialFailsStep
  <2> QED
    BY <1>2, <2>1, <2>2, PlainSteps, ReapStep DEF Background
<1>3. ASSUME NEW p \in Procs, DialOK(p) \/ DialFails(p) \/ FindReason(p) \/ Discard(p)
      PROVE  LifeInv'
  BY <1>3, DialStep, DialFailsStep, ReasonStep, DiscardStep
<1>4. ASSUME NEW c \in Conns, Die(c) \/ Evict(c) PROVE LifeInv'
  BY <1>4, DieStep, EvictStep
<1>5. CASE Tick
  BY <1>5, TickStep
<1>6. CASE UNCHANGED vars
  BY <1>6 DEF vars, LifeInv, TypeOK, Clocks, Hands, Judged, Died, Gate, DeadIsUnhealthy,
              NoEarlyExpiry, NotReady
<1> QED
  BY <1>1, <1>2, <1>3, <1>4, <1>5, <1>6 DEF Next

-----------------------------------------------------------------------------
(* The theorems. *)

\* The timestamps, the findings and the release gate keep the inductive invariant
\* (idle_conn.go, clock.go, recyclable, whyUnusable).
THEOREM LifeInvHolds == Spec => []LifeInv
BY LifeInit, LifeStep, PTL DEF Spec

\* Types, and a connection found dead is counted as unhealthy on every path, though the
\* reason is worked out later than the finding (core.go:424).
THEOREM LifeIsSound == Spec => []Inv
<1>1. LifeInv => Inv
  BY DEF LifeInv, Inv
<1> QED
  BY <1>1, LifeInvHolds, PTL

\* No connection is thrown away for age before it has lived out its lifetime or been idle
\* for MaxConnIdleTime, short of the lag of the cached time (core.go:385, 415).
THEOREM NothingExpiresEarly == Spec => []NoEarlyExpiry
<1>1. LifeInv => NoEarlyExpiry
  BY DEF LifeInv
<1> QED
  BY <1>1, LifeInvHolds, PTL

\* A caller's connection becomes idle only by its push.
LEMMA OnlyPush ==
  ASSUME LifeInv, [Next]_vars, NEW c \in Conns, at[c] \in Callers, at'[c] = "idle"
  PROVE  pc[at[c]] = "push"
<1>0. at \in [Conns -> Places] /\ "idle" \notin Procs
  BY Kinds DEF LifeInv, TypeOK
<1>1. at[c] # "idle" /\ at[c] # Maintainer /\ "idle" # "nowhere"
  BY <1>0, Kinds
<1>2. at' # at
  BY <1>1
<1>3. ASSUME NEW p \in Callers, CallerStep(p) PROVE pc[at[c]] = "push"
  <2>1. CASE Pop(p) \/ Reserve(p, "probe")
    <3>1. \E d \in Conns : at' = [at EXCEPT ![d] = p]
      BY <2>1 DEF Pop, Reserve, Idle
    <3>2. p # "idle"
      BY <1>0, Kinds
    <3> QED
      BY <3>1, <3>2, <1>0, <1>1
  <2>2. CASE ReleasePush(p)
    <3>1. PICK d \in Conns : at[d] = p /\ pc[p] = "push" /\ at' = [at EXCEPT ![d] = "idle"]
      BY <2>2 DEF ReleasePush, Held, Move
    <3>2. d = c
      BY <3>1, <1>0, <1>1
    <3> QED
      BY <3>1, <3>2
  <2>3. CASE ReleaseOver(p)
    <3>1. PICK d \in Conns : at' = [at EXCEPT ![d] = "nowhere"]
      BY <2>3 DEF ReleaseOver, Held
    <3> QED
      BY <3>1, <1>0, <1>1
  <2>4. CASE \/ PopStart(p) \/ PopGiveUp(p) \/ Use(p) \/ ReleaseStart(p) \/ ReleaseCheck(p)
             \/ ReleaseReset(p) \/ ReleaseAge(p)
    BY <2>4, <1>2 DEF PopStart, PopGiveUp, Use, ReleaseStart, ReleaseCheck, ReleaseReset,
                      ReleaseAge
  <2> QED
    BY <1>3, <2>1, <2>2, <2>3, <2>4 DEF CallerStep
<1>4. CASE Background
  <2>1. CASE WarmUp
    <3>1. \E d \in Conns : at' = [at EXCEPT ![d] = Maintainer]
      BY <2>1 DEF WarmUp, Reserve
    <3> QED
      BY <3>1, <1>0, <1>1, Kinds
  <2>2. CASE Reap
    <3>1. at'[c] = at[c] \/ at'[c] = Maintainer
      BY <2>2 DEF Reap
    <3> QED
      BY <3>1, <1>0, <1>1, Kinds
  <2>3. CASE WarmDone \/ WarmWait \/ WarmFull \/ ClockUpdate \/ HealthTick
    BY <2>3, <1>2 DEF WarmDone, WarmWait, WarmFull, ClockUpdate, HealthTick
  <2>4. CASE WarmFails
    BY <2>4, <1>1 DEF WarmFails
  <2> QED
    BY <1>4, <2>1, <2>2, <2>3, <2>4 DEF Background
<1>5. ASSUME NEW p \in Procs, DialOK(p) \/ DialFails(p) \/ FindReason(p) \/ Discard(p)
      PROVE  pc[at[c]] = "push"
  <2>1. CASE DialOK(p)
    BY <2>1, <1>1 DEF DialOK
  <2>2. CASE DialFails(p)
    BY <2>2, <1>1 DEF DialFails
  <2>3. CASE FindReason(p)
    BY <2>3, <1>2 DEF FindReason
  <2>4. CASE Discard(p)
    <3>1. PICK d \in Conns : at' = [at EXCEPT ![d] = "nowhere"]
      BY <2>4 DEF Discard, Held
    <3> QED
      BY <3>1, <1>0, <1>1
  <2> QED
    BY <1>5, <2>1, <2>2, <2>3, <2>4
<1>6. ASSUME NEW d \in Conns, Evict(d) PROVE pc[at[c]] = "push"
  BY <1>6, <1>0, <1>1 DEF Evict
<1>7. ASSUME NEW d \in Conns, Die(d) PROVE pc[at[c]] = "push"
  BY <1>7, <1>2 DEF Die
<1>8. CASE Tick \/ UNCHANGED vars
  BY <1>8, <1>2 DEF Tick, vars
<1> QED
  BY <1>3, <1>4, <1>5, <1>6, <1>7, <1>8 DEF Next

\* What a caller puts back is ready and clean (recyclable, core.go:390).
THEOREM OnlyFitGoesBack == Spec => OnlyFitIsReturned
<1>1. LifeInv /\ [Next]_vars =>
        [\A c \in Conns : at[c] \in Callers /\ at'[c] = "idle" =>
            /\ NeedsSetup => life[c].ready
            /\ ~life[c].dirty]_vars
  <2> SUFFICES ASSUME LifeInv, [Next]_vars, NEW c \in Conns, at[c] \in Callers, at'[c] = "idle"
               PROVE  (NeedsSetup => life[c].ready) /\ ~life[c].dirty
    OBVIOUS
  <2>1. pc[at[c]] = "push"
    BY OnlyPush
  <2>2. ~NotReady(life[c]) /\ ~life[c].dirty
    BY <2>1 DEF LifeInv, Gate
  <2> QED
    BY <2>2 DEF NotReady
<1> QED
  BY <1>1, LifeInvHolds, PTL DEF Spec, OnlyFitIsReturned

-----------------------------------------------------------------------------
(* THE PROXY.  Statement sets. *)

Authors == Clients \cup {Earlier}
Entries == [n : Names, by : Authors]

\* A statement set names a statement once and keeps the limit.
Unique(set) == \A i, j \in DOMAIN set : set[i].n = set[j].n => i = j
SetOK(set) == set \in Seq(Entries) /\ Unique(set) /\ Len(set) <= Limit

\* What a set says of every name: whose statement it is, or that there is none.
View(set) == [n \in Names |-> IF Has(set, n) THEN Text(set, n) ELSE None]

\* The statements of one client.
Mine(set, c) == \A i \in DOMAIN set : set[i].by = c

Views == [Names -> Authors \cup {None}]

LEMMA Constants ==
  /\ None \notin Clients /\ None \notin Backends /\ None \notin Names /\ None # Earlier
  /\ None \notin Authors /\ Limit \in Nat \ {0} /\ MaxMessages \in Nat
  /\ \A c \in Clients : c \notin Backends
  /\ Earlier \notin Clients
BY ProxyAssumption DEF Authors

LEMMA SeqDomain ==
  ASSUME NEW S, NEW s \in Seq(S)
  PROVE  /\ Len(s) \in Nat /\ DOMAIN s = 1 .. Len(s)
         /\ \A i \in DOMAIN s : s[i] \in S
BY LenProperties, ElementOfSeq

\* An entry the set has for a name is the one Text gives.
LEMMA TextIs ==
  ASSUME NEW set, SetOK(set), NEW i \in DOMAIN set
  PROVE  /\ Has(set, set[i].n) /\ At(set, set[i].n) = i
         /\ Text(set, set[i].n) = set[i].by
         /\ View(set)[set[i].n] = set[i].by
<1>1. set \in Seq(Entries) /\ Unique(set)
  BY DEF SetOK
<1>2. set[i] \in Entries /\ set[i].n \in Names
  <2>1. set[i] \in Entries
    BY <1>1, SeqDomain
  <2>2. QED
    BY <2>1 DEF Entries
<1>3. Has(set, set[i].n)
  BY DEF Has
<1>4. At(set, set[i].n) \in DOMAIN set /\ set[At(set, set[i].n)].n = set[i].n
  BY DEF At
<1>5. At(set, set[i].n) = i
  BY <1>1, <1>4 DEF Unique
<1>6. QED
  BY <1>2, <1>3, <1>5 DEF Text, View

LEMMA HasIs ==
  ASSUME NEW set, SetOK(set), NEW n \in Names
  PROVE  /\ Has(set, n) => /\ At(set, n) \in DOMAIN set /\ set[At(set, n)].n = n
                           /\ Text(set, n) \in Authors /\ View(set)[n] = Text(set, n)
                           /\ set[At(set, n)] = [n |-> n, by |-> Text(set, n)]
         /\ ~Has(set, n) => View(set)[n] = None
         /\ View(set) \in Views
<1>1. ASSUME NEW x \in Names, Has(set, x)
      PROVE  At(set, x) \in DOMAIN set /\ set[At(set, x)].n = x /\ Text(set, x) \in Authors
             /\ set[At(set, x)] \in Entries
  <2>1. At(set, x) \in DOMAIN set /\ set[At(set, x)].n = x
    BY <1>1 DEF Has, At
  <2>2. set[At(set, x)] \in Entries
    BY <2>1, SeqDomain DEF SetOK
  <2>3. QED
    BY <2>1, <2>2 DEF Text, Entries
<1>2. View(set) \in Views
  BY <1>1 DEF View, Views
<1>3. QED
  BY <1>1, <1>2 DEF View, Text, Entries

LEMMA HasView ==
  ASSUME NEW set, SetOK(set), NEW n \in Names
  PROVE  Has(set, n) <=> View(set)[n] # None
<1>1. CASE Has(set, n)
  <2>1. View(set)[n] = Text(set, n) /\ Text(set, n) \in Authors
    BY <1>1, HasIs
  <2>2. QED
    BY <1>1, <2>1, Constants
<1>2. CASE ~Has(set, n)
  BY <1>2, HasIs
<1>3. QED
  BY <1>1, <1>2

\* Two sets that have the same entries say the same.
LEMMA SameView ==
  ASSUME NEW s, SetOK(s), NEW t, SetOK(t), NEW n \in Names,
         \A i \in DOMAIN s : s[i].n = n => \E j \in DOMAIN t : t[j] = s[i],
         \A j \in DOMAIN t : t[j].n = n => \E i \in DOMAIN s : s[i].n = n
  PROVE  View(t)[n] = View(s)[n] /\ (Has(t, n) <=> Has(s, n))
<1>1. CASE Has(s, n)
  <2>1. PICK i \in DOMAIN s : s[i].n = n
    BY <1>1 DEF Has
  <2>2. PICK j \in DOMAIN t : t[j] = s[i]
    BY <2>1
  <2>3. QED
    BY <1>1, <2>1, <2>2, TextIs
<1>2. CASE ~Has(s, n)
  <2>1. ~Has(t, n)
    BY <1>2 DEF Has
  <2>2. View(s)[n] = None
    BY <1>2, HasIs
  <2>3. View(t)[n] = None
    BY <2>1, HasIs
  <2>4. QED
    BY <1>2, <2>1, <2>2, <2>3
<1>3. QED
  BY <1>1, <1>2

LEMMA RemoveAtIs ==
  ASSUME NEW S, NEW s \in Seq(S), NEW k \in DOMAIN s
  PROVE  /\ RemoveAt(s, k) \in Seq(S) /\ Len(RemoveAt(s, k)) = Len(s) - 1
         /\ \A i \in DOMAIN RemoveAt(s, k) :
              RemoveAt(s, k)[i] = IF i < k THEN s[i] ELSE s[i + 1]
<1> DEFINE a == SubSeq(s, 1, k - 1)
           d == SubSeq(s, k + 1, Len(s))
<1>1. Len(s) \in Nat /\ DOMAIN s = 1 .. Len(s) /\ k \in 1 .. Len(s)
  BY SeqDomain
<1>2. a \in Seq(S) /\ Len(a) = k - 1 /\ \A i \in 1 .. k - 1 : a[i] = s[i]
  <2>1. /\ a \in Seq(S) /\ Len(a) = IF 1 <= k - 1 THEN k - 1 - 1 + 1 ELSE 0
        /\ \A i \in 1 .. k - 1 - 1 + 1 : a[i] = s[1 + i - 1]
    <3>1. \A i \in 1 .. k - 1 : s[i] \in S
      BY <1>1, SeqDomain
    <3>2. 1 \in Int /\ k - 1 \in Int
      BY <1>1
    <3>3. QED
      BY <3>1, <3>2, SubSeqProperties
  <2>2. QED
    BY <1>1, <2>1
<1>3. d \in Seq(S) /\ Len(d) = Len(s) - k /\ \A i \in 1 .. Len(s) - k : d[i] = s[k + i]
  <2>1. /\ d \in Seq(S) /\ Len(d) = IF k + 1 <= Len(s) THEN Len(s) - (k + 1) + 1 ELSE 0
        /\ \A i \in 1 .. Len(s) - (k + 1) + 1 : d[i] = s[(k + 1) + i - 1]
    <3>1. \A i \in k + 1 .. Len(s) : s[i] \in S
      BY <1>1, SeqDomain
    <3>2. k + 1 \in Int /\ Len(s) \in Int
      BY <1>1
    <3>3. QED
      BY <3>1, <3>2, SubSeqProperties
  <2>2. QED
    BY <1>1, <2>1
<1> HIDE DEF a, d
<1>4. PICK z : z = a \o d
  OBVIOUS
<1>5. /\ z \in Seq(S) /\ Len(z) = Len(s) - 1
      /\ \A i \in 1 .. Len(s) - 1 : z[i] = IF i <= Len(a) THEN a[i] ELSE d[i - Len(a)]
  <2>1. /\ a \o d \in Seq(S) /\ Len(a \o d) = Len(a) + Len(d)
        /\ \A i \in 1 .. Len(a) + Len(d) :
             (a \o d)[i] = IF i <= Len(a) THEN a[i] ELSE d[i - Len(a)]
    BY <1>2, <1>3, ConcatProperties
  <2>2. Len(a) + Len(d) = Len(s) - 1
    BY <1>1, <1>2, <1>3
  <2>3. QED
    BY <1>4, <2>1, <2>2
<1>6. DOMAIN z = 1 .. Len(s) - 1
  BY <1>5, SeqDomain
<1>7. ASSUME NEW i \in 1 .. Len(s) - 1
      PROVE  z[i] = IF i < k THEN s[i] ELSE s[i + 1]
  <2>0. i \in Int /\ k \in Int
    BY <1>1
  <2>1. CASE i < k
    BY <1>1, <1>2, <1>5, <2>1
  <2>2. CASE ~(i < k)
    <3>1. z[i] = d[i - (k - 1)] /\ i - (k - 1) \in 1 .. Len(s) - k
      BY <1>1, <1>2, <1>3, <1>5, <2>2
    <3>2. d[i - (k - 1)] = s[k + (i - (k - 1))]
      BY <1>3, <3>1
    <3>3. k + (i - (k - 1)) = i + 1
      BY <1>1
    <3>4. QED
      BY <2>2, <3>1, <3>2, <3>3
  <2>3. QED
    BY <2>1, <2>2
<1>8. RemoveAt(s, k) = z
  BY <1>4 DEF RemoveAt, a, d
<1>9. QED
  BY <1>5, <1>6, <1>7, <1>8

\* forget: the name is gone, and nothing else.
LEMMA ForgetIs ==
  ASSUME NEW set, SetOK(set), NEW n \in Names
  PROVE  /\ SetOK(Forget(set, n)) /\ ~Has(Forget(set, n), n)
         /\ View(Forget(set, n)) = [View(set) EXCEPT ![n] = None]
         /\ Len(Forget(set, n)) = IF Has(set, n) THEN Len(set) - 1 ELSE Len(set)
         /\ \A c : Mine(set, c) => Mine(Forget(set, n), c)
<1> DEFINE t == Forget(set, n)
<1>0. set \in Seq(Entries) /\ Unique(set) /\ Len(set) <= Limit
  BY DEF SetOK
<1>1. CASE ~Has(set, n)
  <2>1. t = set
    BY <1>1 DEF Forget
  <2>2. View(set)[n] = None /\ View(set) \in Views
    BY <1>1, HasIs
  <2>3. QED
    BY <1>1, <2>1, <2>2 DEF Views
<1>2. CASE Has(set, n)
  <2> DEFINE k == At(set, n)
  <2>1. k \in DOMAIN set /\ set[k].n = n
    BY <1>2, HasIs
  <2>2. /\ t = RemoveAt(set, k)
        /\ t \in Seq(Entries) /\ Len(t) = Len(set) - 1
        /\ \A i \in DOMAIN t : t[i] = IF i < k THEN set[i] ELSE set[i + 1]
    BY <1>0, <1>2, <2>1, RemoveAtIs DEF Forget
  <2> HIDE DEF t, k
  <2>3. /\ DOMAIN set = 1 .. Len(set) /\ DOMAIN t = 1 .. Len(set) - 1 /\ Len(set) \in Nat
        /\ k \in 1 .. Len(set)
    BY <1>0, <2>1, <2>2, SeqDomain
  <2> DEFINE w(i) == IF i < k THEN i ELSE i + 1
  <2>4. ASSUME NEW i \in DOMAIN t
        PROVE  w(i) \in DOMAIN set /\ w(i) # k /\ t[i] = set[w(i)] /\ t[i].n # n
    <3>1. w(i) \in DOMAIN set /\ w(i) # k
      BY <2>3
    <3>2. t[i] = set[w(i)]
      BY <2>2
    <3>3. QED
      BY <1>0, <2>1, <3>1, <3>2 DEF Unique
  <2>5. \A i, j \in DOMAIN t : w(i) = w(j) => i = j
    BY <2>3
  <2>6. Unique(t)
    <3>1. ASSUME NEW i \in DOMAIN t, NEW j \in DOMAIN t, t[i].n = t[j].n
          PROVE  i = j
      <4>1. w(i) = w(j)
        <5>1. w(i) \in DOMAIN set /\ w(j) \in DOMAIN set /\ set[w(i)].n = set[w(j)].n
          BY <2>4, <3>1
        <5> HIDE DEF w
        <5>2. QED
          BY <1>0, <5>1 DEF Unique
      <4>2. QED
        BY <2>5, <4>1
    <3>2. QED
      BY <3>1 DEF Unique
  <2>7. SetOK(t)
    BY <1>0, <2>2, <2>3, <2>6, Constants DEF SetOK
  <2>8. ~Has(t, n)
    BY <2>4 DEF Has
  <2>9. ASSUME NEW x \in Names, x # n
        PROVE  View(t)[x] = View(set)[x]
    <3>1. \A i \in DOMAIN set : set[i].n = x => \E j \in DOMAIN t : t[j] = set[i]
      <4>1. ASSUME NEW i \in DOMAIN set, set[i].n = x
            PROVE  \E j \in DOMAIN t : t[j] = set[i]
        <5>1. i # k
          BY <2>1, <2>9, <4>1
        <5>2. CASE i < k
          BY <2>2, <2>3, <5>2
        <5>3. CASE i > k
          <6>1. i - 1 \in DOMAIN t /\ ~(i - 1 < k) /\ i - 1 + 1 = i
            BY <2>3, <5>3
          <6>2. QED
            BY <2>2, <6>1
        <5>4. QED
          BY <2>3, <5>1, <5>2, <5>3
      <4>2. QED
        BY <4>1
    <3>2. \A j \in DOMAIN t : t[j].n = x => \E i \in DOMAIN set : set[i].n = x
      BY <2>4
    <3>3. QED
      BY <2>7, <3>1, <3>2, SameView
  <2>10. View(t)[n] = None /\ View(t) \in Views /\ View(set) \in Views
    BY <2>7, <2>8, HasIs
  <2>11. View(t) = [View(set) EXCEPT ![n] = None]
    BY <2>9, <2>10 DEF Views
  <2>12. \A c : Mine(set, c) => Mine(t, c)
    BY <2>4 DEF Mine
  <2>13. QED
    BY <1>2, <2>2, <2>7, <2>8, <2>11, <2>12 DEF t
<1>3. QED
  BY <1>1, <1>2

LEMMA AppendIs ==
  ASSUME NEW S, NEW s \in Seq(S), NEW e \in S
  PROVE  /\ Append(s, e) \in Seq(S) /\ Len(Append(s, e)) = Len(s) + 1
         /\ DOMAIN Append(s, e) = 1 .. Len(s) + 1 /\ Len(s) \in Nat
         /\ \A i \in 1 .. Len(s) : Append(s, e)[i] = s[i]
         /\ Append(s, e)[Len(s) + 1] = e
BY AppendProperties, LenProperties

LEMMA TailIs ==
  ASSUME NEW S, NEW s \in Seq(S), s # <<>>
  PROVE  /\ Tail(s) \in Seq(S) /\ Len(Tail(s)) = Len(s) - 1 /\ Len(s) \in Nat /\ Len(s) > 0
         /\ DOMAIN Tail(s) = 1 .. Len(s) - 1 /\ Head(s) = s[1] /\ 1 \in DOMAIN s
         /\ \A i \in 1 .. Len(s) - 1 : Tail(s)[i] = s[i + 1] /\ i + 1 \in DOMAIN s
<1>1. /\ Tail(s) \in Seq(S) /\ Len(Tail(s)) = Len(s) - 1
      /\ \A i \in 1 .. Len(Tail(s)) : Tail(s)[i] = s[i + 1]
  BY HeadTailProperties
<1>2. Len(s) \in Nat /\ DOMAIN s = 1 .. Len(s) /\ Len(s) # 0
  BY EmptySeq, LenProperties
<1>3. DOMAIN Tail(s) = 1 .. Len(s) - 1
  BY <1>1, SeqDomain
<1>4. Head(s) = s[1]
  BY <1>2
<1>5. QED
  BY <1>1, <1>2, <1>3, <1>4

\* A new entry at the end.
LEMMA EntryAdded ==
  ASSUME NEW set, SetOK(set), Len(set) < Limit, NEW n \in Names, ~Has(set, n),
         NEW a \in Authors
  PROVE  LET t == Append(set, [n |-> n, by |-> a])
         IN /\ SetOK(t) /\ View(t) = [View(set) EXCEPT ![n] = a]
            /\ Len(t) = Len(set) + 1 /\ (Mine(set, a) => Mine(t, a))
<1> DEFINE e == [n |-> n, by |-> a]
           t == Append(set, e)
<1>1. e \in Entries /\ e.n = n /\ e.by = a
  BY DEF Entries
<1>2. set \in Seq(Entries) /\ Unique(set) /\ Len(set) \in Nat /\ DOMAIN set = 1 .. Len(set)
  BY SeqDomain DEF SetOK
<1> HIDE DEF e
<1>3. /\ t \in Seq(Entries) /\ Len(t) = Len(set) + 1 /\ DOMAIN t = 1 .. Len(set) + 1
      /\ \A i \in 1 .. Len(set) : t[i] = set[i]
      /\ t[Len(set) + 1] = e
  BY <1>1, <1>2, AppendIs
<1> HIDE DEF t
<1>4. \A i \in DOMAIN set : set[i].n # n
  BY DEF Has
<1>5. Unique(t)
  <2>1. ASSUME NEW i \in DOMAIN t, NEW j \in DOMAIN t, t[i].n = t[j].n
        PROVE  i = j
    <3>1. CASE i \in DOMAIN set /\ j \in DOMAIN set
      BY <1>2, <1>3, <2>1, <3>1 DEF Unique
    <3>2. CASE i \in DOMAIN set /\ j = Len(set) + 1
      BY <1>1, <1>2, <1>3, <1>4, <2>1, <3>2
    <3>3. CASE j \in DOMAIN set /\ i = Len(set) + 1
      BY <1>1, <1>2, <1>3, <1>4, <2>1, <3>3
    <3>4. QED
      BY <1>2, <1>3, <3>1, <3>2, <3>3
  <2>2. QED
    BY <2>1 DEF Unique
<1>6. SetOK(t)
  BY <1>2, <1>3, <1>5, Constants DEF SetOK
<1>7. View(t)[n] = a
  <2>1. Len(set) + 1 \in DOMAIN t /\ t[Len(set) + 1].n = n /\ t[Len(set) + 1].by = a
    BY <1>1, <1>2, <1>3
  <2>2. QED
    BY <1>6, <2>1, TextIs
<1>8. ASSUME NEW x \in Names, x # n
      PROVE  View(t)[x] = View(set)[x]
  <2>1. \A i \in DOMAIN set : set[i].n = x => \E j \in DOMAIN t : t[j] = set[i]
    BY <1>2, <1>3
  <2>2. \A j \in DOMAIN t : t[j].n = x => \E i \in DOMAIN set : set[i].n = x
    BY <1>1, <1>2, <1>3, <1>8
  <2>3. QED
    BY <1>6, <2>1, <2>2, SameView
<1>9. View(t) = [View(set) EXCEPT ![n] = a]
  <2>1. View(t) \in Views /\ View(set) \in Views
    BY <1>6, HasIs
  <2>2. QED
    BY <1>7, <1>8, <2>1 DEF Views
<1>10. Mine(set, a) => Mine(t, a)
  BY <1>1, <1>2, <1>3 DEF Mine
<1>11. QED
  BY <1>3, <1>6, <1>9, <1>10 DEF t, e

\* The least recently used entry is discarded.
LEMMA EntryEvicted ==
  ASSUME NEW set, SetOK(set), set # <<>>
  PROVE  /\ SetOK(Tail(set)) /\ Head(set).n \in Names /\ Has(set, Head(set).n)
         /\ View(Tail(set)) = [View(set) EXCEPT ![Head(set).n] = None]
         /\ Len(Tail(set)) = Len(set) - 1
         /\ \A c : Mine(set, c) => Mine(Tail(set), c)
<1> DEFINE t == Tail(set)
           n == Head(set).n
<1>1. set \in Seq(Entries) /\ Unique(set) /\ Len(set) \in Nat /\ DOMAIN set = 1 .. Len(set)
  BY SeqDomain DEF SetOK
<1>2. /\ t \in Seq(Entries) /\ Len(t) = Len(set) - 1 /\ DOMAIN t = 1 .. Len(set) - 1
      /\ Len(set) > 0 /\ \A i \in 1 .. Len(set) - 1 : t[i] = set[i + 1] /\ i + 1 \in DOMAIN set
      /\ Head(set) = set[1] /\ 1 \in DOMAIN set
  BY <1>1, TailIs
<1>3. n = set[1].n /\ n \in Names
  <2>1. set[1] \in Entries
    BY <1>1, <1>2, SeqDomain
  <2>2. QED
    BY <1>2, <2>1 DEF Entries
<1> HIDE DEF t, n
<1>4. Unique(t)
  <2>1. ASSUME NEW i \in DOMAIN t, NEW j \in DOMAIN t, t[i].n = t[j].n
        PROVE  i = j
    <3>1. /\ i \in 1 .. Len(set) - 1 /\ j \in 1 .. Len(set) - 1
          /\ t[i] = set[i + 1] /\ t[j] = set[j + 1] /\ i + 1 \in DOMAIN set /\ j + 1 \in DOMAIN set
      BY <1>2, <2>1
    <3>2. i + 1 = j + 1
      BY <1>1, <2>1, <3>1 DEF Unique
    <3>3. QED
      BY <3>1, <3>2
  <2>2. QED
    BY <2>1 DEF Unique
<1>5. SetOK(t)
  BY <1>1, <1>2, <1>4, Constants DEF SetOK
<1>6. ASSUME NEW i \in DOMAIN t
      PROVE  t[i].n # n
  <2>1. i \in 1 .. Len(set) - 1 /\ t[i] = set[i + 1] /\ i + 1 \in DOMAIN set /\ i + 1 # 1
    BY <1>2
  <2>2. QED
    BY <1>1, <1>2, <1>3, <2>1 DEF Unique
<1>7. View(t)[n] = None
  <2>1. ~Has(t, n)
    BY <1>6 DEF Has
  <2>2. QED
    BY <1>3, <1>5, <2>1, HasIs
<1>8. ASSUME NEW x \in Names, x # n
      PROVE  View(t)[x] = View(set)[x]
  <2>1. ASSUME NEW i \in DOMAIN set, set[i].n = x
        PROVE  \E j \in DOMAIN t : t[j] = set[i]
    <3>1. i # 1
      BY <1>3, <1>8, <2>1
    <3>2. i - 1 \in DOMAIN t /\ (i - 1) + 1 = i
      BY <1>1, <1>2, <3>1
    <3>3. QED
      BY <1>2, <3>2
  <2>2. \A j \in DOMAIN t : t[j].n = x => \E i \in DOMAIN set : set[i].n = x
    BY <1>2
  <2>3. QED
    BY <1>5, <2>1, <2>2, SameView
<1>9. View(t) = [View(set) EXCEPT ![n] = None]
  <2>1. View(t) \in Views /\ View(set) \in Views
    BY <1>3, <1>5, HasIs
  <2>2. QED
    BY <1>7, <1>8, <2>1 DEF Views
<1>10. \A c : Mine(set, c) => Mine(t, c)
  BY <1>2 DEF Mine
<1>11. Has(set, n)
  BY <1>2, <1>3 DEF Has
<1>12. QED
  BY <1>2, <1>3, <1>5, <1>9, <1>10, <1>11 DEF t, n

\* lookup: the same statements, another order.
LEMMA LookupIs ==
  ASSUME NEW set, SetOK(set), NEW n \in Names
  PROVE  /\ SetOK(Lookup(set, n)) /\ View(Lookup(set, n)) = View(set)
         /\ (Has(Lookup(set, n), n) <=> Has(set, n))
         /\ Evicted(Lookup(set, n), n) = Evicted(set, n)
         /\ \A c \in Authors : Mine(set, c) => Mine(Lookup(set, n), c)
<1>1. CASE ~Has(set, n)
  BY <1>1 DEF Lookup
<1>2. CASE Has(set, n)
  <2> DEFINE f == Forget(set, n)
             a == Text(set, n)
             t == Append(f, [n |-> n, by |-> a])
  <2>1. /\ SetOK(f) /\ ~Has(f, n) /\ View(f) = [View(set) EXCEPT ![n] = None]
        /\ Len(f) = Len(set) - 1 /\ \A c : Mine(set, c) => Mine(f, c)
    BY <1>2, ForgetIs
  <2>2. a \in Authors /\ View(set)[n] = a /\ View(set) \in Views
    BY <1>2, HasIs
  <2>3. Len(f) < Limit
    <3>1. Len(set) \in Nat /\ Len(set) <= Limit
      BY SeqDomain DEF SetOK
    <3>2. QED
      BY <2>1, <3>1, Constants
  <2>4. Lookup(set, n) = t
    BY <1>2 DEF Lookup
  <2> HIDE DEF f, a
  <2>5. SetOK(t) /\ View(t) = [View(f) EXCEPT ![n] = a] /\ (Mine(f, a) => Mine(t, a))
    BY <2>1, <2>2, <2>3, EntryAdded
  <2> HIDE DEF t
  <2>6. View(t) = View(set)
    BY <2>1, <2>2, <2>5 DEF Views
  <2>7. Has(t, n)
    <3>1. View(t)[n] # None
      BY <2>2, <2>6, Constants
    <3>2. QED
      BY <2>5, <3>1, HasIs
  <2>8. Evicted(t, n) = <<>> /\ Evicted(set, n) = <<>>
    BY <1>2, <2>7 DEF Evicted
  <2>9. ASSUME NEW c \in Authors, Mine(set, c)
        PROVE  Mine(t, c)
    <3>1. a = c
      BY <1>2, <2>9, HasIs DEF Mine, Text, a
    <3>2. QED
      BY <2>1, <2>5, <2>9, <3>1
  <2>10. QED
    BY <1>2, <2>4, <2>5, <2>6, <2>7, <2>8, <2>9
<1>3. QED
  BY <1>1, <1>2

\* What remember discards.
LEMMA EvictedIs ==
  ASSUME NEW set, SetOK(set), NEW n \in Names
  PROVE  \/ Evicted(set, n) = <<>> /\ (Has(set, n) \/ Len(set) < Limit)
         \/ /\ Evicted(set, n) = <<Head(set).n>> /\ Evicted(set, n) # <<>>
            /\ Head(set).n \in Names /\ Head(set).n # n
            /\ ~Has(set, n) /\ set # <<>> /\ Len(set) = Limit
<1>1. Len(set) \in Nat /\ Len(set) <= Limit /\ Limit \in Nat \ {0}
  BY SeqDomain, Constants DEF SetOK
<1>2. CASE ~Has(set, n) /\ Len(set) >= Limit
  <2>1. Len(set) = Limit /\ set # <<>>
    <3>1. Len(set) = Limit /\ Len(set) # 0
      BY <1>1, <1>2
    <3>2. set # <<>>
      BY <3>1, EmptySeq
    <3>3. QED
      BY <3>1, <3>2
  <2>2. Head(set).n \in Names /\ Has(set, Head(set).n)
    BY <2>1, EntryEvicted
  <2>3. QED
    BY <1>2, <2>1, <2>2 DEF Evicted
<1>3. CASE ~(~Has(set, n) /\ Len(set) >= Limit)
  BY <1>1, <1>3 DEF Evicted
<1>4. QED
  BY <1>2, <1>3

\* remember: the name is the client's, what was discarded is gone, the rest is kept.
LEMMA RememberIs ==
  ASSUME NEW set, SetOK(set), NEW n \in Names, NEW c \in Clients
  PROVE  /\ SetOK(Remember(set, n, c)) /\ Has(Remember(set, n, c), n)
         /\ Mine(set, c) => Mine(Remember(set, n, c), c)
         /\ \/ /\ Evicted(set, n) = <<>>
               /\ View(Remember(set, n, c)) = [View(set) EXCEPT ![n] = c]
            \/ \E x \in Names :
                 /\ Evicted(set, n) = <<x>> /\ x # n /\ ~Has(set, n)
                 /\ View(Remember(set, n, c)) = [[View(set) EXCEPT ![x] = None] EXCEPT ![n] = c]
<1> DEFINE kept == IF Evicted(set, n) # <<>> THEN Tail(set) ELSE set
           f == Forget(kept, n)
           t == Append(f, [n |-> n, by |-> c])
<1>0. /\ Len(set) \in Nat /\ Len(set) <= Limit /\ Limit \in Nat \ {0} /\ c \in Authors
      /\ View(set) \in Views
  BY SeqDomain, Constants, HasIs DEF SetOK, Authors
<1>1. /\ SetOK(kept) /\ (Mine(set, c) => Mine(kept, c))
      /\ \/ Evicted(set, n) = <<>> /\ View(kept) = View(set)
         \/ \E x \in Names :
              /\ Evicted(set, n) = <<x>> /\ x # n /\ ~Has(set, n) /\ ~Has(kept, n)
              /\ View(kept) = [View(set) EXCEPT ![x] = None]
      /\ Len(Forget(kept, n)) < Limit
  <2>1. CASE Evicted(set, n) = <<>> /\ (Has(set, n) \/ Len(set) < Limit)
    <3>1. kept = set
      BY <2>1
    <3>2. Len(Forget(set, n)) = IF Has(set, n) THEN Len(set) - 1 ELSE Len(set)
      BY ForgetIs
    <3>3. Len(Forget(set, n)) < Limit
      BY <1>0, <2>1, <3>2
    <3>4. QED
      BY <2>1, <3>1, <3>3
  <2>2. CASE /\ Evicted(set, n) = <<Head(set).n>> /\ Evicted(set, n) # <<>>
             /\ Head(set).n \in Names /\ Head(set).n # n
             /\ ~Has(set, n) /\ set # <<>> /\ Len(set) = Limit
    <3>1. kept = Tail(set)
      BY <2>2
    <3>2. /\ SetOK(kept) /\ View(kept) = [View(set) EXCEPT ![Head(set).n] = None]
          /\ Len(kept) = Len(set) - 1 /\ (Mine(set, c) => Mine(kept, c))
      BY <2>2, <3>1, EntryEvicted
    <3> HIDE DEF kept
    <3>3. ~Has(kept, n)
      <4>1. View(set)[n] = None
        BY <2>2, HasIs
      <4>2. View(kept)[n] = None
        BY <1>0, <2>2, <3>2, <4>1 DEF Views
      <4>3. QED
        BY <3>2, <4>2, HasView
    <3>4. Len(Forget(kept, n)) = Len(kept)
      BY <3>2, <3>3, ForgetIs
    <3>5. Len(Forget(kept, n)) < Limit
      BY <1>0, <2>2, <3>2, <3>4
    <3>6. QED
      BY <2>2, <3>2, <3>3, <3>5
  <2>3. QED
    BY <2>1, <2>2, EvictedIs
<1>2. Remember(set, n, c) = t
  BY DEF Remember
<1> HIDE DEF kept
<1>3. /\ SetOK(f) /\ ~Has(f, n) /\ View(f) = [View(kept) EXCEPT ![n] = None]
      /\ (Mine(kept, c) => Mine(f, c)) /\ Len(f) < Limit
  BY <1>1, ForgetIs
<1> HIDE DEF f
<1>4. SetOK(t) /\ View(t) = [View(f) EXCEPT ![n] = c] /\ (Mine(f, c) => Mine(t, c))
  BY <1>0, <1>3, EntryAdded
<1> HIDE DEF t
<1>5. View(kept) \in Views
  BY <1>1, HasIs
<1>6. View(t) = [View(kept) EXCEPT ![n] = c] /\ View(t)[n] = c
  BY <1>3, <1>4, <1>5 DEF Views
<1>7. Has(t, n)
  BY <1>4, <1>6, HasView, Constants
<1>8. \/ Evicted(set, n) = <<>> /\ View(t) = [View(set) EXCEPT ![n] = c]
      \/ \E x \in Names :
           /\ Evicted(set, n) = <<x>> /\ x # n /\ ~Has(set, n)
           /\ View(t) = [[View(set) EXCEPT ![x] = None] EXCEPT ![n] = c]
  <2>1. CASE Evicted(set, n) = <<>> /\ View(kept) = View(set)
    BY <1>6, <2>1
  <2>2. ASSUME NEW x \in Names, Evicted(set, n) = <<x>>, x # n, ~Has(set, n),
               View(kept) = [View(set) EXCEPT ![x] = None]
        PROVE  View(t) = [[View(set) EXCEPT ![x] = None] EXCEPT ![n] = c]
    BY <1>6, <2>2
  <2>3. QED
    BY <1>1, <2>1, <2>2
<1>9. Mine(set, c) => Mine(t, c)
  BY <1>1, <1>3, <1>4
<1>10. QED
  BY <1>2, <1>4, <1>7, <1>8, <1>9

-----------------------------------------------------------------------------
(* What the server makes of a sequence of messages. *)

\* A message names a statement if its kind has one, and the proxy injects Parse
\* and Close only.
Messages ==
  {m \in [k : Ending \cup Naming, n : Names \cup {None}, by : Clients,
          inj : BOOLEAN, known : BOOLEAN] :
     (m.k \in Naming => m.n \in Names) /\ (m.inj => m.k \in {"parse", "close"})}

\* One message takes the statements u to v, and finds the name free, or the
\* statement the client means.
StepsTo(u, m, v) ==
  /\ v = IF m.k = "parse" THEN [u EXCEPT ![m.n] = m.by]
         ELSE IF m.k = "close" THEN [u EXCEPT ![m.n] = None] ELSE u
  /\ m.k = "parse" => u[m.n] = None
  /\ m.k = "bind" /\ m.known => u[m.n] = m.by

\* So do all messages of w, one after the other.
Runs(w, u, v) ==
  \E h \in [0 .. Len(w) -> Views] :
    /\ h[0] = u /\ h[Len(w)] = v
    /\ \A i \in 1 .. Len(w) : StepsTo(h[i - 1], w[i], h[i])

LEMMA EmptyRun ==
  /\ \A u \in Views : Runs(<<>>, u, u)
  /\ \A u, v : Runs(<<>>, u, v) => u = v
<1>0. Len(<<>>) = 0
  BY EmptySeq
<1>1. ASSUME NEW u \in Views PROVE Runs(<<>>, u, u)
  <2>1. [i \in 0 .. 0 |-> u] \in [0 .. 0 -> Views] /\ [i \in 0 .. 0 |-> u][0] = u
    OBVIOUS
  <2>2. \A i \in 1 .. 0 : FALSE
    OBVIOUS
  <2>3. QED
    BY <1>0, <2>1, <2>2 DEF Runs
<1>2. QED
  BY <1>0, <1>1 DEF Runs

LEMMA OneRun ==
  ASSUME NEW m, NEW u \in Views, NEW v \in Views, StepsTo(u, m, v)
  PROVE  Runs(<<m>>, u, v)
<1> DEFINE h == [i \in 0 .. 1 |-> IF i = 0 THEN u ELSE v]
<1>1. Len(<<m>>) = 1 /\ <<m>>[1] = m
  OBVIOUS
<1>2. h \in [0 .. 1 -> Views] /\ h[0] = u /\ h[1] = v
  OBVIOUS
<1> HIDE DEF h
<1>3. \A i \in 1 .. 1 : StepsTo(h[i - 1], <<m>>[i], h[i])
  <2>1. \A i \in 1 .. 1 : i = 1 /\ i - 1 = 0
    OBVIOUS
  <2>2. QED
    BY <1>1, <1>2, <2>1
<1>4. QED
  BY <1>1, <1>2, <1>3 DEF Runs

LEMMA ConcatIs ==
  ASSUME NEW S, NEW s \in Seq(S), NEW t \in Seq(S)
  PROVE  /\ s \o t \in Seq(S) /\ Len(s \o t) = Len(s) + Len(t)
         /\ Len(s) \in Nat /\ Len(t) \in Nat /\ DOMAIN (s \o t) = 1 .. Len(s) + Len(t)
         /\ \A i \in 1 .. Len(s) : (s \o t)[i] = s[i]
         /\ \A i \in 1 .. Len(t) : (s \o t)[Len(s) + i] = t[i]
<1>1. PICK z : z = s \o t
  OBVIOUS
<1>2. /\ z \in Seq(S) /\ Len(z) = Len(s) + Len(t)
      /\ \A i \in 1 .. Len(s) + Len(t) : z[i] = IF i <= Len(s) THEN s[i] ELSE t[i - Len(s)]
  BY <1>1, ConcatProperties
<1>3. Len(s) \in Nat /\ Len(t) \in Nat
  BY LenProperties
<1>4. DOMAIN z = 1 .. Len(s) + Len(t)
  BY <1>2, LenProperties
<1>5. \A i \in 1 .. Len(s) : z[i] = s[i]
  BY <1>2, <1>3
<1>6. ASSUME NEW i \in 1 .. Len(t) PROVE z[Len(s) + i] = t[i]
  <2>1. Len(s) + i \in 1 .. Len(s) + Len(t) /\ ~(Len(s) + i <= Len(s)) /\ (Len(s) + i) - Len(s) = i
    BY <1>3
  <2>2. QED
    BY <1>2, <2>1
<1>7. QED
  BY <1>1, <1>2, <1>3, <1>4, <1>5, <1>6

LEMMA ConcatRuns ==
  ASSUME NEW w \in Seq(Messages), NEW a \in Seq(Messages), NEW u, NEW v, NEW x,
         Runs(w, u, v), Runs(a, v, x)
  PROVE  Runs(w \o a, u, x)
<1>1. PICK f \in [0 .. Len(w) -> Views] :
        f[0] = u /\ f[Len(w)] = v /\ \A i \in 1 .. Len(w) : StepsTo(f[i - 1], w[i], f[i])
  BY DEF Runs
<1>2. PICK g \in [0 .. Len(a) -> Views] :
        g[0] = v /\ g[Len(a)] = x /\ \A i \in 1 .. Len(a) : StepsTo(g[i - 1], a[i], g[i])
  BY DEF Runs
<1>3. PICK z : z = w \o a
  OBVIOUS
<1>4. /\ Len(z) = Len(w) + Len(a) /\ Len(w) \in Nat /\ Len(a) \in Nat
      /\ \A i \in 1 .. Len(w) : z[i] = w[i]
      /\ \A i \in 1 .. Len(a) : z[Len(w) + i] = a[i]
  BY <1>3, ConcatIs
<1> DEFINE h == [i \in 0 .. Len(z) |-> IF i <= Len(w) THEN f[i] ELSE g[i - Len(w)]]
<1>5. h \in [0 .. Len(z) -> Views]
  BY <1>4
<1>6. h[0] = u
  BY <1>1, <1>4
<1>7. \A i \in 0 .. Len(a) : h[Len(w) + i] = g[i]
  <2>1. ASSUME NEW i \in 0 .. Len(a) PROVE h[Len(w) + i] = g[i]
    <3>1. CASE i = 0
      BY <1>1, <1>2, <1>4, <3>1
    <3>2. CASE i > 0
      <4>1. Len(w) + i \in 0 .. Len(z) /\ ~(Len(w) + i <= Len(w)) /\ (Len(w) + i) - Len(w) = i
        BY <1>4, <3>2
      <4>2. QED
        BY <4>1
    <3>3. QED
      BY <1>4, <3>1, <3>2
  <2>2. QED
    BY <2>1
<1>8. h[Len(z)] = x
  <2>1. h[Len(w) + Len(a)] = g[Len(a)]
    BY <1>4, <1>7
  <2>2. QED
    BY <1>2, <1>4, <2>1
<1>9. \A i \in 0 .. Len(w) : h[i] = f[i]
  BY <1>4
<1> HIDE DEF h
<1>10. ASSUME NEW i \in 1 .. Len(z) PROVE StepsTo(h[i - 1], z[i], h[i])
  <2>1. CASE i <= Len(w)
    <3>1. i \in 1 .. Len(w) /\ i \in 0 .. Len(w) /\ i - 1 \in 0 .. Len(w)
      BY <1>4, <2>1
    <3>2. QED
      BY <1>1, <1>4, <1>9, <3>1
  <2>2. CASE ~(i <= Len(w))
    <3>1. PICK j \in 1 .. Len(a) : i = Len(w) + j
      <4>1. i - Len(w) \in 1 .. Len(a) /\ i = Len(w) + (i - Len(w))
        BY <1>4, <2>2
      <4>2. QED
        BY <4>1
    <3>2. j \in 0 .. Len(a) /\ j - 1 \in 0 .. Len(a) /\ i - 1 = Len(w) + (j - 1)
      BY <1>4, <3>1
    <3>3. h[i] = g[j] /\ h[i - 1] = g[j - 1] /\ z[i] = a[j]
      BY <1>4, <1>7, <3>1, <3>2
    <3>4. QED
      BY <1>2, <3>3
  <2>3. QED
    BY <2>1, <2>2
<1>11. QED
  BY <1>3, <1>5, <1>6, <1>8, <1>10 DEF Runs

\* The server does the first.
LEMMA HeadRuns ==
  ASSUME NEW w \in Seq(Messages), w # <<>>, NEW u, NEW v, Runs(w, u, v)
  PROVE  \E x \in Views : StepsTo(u, w[1], x) /\ Runs(Tail(w), x, v)
<1>1. PICK f \in [0 .. Len(w) -> Views] :
        f[0] = u /\ f[Len(w)] = v /\ \A i \in 1 .. Len(w) : StepsTo(f[i - 1], w[i], f[i])
  BY DEF Runs
<1>2. PICK z : z = Tail(w)
  OBVIOUS
<1>3. /\ Len(w) \in Nat /\ Len(w) > 0 /\ Len(z) = Len(w) - 1
      /\ \A i \in 1 .. Len(w) - 1 : z[i] = w[i + 1]
  BY <1>2, TailIs
<1> DEFINE h == [i \in 0 .. Len(z) |-> f[i + 1]]
<1>4. h \in [0 .. Len(z) -> Views]
  BY <1>3
<1>5. h[0] = f[1] /\ h[Len(z)] = v /\ f[1] \in Views
  BY <1>1, <1>3
<1>6. ASSUME NEW i \in 1 .. Len(z) PROVE StepsTo(h[i - 1], z[i], h[i])
  <2>1. i + 1 \in 1 .. Len(w) /\ i - 1 \in 0 .. Len(z) /\ i \in 0 .. Len(z) /\ (i + 1) - 1 = i
        /\ (i - 1) + 1 = i
    BY <1>3
  <2>2. StepsTo(f[(i + 1) - 1], w[i + 1], f[i + 1])
    BY <1>1, <2>1
  <2>3. h[i - 1] = f[i] /\ h[i] = f[i + 1] /\ z[i] = w[i + 1]
    BY <1>3, <2>1
  <2>4. QED
    BY <2>1, <2>2, <2>3
<1> HIDE DEF h
<1>7. Runs(z, f[1], v)
  BY <1>4, <1>5, <1>6 DEF Runs
<1>8. StepsTo(f[0], w[1], f[1])
  <2>1. 1 \in 1 .. Len(w) /\ 1 - 1 = 0
    BY <1>3
  <2>2. QED
    BY <1>1, <2>1
<1>9. QED
  BY <1>1, <1>2, <1>5, <1>7, <1>8

LEMMA ClosesIs ==
  ASSUME NEW c
  PROVE  /\ Closes(<<>>, c) = <<>>
         /\ \A x : Closes(<<x>>, c) = <<Msg("close", x, c, TRUE)>>
<1>1. Closes(<<>>, c) = <<>>
  BY DEF Closes
<1>2. ASSUME NEW x PROVE Closes(<<x>>, c) = <<Msg("close", x, c, TRUE)>>
  <2>1. DOMAIN <<x>> = 1 .. 1 /\ <<x>>[1] = x
    OBVIOUS
  <2>2. PICK m : m = Msg("close", x, c, TRUE)
    OBVIOUS
  <2>3. Closes(<<x>>, c) = [i \in 1 .. 1 |-> m]
    <3>1. \A i \in 1 .. 1 : <<x>>[i] = x
      BY <2>1
    <3>2. QED
      BY <2>1, <2>2, <3>1 DEF Closes, Msg
  <2>4. [i \in 1 .. 1 |-> m] = <<m>>
    OBVIOUS
  <2>5. QED
    BY <2>2, <2>3, <2>4
<1>3. QED
  BY <1>1, <1>2

\* What the proxy injects for client c.
Injected(q, c) ==
  /\ q \in Seq(Messages)
  /\ \A i \in DOMAIN q : q[i].by = c /\ q[i].inj /\ q[i].k \in {"parse", "close"}

LEMMA NoneInjected ==
  ASSUME NEW c PROVE Injected(<<>>, c)
BY DEF Injected

LEMMA OneInjected ==
  ASSUME NEW c \in Clients, NEW k \in {"parse", "close"}, NEW n \in Names
  PROVE  Injected(<<Msg(k, n, c, TRUE)>>, c)
<1>1. PICK m : m = Msg(k, n, c, TRUE)
  OBVIOUS
<1>2. m \in Messages /\ m.by = c /\ m.inj /\ m.k \in {"parse", "close"}
  BY <1>1 DEF Msg, Messages, Naming
<1>3. <<m>> \in Seq(Messages) /\ DOMAIN <<m>> = {1} /\ <<m>>[1] = m
  BY <1>2
<1>4. QED
  BY <1>1, <1>2, <1>3 DEF Injected

LEMMA MoreInjected ==
  ASSUME NEW c, NEW q, NEW t, Injected(q, c), Injected(t, c)
  PROVE  Injected(q \o t, c)
<1>1. q \in Seq(Messages) /\ t \in Seq(Messages)
  BY DEF Injected
<1>2. DOMAIN q = 1 .. Len(q) /\ DOMAIN t = 1 .. Len(t)
  BY <1>1, SeqDomain
<1>3. PICK z : z = q \o t
  OBVIOUS
<1>4. /\ z \in Seq(Messages) /\ Len(q) \in Nat /\ Len(t) \in Nat
      /\ DOMAIN z = 1 .. Len(q) + Len(t)
      /\ \A i \in 1 .. Len(q) : z[i] = q[i]
      /\ \A i \in 1 .. Len(t) : z[Len(q) + i] = t[i]
  BY <1>1, <1>3, ConcatIs
<1>5. ASSUME NEW i \in DOMAIN z PROVE z[i].by = c /\ z[i].inj /\ z[i].k \in {"parse", "close"}
  <2>1. CASE i \in 1 .. Len(q)
    BY <1>2, <1>4, <2>1 DEF Injected
  <2>2. CASE i \notin 1 .. Len(q)
    <3>1. i - Len(q) \in 1 .. Len(t) /\ Len(q) + (i - Len(q)) = i
      BY <1>4, <2>2
    <3>2. z[i] = t[i - Len(q)]
      BY <1>4, <3>1
    <3>3. QED
      BY <1>2, <3>1, <3>2 DEF Injected
  <2>3. QED
    BY <2>1, <2>2
<1>6. QED
  BY <1>3, <1>4, <1>5 DEF Injected

\* A Close of any name, a Parse of a free one.
LEMMA CloseRuns ==
  ASSUME NEW c \in Clients, NEW x \in Names, NEW u \in Views
  PROVE  /\ [u EXCEPT ![x] = None] \in Views
         /\ Runs(<<Msg("close", x, c, TRUE)>>, u, [u EXCEPT ![x] = None])
<1>1. PICK m : m = Msg("close", x, c, TRUE)
  OBVIOUS
<1>2. m.k = "close" /\ m.n = x
  BY <1>1 DEF Msg
<1>3. [u EXCEPT ![x] = None] \in Views
  BY DEF Views
<1>4. StepsTo(u, m, [u EXCEPT ![x] = None])
  BY <1>2 DEF StepsTo
<1>5. QED
  BY <1>1, <1>3, <1>4, OneRun

LEMMA ParseRuns ==
  ASSUME NEW c \in Clients, NEW n \in Names, NEW u \in Views, u[n] = None
  PROVE  /\ [u EXCEPT ![n] = c] \in Views
         /\ Runs(<<Msg("parse", n, c, TRUE)>>, u, [u EXCEPT ![n] = c])
<1>1. PICK m : m = Msg("parse", n, c, TRUE)
  OBVIOUS
<1>2. m.k = "parse" /\ m.n = n /\ m.by = c
  BY <1>1 DEF Msg
<1>3. [u EXCEPT ![n] = c] \in Views
  BY DEF Views, Authors
<1>4. StepsTo(u, m, [u EXCEPT ![n] = c])
  BY <1>2 DEF StepsTo
<1>5. QED
  BY <1>1, <1>3, <1>4, OneRun

\* The messages of one Forward: what is injected, then the client's own.
LEMMA OwnRuns ==
  ASSUME NEW q \in Seq(Messages), NEW m \in Messages, NEW u, NEW v \in Views, NEW x \in Views,
         Runs(q, u, v), StepsTo(v, m, x)
  PROVE  Runs(Append(q, m), u, x)
<1>1. <<m>> \in Seq(Messages) /\ Runs(<<m>>, v, x)
  BY OneRun
<1>2. Runs(q \o <<m>>, u, x)
  BY <1>1, ConcatRuns
<1>3. Append(q, m) = q \o <<m>>
  BY AppendIsConcat
<1>4. QED
  BY <1>2, <1>3

\* What the four kinds of reconcile come to: the sets stay sets, the client's
\* holds its own statements, and the messages take the server from what the
\* backend's set said to what it says now.
Reconciles(r, c, m, pr) ==
  /\ SetOK(r.st) /\ Mine(r.st, c) /\ SetOK(r.pr) /\ Injected(r.inj, c)
  /\ Runs(Append(r.inj, m), View(pr), View(r.pr))

LEMMA ParseReconciles ==
  ASSUME NEW c \in Clients, NEW m \in Messages, m.k = "parse", m.by = c,
         NEW st, SetOK(st), Mine(st, c), NEW pr, SetOK(pr)
  PROVE  Reconciles(ReconcileParse(c, m.n, st, pr), c, m, pr)
<1> DEFINE n == m.n
           st1 == Remember(st, n, c)
           st2 == Lookup(st1, n)
           pr1 == Lookup(pr, n)
           pr2 == Remember(pr1, n, c)
           q == Closes((IF Has(pr, n) THEN <<n>> ELSE <<>>) \o Evicted(pr, n), c)
           u == View(pr)
<1>0. n \in Names /\ c \in Authors
  BY DEF Messages, Naming, Authors
<1>1. SetOK(st1) /\ Mine(st1, c)
  BY <1>0, RememberIs
<1>2. SetOK(st2) /\ Mine(st2, c)
  <2> HIDE DEF st1
  <2>1. QED
    BY <1>0, <1>1, LookupIs
<1>3. SetOK(pr1) /\ View(pr1) = u /\ Evicted(pr1, n) = Evicted(pr, n) /\ (Has(pr1, n) <=> Has(pr, n))
  BY <1>0, LookupIs
<1>4. u \in Views /\ (Has(pr, n) <=> u[n] # None)
  BY <1>0, HasIs, HasView
<1>5. /\ SetOK(pr2)
      /\ \/ Evicted(pr, n) = <<>> /\ View(pr2) = [u EXCEPT ![n] = c]
         \/ \E x \in Names : /\ Evicted(pr, n) = <<x>> /\ x # n /\ ~Has(pr, n)
                             /\ View(pr2) = [[u EXCEPT ![x] = None] EXCEPT ![n] = c]
  <2> HIDE DEF pr1, st1, st2, q, n, u
  <2>1. /\ SetOK(pr2)
        /\ \/ Evicted(pr1, n) = <<>> /\ View(pr2) = [View(pr1) EXCEPT ![n] = c]
           \/ \E x \in Names : /\ Evicted(pr1, n) = <<x>> /\ x # n /\ ~Has(pr1, n)
                               /\ View(pr2) = [[View(pr1) EXCEPT ![x] = None] EXCEPT ![n] = c]
    BY <1>0, <1>3, RememberIs
  <2>2. QED
    BY <1>3, <2>1
<1>6. /\ ReconcileParse(c, m.n, st, pr).st = st2 /\ ReconcileParse(c, m.n, st, pr).pr = pr2
      /\ ReconcileParse(c, m.n, st, pr).inj = q
  BY DEF ReconcileParse
<1>7. <<>> \o <<>> = <<>> /\ (\A x : <<>> \o <<x>> = <<x>>) /\ \A x : <<x>> \o <<>> = <<x>>
  OBVIOUS
<1>8. ASSUME NEW v \in Views, v[n] = None, [v EXCEPT ![n] = c] = View(pr2), Injected(q, c), Runs(q, u, v)
      PROVE  Reconciles(ReconcileParse(c, m.n, st, pr), c, m, pr)
  <2> HIDE DEF st2, pr2, q, u
  <2>1. View(pr2) \in Views
    BY <1>0, <1>5, HasIs
  <2>2. StepsTo(v, m, View(pr2))
    BY <1>8 DEF StepsTo
  <2>3. q \in Seq(Messages)
    BY <1>8 DEF Injected
  <2>4. Runs(Append(q, m), u, View(pr2))
    BY <1>8, <2>1, <2>2, <2>3, OwnRuns
  <2>5. QED
    BY <1>2, <1>5, <1>6, <1>8, <2>4 DEF Reconciles, u
<1> HIDE DEF pr1, pr2, st1, st2, u
<1>9. CASE Has(pr, n)
  <2>1. Evicted(pr, n) = <<>> /\ View(pr2) = [u EXCEPT ![n] = c]
    BY <1>5, <1>9
  <2>2. q = <<Msg("close", n, c, TRUE)>>
    <3>1. q = Closes(<<n>>, c)
      BY <1>7, <1>9, <2>1
    <3>2. QED
      BY <3>1, ClosesIs
  <2>3. Injected(q, c)
    BY <1>0, <2>2, OneInjected
  <2>4. [u EXCEPT ![n] = None] \in Views /\ Runs(q, u, [u EXCEPT ![n] = None])
    BY <1>0, <1>4, <2>2, CloseRuns
  <2>5. /\ [u EXCEPT ![n] = None][n] = None
        /\ [[u EXCEPT ![n] = None] EXCEPT ![n] = c] = View(pr2)
    BY <1>0, <1>4, <2>1 DEF Views
  <2>6. QED
    BY <1>8, <2>3, <2>4, <2>5
<1>10. CASE ~Has(pr, n) /\ Evicted(pr, n) = <<>>
  <2>1. View(pr2) = [u EXCEPT ![n] = c]
    <3>1. \A x : <<x>> # <<>>
      OBVIOUS
    <3>2. QED
      BY <1>5, <1>10, <3>1
  <2>2. q = <<>>
    BY <1>7, <1>10, ClosesIs
  <2>3. Injected(q, c) /\ Runs(q, u, u)
    BY <1>4, <2>2, NoneInjected, EmptyRun
  <2>4. QED
    BY <1>4, <1>8, <1>10, <2>1, <2>3
<1>11. CASE ~Has(pr, n) /\ Evicted(pr, n) # <<>>
  <2>1. PICK x \in Names : /\ Evicted(pr, n) = <<x>> /\ x # n
                           /\ View(pr2) = [[u EXCEPT ![x] = None] EXCEPT ![n] = c]
    BY <1>5, <1>11
  <2>2. q = <<Msg("close", x, c, TRUE)>>
    <3>1. q = Closes(<<x>>, c)
      BY <1>7, <1>11, <2>1
    <3>2. QED
      BY <3>1, ClosesIs
  <2>3. Injected(q, c)
    BY <2>2, OneInjected
  <2>4. [u EXCEPT ![x] = None] \in Views /\ Runs(q, u, [u EXCEPT ![x] = None])
    BY <1>4, <2>2, CloseRuns
  <2>5. [u EXCEPT ![x] = None][n] = None
    BY <1>0, <1>4, <1>11, <2>1 DEF Views
  <2>6. QED
    BY <1>8, <2>1, <2>3, <2>4, <2>5
<1>12. QED
  BY <1>9, <1>10, <1>11

LEMMA BindReconciles ==
  ASSUME NEW c \in Clients, NEW m \in Messages, m.k = "bind", m.by = c,
         NEW st, SetOK(st), Mine(st, c), NEW pr, SetOK(pr), m.known => Has(st, m.n)
  PROVE  Reconciles(EnsurePrepared(c, m.n, st, pr), c, m, pr)
<1> DEFINE n == m.n
           st1 == Lookup(st, n)
           pr1 == Lookup(pr, n)
           pr2 == Remember(pr1, n, c)
           e == EnsurePrepared(c, m.n, st, pr)
           u == View(pr)
<1> SUFFICES Reconciles(e, c, m, pr)
  OBVIOUS
<1>0. n \in Names /\ c \in Authors
  BY DEF Messages, Naming, Authors
<1>1. SetOK(st1) /\ Mine(st1, c)
  BY <1>0, LookupIs
<1>2. SetOK(pr1) /\ View(pr1) = u /\ Evicted(pr1, n) = Evicted(pr, n) /\ (Has(pr1, n) <=> Has(pr, n))
  BY <1>0, LookupIs
<1>3. u \in Views /\ (Has(pr, n) <=> u[n] # None) /\ (Has(pr, n) => u[n] = Text(pr, n))
  BY <1>0, HasIs, HasView
<1>4. /\ SetOK(pr2)
      /\ \/ Evicted(pr, n) = <<>> /\ View(pr2) = [u EXCEPT ![n] = c]
         \/ \E x \in Names : /\ Evicted(pr, n) = <<x>> /\ x # n /\ ~Has(pr, n)
                             /\ View(pr2) = [[u EXCEPT ![x] = None] EXCEPT ![n] = c]
  <2> HIDE DEF pr1
  <2>1. /\ SetOK(pr2)
        /\ \/ Evicted(pr1, n) = <<>> /\ View(pr2) = [View(pr1) EXCEPT ![n] = c]
           \/ \E x \in Names : /\ Evicted(pr1, n) = <<x>> /\ x # n /\ ~Has(pr1, n)
                               /\ View(pr2) = [[View(pr1) EXCEPT ![x] = None] EXCEPT ![n] = c]
    BY <1>0, <1>2, RememberIs
  <2>2. QED
    BY <1>2, <2>1
<1>5. View(pr2) \in Views
  BY <1>0, <1>4, HasIs
\* Nothing to replay: the name is unknown, or the backend has the client's own.
<1>6. ASSUME SetOK(e.st), Mine(e.st, c), SetOK(e.pr), View(e.pr) = u, e.inj = <<>>, m.known => u[n] = c
      PROVE  Reconciles(e, c, m, pr)
  <2> HIDE DEF e, u
  <2>1. StepsTo(u, m, u)
    BY <1>6 DEF StepsTo
  <2>2. Runs(<<>>, u, u)
    BY <1>3, EmptyRun
  <2>3. <<>> \in Seq(Messages)
    OBVIOUS
  <2>4. Runs(Append(<<>>, m), u, u)
    BY <1>3, <2>1, <2>2, <2>3, OwnRuns
  <2>5. QED
    BY <1>6, <2>4, NoneInjected DEF Reconciles, u
<1>7. CASE ~Has(st, n)
  <2>1. e.st = st /\ e.pr = pr /\ e.inj = <<>>
    BY <1>7 DEF EnsurePrepared
  <2> HIDE DEF e
  <2>2. QED
    BY <1>6, <1>7, <2>1
<1>8. CASE Has(st, n) /\ Has(pr, n) /\ Text(pr, n) = Text(st, n)
  <2>1. e.st = st1 /\ e.pr = pr1 /\ e.inj = <<>>
    BY <1>8 DEF EnsurePrepared
  <2>2. Text(st, n) = c
    BY <1>0, <1>8, HasIs DEF Mine, Text
  <2> HIDE DEF e, st1, pr1
  <2>3. QED
    BY <1>1, <1>2, <1>3, <1>6, <1>8, <2>1, <2>2
\* The remembered Parse is replayed.
<1>9. CASE Has(st, n) /\ ~(Has(pr, n) /\ Text(pr, n) = Text(st, n))
  <2> DEFINE p == <<Msg("parse", n, c, TRUE)>>
             q1 == Closes(IF Has(pr, n) THEN <<n>> ELSE <<>>, c)
             q2 == Closes(Evicted(pr, n), c)
  <2>1. e.st = st1 /\ e.pr = pr2 /\ e.inj = q1 \o p \o q2
    BY <1>9 DEF EnsurePrepared
  <2>2. Injected(p, c)
    BY <1>0, OneInjected
  <2>3. Injected(q1, c) /\ \E v \in Views : Runs(q1, u, v) /\ v = [u EXCEPT ![n] = None]
    <3>1. CASE Has(pr, n)
      <4>1. q1 = <<Msg("close", n, c, TRUE)>>
        BY <3>1, ClosesIs
      <4>2. QED
        BY <1>0, <1>3, <4>1, OneInjected, CloseRuns
    <3>2. CASE ~Has(pr, n)
      <4>1. q1 = <<>>
        BY <3>2, ClosesIs
      <4>2. u = [u EXCEPT ![n] = None]
        BY <1>0, <1>3, <3>2 DEF Views
      <4>3. QED
        BY <1>3, <4>1, <4>2, NoneInjected, EmptyRun
    <3>3. QED
      BY <3>1, <3>2
  <2>4. PICK v \in Views : Runs(q1, u, v) /\ v = [u EXCEPT ![n] = None]
    BY <2>3
  <2>5. v[n] = None /\ [v EXCEPT ![n] = c] = [u EXCEPT ![n] = c]
    BY <1>0, <1>3, <2>4 DEF Views
  <2>6. PICK x \in Views : Runs(p, v, x) /\ x = [u EXCEPT ![n] = c]
    BY <1>0, <2>5, ParseRuns
  <2>7. Injected(q2, c) /\ Runs(q2, x, View(pr2)) /\ View(pr2)[n] = c
    <3>1. CASE Evicted(pr, n) = <<>>
      <4>1. View(pr2) = x
        <5>1. \A y : <<y>> # <<>>
          OBVIOUS
        <5>2. QED
          BY <1>4, <2>6, <3>1, <5>1
      <4>2. q2 = <<>>
        BY <3>1, ClosesIs
      <4>3. x[n] = c
        BY <1>0, <1>3, <2>6 DEF Views
      <4> HIDE DEF pr2, q2
      <4>4. QED
        BY <4>1, <4>2, <4>3, NoneInjected, EmptyRun
    <3>2. CASE Evicted(pr, n) # <<>>
      <4>1. PICK y \in Names : /\ Evicted(pr, n) = <<y>> /\ y # n
                               /\ View(pr2) = [[u EXCEPT ![y] = None] EXCEPT ![n] = c]
        BY <1>4, <3>2
      <4>2. q2 = <<Msg("close", y, c, TRUE)>>
        BY <4>1, ClosesIs
      <4> HIDE DEF q2, pr2
      <4>3. Injected(q2, c) /\ Runs(q2, x, [x EXCEPT ![y] = None])
        BY <4>2, OneInjected, CloseRuns
      <4>4. [x EXCEPT ![y] = None] = View(pr2) /\ View(pr2)[n] = c
        BY <1>0, <1>3, <2>6, <4>1 DEF Views
      <4>5. QED
        BY <4>3, <4>4
    <3>3. QED
      BY <3>1, <3>2
  <2> HIDE DEF e, p, q1, q2, st1, pr1, pr2, u
  <2>8. Injected(q1 \o p, c) /\ Injected((q1 \o p) \o q2, c)
    <3>1. Injected(q1 \o p, c)
      BY <2>2, <2>3, MoreInjected
    <3>2. QED
      BY <2>7, <3>1, MoreInjected
  <2>9. Runs((q1 \o p) \o q2, u, View(pr2))
    <3>1. q1 \in Seq(Messages) /\ p \in Seq(Messages) /\ q2 \in Seq(Messages) /\ q1 \o p \in Seq(Messages)
      BY <2>2, <2>3, <2>7, <2>8 DEF Injected
    <3>2. Runs(q1 \o p, u, x)
      BY <2>4, <2>6, <3>1, ConcatRuns
    <3>3. QED
      BY <2>7, <3>1, <3>2, ConcatRuns
  <2>10. StepsTo(View(pr2), m, View(pr2))
    BY <2>7 DEF StepsTo
  <2>11. Runs(Append(e.inj, m), u, View(pr2))
    BY <1>5, <2>1, <2>8, <2>9, <2>10, OwnRuns DEF Injected
  <2>12. QED
    BY <1>1, <1>4, <2>1, <2>8, <2>11 DEF Reconciles, u
<1>10. QED
  BY <1>7, <1>8, <1>9

LEMMA ReconcileIs ==
  ASSUME NEW c \in Clients, NEW m \in Messages, m.by = c,
         NEW st, SetOK(st), Mine(st, c), NEW pr, SetOK(pr), m.known => Has(st, m.n)
  PROVE  Reconciles(Reconcile(c, m, st, pr), c, m, pr)
<1> DEFINE e == Reconcile(c, m, st, pr)
           u == View(pr)
<1>1. m.k \in {"parse", "bind", "close", "begin", "end", "sql", "sync"} /\ (m.k \in Naming => m.n \in Names)
  BY DEF Messages, Ending, Query, Naming
<1>2. CASE m.k = "parse"
  BY <1>2, ParseReconciles DEF Reconcile
<1>3. CASE m.k = "bind"
  BY <1>3, BindReconciles DEF Reconcile
<1>4. ASSUME NEW v \in Views, u \in Views, StepsTo(u, m, v),
             SetOK(e.st), Mine(e.st, c), SetOK(e.pr), v = View(e.pr), e.inj = <<>>
      PROVE  Reconciles(e, c, m, pr)
  <2> HIDE DEF e
  <2>1. Runs(<<>>, u, u) /\ <<>> \in Seq(Messages)
    BY <1>4, EmptyRun
  <2>2. Runs(Append(<<>>, m), u, v)
    BY <1>4, <2>1, OwnRuns
  <2>3. QED
    BY <1>4, <2>2, NoneInjected DEF Reconciles
<1>5. CASE m.k = "close"
  <2>1. m.n \in Names
    BY <1>1, <1>5 DEF Naming
  <2>2. e.st = Forget(st, m.n) /\ e.pr = Forget(pr, m.n) /\ e.inj = <<>>
    BY <1>5 DEF Reconcile
  <2>3. SetOK(e.st) /\ Mine(e.st, c)
    BY <2>1, <2>2, ForgetIs
  <2>4. SetOK(e.pr) /\ View(e.pr) = [u EXCEPT ![m.n] = None]
    BY <2>1, <2>2, ForgetIs
  <2>5. u \in Views
    BY <2>1, HasIs
  <2>6. [u EXCEPT ![m.n] = None] \in Views
    BY <2>1, <2>5 DEF Views
  <2>7. StepsTo(u, m, [u EXCEPT ![m.n] = None])
    BY <1>5 DEF StepsTo
  <2> HIDE DEF e, u
  <2>8. Reconciles(e, c, m, pr)
    BY <1>4, <2>2, <2>3, <2>4, <2>5, <2>6, <2>7
  <2>9. QED
    BY <2>8 DEF e
<1>6. CASE m.k \in {"begin", "end", "sql", "sync"}
  <2>1. e.st = st /\ e.pr = pr /\ e.inj = <<>>
    BY <1>6 DEF Reconcile
  <2>2. u \in Views
    BY HasIs DEF View, Views
  <2>3. StepsTo(u, m, u)
    BY <1>6 DEF StepsTo
  <2> HIDE DEF e
  <2>4. Reconciles(e, c, m, pr)
    BY <1>4, <2>1, <2>2, <2>3
  <2>5. QED
    BY <2>4 DEF e
<1>7. QED
  BY <1>1, <1>2, <1>3, <1>5, <1>6

-----------------------------------------------------------------------------
(* The completions a session owes itself. *)

Statuses == {"", "I", "T", "E"}
ReplyKinds == {"1", "2", "3", "E", "Z"}
Replies == [k : ReplyKinds, tx : Statuses, by : Clients, inj : BOOLEAN]

\* The server's answer to the i-th message between the client and the end of the
\* wire, as far as the relay could take it for a completion of its own; and
\* whether the relay counts it as injected.
Kind(R, W, i) ==
  IF i <= Len(R) THEN R[i].k
  ELSE IF W[i - Len(R)].k = "parse" THEN "1"
  ELSE IF W[i - Len(R)].k = "close" THEN "3" ELSE "-"
Counts(R, W, i) ==
  IF i <= Len(R) THEN R[i].inj /\ R[i].k # "E" ELSE W[i - Len(R)].inj

\* The expected completions are a subsequence of the answers to come: h counts
\* those met so far.  There are as many injected ones among the answers as are
\* expected and owed: t counts these.
Fits(h, t, e, owed, R, W) ==
  /\ h \in [0 .. Len(R) + Len(W) -> Nat] /\ t \in [0 .. Len(R) + Len(W) -> Int]
  /\ h[0] = 0 /\ h[Len(R) + Len(W)] = Len(e)
  /\ t[0] = 0 /\ t[Len(R) + Len(W)] = owed + Len(e)
  /\ \A i \in 1 .. Len(R) + Len(W) :
       /\ \/ h[i] = h[i - 1]
          \/ h[i] = h[i - 1] + 1 /\ h[i] <= Len(e) /\ e[h[i]] = Kind(R, W, i)
       /\ Counts(R, W, i) => t[i] = t[i - 1] + 1
       /\ ~Counts(R, W, i) => t[i] = t[i - 1]
Settled(e, owed, R, W) == \E h, t : Fits(h, t, e, owed, R, W)

-----------------------------------------------------------------------------
(* The inductive invariant. *)

Phases == {"none", "startup", "auth", "ready", "greeted", "running", "leaving", "detached", "done"}
Attached == {"running", "leaving", "detached"}

Sessions ==
  [phase : Phases, gone : BOOLEAN, woken : BOOLEAN, want : Seq(Messages),
   held : Backends \cup {None}, statements : Seq(Entries), expect : Seq({"1", "3"}),
   pending : Nat, attach : Seq(Backends), relaying : BOOLEAN, busy : BOOLEAN,
   cancel : Backends \cup {None}, open : BOOLEAN, stray : SUBSET ReplyKinds, owed : Int]
Connections ==
  [owner : Clients \cup {None}, broken : BOOLEAN, cut : BOOLEAN,
   status : Statuses, prepared : Seq(Entries),
   wire : Seq(Messages), replies : Seq(Replies), tx : {"I", "T", "E"}, stmts : Views,
   skip : BOOLEAN, foreign : SUBSET BOOLEAN]

\* A session on its own, when N messages were sent.
SessionOK(c, s, N) ==
  /\ s \in Sessions
  /\ SetOK(s.statements) /\ Mine(s.statements, c)
  /\ s.attach = IF s.held = None THEN <<>> ELSE <<s.held>>
  /\ s.cancel # None => s.cancel = s.held
  /\ s.held # None => s.phase \in Attached
  /\ s.busy => s.phase = "running" /\ s.want # <<>>
  /\ Len(s.want) <= 1 /\ s.pending + Len(s.want) <= N
  /\ \A i \in DOMAIN s.want : s.want[i].by = c /\ ~s.want[i].inj

\* A connection on its own.
ConnectionOK(b, r, D) ==
  /\ r \in Connections /\ SetOK(r.prepared)
  /\ r.cut => r.wire = <<>>
  /\ b \notin D /\ ~r.cut => Runs(r.wire, r.stmts, View(r.prepared))
  /\ TRUE \in r.foreign => b \in D

\* The two together.
LinkOK(c, s, b, r) ==
  /\ s.held = b <=> r.owner = c
  /\ s.held = b /\ s.phase = "detached" => r.cut /\ r.broken

\* The same when not all that D names have drifted: no client has pipelined, and
\* there is one unit at a time.
Spared(D) == ~(Clients \subseteq D)
HasReady(r) == \E i \in DOMAIN r.replies : r.replies[i].k = "Z"
HasEnd(r) == HasReady(r) \/ \E i \in DOMAIN r.wire : EndsTransactionUnit(r.wire[i])

UnitSession(c, s, D) ==
  /\ s.want # <<>> => (s.open <=> EndsTransactionUnit(s.want[1]))
  /\ s.pending <= 1 /\ (s.pending = 1 => s.open /\ s.want = <<>>)
  /\ s.held = None => s.pending = 0
  /\ c \notin D /\ s.held = None => s.expect = <<>> /\ s.owed = 0

UnitConnection(b, r) ==
  /\ r.owner = None => r.wire = <<>> /\ r.replies = <<>> /\ (~r.cut => r.tx = "I" /\ ~r.skip)
  /\ \A i \in DOMAIN r.wire : r.wire[i].by = r.owner
  /\ \A i \in DOMAIN r.wire : EndsTransactionUnit(r.wire[i]) => i = Len(r.wire)
  /\ \A i \in DOMAIN r.replies : r.replies[i].by = r.owner
  /\ \A i \in DOMAIN r.replies : r.replies[i].k = "Z" =>
       i = Len(r.replies) /\ r.wire = <<>> /\ r.tx = r.replies[i].tx /\ ~r.skip

UnitLink(c, s, b, r, D) ==
  s.held = b =>
    /\ HasEnd(r) => s.open /\ s.want = <<>>
    /\ c \notin D /\ (~r.cut \/ HasReady(r)) => Settled(s.expect, s.owed, r.replies, r.wire)

SessionInv(c, s, D, N) == SessionOK(c, s, N) /\ (Spared(D) => UnitSession(c, s, D))
ConnectionInv(b, r, D) == ConnectionOK(b, r, D) /\ (Spared(D) => UnitConnection(b, r))
LinkInv(c, s, b, r, D) == LinkOK(c, s, b, r) /\ (Spared(D) => UnitLink(c, s, b, r, D))

Globals ==
  /\ close \in {"no", "stopped", "woken", "done"} /\ drift \subseteq Clients \cup Backends
  /\ sent \in Nat /\ sent <= MaxMessages /\ deaths \in Nat

Holding ==
  /\ Globals
  /\ sess \in [Clients -> Sessions] /\ back \in [Backends -> Connections]
  /\ \A c \in Clients : SessionInv(c, sess[c], drift, sent)
  /\ \A b \in Backends : ConnectionInv(b, back[b], drift)
  /\ \A c \in Clients, b \in Backends : LinkInv(c, sess[c], b, back[b], drift)

\* Nobody else's session is about this connection.
LEMMA Apart ==
  ASSUME NEW c, NEW s, NEW b, NEW r, NEW D, s.held # b, r.owner # c
  PROVE  LinkInv(c, s, b, r, D)
BY DEF LinkInv, LinkOK, UnitLink

\* What drifts or is sent elsewhere does not matter.
LEMMA Later ==
  ASSUME NEW D, NEW E, NEW M \in Nat, NEW N \in Nat, M <= N, Spared(E) => Spared(D)
  PROVE  /\ \A c, s : SessionInv(c, s, D, M) /\ (c \in D => c \in E) => SessionInv(c, s, E, N)
         /\ \A b, r : ConnectionInv(b, r, D) /\ (b \in D => b \in E) => ConnectionInv(b, r, E)
         /\ \A c, s, b, r : LinkInv(c, s, b, r, D) /\ (c \in D => c \in E) => LinkInv(c, s, b, r, E)
<1>1. ASSUME NEW c, NEW s, SessionInv(c, s, D, M), c \in D => c \in E
      PROVE  SessionInv(c, s, E, N)
  <2>1. SessionOK(c, s, N)
    <3>1. SessionOK(c, s, M)
      BY <1>1 DEF SessionInv
    <3>2. s.pending + Len(s.want) <= N
      <4>1. s.pending \in Nat /\ s.want \in Seq(Messages) /\ s.pending + Len(s.want) <= M
        BY <3>1 DEF SessionOK, Sessions
      <4>2. Len(s.want) \in Nat
        BY <4>1, SeqDomain
      <4>3. QED
        BY <4>1, <4>2
    <3>3. QED
      BY <3>1, <3>2 DEF SessionOK
  <2>2. Spared(E) => UnitSession(c, s, E)
    BY <1>1 DEF SessionInv, UnitSession
  <2>3. QED
    BY <2>1, <2>2 DEF SessionInv
<1>2. \A b, r : ConnectionInv(b, r, D) /\ (b \in D => b \in E) => ConnectionInv(b, r, E)
  BY DEF ConnectionInv, ConnectionOK, UnitConnection
<1>3. \A c, s, b, r : LinkInv(c, s, b, r, D) /\ (c \in D => c \in E) => LinkInv(c, s, b, r, E)
  BY DEF LinkInv, UnitLink
<1>4. QED
  BY <1>1, <1>2, <1>3

\* A step of one session and the connection it holds, takes or lets go.
LEMMA StepKeeps ==
  ASSUME Holding, Globals', NEW c \in Clients, NEW b \in Backends, NEW s, NEW r,
         sess' = [sess EXCEPT ![c] = s], back' = [back EXCEPT ![b] = r],
         drift \ {b} \subseteq drift', sent <= sent',
         sess[c].held = b \/ (sess[c].held = None /\ back[b].owner = None),
         s.held \in {b, None}, r.owner \in {c, None},
         SessionInv(c, s, drift', sent'), ConnectionInv(b, r, drift'), LinkInv(c, s, b, r, drift')
  PROVE  Holding'
<1>0. /\ sent \in Nat /\ sent' \in Nat /\ sess \in [Clients -> Sessions] /\ back \in [Backends -> Connections]
      /\ b \notin Clients /\ None \notin Clients /\ None \notin Backends
  BY Constants DEF Holding, Globals
<1>1. s \in Sessions /\ r \in Connections
  BY DEF SessionInv, SessionOK, ConnectionInv, ConnectionOK
<1>2. /\ sess' \in [Clients -> Sessions] /\ back' \in [Backends -> Connections]
      /\ sess'[c] = s /\ back'[b] = r
      /\ \A d \in Clients : d # c => sess'[d] = sess[d]
      /\ \A e \in Backends : e # b => back'[e] = back[e]
  BY <1>0, <1>1
<1>3. /\ \A d \in Clients : d \in drift => d \in drift'
      /\ \A e \in Backends : e # b /\ e \in drift => e \in drift'
      /\ Spared(drift') => Spared(drift)
  BY <1>0 DEF Spared
<1>4. /\ \A d \in Clients : SessionInv(d, sess[d], drift, sent)
      /\ \A e \in Backends : ConnectionInv(e, back[e], drift)
      /\ \A d \in Clients, e \in Backends : LinkInv(d, sess[d], e, back[e], drift)
      /\ \A d \in Clients, e \in Backends : sess[d].held = e <=> back[e].owner = d
  BY DEF Holding, LinkInv, LinkOK
<1>5. ASSUME NEW d \in Clients PROVE SessionInv(d, sess'[d], drift', sent')
  <2>1. CASE d = c
    BY <1>2, <2>1
  <2>2. CASE d # c
    <3>1. SessionInv(d, sess[d], drift', sent')
      BY <1>0, <1>3, <1>4, Later
    <3>2. QED
      BY <1>2, <2>2, <3>1
  <2>3. QED
    BY <2>1, <2>2
<1>6. ASSUME NEW e \in Backends PROVE ConnectionInv(e, back'[e], drift')
  <2>1. CASE e = b
    BY <1>2, <2>1
  <2>2. CASE e # b
    <3>1. ConnectionInv(e, back[e], drift')
      BY <1>0, <1>3, <1>4, <2>2, Later
    <3>2. QED
      BY <1>2, <2>2, <3>1
  <2>3. QED
    BY <2>1, <2>2
<1>7. ASSUME NEW d \in Clients, NEW e \in Backends
      PROVE  LinkInv(d, sess'[d], e, back'[e], drift')
  <2>1. CASE d = c /\ e = b
    BY <1>2, <2>1
  <2>2. CASE d # c /\ e # b
    <3>1. LinkInv(d, sess[d], e, back[e], drift')
      BY <1>0, <1>3, <1>4, Later
    <3>2. QED
      BY <1>2, <2>2, <3>1
  <2>3. CASE d # c /\ e = b
    <3>1. sess[d].held # b
      BY <1>0, <1>4, <2>3
    <3>2. r.owner # d
      BY <1>0, <2>3
    <3>3. LinkInv(d, sess[d], b, r, drift')
      BY <3>1, <3>2, Apart
    <3>4. QED
      BY <1>2, <2>3, <3>3
  <2>4. CASE d = c /\ e # b
    <3>1. s.held # e
      BY <1>0, <2>4
    <3>2. back[e].owner # c
      BY <1>0, <1>4, <2>4
    <3>3. LinkInv(c, s, e, back[e], drift')
      BY <3>1, <3>2, Apart
    <3>4. QED
      BY <1>2, <2>4, <3>3
  <2>5. QED
    BY <2>1, <2>2, <2>3, <2>4
<1>8. QED
  BY <1>2, <1>5, <1>6, <1>7 DEF Holding

\* A step of a session alone.
LEMMA SessionKeeps ==
  ASSUME Holding, Globals', NEW c \in Clients, NEW s,
         sess' = [sess EXCEPT ![c] = s], back' = back, drift \subseteq drift', sent <= sent',
         s.held = sess[c].held, SessionInv(c, s, drift', sent'),
         \A b \in Backends : sess[c].held = b => LinkInv(c, s, b, back[b], drift')
  PROVE  Holding'
<1>0. /\ sent \in Nat /\ sent' \in Nat /\ sess \in [Clients -> Sessions] /\ back \in [Backends -> Connections]
  BY DEF Holding, Globals
<1>3. Spared(drift') => Spared(drift)
  BY DEF Spared
<1>1. s \in Sessions
  BY DEF SessionInv, SessionOK
<1>2. /\ sess' \in [Clients -> Sessions] /\ sess'[c] = s
      /\ \A d \in Clients : d # c => sess'[d] = sess[d]
  BY <1>0, <1>1
<1>4. /\ \A d \in Clients : SessionInv(d, sess[d], drift, sent)
      /\ \A e \in Backends : ConnectionInv(e, back[e], drift)
      /\ \A d \in Clients, e \in Backends : LinkInv(d, sess[d], e, back[e], drift)
      /\ \A d \in Clients, e \in Backends : sess[d].held = e <=> back[e].owner = d
  BY DEF Holding, LinkInv, LinkOK
<1>5. ASSUME NEW d \in Clients PROVE SessionInv(d, sess'[d], drift', sent')
  <2>1. CASE d = c
    BY <1>2, <2>1
  <2>2. CASE d # c
    <3>1. SessionInv(d, sess[d], drift', sent')
      BY <1>0, <1>3, <1>4, Later
    <3>2. QED
      BY <1>2, <2>2, <3>1
  <2>3. QED
    BY <2>1, <2>2
<1>6. ASSUME NEW e \in Backends PROVE ConnectionInv(e, back[e], drift')
  BY <1>0, <1>3, <1>4, Later
<1>7. ASSUME NEW d \in Clients, NEW e \in Backends
      PROVE  LinkInv(d, sess'[d], e, back'[e], drift')
  <2>1. CASE d # c
    <3>1. LinkInv(d, sess[d], e, back[e], drift')
      BY <1>0, <1>3, <1>4, Later
    <3>2. QED
      BY <1>2, <2>1, <3>1
  <2>2. CASE d = c /\ sess[c].held = e
    BY <1>2, <2>2
  <2>3. CASE d = c /\ sess[c].held # e
    <3>1. s.held # e /\ back[e].owner # c
      BY <1>4, <2>3
    <3>2. LinkInv(c, s, e, back[e], drift')
      BY <3>1, Apart
    <3>3. QED
      BY <1>2, <2>3, <3>2
  <2>4. QED
    BY <2>1, <2>2, <2>3
<1>8. QED
  BY <1>0, <1>2, <1>5, <1>6, <1>7 DEF Holding

\* A step of a connection alone.
LEMMA ConnectionKeeps ==
  ASSUME Holding, Globals', NEW b \in Backends, NEW r,
         sess' = sess, back' = [back EXCEPT ![b] = r], drift \subseteq drift', sent' = sent,
         r.owner = back[b].owner, ConnectionInv(b, r, drift'),
         \A c \in Clients : back[b].owner = c /\ sess[c].held = b => LinkInv(c, sess[c], b, r, drift')
  PROVE  Holding'
<1>0. /\ sent \in Nat /\ sess \in [Clients -> Sessions] /\ back \in [Backends -> Connections]
      /\ sent <= sent' /\ sent' \in Nat /\ (Spared(drift') => Spared(drift))
  BY DEF Holding, Globals, Spared
<1>1. r \in Connections
  BY DEF ConnectionInv, ConnectionOK
<1>2. /\ back' \in [Backends -> Connections] /\ back'[b] = r
      /\ \A e \in Backends : e # b => back'[e] = back[e]
  BY <1>0, <1>1
<1>4. /\ \A d \in Clients : SessionInv(d, sess[d], drift, sent)
      /\ \A e \in Backends : ConnectionInv(e, back[e], drift)
      /\ \A d \in Clients, e \in Backends : LinkInv(d, sess[d], e, back[e], drift)
      /\ \A d \in Clients, e \in Backends : sess[d].held = e <=> back[e].owner = d
  BY DEF Holding, LinkInv, LinkOK
<1>5. ASSUME NEW d \in Clients PROVE SessionInv(d, sess[d], drift', sent')
  BY <1>0, <1>4, Later
<1>6. ASSUME NEW e \in Backends PROVE ConnectionInv(e, back'[e], drift')
  <2>1. CASE e = b
    BY <1>2, <2>1
  <2>2. CASE e # b
    <3>1. ConnectionInv(e, back[e], drift')
      BY <1>0, <1>4, Later
    <3>2. QED
      BY <1>2, <2>2, <3>1
  <2>3. QED
    BY <2>1, <2>2
<1>7. ASSUME NEW d \in Clients, NEW e \in Backends
      PROVE  LinkInv(d, sess[d], e, back'[e], drift')
  <2>1. CASE e # b
    <3>1. LinkInv(d, sess[d], e, back[e], drift')
      BY <1>0, <1>4, Later
    <3>2. QED
      BY <1>2, <2>1, <3>1
  <2>2. CASE e = b /\ sess[d].held = b
    BY <1>2, <1>4, <2>2
  <2>3. CASE e = b /\ sess[d].held # b
    <3>1. r.owner # d
      BY <1>4, <2>3
    <3>2. LinkInv(d, sess[d], b, r, drift')
      BY <2>3, <3>1, Apart
    <3>3. QED
      BY <1>2, <2>3, <3>2
  <2>4. QED
    BY <2>1, <2>2, <2>3
<1>8. QED
  BY <1>0, <1>2, <1>5, <1>6, <1>7 DEF Holding

-----------------------------------------------------------------------------
(* Initial states. *)

LEMMA NoStatements ==
  SetOK(<<>>) /\ (\A c : Mine(<<>>, c)) /\ View(<<>>) = [n \in Names |-> None] /\ View(<<>>) \in Views
<1>1. <<>> \in Seq(Entries) /\ Len(<<>>) = 0 /\ DOMAIN <<>> = {}
  BY EmptySeq
<1>2. QED
  BY <1>1, Constants DEF SetOK, Unique, Mine, View, Has, Views

LEMMA OneStatement ==
  ASSUME NEW n \in Names, NEW a \in Authors
  PROVE  LET t == <<[n |-> n, by |-> a]>>
         IN /\ SetOK(t) /\ Mine(t, a)
            /\ View(t) = [x \in Names |-> IF x = n THEN a ELSE None]
<1> DEFINE t == <<[n |-> n, by |-> a]>>
<1>1. Len(<<>>) = 0
  BY EmptySeq
<1>2. t = Append(<<>>, [n |-> n, by |-> a])
  OBVIOUS
<1> HIDE DEF t
<1>3. ~Has(<<>>, n) /\ Len(<<>>) < Limit
  BY <1>1, Constants DEF Has
<1>4. SetOK(t) /\ View(t) = [View(<<>>) EXCEPT ![n] = a] /\ Mine(t, a)
  BY <1>2, <1>3, NoStatements, EntryAdded
<1>5. View(t) = [x \in Names |-> IF x = n THEN a ELSE None]
  BY <1>4, NoStatements
<1>6. QED
  BY <1>4, <1>5 DEF t

\* A session with nothing but what it has prepared, if it is there to hold it.
AtRest(s) ==
  /\ s \in Sessions /\ s.held = None /\ s.want = <<>> /\ s.expect = <<>> /\ s.pending = 0
  /\ s.attach = <<>> /\ s.cancel = None /\ ~s.busy /\ s.owed = 0

LEMMA IdleSession ==
  ASSUME NEW c, NEW s, AtRest(s), SetOK(s.statements), Mine(s.statements, c), NEW D, NEW N \in Nat
  PROVE  SessionInv(c, s, D, N)
<1>1. Len(<<>>) = 0 /\ DOMAIN <<>> = {}
  BY EmptySeq
<1>2. SessionOK(c, s, N)
  BY <1>1 DEF SessionOK, AtRest
<1>3. UnitSession(c, s, D)
  BY DEF UnitSession, AtRest
<1>4. QED
  BY <1>2, <1>3 DEF SessionInv

LEMMA PlainSession ==
  ASSUME NEW p \in Phases, NEW t \in Seq(Entries), NEW s,
         s = [phase |-> p, gone |-> FALSE, woken |-> FALSE, want |-> <<>>, held |-> None,
              statements |-> t, expect |-> <<>>, pending |-> 0, attach |-> <<>>,
              relaying |-> TRUE, busy |-> FALSE, cancel |-> None, open |-> FALSE, stray |-> {}, owed |-> 0]
  PROVE  AtRest(s) /\ s.statements = t /\ s.phase = p
<1>1. <<>> \in Seq(Messages) /\ <<>> \in Seq({"1", "3"}) /\ <<>> \in Seq(Backends)
  OBVIOUS
<1>2. s \in Sessions
  BY <1>1 DEF Sessions
<1>3. QED
  BY <1>2 DEF AtRest

LEMMA FreshSession ==
  ASSUME NEW p \in Phases
  PROVE  /\ \A t \in Seq(Entries) :
              LET s == [NewSession EXCEPT !.phase = p, !.statements = t]
              IN AtRest(s) /\ s.statements = t /\ s.phase = p
         /\ LET s == [NewSession EXCEPT !.phase = p]
            IN AtRest(s) /\ s.statements = <<>> /\ s.phase = p
<1>1. ASSUME NEW t \in Seq(Entries)
      PROVE  LET s == [NewSession EXCEPT !.phase = p, !.statements = t]
             IN AtRest(s) /\ s.statements = t /\ s.phase = p
  <2>0. PICK s : s = [NewSession EXCEPT !.phase = p, !.statements = t]
    OBVIOUS
  <2>1. s = [phase |-> p, gone |-> FALSE, woken |-> FALSE, want |-> <<>>, held |-> None,
            statements |-> t, expect |-> <<>>, pending |-> 0, attach |-> <<>>,
            relaying |-> TRUE, busy |-> FALSE, cancel |-> None, open |-> FALSE, stray |-> {}, owed |-> 0]
    BY <2>0 DEF NewSession
  <2>2. AtRest(s) /\ s.statements = t /\ s.phase = p
    BY <2>1, PlainSession
  <2>3. QED
    BY <2>0, <2>2
<1>2. <<>> \in Seq(Entries)
  OBVIOUS
<1>0. PICK s : s = [NewSession EXCEPT !.phase = p]
  OBVIOUS
<1>3. s = [phase |-> p, gone |-> FALSE, woken |-> FALSE, want |-> <<>>, held |-> None,
          statements |-> <<>>, expect |-> <<>>, pending |-> 0, attach |-> <<>>,
          relaying |-> TRUE, busy |-> FALSE, cancel |-> None, open |-> FALSE, stray |-> {}, owed |-> 0]
  BY <1>0 DEF NewSession
<1>4. AtRest(s) /\ s.statements = <<>> /\ s.phase = p
  BY <1>2, <1>3, PlainSession
<1>5. QED
  BY <1>0, <1>1, <1>4

LEMMA NewSessionIs == AtRest(NewSession) /\ NewSession.statements = <<>> /\ NewSession.phase = "none"
<1>1. "none" \in Phases /\ <<>> \in Seq(Entries)
  BY DEF Phases
<1>2. QED
  BY <1>1, PlainSession, ZenonT(30) DEF NewSession

LEMMA KnowsIs ==
  ASSUME NEW c \in Clients, NEW n \in Names
  PROVE  AtRest(Knows(c, n)) /\ SetOK(Knows(c, n).statements) /\ Mine(Knows(c, n).statements, c)
<1>1. PICK t : t = <<[n |-> n, by |-> c]>>
  OBVIOUS
<1>2. SetOK(t) /\ Mine(t, c)
  BY <1>1, OneStatement DEF Authors
<1>3. t \in Seq(Entries)
  BY <1>2 DEF SetOK
<1>4. "running" \in Phases
  BY DEF Phases
<1>5. AtRest(Knows(c, n)) /\ Knows(c, n).statements = t
  BY <1>1, <1>3, <1>4, FreshSession DEF Knows
<1>6. QED
  BY <1>2, <1>5

LEMMA CleanConnection ==
  ASSUME NEW b, NEW r, r \in Connections, SetOK(r.prepared), r.stmts = View(r.prepared),
         r.owner = None, ~r.cut, r.wire = <<>>, r.replies = <<>>, r.tx = "I", ~r.skip, r.foreign = {},
         NEW D
  PROVE  ConnectionInv(b, r, D)
<1>1. DOMAIN <<>> = {}
  OBVIOUS
<1>2. Runs(r.wire, r.stmts, View(r.prepared))
  <2>1. r.stmts \in Views
    BY DEF Connections
  <2>2. QED
    BY <2>1, EmptyRun
<1>3. QED
  BY <1>1, <1>2 DEF ConnectionInv, ConnectionOK, UnitConnection

LEMMA FreshConnection ==
  ASSUME NEW b, NEW D
  PROVE  ConnectionInv(b, NewBackend, D) /\ NewBackend.owner = None
<1>1. PICK r : r = NewBackend
  OBVIOUS
<1>2. [n \in Names |-> None] \in Views
  BY DEF Views
<1>3. /\ r \in Connections /\ r.prepared = <<>> /\ r.stmts = [n \in Names |-> None]
      /\ r.owner = None /\ ~r.cut /\ r.wire = <<>> /\ r.replies = <<>> /\ r.tx = "I" /\ ~r.skip
      /\ r.foreign = {}
  BY <1>1, <1>2 DEF NewBackend, Connections, Statuses
<1>4. ConnectionInv(b, r, D)
  BY <1>3, NoStatements, CleanConnection
<1>5. QED
  BY <1>1, <1>3, <1>4

LEMMA LeftConnection ==
  ASSUME NEW b, NEW D, NEW n \in Names
  PROVE  ConnectionInv(b, Left(n), D) /\ Left(n).owner = None
<1>1. PICK r : r = Left(n)
  OBVIOUS
<1>2. PICK t : t = <<[n |-> n, by |-> Earlier]>>
  OBVIOUS
<1>3. SetOK(t) /\ View(t) = [x \in Names |-> IF x = n THEN Earlier ELSE None]
  BY <1>2, OneStatement DEF Authors
<1>4. PICK v : v = [x \in Names |-> IF x = n THEN Earlier ELSE None]
  OBVIOUS
<1>5. v \in Views /\ v = [[x \in Names |-> None] EXCEPT ![n] = Earlier] /\ t \in Seq(Entries)
  BY <1>3, <1>4 DEF Views, Authors, SetOK
<1>6. r = [NewBackend EXCEPT !.prepared = t, !.stmts = v]
  BY <1>1, <1>2, <1>5 DEF Left, NewBackend
<1> DEFINE q == [owner |-> None, broken |-> FALSE, cut |-> FALSE, status |-> "I", prepared |-> t,
                 wire |-> <<>>, replies |-> <<>>, tx |-> "I", stmts |-> v, skip |-> FALSE, foreign |-> {}]
<1>a. r = q
  BY <1>6 DEF NewBackend
<1>b. <<>> \in Seq(Messages) /\ <<>> \in Seq(Replies)
  OBVIOUS
<1>7. /\ r \in Connections /\ r.prepared = t /\ r.stmts = v
      /\ r.owner = None /\ ~r.cut /\ r.wire = <<>> /\ r.replies = <<>> /\ r.tx = "I" /\ ~r.skip
      /\ r.foreign = {}
  BY <1>5, <1>a, <1>b DEF Connections, Statuses
<1>8. ConnectionInv(b, r, D)
  BY <1>3, <1>4, <1>7, CleanConnection
<1>9. QED
  BY <1>1, <1>7, <1>8

LEMMA HoldingInit == ProxyInit => Holding
<1> SUFFICES ASSUME ProxyInit PROVE Holding
  OBVIOUS
<1>1. Globals /\ sent = 0 /\ drift = {}
  BY Constants DEF ProxyInit, Globals
<1>2. ASSUME NEW c \in Clients, sess[c] = NewSession
      PROVE  AtRest(sess[c]) /\ SessionInv(c, sess[c], drift, sent)
  BY <1>1, <1>2, NewSessionIs, NoStatements, IdleSession
<1>3. ASSUME NEW c \in Clients, NEW n \in Names, sess[c] = Knows(c, n)
      PROVE  AtRest(sess[c]) /\ SessionInv(c, sess[c], drift, sent)
  BY <1>1, <1>3, KnowsIs, IdleSession
<1>4. CASE sess = [c \in Clients |-> NewSession] /\ back = [b \in Backends |-> NewBackend]
  <2>1. \A c \in Clients : AtRest(sess[c]) /\ SessionInv(c, sess[c], drift, sent)
    BY <1>2, <1>4
  <2>2. \A b \in Backends : back[b].owner = None /\ ConnectionInv(b, back[b], drift)
    BY <1>4, FreshConnection
  <2>3. sess \in [Clients -> Sessions]
    BY <1>4, <2>1 DEF AtRest
  <2>4. back \in [Backends -> Connections]
    BY <1>4, <2>2 DEF ConnectionInv, ConnectionOK
  <2>5. QED
    BY <1>1, <2>1, <2>2, <2>3, <2>4, Apart, Constants DEF Holding, AtRest
<1>5. ASSUME NEW n \in Leftover,
             sess = [c \in Clients |-> IF c \in Veterans THEN Knows(c, n) ELSE NewSession],
             back = [b \in Backends |-> Left(n)]
      PROVE  Holding
  <2>0. n \in Names
    BY ProxyAssumption
  <2>1. \A c \in Clients : AtRest(sess[c]) /\ SessionInv(c, sess[c], drift, sent)
    BY <1>2, <1>3, <1>5, <2>0
  <2>2. \A b \in Backends : back[b].owner = None /\ ConnectionInv(b, back[b], drift)
    BY <1>5, <2>0, LeftConnection
  <2>3. sess \in [Clients -> Sessions]
    BY <1>5, <2>1 DEF AtRest
  <2>4. back \in [Backends -> Connections]
    BY <1>5, <2>2 DEF ConnectionInv, ConnectionOK
  <2>5. QED
    BY <1>1, <2>1, <2>2, <2>3, <2>4, Apart, Constants DEF Holding, AtRest
<1>6. QED
  BY <1>4, <1>5 DEF ProxyInit

-----------------------------------------------------------------------------
(* Steps that leave alone what the invariant is about. *)

Same(s, x) ==
  /\ s.held = x.held /\ s.statements = x.statements /\ s.expect = x.expect
  /\ s.pending = x.pending /\ s.attach = x.attach /\ s.owed = x.owed /\ s.want = x.want
  /\ s.stray = x.stray /\ (s.open <=> x.open)

LEMMA PhaseSet ==
  ASSUME NEW x \in Sessions, NEW p \in Phases, NEW s, s = [x EXCEPT !.phase = p]
  PROVE  /\ s \in Sessions /\ Same(s, x) /\ s.phase = p /\ s.cancel = x.cancel
         /\ (s.busy <=> x.busy)
BY DEF Sessions, Same

LEMMA GoneSet ==
  ASSUME NEW x \in Sessions, NEW v \in BOOLEAN, NEW s, s = [x EXCEPT !.gone = v]
  PROVE  /\ s \in Sessions /\ Same(s, x) /\ s.phase = x.phase /\ s.cancel = x.cancel
         /\ (s.busy <=> x.busy)
BY DEF Sessions, Same

LEMMA WokenSet ==
  ASSUME NEW x \in Sessions, NEW v \in BOOLEAN, NEW s, s = [x EXCEPT !.woken = v]
  PROVE  /\ s \in Sessions /\ Same(s, x) /\ s.phase = x.phase /\ s.cancel = x.cancel
         /\ (s.busy <=> x.busy)
BY DEF Sessions, Same

LEMMA RelayingSet ==
  ASSUME NEW x \in Sessions, NEW v \in BOOLEAN, NEW s, s = [x EXCEPT !.relaying = v]
  PROVE  /\ s \in Sessions /\ Same(s, x) /\ s.phase = x.phase /\ s.cancel = x.cancel
         /\ (s.busy <=> x.busy)
BY DEF Sessions, Same

LEMMA CancelSet ==
  ASSUME NEW x \in Sessions, NEW v \in Backends \cup {None}, NEW s, s = [x EXCEPT !.cancel = v]
  PROVE  /\ s \in Sessions /\ Same(s, x) /\ s.phase = x.phase /\ s.cancel = v
         /\ (s.busy <=> x.busy)
BY DEF Sessions, Same

LEMMA BusySet ==
  ASSUME NEW x \in Sessions, NEW v \in BOOLEAN, NEW s, s = [x EXCEPT !.busy = v]
  PROVE  s \in Sessions /\ Same(s, x) /\ s.phase = x.phase /\ s.cancel = x.cancel /\ (s.busy <=> v)
BY DEF Sessions, Same

\* A session may move to another phase as long as the hold allows it.
LEMMA QuietSession ==
  ASSUME NEW c, NEW x, NEW s \in Sessions, NEW D, NEW N, SessionInv(c, x, D, N), Same(s, x),
         s.cancel # None => s.cancel = s.held, s.held # None => s.phase \in Attached,
         s.busy => s.phase = "running" /\ s.want # <<>>
  PROVE  /\ SessionInv(c, s, D, N)
         /\ \A b, r : LinkInv(c, x, b, r, D) /\ (s.phase = "detached" => x.phase = "detached")
              => LinkInv(c, s, b, r, D)
<1>1. SessionOK(c, s, N)
  BY DEF SessionInv, SessionOK, Same
<1>2. Spared(D) => UnitSession(c, s, D)
  BY DEF SessionInv, UnitSession, Same
<1>3. ASSUME NEW b, NEW r, LinkInv(c, x, b, r, D), s.phase = "detached" => x.phase = "detached"
      PROVE  LinkInv(c, s, b, r, D)
  <2>1. LinkOK(c, s, b, r)
    BY <1>3 DEF LinkInv, LinkOK, Same
  <2>2. Spared(D) => UnitLink(c, s, b, r, D)
    BY <1>3 DEF LinkInv, UnitLink, Same
  <2>3. QED
    BY <2>1, <2>2 DEF LinkInv
<1>4. QED
  BY <1>1, <1>2, <1>3 DEF SessionInv

LEMMA QuietStep ==
  ASSUME Holding, Globals', NEW c \in Clients, NEW s \in Sessions, Same(s, sess[c]),
         s.cancel # None => s.cancel = s.held, s.held # None => s.phase \in Attached,
         s.busy => s.phase = "running" /\ s.want # <<>>,
         s.phase = "detached" => sess[c].phase = "detached",
         sess' = [sess EXCEPT ![c] = s], back' = back, drift' = drift, sent' = sent
  PROVE  Holding'
<1>1. /\ SessionInv(c, sess[c], drift, sent) /\ sent \in Nat
      /\ \A b \in Backends : LinkInv(c, sess[c], b, back[b], drift)
  BY DEF Holding, Globals
<1>2. SessionInv(c, s, drift, sent)
  BY <1>1, QuietSession
<1>3. \A b \in Backends : LinkInv(c, s, b, back[b], drift)
  BY <1>1, QuietSession
<1>4. s.held = sess[c].held /\ sent <= sent'
  BY <1>1 DEF Same
<1>5. QED
  BY <1>1, <1>2, <1>3, <1>4, SessionKeeps

\* What the invariant says of one session.
LEMMA OfSession ==
  ASSUME Holding, NEW c \in Clients
  PROVE  /\ sess[c] \in Sessions /\ sess \in [Clients -> Sessions]
         /\ SessionInv(c, sess[c], drift, sent) /\ SessionOK(c, sess[c], sent)
         /\ (sess[c].cancel # None => sess[c].cancel = sess[c].held)
         /\ (sess[c].held # None => sess[c].phase \in Attached)
         /\ (sess[c].busy => sess[c].phase = "running" /\ sess[c].want # <<>>)
         /\ sent \in Nat /\ sess[c].held \in Backends \cup {None}
BY DEF Holding, Globals, SessionInv, SessionOK, Sessions

LEMMA GlobalsKept ==
  ASSUME Globals, close' \in {"no", "stopped", "woken", "done"}, drift' = drift, count' = count
  PROVE  Globals' /\ sent' = sent /\ deaths' = deaths
BY DEF Globals, count

\* The handshake, and the client's departure.
LEMMA PhaseStep ==
  ASSUME Holding, NEW c \in Clients, NEW p \in Phases, ~sess[c].busy,
         sess[c].held # None => p \in Attached, p = "detached" => sess[c].phase = "detached",
         sess' = [sess EXCEPT ![c] = [sess[c] EXCEPT !.phase = p]],
         UNCHANGED <<back, close, drift, count>>
  PROVE  Holding'
<1>1. Globals' /\ sent' = sent
  BY GlobalsKept DEF Holding, Globals
<1>2. PICK s : s = [sess[c] EXCEPT !.phase = p]
  OBVIOUS
<1>3. /\ s \in Sessions /\ Same(s, sess[c]) /\ s.phase = p /\ s.cancel = sess[c].cancel
      /\ ~s.busy
  BY <1>2, OfSession, PhaseSet
<1>4. /\ s.cancel # None => s.cancel = s.held
      /\ s.held # None => s.phase \in Attached
      /\ s.phase = "detached" => sess[c].phase = "detached"
  BY <1>3, OfSession DEF Same
<1>5. sess' = [sess EXCEPT ![c] = s]
  BY <1>2
<1>6. QED
  BY <1>1, <1>3, <1>4, <1>5, QuietStep

LEMMA HandshakeKeeps ==
  ASSUME Holding, NEW c \in Clients,
         Accept(c) \/ StartupPacket(c) \/ Authenticate(c) \/ Ready(c) \/ Register(c)
  PROVE  Holding'
<1>1. /\ sess[c].held # None => sess[c].phase \in Attached
      /\ sess[c].busy => sess[c].phase = "running"
  BY OfSession
<1>2. CASE Accept(c)
  BY <1>1, <1>2, PhaseStep DEF Accept, Set, Phases, Attached
<1>3. CASE StartupPacket(c) \/ Authenticate(c) \/ Ready(c)
  BY <1>1, <1>3, PhaseStep DEF StartupPacket, Authenticate, Ready, Step, Set, Phases, Attached
<1>4. CASE Register(c)
  BY <1>1, <1>4, PhaseStep DEF Register, Set, Phases, Attached
<1>5. QED
  BY <1>2, <1>3, <1>4

LEMMA FlagsKeep ==
  ASSUME Holding, NEW c \in Clients,
         Leave(c) \/ ForwardLocks(c) \/ RelayEnds(c) \/ Cancel(c) \/ CancelSent(c)
  PROVE  Holding'
<1>0. /\ sess[c] \in Sessions /\ (sess[c].cancel # None => sess[c].cancel = sess[c].held)
      /\ (sess[c].held # None => sess[c].phase \in Attached) /\ sess[c].held \in Backends \cup {None}
      /\ (sess[c].busy => sess[c].phase = "running" /\ sess[c].want # <<>>)
  BY OfSession
<1>1. UNCHANGED <<back, close, drift, count>>
  BY DEF Leave, ForwardLocks, RelayEnds, Cancel, CurrentBackend, CancelSent
<1>2. Globals' /\ sent' = sent
  BY <1>1, GlobalsKept DEF Holding, Globals
<1>3. ASSUME NEW s \in Sessions, Same(s, sess[c]), s.phase = sess[c].phase,
             s.cancel \in {sess[c].cancel, sess[c].held, None}, sess' = [sess EXCEPT ![c] = s],
             s.busy => sess[c].phase = "running" /\ sess[c].want # <<>>
      PROVE  Holding'
  <2>1. /\ s.cancel # None => s.cancel = s.held
        /\ s.busy => s.phase = "running" /\ s.want # <<>>
        /\ s.held # None => s.phase \in Attached
        /\ s.phase = "detached" => sess[c].phase = "detached"
    BY <1>0, <1>3 DEF Same
  <2>2. QED
    BY <1>1, <1>2, <1>3, <2>1, QuietStep
<1>4. CASE Leave(c)
  <2>1. PICK s : s = [sess[c] EXCEPT !.gone = TRUE]
    OBVIOUS
  <2>2. /\ s \in Sessions /\ Same(s, sess[c]) /\ s.phase = sess[c].phase /\ s.cancel = sess[c].cancel
        /\ (s.busy <=> sess[c].busy)
    BY <1>0, <2>1, GoneSet
  <2>3. sess' = [sess EXCEPT ![c] = s]
    BY <1>4, <2>1 DEF Leave, Set
  <2>4. QED
    BY <1>0, <1>3, <2>2, <2>3
<1>5. CASE RelayEnds(c)
  <2>1. PICK s : s = [sess[c] EXCEPT !.relaying = FALSE]
    OBVIOUS
  <2>2. /\ s \in Sessions /\ Same(s, sess[c]) /\ s.phase = sess[c].phase /\ s.cancel = sess[c].cancel
        /\ (s.busy <=> sess[c].busy)
    BY <1>0, <2>1, RelayingSet
  <2>3. sess' = [sess EXCEPT ![c] = s]
    BY <1>5, <2>1 DEF RelayEnds, Set
  <2>4. QED
    BY <1>0, <1>3, <2>2, <2>3
<1>6. CASE Cancel(c)
  <2>1. PICK s : s = [sess[c] EXCEPT !.cancel = sess[c].held]
    OBVIOUS
  <2>2. /\ s \in Sessions /\ Same(s, sess[c]) /\ s.phase = sess[c].phase /\ s.cancel = sess[c].held
        /\ (s.busy <=> sess[c].busy)
    BY <1>0, <2>1, CancelSet
  <2>3. sess' = [sess EXCEPT ![c] = s]
    BY <1>6, <2>1 DEF Cancel, CurrentBackend, Set
  <2>4. QED
    BY <1>0, <1>3, <2>2, <2>3
<1>7. CASE CancelSent(c)
  <2>1. PICK s : s = [sess[c] EXCEPT !.cancel = None]
    OBVIOUS
  <2>2. /\ s \in Sessions /\ Same(s, sess[c]) /\ s.phase = sess[c].phase /\ s.cancel = None
        /\ (s.busy <=> sess[c].busy)
    BY <1>0, <2>1, CancelSet
  <2>3. sess' = [sess EXCEPT ![c] = s]
    BY <1>7, <2>1 DEF CancelSent, Set
  <2>4. QED
    BY <1>0, <1>3, <2>2, <2>3
<1>8. CASE ForwardLocks(c)
  <2>1. PICK s : s = [sess[c] EXCEPT !.busy = TRUE]
    OBVIOUS
  <2>2. s \in Sessions /\ Same(s, sess[c]) /\ s.phase = sess[c].phase /\ s.cancel = sess[c].cancel
    BY <1>0, <2>1, BusySet
  <2>3. /\ sess' = [sess EXCEPT ![c] = s]
        /\ sess[c].phase = "running" /\ sess[c].want # <<>>
    BY <1>8, <2>1 DEF ForwardLocks, Set
  <2>4. QED
    BY <1>0, <1>3, <2>2, <2>3
<1>9. QED
  BY <1>4, <1>5, <1>6, <1>7, <1>8

LEMMA DoneSession ==
  ASSUME NEW c, NEW D, NEW N \in Nat, NEW s, s = [NewSession EXCEPT !.phase = "done"]
  PROVE  s \in Sessions /\ s.held = None /\ SessionInv(c, s, D, N)
<1>1. "done" \in Phases
  BY DEF Phases
<1>2. AtRest(s) /\ s.statements = <<>>
  BY <1>1, FreshSession
<1>3. QED
  BY <1>2, NoStatements, IdleSession DEF AtRest

LEMMA StartupEndsKeeps ==
  ASSUME Holding, NEW c \in Clients, StartupEnds(c)
  PROVE  Holding'
<1>1. Globals' /\ sent' = sent /\ back' = back /\ drift' = drift
  BY GlobalsKept DEF Holding, Globals, StartupEnds
<1>2. sess[c].held = None /\ sent \in Nat
  BY OfSession DEF StartupEnds, Attached
<1>3. PICK s : s = [NewSession EXCEPT !.phase = "done"]
  OBVIOUS
<1>4. s.held = None /\ SessionInv(c, s, drift, sent')
  BY <1>1, <1>2, <1>3, DoneSession
<1>5. sess' = [sess EXCEPT ![c] = s]
  BY <1>3 DEF StartupEnds, Set
<1>6. \A b \in Backends : sess[c].held # b
  BY <1>2, Constants
<1>7. sent <= sent'
  BY <1>1, <1>2
<1>8. QED
  BY <1>1, <1>2, <1>4, <1>5, <1>6, <1>7, SessionKeeps

LEMMA CloseKeeps ==
  ASSUME Holding, CloseStop \/ CloseWake \/ CloseDone
  PROVE  Holding'
<1>1. Globals' /\ sent' = sent /\ back' = back /\ drift' = drift
  BY GlobalsKept DEF Holding, Globals, CloseStop, CloseWake, CloseDone
<1>2. CASE CloseStop \/ CloseDone
  BY <1>1, <1>2 DEF Holding, CloseStop, CloseDone
<1>3. CASE CloseWake
  <2>1. ASSUME NEW c \in Clients
        PROVE  /\ sess'[c] \in Sessions /\ SessionInv(c, sess'[c], drift, sent)
               /\ \A b \in Backends : LinkInv(c, sess'[c], b, back[b], drift)
    <3>1. PICK v \in BOOLEAN : sess'[c] = [sess[c] EXCEPT !.woken = v]
      <4>1. sess'[c] = [sess[c] EXCEPT !.woken = sess[c].woken \/ Registered(c)]
        BY <1>3 DEF CloseWake
      <4>2. QED
        BY <4>1
    <3>2. PICK s : s = [sess[c] EXCEPT !.woken = v]
      OBVIOUS
    <3>3. /\ s \in Sessions /\ Same(s, sess[c]) /\ s.phase = sess[c].phase /\ s.cancel = sess[c].cancel
          /\ (s.busy <=> sess[c].busy)
      BY <3>2, OfSession, WokenSet
    <3>4. /\ s.cancel # None => s.cancel = s.held
          /\ s.busy => s.phase = "running" /\ s.want # <<>>
          /\ s.held # None => s.phase \in Attached
      BY <3>3, OfSession DEF Same
    <3>5. SessionInv(c, s, drift, sent)
      BY <3>3, <3>4, OfSession, QuietSession
    <3>6. \A b \in Backends : LinkInv(c, s, b, back[b], drift)
      <4>1. \A b \in Backends : LinkInv(c, sess[c], b, back[b], drift)
        BY DEF Holding
      <4>2. QED
        BY <3>3, <3>4, <4>1, OfSession, QuietSession
    <3>7. QED
      BY <3>1, <3>2, <3>3, <3>5, <3>6
  <2>2. sess' \in [Clients -> Sessions]
    <3>1. DOMAIN sess' = Clients /\ sess' = [c \in Clients |-> sess'[c]]
      BY <1>3 DEF CloseWake
    <3>2. QED
      BY <2>1, <3>1
  <2>3. QED
    BY <1>1, <2>1, <2>2 DEF Holding
<1>4. QED
  BY <1>2, <1>3

\* The client's next message.
LEMMA SendKeeps ==
  ASSUME Holding, NEW c \in Clients, Send(c)
  PROVE  Holding'
<1> DEFINE x == sess[c]
<1>0. /\ x \in Sessions /\ SessionInv(c, x, drift, sent) /\ SessionOK(c, x, sent) /\ sent \in Nat
      /\ \A b \in Backends : LinkInv(c, x, b, back[b], drift)
  BY OfSession DEF Holding
<1>1. /\ x.phase = "running" /\ x.want = <<>> /\ sent < MaxMessages /\ sent' = sent + 1
      /\ back' = back /\ close' = close /\ deaths' = deaths
      /\ drift' = IF x.open THEN drift \cup Clients ELSE drift
  BY DEF Send
<1>a. /\ Spared(drift') => ~x.open /\ drift' = drift
      /\ drift \subseteq drift' /\ drift' \subseteq drift \cup Clients
  BY <1>1 DEF Spared
<1>2. PICK e \in Menu[c] :
        sess' = [sess EXCEPT ![c] = [sess[c] EXCEPT !.want = <<Msg(e[1], e[2], c, FALSE)>>,
                   !.open = @ \/ EndsTransactionUnit(Msg(e[1], e[2], c, FALSE))]]
  BY DEF Send, Set
<1>3. PICK m : m = Msg(e[1], e[2], c, FALSE)
  OBVIOUS
<1>4. m \in Messages /\ m.by = c /\ ~m.inj
  <2>1. e \in (Ending \X {None}) \cup (Naming \X Names)
    BY ProxyAssumption
  <2>2. \/ e[1] \in Ending /\ e[2] = None
        \/ e[1] \in Naming /\ e[2] \in Names
    BY <2>1
  <2>3. e[1] \in Naming => e[2] \in Names
    BY <2>2 DEF Ending, Query, Naming
  <2>4. QED
    BY <1>3, <2>2, <2>3 DEF Msg, Messages
<1>5. PICK o \in BOOLEAN : o = (x.open \/ EndsTransactionUnit(m))
  <2>1. (x.open \/ EndsTransactionUnit(m)) \in BOOLEAN
    OBVIOUS
  <2>2. QED
    BY <2>1
<1>6. PICK s : s = [x EXCEPT !.want = <<m>>, !.open = o]
  OBVIOUS
<1> HIDE DEF x
<1>7. /\ s \in Sessions /\ s.want = <<m>> /\ (s.open <=> o) /\ s.held = x.held
      /\ s.statements = x.statements /\ s.expect = x.expect /\ s.pending = x.pending
      /\ s.attach = x.attach /\ s.owed = x.owed /\ s.stray = x.stray
      /\ s.phase = x.phase /\ s.cancel = x.cancel /\ (s.busy <=> x.busy)
  <2>1. <<m>> \in Seq(Messages)
    BY <1>4
  <2>2. QED
    BY <1>0, <1>6, <2>1 DEF Sessions
<1>8. Len(<<m>>) = 1 /\ DOMAIN <<m>> = {1} /\ <<m>>[1] = m /\ <<m>> # <<>> /\ Len(<<>>) = 0
  OBVIOUS
<1>9. SessionOK(c, s, sent')
  <2>1. x.pending \in Nat /\ x.pending + 0 <= sent
    BY <1>0, <1>1, <1>8 DEF SessionOK, Sessions
  <2>2. s.pending + 1 <= sent'
    BY <1>0, <1>1, <1>7, <2>1
  <2>3. QED
    BY <1>0, <1>4, <1>7, <1>8, <2>2 DEF SessionOK
<1>10. Spared(drift') => UnitSession(c, s, drift')
  <2>1. ASSUME Spared(drift') PROVE UnitSession(c, s, drift')
    <3>1. UnitSession(c, x, drift') /\ ~x.open
      BY <1>0, <1>a, <2>1 DEF SessionInv
    <3>2. s.pending <= 1 /\ s.pending # 1
      BY <1>7, <3>1 DEF UnitSession
    <3>3. QED
      BY <1>5, <1>7, <1>8, <3>1, <3>2 DEF UnitSession
  <2>2. QED
    BY <2>1
<1>11. ASSUME NEW b \in Backends PROVE LinkInv(c, s, b, back[b], drift')
  <2>1. LinkOK(c, s, b, back[b])
    BY <1>0, <1>7 DEF LinkInv, LinkOK
  <2>2. ASSUME Spared(drift') PROVE UnitLink(c, s, b, back[b], drift')
    <3>1. UnitLink(c, x, b, back[b], drift') /\ ~x.open
      BY <1>0, <1>a, <2>2 DEF LinkInv
    <3>2. QED
      BY <1>7, <3>1 DEF UnitLink
  <2>3. QED
    BY <2>1, <2>2 DEF LinkInv
<1>12. Globals' /\ sent <= sent'
  BY <1>0, <1>1, <1>a, Constants DEF Holding, Globals
<1>13. sess' = [sess EXCEPT ![c] = s]
  BY <1>2, <1>3, <1>5, <1>6 DEF x
<1>14. s.held = sess[c].held
  BY <1>7 DEF x
<1>15. SessionInv(c, s, drift', sent')
  BY <1>9, <1>10 DEF SessionInv
<1>16. QED
  BY <1>1, <1>a, <1>11, <1>12, <1>13, <1>14, <1>15, SessionKeeps

-----------------------------------------------------------------------------
(* How the completions a session owes itself move with the answers. *)

\* An answer that is not one of the relay's own.
Dull(R, W, i) == Kind(R, W, i) \notin {"1", "3"} /\ ~Counts(R, W, i)

LEMMA DullFits ==
  ASSUME NEW e \in Seq({"1", "3"}), NEW owed, NEW R, NEW W, NEW h, NEW t, Fits(h, t, e, owed, R, W),
         NEW i \in 1 .. Len(R) + Len(W), Kind(R, W, i) \notin {"1", "3"}
  PROVE  h[i] = h[i - 1]
<1>1. SUFFICES ASSUME h[i] = h[i - 1] + 1, h[i] <= Len(e), e[h[i]] = Kind(R, W, i),
                      i - 1 \in 0 .. Len(R) + Len(W), h[i - 1] \in Nat
               PROVE  FALSE
  BY DEF Fits
<1>2. h[i] \in DOMAIN e
  BY <1>1, SeqDomain
<1>3. QED
  BY <1>1, <1>2, SeqDomain

\* The same answers, or one that is not the relay's changes its kind.
LEMMA SettledSame ==
  ASSUME NEW e \in Seq({"1", "3"}), NEW owed, NEW R, NEW W, NEW Q, NEW V,
         Len(R) + Len(W) \in Nat, Len(Q) + Len(V) = Len(R) + Len(W), Settled(e, owed, R, W),
         \A i \in 1 .. Len(R) + Len(W) :
           /\ Kind(Q, V, i) = Kind(R, W, i) \/ Kind(R, W, i) \notin {"1", "3"}
           /\ Counts(Q, V, i) <=> Counts(R, W, i)
  PROVE  Settled(e, owed, Q, V)
<1>1. PICK h, t : Fits(h, t, e, owed, R, W)
  BY DEF Settled
<1>2. \A i \in 1 .. Len(R) + Len(W) : Kind(R, W, i) \notin {"1", "3"} => h[i] = h[i - 1]
  BY <1>1, DullFits
<1>3. Fits(h, t, e, owed, Q, V)
  BY <1>1, <1>2 DEF Fits
<1>4. QED
  BY <1>3 DEF Settled

\* One answer that is not the relay's is left out.
LEMMA SettledDrop ==
  ASSUME NEW e \in Seq({"1", "3"}), NEW owed, NEW R, NEW W, NEW Q, NEW V, Settled(e, owed, R, W),
         NEW L \in Nat, L + 1 = Len(R) + Len(W), Len(Q) + Len(V) = L,
         NEW p \in 1 .. L + 1, Dull(R, W, p),
         \A i \in 1 .. L : i < p => Kind(Q, V, i) = Kind(R, W, i) /\ (Counts(Q, V, i) <=> Counts(R, W, i)),
         \A i \in 1 .. L : i >= p => Kind(Q, V, i) = Kind(R, W, i + 1)
                                     /\ (Counts(Q, V, i) <=> Counts(R, W, i + 1))
  PROVE  Settled(e, owed, Q, V)
<1>1. PICK h, t : Fits(h, t, e, owed, R, W)
  BY DEF Settled
<1>2. /\ h \in [0 .. L + 1 -> Nat] /\ t \in [0 .. L + 1 -> Int]
      /\ h[0] = 0 /\ h[L + 1] = Len(e) /\ t[0] = 0 /\ t[L + 1] = owed + Len(e)
      /\ \A i \in 1 .. L + 1 :
           /\ \/ h[i] = h[i - 1]
              \/ h[i] = h[i - 1] + 1 /\ h[i] <= Len(e) /\ e[h[i]] = Kind(R, W, i)
           /\ Counts(R, W, i) => t[i] = t[i - 1] + 1
           /\ ~Counts(R, W, i) => t[i] = t[i - 1]
  BY <1>1 DEF Fits
<1>3. h[p] = h[p - 1] /\ t[p] = t[p - 1] /\ p - 1 \in 0 .. L + 1
  <2>1. h[p] = h[p - 1]
    BY <1>1, DullFits DEF Dull
  <2>2. QED
    BY <1>2, <2>1 DEF Dull
<1> DEFINE g == [i \in 0 .. L |-> IF i < p THEN h[i] ELSE h[i + 1]]
           u == [i \in 0 .. L |-> IF i < p THEN t[i] ELSE t[i + 1]]
<1>4. g \in [0 .. L -> Nat] /\ u \in [0 .. L -> Int] /\ g[0] = 0 /\ u[0] = 0
  <2>1. \A i \in 0 .. L : i \in 0 .. L + 1 /\ i + 1 \in 0 .. L + 1
    OBVIOUS
  <2>2. \A i \in 0 .. L + 1 : h[i] \in Nat /\ t[i] \in Int
    BY <1>2
  <2>3. 0 \in 0 .. L /\ 0 < p
    OBVIOUS
  <2>4. QED
    BY <1>2, <2>1, <2>2, <2>3
<1>5. g[L] = Len(e) /\ u[L] = owed + Len(e)
  <2>1. CASE L < p
    <3>1. p = L + 1 /\ p - 1 = L /\ g[L] = h[L] /\ u[L] = t[L]
      BY <2>1
    <3>2. QED
      BY <1>2, <1>3, <3>1
  <2>2. CASE ~(L < p)
    BY <1>2, <2>2
  <2>3. QED
    BY <2>1, <2>2
<1>6. ASSUME NEW i \in 1 .. L
      PROVE  /\ \/ g[i] = g[i - 1]
                \/ g[i] = g[i - 1] + 1 /\ g[i] <= Len(e) /\ e[g[i]] = Kind(Q, V, i)
             /\ Counts(Q, V, i) => u[i] = u[i - 1] + 1
             /\ ~Counts(Q, V, i) => u[i] = u[i - 1]
  <2>1. CASE i < p
    <3>1. g[i] = h[i] /\ g[i - 1] = h[i - 1] /\ u[i] = t[i] /\ u[i - 1] = t[i - 1] /\ i \in 1 .. L + 1
      BY <2>1
    <3> HIDE DEF g, u
    <3>2. QED
      BY <1>2, <2>1, <3>1
  <2>2. CASE i >= p
    <3>1. g[i] = h[i + 1] /\ u[i] = t[i + 1] /\ i + 1 \in 1 .. L + 1 /\ (i + 1) - 1 = i
      BY <2>2
    <3>2. g[i - 1] = h[i] /\ u[i - 1] = t[i]
      <4>1. CASE i = p
        BY <1>3, <4>1
      <4>2. CASE i > p
        BY <4>2
      <4>3. QED
        BY <2>2, <4>1, <4>2
    <3> HIDE DEF g, u
    <3>3. /\ h[i + 1] = h[i] \/ (h[i + 1] = h[i] + 1 /\ h[i + 1] <= Len(e) /\ e[h[i + 1]] = Kind(R, W, i + 1))
          /\ Counts(R, W, i + 1) => t[i + 1] = t[i] + 1
          /\ ~Counts(R, W, i + 1) => t[i + 1] = t[i]
      <4>1. PICK j \in 1 .. L + 1 : j = i + 1 /\ j - 1 = i
        BY <3>1
      <4>2. /\ h[j] = h[j - 1] \/ (h[j] = h[j - 1] + 1 /\ h[j] <= Len(e) /\ e[h[j]] = Kind(R, W, j))
            /\ Counts(R, W, j) => t[j] = t[j - 1] + 1
            /\ ~Counts(R, W, j) => t[j] = t[j - 1]
        BY <1>2
      <4>3. QED
        BY <4>1, <4>2
    <3>4. QED
      BY <2>2, <3>1, <3>2, <3>3
  <2>3. QED
    BY <2>1, <2>2
<1> HIDE DEF g, u
<1>7. Fits(g, u, e, owed, Q, V)
  BY <1>4, <1>5, <1>6 DEF Fits
<1>8. QED
  BY <1>7 DEF Settled

\* One is added.
LEMMA SettledInsert ==
  ASSUME NEW e \in Seq({"1", "3"}), NEW owed, NEW R, NEW W, NEW Q, NEW V, Settled(e, owed, R, W),
         NEW L \in Nat, L = Len(R) + Len(W), Len(Q) + Len(V) = L + 1,
         NEW p \in 1 .. L + 1, ~Counts(Q, V, p),
         \A i \in 1 .. L + 1 : i < p => Kind(Q, V, i) = Kind(R, W, i) /\ (Counts(Q, V, i) <=> Counts(R, W, i)),
         \A i \in 1 .. L + 1 : i > p => Kind(Q, V, i) = Kind(R, W, i - 1)
                                        /\ (Counts(Q, V, i) <=> Counts(R, W, i - 1))
  PROVE  Settled(e, owed, Q, V)
<1>1. PICK h, t : Fits(h, t, e, owed, R, W)
  BY DEF Settled
<1>2. /\ h \in [0 .. L -> Nat] /\ t \in [0 .. L -> Int]
      /\ h[0] = 0 /\ h[L] = Len(e) /\ t[0] = 0 /\ t[L] = owed + Len(e)
      /\ \A i \in 1 .. L :
           /\ \/ h[i] = h[i - 1]
              \/ h[i] = h[i - 1] + 1 /\ h[i] <= Len(e) /\ e[h[i]] = Kind(R, W, i)
           /\ Counts(R, W, i) => t[i] = t[i - 1] + 1
           /\ ~Counts(R, W, i) => t[i] = t[i - 1]
  BY <1>1 DEF Fits
<1> DEFINE g == [i \in 0 .. L + 1 |-> IF i < p THEN h[i] ELSE h[i - 1]]
           u == [i \in 0 .. L + 1 |-> IF i < p THEN t[i] ELSE t[i - 1]]
<1>4. g \in [0 .. L + 1 -> Nat] /\ u \in [0 .. L + 1 -> Int] /\ g[0] = 0 /\ u[0] = 0
  BY <1>2
<1>5. g[L + 1] = Len(e) /\ u[L + 1] = owed + Len(e)
  BY <1>2
<1>6. ASSUME NEW i \in 1 .. L + 1
      PROVE  /\ \/ g[i] = g[i - 1]
                \/ g[i] = g[i - 1] + 1 /\ g[i] <= Len(e) /\ e[g[i]] = Kind(Q, V, i)
             /\ Counts(Q, V, i) => u[i] = u[i - 1] + 1
             /\ ~Counts(Q, V, i) => u[i] = u[i - 1]
  <2>1. CASE i < p
    <3>1. g[i] = h[i] /\ g[i - 1] = h[i - 1] /\ u[i] = t[i] /\ u[i - 1] = t[i - 1] /\ i \in 1 .. L
      BY <2>1
    <3> HIDE DEF g, u
    <3>2. QED
      BY <1>2, <2>1, <3>1
  <2>2. CASE i = p
    <3>1. g[i] = h[i - 1] /\ g[i - 1] = h[i - 1] /\ u[i] = t[i - 1] /\ u[i - 1] = t[i - 1]
      BY <2>2
    <3> HIDE DEF g, u
    <3>2. QED
      BY <2>2, <3>1
  <2>3. CASE i > p
    <3>1. g[i] = h[i - 1] /\ u[i] = t[i - 1] /\ g[i - 1] = h[(i - 1) - 1] /\ u[i - 1] = t[(i - 1) - 1]
          /\ i - 1 \in 1 .. L
      BY <2>3
    <3> HIDE DEF g, u
    <3>3. /\ h[i - 1] = h[(i - 1) - 1]
             \/ (h[i - 1] = h[(i - 1) - 1] + 1 /\ h[i - 1] <= Len(e) /\ e[h[i - 1]] = Kind(R, W, i - 1))
          /\ Counts(R, W, i - 1) => t[i - 1] = t[(i - 1) - 1] + 1
          /\ ~Counts(R, W, i - 1) => t[i - 1] = t[(i - 1) - 1]
      BY <1>2, <3>1
    <3>4. QED
      BY <2>3, <3>1, <3>3
  <2>4. QED
    BY <2>1, <2>2, <2>3
<1> HIDE DEF g, u
<1>7. Fits(g, u, e, owed, Q, V)
  BY <1>4, <1>5, <1>6 DEF Fits
<1>8. QED
  BY <1>7 DEF Settled

\* The first answer is one the session owes itself.
LEMMA SettledSwallow ==
  ASSUME NEW e \in Seq({"1", "3"}), e # <<>>, NEW owed \in Int, NEW o \in Int,
         NEW R, NEW W, NEW Q, NEW V, Settled(e, owed, R, W),
         NEW L \in Nat, L + 1 = Len(R) + Len(W), Len(Q) + Len(V) = L,
         Counts(R, W, 1) => o = owed, ~Counts(R, W, 1) => o = owed + 1,
         \A i \in 1 .. L : Kind(Q, V, i) = Kind(R, W, i + 1) /\ (Counts(Q, V, i) <=> Counts(R, W, i + 1))
  PROVE  Settled(Tail(e), o, Q, V)
<1>1. PICK h, t : Fits(h, t, e, owed, R, W)
  BY DEF Settled
<1>2. /\ h \in [0 .. L + 1 -> Nat] /\ t \in [0 .. L + 1 -> Int]
      /\ h[0] = 0 /\ h[L + 1] = Len(e) /\ t[0] = 0 /\ t[L + 1] = owed + Len(e)
      /\ \A i \in 1 .. L + 1 :
           /\ \/ h[i] = h[i - 1]
              \/ h[i] = h[i - 1] + 1 /\ h[i] <= Len(e) /\ e[h[i]] = Kind(R, W, i)
           /\ Counts(R, W, i) => t[i] = t[i - 1] + 1
           /\ ~Counts(R, W, i) => t[i] = t[i - 1]
  BY <1>1 DEF Fits
<1>3. PICK d : d = Tail(e)
  OBVIOUS
<1>4. Len(e) \in Nat /\ Len(e) > 0 /\ Len(d) = Len(e) - 1 /\ \A i \in 1 .. Len(e) - 1 : d[i] = e[i + 1]
  BY <1>3, TailIs
<1> DEFINE g == [i \in 0 .. L |-> IF h[i + 1] = 0 THEN 0 ELSE h[i + 1] - 1]
           u == [i \in 0 .. L |-> t[i + 1] - t[1]]
<1>5. /\ \A i \in 0 .. L : i + 1 \in 0 .. L + 1 /\ h[i + 1] \in Nat /\ t[i + 1] \in Int
      /\ t[1] \in Int /\ h[1] \in {0, 1} /\ 1 \in 1 .. L + 1
  <2>1. \A i \in 0 .. L : i + 1 \in 0 .. L + 1
    OBVIOUS
  <2>2. 1 \in 1 .. L + 1 /\ 1 \in 0 .. L + 1 /\ 1 - 1 = 0
    OBVIOUS
  <2>3. h[1] = h[0] \/ h[1] = h[0] + 1
    <3>1. PICK j \in 1 .. L + 1 : j = 1 /\ j - 1 = 0
      BY <2>2
    <3>2. h[j] = h[j - 1] \/ h[j] = h[j - 1] + 1
      BY <1>2
    <3>3. QED
      BY <3>1, <3>2
  <2>4. QED
    BY <1>2, <2>1, <2>2, <2>3
<1>6. g \in [0 .. L -> Nat] /\ u \in [0 .. L -> Int]
  BY <1>5
<1>7. g[0] = 0 /\ u[0] = 0
  BY <1>5
<1>8. g[L] = Len(d) /\ u[L] = o + Len(d)
  <2>1. Counts(R, W, 1) => t[1] = 1
    BY <1>2, <1>5
  <2>2. ~Counts(R, W, 1) => t[1] = 0
    BY <1>2, <1>5
  <2>3. g[L] = Len(e) - 1
    BY <1>2, <1>4, SMTT(30)
  <2>4. u[L] = owed + Len(e) - t[1]
    BY <1>2, <1>5
  <2>5. QED
    BY <1>4, <2>1, <2>2, <2>3, <2>4
<1>9. ASSUME NEW i \in 1 .. L
      PROVE  /\ \/ g[i] = g[i - 1]
                \/ g[i] = g[i - 1] + 1 /\ g[i] <= Len(d) /\ d[g[i]] = Kind(Q, V, i)
             /\ Counts(Q, V, i) => u[i] = u[i - 1] + 1
             /\ ~Counts(Q, V, i) => u[i] = u[i - 1]
  <2>1. PICK j \in 1 .. L + 1 : j = i + 1 /\ j - 1 = i
    OBVIOUS
  <2>2. i - 1 \in 0 .. L /\ i \in 0 .. L /\ (i - 1) + 1 = i
    OBVIOUS
  <2>3. (h[j] = 0 => g[i] = 0) /\ (h[j] # 0 => g[i] = h[j] - 1) /\ u[i] = t[j] - t[1]
    BY <2>1, <2>2
  <2>4. (h[i] = 0 => g[i - 1] = 0) /\ (h[i] # 0 => g[i - 1] = h[i] - 1) /\ u[i - 1] = t[i] - t[1]
    BY <2>2
  <2>5. /\ h[j] = h[i] \/ (h[j] = h[i] + 1 /\ h[j] <= Len(e) /\ e[h[j]] = Kind(R, W, j))
        /\ Counts(R, W, j) => t[j] = t[i] + 1
        /\ ~Counts(R, W, j) => t[j] = t[i]
    BY <1>2, <2>1
  <2>6. /\ h[i] \in Nat /\ h[j] \in Nat /\ t[i] \in Int /\ t[j] \in Int /\ t[1] \in Int
        /\ Kind(Q, V, i) = Kind(R, W, j) /\ (Counts(Q, V, i) <=> Counts(R, W, j))
    BY <1>2, <1>5, <2>1, <2>2
  <2> HIDE DEF g, u
  <2>7. /\ Counts(Q, V, i) => u[i] = u[i - 1] + 1
        /\ ~Counts(Q, V, i) => u[i] = u[i - 1]
    BY <2>3, <2>4, <2>5, <2>6, SMTT(30)
  <2>8. CASE h[j] = h[i] \/ h[i] = 0
    <3>1. g[i] = g[i - 1]
      <4>1. CASE h[j] = h[i]
        BY <2>3, <2>4, <4>1
      <4>2. CASE h[i] = 0 /\ h[j] = 1
        <5>1. g[i] = 1 - 1 /\ g[i - 1] = 0
          BY <2>3, <2>4, <4>2
        <5>2. QED
          BY <5>1
      <4>3. QED
        BY <2>5, <2>8, <4>1, <4>2
    <3>2. QED
      BY <2>7, <3>1
  <2>9. CASE h[j] = h[i] + 1 /\ h[i] # 0 /\ h[j] <= Len(e) /\ e[h[j]] = Kind(R, W, j)
    <3>0. g[i] = h[i] /\ g[i - 1] = h[i] - 1 /\ g[i] = g[i - 1] + 1
      <4>1. PICK a \in Nat : a = h[i]
        BY <2>6
      <4>2. h[j] = a + 1 /\ a # 0 /\ a + 1 # 0
        BY <2>9, <4>1
      <4>3. g[i] = (a + 1) - 1 /\ g[i - 1] = a - 1
        BY <2>3, <2>4, <4>1, <4>2
      <4>4. (a + 1) - 1 = a /\ (a - 1) + 1 = a
        BY <4>1
      <4>5. QED
        BY <4>1, <4>3, <4>4
    <3>1. h[i] \in 1 .. Len(e) - 1
      BY <1>4, <2>6, <2>9, SMTT(30)
    <3>2. d[g[i]] = e[h[j]]
      BY <1>4, <2>9, <3>0, <3>1
    <3>3. g[i] <= Len(d)
      BY <1>4, <3>0, <3>1
    <3>4. QED
      BY <2>6, <2>7, <2>9, <3>0, <3>2, <3>3
  <2>10. QED
    BY <2>5, <2>8, <2>9
<1> HIDE DEF g, u
<1>10. Fits(g, u, d, o, Q, V)
  BY <1>6, <1>7, <1>8, <1>9 DEF Fits
<1>11. QED
  BY <1>3, <1>10 DEF Settled

\* The first answer is not, and goes to the client.
LEMMA SettledRelay ==
  ASSUME NEW e \in Seq({"1", "3"}), NEW owed \in Int, NEW o \in Int,
         NEW R, NEW W, NEW Q, NEW V, Settled(e, owed, R, W),
         NEW L \in Nat, L + 1 = Len(R) + Len(W), Len(Q) + Len(V) = L,
         e = <<>> \/ e[1] # Kind(R, W, 1),
         Counts(R, W, 1) => o = owed - 1, ~Counts(R, W, 1) => o = owed,
         \A i \in 1 .. L : Kind(Q, V, i) = Kind(R, W, i + 1) /\ (Counts(Q, V, i) <=> Counts(R, W, i + 1))
  PROVE  Settled(e, o, Q, V)
<1>1. PICK h, t : Fits(h, t, e, owed, R, W)
  BY DEF Settled
<1>2. /\ h \in [0 .. L + 1 -> Nat] /\ t \in [0 .. L + 1 -> Int]
      /\ h[0] = 0 /\ h[L + 1] = Len(e) /\ t[0] = 0 /\ t[L + 1] = owed + Len(e)
      /\ \A i \in 1 .. L + 1 :
           /\ \/ h[i] = h[i - 1]
              \/ h[i] = h[i - 1] + 1 /\ h[i] <= Len(e) /\ e[h[i]] = Kind(R, W, i)
           /\ Counts(R, W, i) => t[i] = t[i - 1] + 1
           /\ ~Counts(R, W, i) => t[i] = t[i - 1]
  BY <1>1 DEF Fits
<1>4. Len(e) \in Nat /\ (e = <<>> => Len(e) = 0)
  BY SeqDomain, EmptySeq
<1> DEFINE g == [i \in 0 .. L |-> h[i + 1]]
           u == [i \in 0 .. L |-> t[i + 1] - t[1]]
<1>5. /\ \A i \in 0 .. L : i + 1 \in 0 .. L + 1 /\ h[i + 1] \in Nat /\ t[i + 1] \in Int
      /\ t[1] \in Int /\ h[1] = 0 /\ 1 \in 1 .. L + 1
  <2>1. \A i \in 0 .. L : i + 1 \in 0 .. L + 1
    OBVIOUS
  <2>2. 1 \in 1 .. L + 1 /\ 1 \in 0 .. L + 1 /\ 1 - 1 = 0
    OBVIOUS
  <2>3. h[1] = 0
    <3>1. PICK j \in 1 .. L + 1 : j = 1 /\ j - 1 = 0
      BY <2>2
    <3>2. h[j] = h[j - 1] \/ (h[j] = h[j - 1] + 1 /\ h[j] <= Len(e) /\ e[h[j]] = Kind(R, W, j))
      BY <1>2
    <3>3. h[1] = 0 \/ (h[1] = 1 /\ h[1] <= Len(e) /\ e[h[1]] = Kind(R, W, 1))
      BY <1>2, <3>1, <3>2
    <3>4. QED
      BY <1>4, <3>3
  <2>4. QED
    BY <1>2, <2>1, <2>2, <2>3
<1>6. g \in [0 .. L -> Nat] /\ u \in [0 .. L -> Int]
  BY <1>5
<1>7. g[0] = 0 /\ u[0] = 0
  BY <1>5
<1>8. g[L] = Len(e) /\ u[L] = o + Len(e)
  <2>1. Counts(R, W, 1) => t[1] = 1
    BY <1>2, <1>5
  <2>2. ~Counts(R, W, 1) => t[1] = 0
    BY <1>2, <1>5
  <2>4. g[L] = Len(e) /\ u[L] = owed + Len(e) - t[1]
    BY <1>2, <1>5
  <2>5. CASE Counts(R, W, 1)
    <3>1. t[1] = 1 /\ o = owed - 1
      BY <2>1, <2>5
    <3> HIDE DEF g, u
    <3>2. QED
      BY <1>4, <2>4, <3>1
  <2>6. CASE ~Counts(R, W, 1)
    <3>1. t[1] = 0 /\ o = owed
      BY <2>2, <2>6
    <3> HIDE DEF g, u
    <3>2. QED
      BY <1>4, <2>4, <3>1
  <2>7. QED
    BY <2>5, <2>6
<1>9. ASSUME NEW i \in 1 .. L
      PROVE  /\ \/ g[i] = g[i - 1]
                \/ g[i] = g[i - 1] + 1 /\ g[i] <= Len(e) /\ e[g[i]] = Kind(Q, V, i)
             /\ Counts(Q, V, i) => u[i] = u[i - 1] + 1
             /\ ~Counts(Q, V, i) => u[i] = u[i - 1]
  <2>1. PICK j \in 1 .. L + 1 : j = i + 1 /\ j - 1 = i
    OBVIOUS
  <2>2. i - 1 \in 0 .. L /\ i \in 0 .. L /\ (i - 1) + 1 = i
    OBVIOUS
  <2>3. g[i] = h[j] /\ u[i] = t[j] - t[1] /\ g[i - 1] = h[i] /\ u[i - 1] = t[i] - t[1]
    BY <2>1, <2>2
  <2>5. /\ h[j] = h[i] \/ (h[j] = h[i] + 1 /\ h[j] <= Len(e) /\ e[h[j]] = Kind(R, W, j))
        /\ Counts(R, W, j) => t[j] = t[i] + 1
        /\ ~Counts(R, W, j) => t[j] = t[i]
    BY <1>2, <2>1
  <2>6. /\ h[i] \in Nat /\ h[j] \in Nat /\ t[i] \in Int /\ t[j] \in Int /\ t[1] \in Int
        /\ Kind(Q, V, i) = Kind(R, W, j) /\ (Counts(Q, V, i) <=> Counts(R, W, j))
    BY <1>2, <1>5, <2>1, <2>2
  <2> HIDE DEF g, u
  <2>7. QED
    BY <2>3, <2>5, <2>6
<1> HIDE DEF g, u
<1>10. Fits(g, u, e, o, Q, V)
  BY <1>6, <1>7, <1>8, <1>9 DEF Fits
<1>11. QED
  BY <1>10 DEF Settled

\* Nothing to come, nothing owed.
LEMMA SettledEmpty ==
  ASSUME NEW e \in Seq({"1", "3"}), NEW owed \in Int
  PROVE  /\ Settled(<<>>, 0, <<>>, <<>>)
         /\ Settled(e, owed, <<>>, <<>>) => e = <<>> /\ owed = 0
<1>1. Len(<<>>) = 0 /\ 0 + 0 = 0 /\ \A i \in 1 .. 0 : FALSE
  BY EmptySeq
<1>2. Len(e) \in Nat /\ (Len(e) = 0 => e = <<>>)
  BY SeqDomain, EmptySeq
<1>3. Fits([i \in 0 .. 0 |-> 0], [i \in 0 .. 0 |-> 0], <<>>, 0, <<>>, <<>>)
  BY <1>1 DEF Fits
<1>4. ASSUME NEW h, NEW t, Fits(h, t, e, owed, <<>>, <<>>) PROVE e = <<>> /\ owed = 0
  BY <1>1, <1>2, <1>4 DEF Fits
<1>5. QED
  BY <1>3, <1>4 DEF Settled

LEMMA CompletionsIs ==
  ASSUME NEW c, NEW q, Injected(q, c)
  PROVE  LET ks == [i \in DOMAIN q |-> Completion(q[i])]
         IN /\ ks \in Seq({"1", "3"}) /\ Len(ks) = Len(q)
            /\ \A i \in 1 .. Len(q) : ks[i] = Completion(q[i])
<1>1. PICK ks : ks = [i \in DOMAIN q |-> Completion(q[i])]
  OBVIOUS
<1>2. Len(q) \in Nat /\ DOMAIN q = 1 .. Len(q)
  BY SeqDomain DEF Injected
<1>3. PICK n \in Nat : n = Len(q)
  BY <1>2
<1>4. /\ ks \in [1 .. n -> {"1", "3"}] /\ DOMAIN ks = 1 .. n
      /\ \A i \in 1 .. n : ks[i] = Completion(q[i])
  BY <1>1, <1>2, <1>3 DEF Completion
<1>5. ks \in Seq({"1", "3"})
  BY <1>4, SeqDef
<1>6. Len(ks) \in Nat /\ DOMAIN ks = 1 .. Len(ks)
  BY <1>5, SeqDomain
<1>7. PICK k \in Nat : k = Len(ks)
  BY <1>6
<1>8. 1 .. n = 1 .. k
  BY <1>4, <1>6, <1>7
<1>9. n = k
  <2>1. \A i \in Nat : i \in 1 .. n <=> i \in 1 .. k
    BY <1>8
  <2>2. (n \in 1 .. n \/ n = 0) /\ (k \in 1 .. k \/ k = 0)
    OBVIOUS
  <2>3. n <= k /\ k <= n
    BY <2>1, <2>2
  <2>4. QED
    BY <2>3
<1>10. QED
  BY <1>1, <1>3, <1>4, <1>5, <1>7, <1>9

\* Injected messages and one of the client's own join the wire.
LEMMA SettledForward ==
  ASSUME NEW e \in Seq({"1", "3"}), NEW owed \in Int, NEW R \in Seq(Replies), NEW W \in Seq(Messages),
         NEW c, NEW q, Injected(q, c), NEW m \in Messages, ~m.inj, Settled(e, owed, R, W),
         NEW ks \in Seq({"1", "3"}), Len(ks) = Len(q), \A i \in 1 .. Len(q) : ks[i] = Completion(q[i])
  PROVE  Settled(e \o ks, owed, R, W \o Append(q, m))
<1>1. /\ q \in Seq(Messages) /\ Len(q) \in Nat /\ DOMAIN q = 1 .. Len(q)
      /\ \A i \in DOMAIN q : q[i].inj /\ q[i].k \in {"parse", "close"}
  BY SeqDomain DEF Injected
<1>3. \A i \in 1 .. Len(q) : ks[i] = Completion(q[i])
  OBVIOUS
<1>4. PICK d : d = e \o ks
  OBVIOUS
<1>5. /\ d \in Seq({"1", "3"}) /\ Len(d) = Len(e) + Len(q) /\ Len(e) \in Nat
      /\ \A i \in 1 .. Len(e) : d[i] = e[i]
      /\ \A i \in 1 .. Len(q) : d[Len(e) + i] = ks[i]
  BY <1>4, ConcatIs
<1>6. PICK z : z = Append(q, m)
  OBVIOUS
<1>7. /\ z \in Seq(Messages) /\ Len(z) = Len(q) + 1
      /\ \A i \in 1 .. Len(q) : z[i] = q[i]
      /\ z[Len(q) + 1] = m
  BY <1>1, <1>6, AppendIs
<1>8. PICK V : V = W \o z
  OBVIOUS
<1>9. /\ Len(V) = Len(W) + Len(z) /\ Len(W) \in Nat /\ Len(R) \in Nat
      /\ \A i \in 1 .. Len(W) : V[i] = W[i]
      /\ \A i \in 1 .. Len(z) : V[Len(W) + i] = z[i]
  <2>1. z \in Seq(Messages) /\ Len(R) \in Nat
    BY <1>7, SeqDomain
  <2>2. QED
    BY <1>8, <2>1, ConcatIs
<1>10. PICK L \in Nat : L = Len(R) + Len(W)
  BY <1>9
<1>11. PICK n \in Nat : n = Len(q)
  BY <1>1
<1>12. Len(R) + Len(V) = L + n + 1
  BY <1>7, <1>9, <1>10, <1>11
<1>13. ASSUME NEW i \in 1 .. L
       PROVE  Kind(R, V, i) = Kind(R, W, i) /\ (Counts(R, V, i) <=> Counts(R, W, i))
  <2>1. CASE i <= Len(R)
    BY <2>1 DEF Kind, Counts
  <2>2. CASE ~(i <= Len(R))
    <3>1. i - Len(R) \in 1 .. Len(W)
      BY <1>9, <1>10, <2>2
    <3>2. V[i - Len(R)] = W[i - Len(R)]
      BY <1>9, <3>1
    <3>3. QED
      BY <2>2, <3>2 DEF Kind, Counts
  <2>3. QED
    BY <2>1, <2>2
<1>14. ASSUME NEW j \in 1 .. n + 1
       PROVE  /\ j <= n => Kind(R, V, L + j) = d[Len(e) + j] /\ Counts(R, V, L + j)
              /\ j = n + 1 => ~Counts(R, V, L + j)
  <2>1. ~(L + j <= Len(R)) /\ (L + j) - Len(R) = Len(W) + j /\ j \in 1 .. Len(z)
    BY <1>7, <1>9, <1>10, <1>11
  <2>2. V[(L + j) - Len(R)] = z[j]
    BY <1>9, <2>1
  <2>3. CASE j <= n
    <3>1. j \in 1 .. Len(q) /\ z[j] = q[j] /\ d[Len(e) + j] = Completion(q[j])
      BY <1>3, <1>5, <1>7, <1>11, <2>3
    <3>2. q[j].inj /\ q[j].k \in {"parse", "close"}
      BY <1>1, <3>1
    <3>3. j # n + 1
      BY <2>3
    <3>4. Counts(R, V, L + j)
      BY <2>1, <2>2, <3>1, <3>2 DEF Counts
    <3>5. Kind(R, V, L + j) = Completion(q[j])
      BY <2>1, <2>2, <3>1, <3>2 DEF Kind, Completion
    <3>6. QED
      BY <3>1, <3>3, <3>4, <3>5
  <2>4. CASE ~(j <= n)
    <3>1. j = n + 1 /\ z[j] = m
      BY <1>7, <1>11, <2>4
    <3>2. ~Counts(R, V, L + j)
      BY <2>1, <2>2, <3>1 DEF Counts
    <3>3. QED
      BY <2>4, <3>2
  <2>5. QED
    BY <2>3, <2>4
<1>15. PICK h, t : Fits(h, t, e, owed, R, W)
  BY DEF Settled
<1>16. /\ h \in [0 .. L -> Nat] /\ t \in [0 .. L -> Int]
       /\ h[0] = 0 /\ h[L] = Len(e) /\ t[0] = 0 /\ t[L] = owed + Len(e)
       /\ \A i \in 1 .. L :
            /\ \/ h[i] = h[i - 1]
               \/ h[i] = h[i - 1] + 1 /\ h[i] <= Len(e) /\ e[h[i]] = Kind(R, W, i)
            /\ Counts(R, W, i) => t[i] = t[i - 1] + 1
            /\ ~Counts(R, W, i) => t[i] = t[i - 1]
  BY <1>10, <1>15 DEF Fits
<1> DEFINE f(i) == IF i <= n THEN i ELSE n
           g == [i \in 0 .. L + n + 1 |-> IF i <= L THEN h[i] ELSE Len(e) + f(i - L)]
           u == [i \in 0 .. L + n + 1 |-> IF i <= L THEN t[i] ELSE owed + Len(e) + f(i - L)]
<1>17. g \in [0 .. L + n + 1 -> Nat] /\ u \in [0 .. L + n + 1 -> Int]
  BY <1>5, <1>16
<1>18. g[0] = 0 /\ u[0] = 0 /\ \A i \in 0 .. L : g[i] = h[i] /\ u[i] = t[i]
  BY <1>16
<1>19. \A j \in 0 .. n : g[L + j] = Len(e) + j /\ u[L + j] = owed + Len(e) + j
  <2>1. ASSUME NEW j \in 0 .. n PROVE g[L + j] = Len(e) + j /\ u[L + j] = owed + Len(e) + j
    <3>1. CASE j = 0
      BY <1>5, <1>16, <3>1
    <3>2. CASE j > 0
      <4>1. L + j \in 0 .. L + n + 1 /\ ~(L + j <= L) /\ (L + j) - L = j
        BY <3>2
      <4>2. QED
        BY <4>1
    <3>3. QED
      BY <3>1, <3>2
  <2>2. QED
    BY <2>1
<1>20. g[L + n + 1] = Len(e) + n /\ u[L + n + 1] = owed + Len(e) + n
  <2>1. L + n + 1 \in 0 .. L + n + 1 /\ ~(L + n + 1 <= L) /\ ~((L + n + 1) - L <= n)
    OBVIOUS
  <2>2. QED
    BY <2>1
<1> HIDE DEF g, u, f
<1>21. ASSUME NEW i \in 1 .. L + n + 1
       PROVE  /\ \/ g[i] = g[i - 1]
                 \/ g[i] = g[i - 1] + 1 /\ g[i] <= Len(d) /\ d[g[i]] = Kind(R, V, i)
              /\ Counts(R, V, i) => u[i] = u[i - 1] + 1
              /\ ~Counts(R, V, i) => u[i] = u[i - 1]
  <2>1. CASE i <= L
    <3>1. i \in 1 .. L /\ i - 1 \in 0 .. L /\ i \in 0 .. L
      BY <2>1
    <3>2. g[i] = h[i] /\ g[i - 1] = h[i - 1] /\ u[i] = t[i] /\ u[i - 1] = t[i - 1]
      BY <1>18, <3>1
    <3>3. Counts(R, V, i) => u[i] = u[i - 1] + 1
      BY <1>13, <1>16, <3>1, <3>2
    <3>4. ~Counts(R, V, i) => u[i] = u[i - 1]
      BY <1>13, <1>16, <3>1, <3>2
    <3>5. CASE h[i] = h[i - 1]
      BY <3>2, <3>3, <3>4, <3>5
    <3>6. CASE h[i] = h[i - 1] + 1 /\ h[i] <= Len(e) /\ e[h[i]] = Kind(R, W, i)
      <4>1. h[i - 1] \in Nat
        BY <1>16, <3>1
      <4>2. h[i] \in 1 .. Len(e) /\ h[i] <= Len(d)
        BY <1>1, <1>5, <3>6, <4>1
      <4>3. d[h[i]] = Kind(R, V, i)
        BY <1>5, <1>13, <3>1, <3>6, <4>2
      <4>4. QED
        BY <3>2, <3>3, <3>4, <3>6, <4>2, <4>3
    <3>7. QED
      BY <1>16, <3>1, <3>5, <3>6
  <2>2. CASE ~(i <= L)
    <3>1. PICK j \in 1 .. n + 1 : i = L + j /\ j - 1 \in 0 .. n /\ i - 1 = L + (j - 1)
      <4>1. i - L \in 1 .. n + 1 /\ i = L + (i - L) /\ (i - L) - 1 \in 0 .. n /\ i - 1 = L + ((i - L) - 1)
        BY <2>2
      <4>2. QED
        BY <4>1
    <3>2. g[i - 1] = Len(e) + (j - 1) /\ u[i - 1] = owed + Len(e) + (j - 1)
      BY <1>19, <3>1
    <3>3. CASE j <= n
      <4>1. g[i] = Len(e) + j /\ u[i] = owed + Len(e) + j
        BY <1>19, <3>1, <3>3
      <4>2. Kind(R, V, i) = d[Len(e) + j] /\ Counts(R, V, i)
        BY <1>14, <3>1, <3>3
      <4>3. g[i] = g[i - 1] + 1 /\ u[i] = u[i - 1] + 1 /\ g[i] <= Len(d)
        BY <1>5, <1>11, <3>2, <3>3, <4>1
      <4>4. QED
        BY <4>1, <4>2, <4>3
    <3>4. CASE ~(j <= n)
      <4>1. j = n + 1 /\ i = L + n + 1
        BY <3>1, <3>4
      <4>2. ~Counts(R, V, i)
        BY <1>14, <3>1, <4>1
      <4>3. g[i] = g[i - 1] /\ u[i] = u[i - 1]
        BY <1>5, <1>20, <3>2, <4>1
      <4>4. QED
        BY <4>2, <4>3
    <3>5. QED
      BY <3>3, <3>4
  <2>3. QED
    BY <2>1, <2>2
<1>22. Fits(g, u, d, owed, R, V)
  <2>1. g[L + n + 1] = Len(d) /\ u[L + n + 1] = owed + Len(d)
    BY <1>5, <1>11, <1>20
  <2>2. QED
    BY <1>12, <1>17, <1>18, <1>21, <2>1 DEF Fits
<1>23. QED
  BY <1>4, <1>6, <1>8, <1>22 DEF Settled

\* The answer x takes the place of the first message on the wire.
Answering(R, W, x, Q, V) ==
  /\ Len(R) + Len(W) \in Nat /\ Len(Q) + Len(V) = Len(R) + Len(W)
  /\ Len(R) + 1 \in 1 .. Len(R) + Len(W)
  /\ Kind(R, W, Len(R) + 1) = (IF W[1].k = "parse" THEN "1" ELSE IF W[1].k = "close" THEN "3" ELSE "-")
  /\ Counts(R, W, Len(R) + 1) <=> W[1].inj
  /\ Kind(Q, V, Len(R) + 1) = x.k
  /\ Counts(Q, V, Len(R) + 1) <=> x.inj /\ x.k # "E"
  /\ \A i \in 1 .. Len(R) + Len(W) : i # Len(R) + 1 =>
       Kind(Q, V, i) = Kind(R, W, i) /\ (Counts(Q, V, i) <=> Counts(R, W, i))

\* The first message on the wire is answered.
LEMMA AnswerMoves ==
  ASSUME NEW R \in Seq(Replies), NEW W \in Seq(Messages), W # <<>>, NEW x \in Replies,
         NEW Q, Q = Append(R, x), NEW V, V = Tail(W)
  PROVE  Answering(R, W, x, Q, V)
<1>1. /\ Q \in Seq(Replies) /\ Len(Q) = Len(R) + 1 /\ Len(R) \in Nat
      /\ \A i \in 1 .. Len(R) : Q[i] = R[i]
      /\ Q[Len(R) + 1] = x
  BY AppendIs
<1>2. /\ Len(V) = Len(W) - 1 /\ Len(W) \in Nat /\ Len(W) > 0
      /\ \A i \in 1 .. Len(W) - 1 : V[i] = W[i + 1]
  BY TailIs
<1>3. /\ Kind(R, W, Len(R) + 1) = (IF W[1].k = "parse" THEN "1" ELSE IF W[1].k = "close" THEN "3" ELSE "-")
      /\ Counts(R, W, Len(R) + 1) <=> W[1].inj
  <2>1. ~(Len(R) + 1 <= Len(R)) /\ (Len(R) + 1) - Len(R) = 1
    BY <1>1
  <2>2. QED
    BY <2>1 DEF Kind, Counts
<1>4. /\ Kind(Q, V, Len(R) + 1) = x.k
      /\ Counts(Q, V, Len(R) + 1) <=> x.inj /\ x.k # "E"
  <2>1. Len(R) + 1 <= Len(Q)
    BY <1>1
  <2>2. QED
    BY <1>1, <2>1 DEF Kind, Counts
<1>5. ASSUME NEW i \in 1 .. Len(R) + Len(W), i # Len(R) + 1
      PROVE  Kind(Q, V, i) = Kind(R, W, i) /\ (Counts(Q, V, i) <=> Counts(R, W, i))
  <2>1. CASE i <= Len(R)
    <3>1. i \in 1 .. Len(R) /\ i <= Len(Q)
      BY <1>1, <2>1
    <3>2. QED
      BY <1>1, <2>1, <3>1 DEF Kind, Counts
  <2>2. CASE ~(i <= Len(R))
    <3>1. PICK j \in 1 .. Len(W) - 1 : i - Len(Q) = j /\ i - Len(R) = j + 1
      <4>1. i - Len(Q) \in 1 .. Len(W) - 1 /\ i - Len(R) = (i - Len(Q)) + 1
        BY <1>1, <1>2, <1>5, <2>2
      <4>2. QED
        BY <4>1
    <3>2. ~(i <= Len(Q))
      BY <1>1, <1>5, <2>2
    <3>3. V[i - Len(Q)] = W[i - Len(R)]
      BY <1>2, <3>1
    <3>4. QED
      BY <2>2, <3>2, <3>3 DEF Kind, Counts
  <2>3. QED
    BY <2>1, <2>2
<1>6. QED
  BY <1>1, <1>2, <1>3, <1>4, <1>5 DEF Answering

\* The first message on the wire is skipped.
Skipping(R, W, V) ==
  /\ Len(R) + Len(V) \in Nat /\ (Len(R) + Len(V)) + 1 = Len(R) + Len(W)
  /\ Len(R) + 1 \in 1 .. (Len(R) + Len(V)) + 1
  /\ \A i \in 1 .. Len(R) + Len(V) : i < Len(R) + 1 =>
       Kind(R, V, i) = Kind(R, W, i) /\ (Counts(R, V, i) <=> Counts(R, W, i))
  /\ \A i \in 1 .. Len(R) + Len(V) : i >= Len(R) + 1 =>
       Kind(R, V, i) = Kind(R, W, i + 1) /\ (Counts(R, V, i) <=> Counts(R, W, i + 1))

LEMMA SkipMoves ==
  ASSUME NEW R \in Seq(Replies), NEW W \in Seq(Messages), W # <<>>, NEW V, V = Tail(W)
  PROVE  Skipping(R, W, V)
<1>1. Len(R) \in Nat
  BY SeqDomain
<1>2. /\ Len(V) = Len(W) - 1 /\ Len(W) \in Nat /\ Len(W) > 0
      /\ \A i \in 1 .. Len(W) - 1 : V[i] = W[i + 1]
  BY TailIs
<1>3. ASSUME NEW i \in 1 .. Len(R) + Len(V), i < Len(R) + 1
      PROVE  Kind(R, V, i) = Kind(R, W, i) /\ (Counts(R, V, i) <=> Counts(R, W, i))
  <2>1. i <= Len(R)
    BY <1>1, <1>3
  <2>2. QED
    BY <2>1 DEF Kind, Counts
<1>4. ASSUME NEW i \in 1 .. Len(R) + Len(V), i >= Len(R) + 1
      PROVE  Kind(R, V, i) = Kind(R, W, i + 1) /\ (Counts(R, V, i) <=> Counts(R, W, i + 1))
  <2>1. ~(i <= Len(R)) /\ ~(i + 1 <= Len(R))
    BY <1>1, <1>4
  <2>2. PICK j \in 1 .. Len(W) - 1 : i - Len(R) = j /\ (i + 1) - Len(R) = j + 1
    <3>1. i - Len(R) \in 1 .. Len(W) - 1 /\ (i + 1) - Len(R) = (i - Len(R)) + 1
      BY <1>1, <1>2, <1>4
    <3>2. QED
      BY <3>1
  <2>3. V[i - Len(R)] = W[(i + 1) - Len(R)]
    BY <1>2, <2>2
  <2>4. QED
    BY <2>1, <2>3 DEF Kind, Counts
<1>5. QED
  BY <1>1, <1>2, <1>3, <1>4 DEF Skipping

\* The first answer is read.
LEMMA ReadMoves ==
  ASSUME NEW R \in Seq(Replies), R # <<>>, NEW W \in Seq(Messages), NEW Q, Q = Tail(R)
  PROVE  /\ Len(Q) + Len(W) \in Nat /\ (Len(Q) + Len(W)) + 1 = Len(R) + Len(W)
         /\ Kind(R, W, 1) = R[1].k /\ (Counts(R, W, 1) <=> R[1].inj /\ R[1].k # "E")
         /\ \A i \in 1 .. Len(Q) + Len(W) :
              Kind(Q, W, i) = Kind(R, W, i + 1) /\ (Counts(Q, W, i) <=> Counts(R, W, i + 1))
<1>1. Len(W) \in Nat
  BY SeqDomain
<1>2. /\ Len(Q) = Len(R) - 1 /\ Len(R) \in Nat /\ Len(R) > 0
      /\ \A i \in 1 .. Len(R) - 1 : Q[i] = R[i + 1]
  BY TailIs
<1>3. Kind(R, W, 1) = R[1].k /\ (Counts(R, W, 1) <=> R[1].inj /\ R[1].k # "E")
  <2>1. 1 <= Len(R)
    BY <1>2
  <2>2. QED
    BY <2>1 DEF Kind, Counts
<1>4. ASSUME NEW i \in 1 .. Len(Q) + Len(W)
      PROVE  Kind(Q, W, i) = Kind(R, W, i + 1) /\ (Counts(Q, W, i) <=> Counts(R, W, i + 1))
  <2>1. CASE i <= Len(Q)
    <3>1. i + 1 <= Len(R) /\ i \in 1 .. Len(R) - 1
      BY <1>2, <2>1
    <3>2. Q[i] = R[i + 1]
      BY <1>2, <3>1
    <3>3. QED
      BY <2>1, <3>1, <3>2 DEF Kind, Counts
  <2>2. CASE ~(i <= Len(Q))
    <3>1. ~(i + 1 <= Len(R)) /\ (i + 1) - Len(R) = i - Len(Q)
      BY <1>1, <1>2, <2>2
    <3>2. QED
      BY <2>2, <3>1 DEF Kind, Counts
  <2>3. QED
    BY <2>1, <2>2
<1>5. QED
  BY <1>1, <1>2, <1>3, <1>4

-----------------------------------------------------------------------------
(* A connection that fails. *)

\* Whether it is marked or cut, the connection keeps its holder and what it knows.
LEMMA Damaged ==
  ASSUME NEW b, NEW r, NEW D, ConnectionInv(b, r, D), NEW y \in Connections,
         y.owner = r.owner, y.prepared = r.prepared, y.stmts = r.stmts, y.replies = r.replies,
         y.tx = r.tx, y.skip = r.skip, y.foreign = r.foreign,
         (y.cut /\ y.wire = <<>>) \/ ((y.cut <=> r.cut) /\ y.wire = r.wire)
  PROVE  /\ ConnectionInv(b, y, D)
         /\ \A c, s : s.held = b /\ LinkInv(c, s, b, r, D) /\ (r.broken => y.broken) =>
              LinkInv(c, s, b, y, D)
<1>1. DOMAIN <<>> = {}
  OBVIOUS
<1>2. ConnectionOK(b, y, D)
  BY DEF ConnectionInv, ConnectionOK
<1>3. Spared(D) => UnitConnection(b, y)
  BY <1>1 DEF ConnectionInv, UnitConnection
<1>4. ASSUME NEW c, NEW s, s.held = b, LinkInv(c, s, b, r, D), r.broken => y.broken
      PROVE  LinkInv(c, s, b, y, D)
  <2>1. LinkOK(c, s, b, y)
    <3>1. LinkOK(c, s, b, r)
      BY <1>4 DEF LinkInv
    <3>2. r.cut => y.cut
      OBVIOUS
    <3>3. QED
      BY <1>4, <3>1, <3>2 DEF LinkOK
  <2>2. ASSUME Spared(D) PROVE UnitLink(c, s, b, y, D)
    <3>1. UnitLink(c, s, b, r, D) /\ UnitConnection(b, r)
      BY <1>4, <2>2 DEF LinkInv, ConnectionInv
    <3>2. HasReady(y) <=> HasReady(r)
      BY DEF HasReady
    <3>3. HasEnd(y) => HasEnd(r)
      BY <1>1, <3>2 DEF HasEnd
    <3>4. HasReady(r) => r.wire = <<>>
      BY <3>1 DEF UnitConnection, HasReady
    <3>5. (~y.cut \/ HasReady(y)) => (~r.cut \/ HasReady(r)) /\ y.wire = r.wire
      BY <3>2, <3>4
    <3>6. QED
      BY <1>4, <3>1, <3>3, <3>5 DEF UnitLink
  <2>3. QED
    BY <2>1, <2>2 DEF LinkInv
<1>5. QED
  BY <1>2, <1>3, <1>4 DEF ConnectionInv

\* What the invariant says of the connection a session holds.
LEMMA OfConnection ==
  ASSUME Holding, NEW b \in Backends
  PROVE  /\ back[b] \in Connections /\ ConnectionInv(b, back[b], drift) /\ ConnectionOK(b, back[b], drift)
         /\ \A c \in Clients : LinkInv(c, sess[c], b, back[b], drift)
         /\ \A c \in Clients : sess[c].held = b <=> back[b].owner = c
BY DEF Holding, ConnectionInv, LinkInv, LinkOK

LEMMA FailSet ==
  ASSUME NEW r \in Connections, NEW y, y = Fail(r)
  PROVE  /\ y \in Connections /\ y.owner = r.owner /\ y.prepared = r.prepared /\ y.stmts = r.stmts
         /\ y.replies = r.replies /\ y.tx = r.tx /\ y.skip = r.skip /\ y.foreign = r.foreign
         /\ (y.cut <=> r.cut) /\ y.wire = r.wire /\ y.broken
BY DEF Fail, Connections

LEMMA CutSet ==
  ASSUME NEW r \in Connections, NEW y, y = Interrupt(r)
  PROVE  /\ y \in Connections /\ y.owner = r.owner /\ y.prepared = r.prepared /\ y.stmts = r.stmts
         /\ y.replies = r.replies /\ y.tx = r.tx /\ y.skip = r.skip /\ y.foreign = r.foreign
         /\ y.cut /\ y.wire = <<>> /\ (y.broken <=> r.broken)
<1>1. PICK w : w = <<>>
  OBVIOUS
<1>2. w \in Seq(Messages)
  BY <1>1
<1>3. y = [r EXCEPT !.cut = TRUE, !.wire = w]
  BY <1>1 DEF Interrupt
<1>4. /\ y \in Connections /\ y.owner = r.owner /\ y.prepared = r.prepared /\ y.stmts = r.stmts
      /\ y.replies = r.replies /\ y.tx = r.tx /\ y.skip = r.skip /\ y.foreign = r.foreign
      /\ y.cut = TRUE /\ y.wire = w /\ y.broken = r.broken
  <2>1. PICK q : q = [r EXCEPT !.cut = TRUE]
    OBVIOUS
  <2>2. /\ q \in Connections /\ q.owner = r.owner /\ q.prepared = r.prepared /\ q.stmts = r.stmts
        /\ q.replies = r.replies /\ q.tx = r.tx /\ q.skip = r.skip /\ q.foreign = r.foreign
        /\ q.cut = TRUE /\ q.broken = r.broken
    BY <2>1 DEF Connections
  <2>3. y = [q EXCEPT !.wire = w]
    BY <1>3, <2>1
  <2>4. /\ y \in Connections /\ y.owner = q.owner /\ y.prepared = q.prepared /\ y.stmts = q.stmts
        /\ y.replies = q.replies /\ y.tx = q.tx /\ y.skip = q.skip /\ y.foreign = q.foreign
        /\ y.cut = q.cut /\ y.wire = w /\ y.broken = q.broken
    BY <1>2, <2>2, <2>3 DEF Connections
  <2>5. QED
    BY <2>2, <2>4
<1>5. QED
  BY <1>1, <1>4

\* The server's end of a connection dies.
LEMMA ServerDiesKeeps ==
  ASSUME Holding, NEW b \in Backends, ServerDies(b)
  PROVE  Holding'
<1>1. /\ sess' = sess /\ close' = close /\ drift' = drift /\ sent' = sent /\ deaths' = deaths + 1
  BY DEF ServerDies
<1>2. PICK y : y = Interrupt(back[b])
  OBVIOUS
<1>3. back' = [back EXCEPT ![b] = y]
  BY <1>2 DEF ServerDies, SetB, Interrupt
<1>4. PICK r : r = back[b]
  OBVIOUS
<1>5. r \in Connections /\ ConnectionInv(b, r, drift) /\ \A c \in Clients : LinkInv(c, sess[c], b, r, drift)
  BY <1>4, OfConnection
<1>6. /\ y \in Connections /\ y.owner = r.owner /\ y.prepared = r.prepared /\ y.stmts = r.stmts
      /\ y.replies = r.replies /\ y.tx = r.tx /\ y.skip = r.skip /\ y.foreign = r.foreign
      /\ y.cut /\ y.wire = <<>> /\ (r.broken => y.broken)
  BY <1>2, <1>4, <1>5, CutSet
<1>7. ConnectionInv(b, y, drift)
  BY <1>5, <1>6, Damaged
<1>8. \A c \in Clients : sess[c].held = b => LinkInv(c, sess[c], b, y, drift)
  BY <1>5, <1>6, Damaged
<1>9. Globals'
  BY <1>1 DEF Holding, Globals
<1>10. QED
  BY <1>1, <1>3, <1>4, <1>6, <1>7, <1>8, <1>9, ConnectionKeeps

\* A session that drops its message, or moves on, and the connection it holds.
LEMMA DropSession ==
  ASSUME NEW c, NEW x, NEW s \in Sessions, NEW D, NEW N \in Nat, SessionInv(c, x, D, N), x \in Sessions,
         s.held = x.held, s.statements = x.statements, s.expect = x.expect,
         s.pending = x.pending, s.attach = x.attach, s.owed = x.owed, s.want = <<>>,
         s.stray = x.stray, s.open <=> x.open, s.cancel = x.cancel, ~s.busy,
         s.held # None => s.phase \in Attached
  PROVE  /\ SessionInv(c, s, D, N)
         /\ \A b, r : LinkInv(c, x, b, r, D) /\ (s.phase = "detached" => x.phase = "detached")
              => LinkInv(c, s, b, r, D)
<1>1. Len(<<>>) = 0 /\ DOMAIN <<>> = {}
  BY EmptySeq
<1>2. s.pending + Len(s.want) <= N
  <2>1. x.pending \in Nat /\ x.want \in Seq(Messages) /\ x.pending + Len(x.want) <= N
    BY DEF SessionInv, SessionOK, Sessions
  <2>2. Len(x.want) \in Nat
    BY <2>1, SeqDomain
  <2>3. QED
    BY <1>1, <2>1, <2>2
<1>3. SessionOK(c, s, N)
  BY <1>1, <1>2 DEF SessionInv, SessionOK
<1>4. Spared(D) => UnitSession(c, s, D)
  BY DEF SessionInv, UnitSession
<1>5. ASSUME NEW b, NEW r, LinkInv(c, x, b, r, D), s.phase = "detached" => x.phase = "detached"
      PROVE  LinkInv(c, s, b, r, D)
  <2>1. LinkOK(c, s, b, r)
    BY <1>5 DEF LinkInv, LinkOK
  <2>2. Spared(D) => UnitLink(c, s, b, r, D)
    BY <1>5 DEF LinkInv, UnitLink
  <2>3. QED
    BY <2>1, <2>2 DEF LinkInv
<1>6. QED
  BY <1>3, <1>4, <1>5 DEF SessionInv

\* The pump stops: its read fails, or it gets no backend.
LEMMA StopsKeep ==
  ASSUME Holding, NEW c \in Clients, PumpEnds(c) \/ AcquireFails(c)
  PROVE  Holding'
<1>1. Globals' /\ sent' = sent /\ drift' = drift /\ back' = back
  BY GlobalsKept DEF Holding, Globals, PumpEnds, AcquireFails
<1>2. PICK x : x = sess[c]
  OBVIOUS
<1>3. x \in Sessions /\ SessionInv(c, x, drift, sent) /\ sent \in Nat /\ x.busy \in BOOLEAN
  BY <1>2, OfSession DEF Sessions
<1>4. PICK s : s = [x EXCEPT !.want = <<>>, !.busy = FALSE, !.phase = "leaving"]
  OBVIOUS
<1>5. sess' = [sess EXCEPT ![c] = s]
  <2>1. CASE AcquireFails(c)
    BY <1>2, <1>4, <2>1 DEF AcquireFails, Set
  <2>2. CASE PumpEnds(c)
    <3>1. x.busy = FALSE
      BY <1>2, <1>3, <2>2 DEF PumpEnds
    <3>2. [x EXCEPT !.phase = "leaving", !.want = <<>>] = s
      BY <1>3, <1>4, <3>1 DEF Sessions
    <3>3. QED
      BY <1>2, <2>2, <3>2 DEF PumpEnds, Set
  <2>3. QED
    BY <2>1, <2>2
<1>6. /\ s \in Sessions /\ s.held = x.held /\ s.statements = x.statements /\ s.expect = x.expect
      /\ s.pending = x.pending /\ s.attach = x.attach /\ s.owed = x.owed /\ s.want = <<>>
      /\ s.stray = x.stray /\ (s.open <=> x.open) /\ s.cancel = x.cancel
      /\ s.phase = "leaving" /\ ~s.busy
  <2>1. <<>> \in Seq(Messages) /\ "leaving" \in Phases
    BY DEF Phases
  <2>2. QED
    BY <1>3, <1>4, <2>1 DEF Sessions
<1>7. s.phase \in Attached /\ s.phase # "detached"
  BY <1>6 DEF Attached
<1>8. SessionInv(c, s, drift, sent)
  BY <1>3, <1>6, <1>7, DropSession
<1>9. \A b \in Backends : LinkInv(c, s, b, back[b], drift)
  <2>1. \A b \in Backends : LinkInv(c, x, b, back[b], drift)
    BY <1>2, OfConnection
  <2>2. QED
    BY <1>3, <1>6, <1>7, <2>1, DropSession
<1>10. sent <= sent' /\ drift \subseteq drift' /\ s.held = sess[c].held
  BY <1>1, <1>2, <1>3, <1>6
<1>11. QED
  BY <1>1, <1>5, <1>8, <1>9, <1>10, SessionKeeps

\* The session and the connection when forward fails: c is attached to b and leaves.
Failed(x, b, t) ==
  [x EXCEPT !.want = <<>>, !.busy = FALSE, !.phase = "leaving", !.held = b, !.attach = t]
Lost(r, c) == [Fail(r) EXCEPT !.owner = c]

LEMMA FailedIs ==
  ASSUME NEW x \in Sessions, NEW b \in Backends, NEW t \in Seq(Backends), NEW s, s = Failed(x, b, t)
  PROVE  /\ s \in Sessions /\ s.held = b /\ s.statements = x.statements /\ s.expect = x.expect
         /\ s.pending = x.pending /\ s.attach = t /\ s.owed = x.owed /\ s.want = <<>>
         /\ s.stray = x.stray /\ (s.open <=> x.open) /\ s.cancel = x.cancel
         /\ s.phase = "leaving" /\ ~s.busy
<1>1. <<>> \in Seq(Messages) /\ "leaving" \in Phases
  BY DEF Phases
<1>2. PICK q : q = [x EXCEPT !.want = <<>>, !.busy = FALSE, !.phase = "leaving"]
  OBVIOUS
<1>3. /\ q \in Sessions /\ q.held = x.held /\ q.statements = x.statements /\ q.expect = x.expect
      /\ q.pending = x.pending /\ q.attach = x.attach /\ q.owed = x.owed /\ q.want = <<>>
      /\ q.stray = x.stray /\ (q.open <=> x.open) /\ q.cancel = x.cancel
      /\ q.phase = "leaving" /\ ~q.busy
  BY <1>1, <1>2 DEF Sessions
<1>4. s = [q EXCEPT !.held = b, !.attach = t]
  BY <1>2 DEF Failed
<1>5. /\ s \in Sessions /\ s.held = b /\ s.statements = q.statements /\ s.expect = q.expect
      /\ s.pending = q.pending /\ s.attach = t /\ s.owed = q.owed /\ s.want = q.want
      /\ s.stray = q.stray /\ (s.open <=> q.open) /\ s.cancel = q.cancel
      /\ s.phase = q.phase /\ (s.busy <=> q.busy)
  BY <1>3, <1>4 DEF Sessions
<1>6. QED
  BY <1>3, <1>5

LEMMA LostIs ==
  ASSUME NEW r \in Connections, NEW c \in Clients, NEW y, y = Lost(r, c)
  PROVE  /\ y \in Connections /\ y.owner = c /\ y.prepared = r.prepared /\ y.stmts = r.stmts
         /\ y.replies = r.replies /\ y.tx = r.tx /\ y.skip = r.skip /\ y.foreign = r.foreign
         /\ (y.cut <=> r.cut) /\ y.wire = r.wire /\ y.broken
<1>1. PICK q : q = Fail(r)
  OBVIOUS
<1>2. /\ q \in Connections /\ q.owner = r.owner /\ q.prepared = r.prepared /\ q.stmts = r.stmts
      /\ q.replies = r.replies /\ q.tx = r.tx /\ q.skip = r.skip /\ q.foreign = r.foreign
      /\ (q.cut <=> r.cut) /\ q.wire = r.wire /\ q.broken
  BY <1>1, FailSet
<1>3. y = [q EXCEPT !.owner = c]
  BY <1>1 DEF Lost
<1>4. QED
  BY <1>2, <1>3 DEF Connections

\* forward fails on the backend attached, or on one just taken from the pool.
LEMMA FailsOnKeeps ==
  ASSUME Holding, NEW c \in Clients, NEW b \in Backends, FailsOn(c, b)
  PROVE  Holding'
<1>1. Globals' /\ sent' = sent /\ drift' = drift
  BY GlobalsKept DEF Holding, Globals, FailsOn
<1>2. PICK x : x = sess[c]
  OBVIOUS
<1>3. /\ x \in Sessions /\ SessionInv(c, x, drift, sent) /\ SessionOK(c, x, sent) /\ sent \in Nat
      /\ x.held \in Backends \cup {None}
  BY <1>2, OfSession
<1>4. PICK r : r = back[b]
  OBVIOUS
<1>5. /\ r \in Connections /\ ConnectionInv(b, r, drift) /\ LinkInv(c, x, b, r, drift)
      /\ (x.held = b <=> r.owner = c)
  BY <1>2, <1>4, OfConnection
<1>6. x.attach = IF x.held = None THEN <<>> ELSE <<x.held>>
  BY <1>3 DEF SessionOK
<1>7. /\ x.held = b \/ (x.held = None /\ r.owner = None)
      /\ Attach(c, b) = <<b>>
  <2>1. IF x.held # None THEN b = x.held ELSE r.owner = None
    BY <1>2, <1>4 DEF FailsOn, EnsureBackend
  <2>2. Append(<<>>, b) = <<b>>
    OBVIOUS
  <2>3. QED
    BY <1>2, <1>6, <2>1, <2>2 DEF Attach
<1>8. PICK s, y : s = Failed(x, b, <<b>>) /\ y = Lost(r, c)
  OBVIOUS
<1>9. /\ s \in Sessions /\ s.held = b /\ s.statements = x.statements /\ s.expect = x.expect
      /\ s.pending = x.pending /\ s.attach = <<b>> /\ s.owed = x.owed /\ s.want = <<>>
      /\ s.stray = x.stray /\ (s.open <=> x.open) /\ s.cancel = x.cancel
      /\ s.phase = "leaving" /\ ~s.busy
  <2>1. <<b>> \in Seq(Backends)
    OBVIOUS
  <2>2. PICK t : t = <<b>>
    OBVIOUS
  <2>3. s = Failed(x, b, t) /\ t \in Seq(Backends)
    BY <1>8, <2>1, <2>2
  <2>4. /\ s \in Sessions /\ s.held = b /\ s.statements = x.statements /\ s.expect = x.expect
        /\ s.pending = x.pending /\ s.attach = t /\ s.owed = x.owed /\ s.want = <<>>
        /\ s.stray = x.stray /\ (s.open <=> x.open) /\ s.cancel = x.cancel
        /\ s.phase = "leaving" /\ ~s.busy
    BY <1>3, <2>3, FailedIs
  <2>5. QED
    BY <2>2, <2>4
<1>10. /\ y \in Connections /\ y.owner = c /\ y.prepared = r.prepared /\ y.stmts = r.stmts
       /\ y.replies = r.replies /\ y.tx = r.tx /\ y.skip = r.skip /\ y.foreign = r.foreign
       /\ (y.cut <=> r.cut) /\ y.wire = r.wire /\ y.broken
  BY <1>5, <1>8, LostIs
<1>11. sess' = [sess EXCEPT ![c] = s] /\ back' = [back EXCEPT ![b] = y] /\ sent <= sent'
  BY <1>1, <1>2, <1>3, <1>4, <1>7, <1>8 DEF FailsOn, Set, SetB, Failed, Lost
<1>12. s.phase \in Attached /\ s.phase # "detached"
  BY <1>9 DEF Attached
<1>13. /\ SessionInv(c, s, drift, sent) /\ ConnectionInv(b, y, drift) /\ LinkInv(c, s, b, y, drift)
  <2>1. CASE x.held = b
    <3>0. b # None
      BY Constants
    <3>1. s.attach = x.attach /\ s.held = x.held /\ r.owner = c
      BY <1>5, <1>6, <1>9, <2>1, <3>0
    <3>2. SessionInv(c, s, drift, sent)
      BY <1>3, <1>9, <1>12, <3>1, DropSession
    <3>3. ConnectionInv(b, y, drift)
      BY <1>5, <1>10, <3>1, Damaged
    <3>4. LinkInv(c, x, b, y, drift)
      BY <1>5, <1>10, <2>1, <3>1, Damaged
    <3>5. LinkInv(c, s, b, y, drift)
      BY <1>3, <1>9, <1>12, <3>1, <3>4, DropSession
    <3>6. QED
      BY <3>2, <3>3, <3>5
  <2>2. CASE x.held = None /\ r.owner = None
    <3>0. b # None /\ Len(<<>>) = 0 /\ DOMAIN <<>> = {}
      BY Constants, EmptySeq
    <3>1. x.cancel = None
      BY <1>3, <2>2 DEF SessionOK
    <3>2. SessionOK(c, s, sent)
      <4>1. x.pending \in Nat /\ x.want \in Seq(Messages) /\ x.pending + Len(x.want) <= sent
        BY <1>3 DEF SessionOK, Sessions
      <4>2. Len(x.want) \in Nat
        BY <4>1, SeqDomain
      <4>3. s.pending + Len(s.want) <= sent
        BY <1>3, <1>9, <3>0, <4>1, <4>2
      <4>4. QED
        BY <1>3, <1>9, <1>12, <3>0, <3>1, <4>3 DEF SessionOK
    <3>3. Spared(drift) => UnitSession(c, s, drift)
      BY <1>3, <1>9, <2>2, <3>0 DEF SessionInv, UnitSession
    <3>4. ConnectionOK(b, y, drift)
      BY <1>5, <1>10 DEF ConnectionInv, ConnectionOK
    <3>5. ASSUME Spared(drift)
          PROVE  /\ y.wire = <<>> /\ y.replies = <<>> /\ UnitConnection(b, y) /\ UnitLink(c, s, b, y, drift)
      <4>1. r.wire = <<>> /\ r.replies = <<>>
        BY <1>5, <2>2, <3>5 DEF ConnectionInv, UnitConnection
      <4>2. y.wire = <<>> /\ y.replies = <<>>
        BY <1>10, <4>1
      <4>3. UnitConnection(b, y)
        <5>1. y.owner # None
          BY <1>10, Constants
        <5>2. QED
          BY <3>0, <4>2, <5>1 DEF UnitConnection
      <4>4. ~HasEnd(y)
        BY <3>0, <4>2 DEF HasEnd, HasReady
      <4>5. ASSUME c \notin drift PROVE Settled(s.expect, s.owed, y.replies, y.wire)
        <5>1. s.expect = <<>> /\ s.owed = 0
          BY <1>3, <1>9, <2>2, <3>5, <4>5 DEF SessionInv, UnitSession
        <5>2. <<>> \in Seq({"1", "3"}) /\ 0 \in Int
          OBVIOUS
        <5>3. QED
          BY <4>2, <5>1, <5>2, SettledEmpty
      <4>6. QED
        BY <4>2, <4>3, <4>4, <4>5 DEF UnitLink
    <3>6. LinkOK(c, s, b, y)
      BY <1>9, <1>10, <1>12 DEF LinkOK
    <3>7. QED
      BY <3>2, <3>3, <3>4, <3>5, <3>6 DEF SessionInv, ConnectionInv, LinkInv
  <2>3. QED
    BY <1>7, <2>1, <2>2
<1>14. /\ y.owner \in {c, None} /\ s.held \in {b, None} /\ drift \ {b} \subseteq drift'
       /\ sess[c].held = b \/ (sess[c].held = None /\ back[b].owner = None)
  BY <1>1, <1>2, <1>4, <1>7, <1>9, <1>10
<1>15. QED
  BY <1>1, <1>11, <1>13, <1>14, StepKeeps

LEMMA RelayFailsKeeps ==
  ASSUME Holding, NEW c \in Clients, RelayFails(c)
  PROVE  Holding'
<1>1. Globals' /\ sent' = sent /\ drift' = drift
  BY GlobalsKept DEF Holding, Globals, RelayFails
<1>2. PICK s : s = [sess[c] EXCEPT !.relaying = FALSE]
  OBVIOUS
<1>3. PICK x : x = sess[c]
  OBVIOUS
<1>4. /\ x \in Sessions /\ SessionInv(c, x, drift, sent) /\ sent \in Nat
      /\ (x.cancel # None => x.cancel = x.held) /\ (x.held # None => x.phase \in Attached)
      /\ (x.busy => x.phase = "running" /\ x.want # <<>>)
  BY <1>3, OfSession
<1>5. s \in Sessions /\ Same(s, x) /\ s.phase = x.phase /\ s.cancel = x.cancel /\ (s.busy <=> x.busy)
  BY <1>2, <1>3, <1>4, RelayingSet
<1>6. /\ (s.cancel # None => s.cancel = s.held) /\ (s.held # None => s.phase \in Attached)
      /\ s.held = x.held /\ (s.busy => s.phase = "running" /\ s.want # <<>>)
  BY <1>4, <1>5 DEF Same
<1>7. SessionInv(c, s, drift, sent)
  BY <1>4, <1>5, <1>6, QuietSession
<1>8. \A b, r : LinkInv(c, x, b, r, drift) => LinkInv(c, s, b, r, drift)
  BY <1>4, <1>5, <1>6, QuietSession
<1>9. sess' = [sess EXCEPT ![c] = s] /\ sent <= sent'
  BY <1>1, <1>2, <1>4 DEF RelayFails, Set
<1>10. PICK b \in Backends : b = x.held /\ x.attach[1] = b
  <2>1. x.attach # <<>> /\ x.attach = IF x.held = None THEN <<>> ELSE <<x.held>>
    BY <1>3, <1>4 DEF RelayFails, SessionInv, SessionOK
  <2>2. x.held \in Backends /\ x.attach = <<x.held>>
    BY <1>4, <2>1 DEF Sessions
  <2>3. QED
    BY <2>2
<1>11. PICK y : y = Fail(back[b])
  OBVIOUS
<1>12. back' = [back EXCEPT ![b] = y]
  BY <1>3, <1>10, <1>11 DEF RelayFails, SetB
<1>13. PICK r : r = back[b]
  OBVIOUS
<1>14. r \in Connections /\ ConnectionInv(b, r, drift) /\ LinkInv(c, x, b, r, drift) /\ r.owner = c
  BY <1>3, <1>10, <1>13, OfConnection
<1>15. /\ y \in Connections /\ y.owner = r.owner /\ y.prepared = r.prepared /\ y.stmts = r.stmts
       /\ y.replies = r.replies /\ y.tx = r.tx /\ y.skip = r.skip /\ y.foreign = r.foreign
       /\ (y.cut <=> r.cut) /\ y.wire = r.wire /\ y.broken
  BY <1>11, <1>13, <1>14, FailSet
<1>16. ConnectionInv(b, y, drift)
  BY <1>14, <1>15, Damaged
<1>17. LinkInv(c, x, b, y, drift)
  BY <1>10, <1>14, <1>15, Damaged
<1>18. LinkInv(c, s, b, y, drift)
  BY <1>8, <1>17
<1>19. y.owner \in {c, None} /\ s.held \in {b, None} /\ sess[c].held = b /\ drift \ {b} \subseteq drift'
  BY <1>1, <1>3, <1>6, <1>10, <1>14, <1>15
<1>20. QED
  BY <1>1, <1>7, <1>9, <1>12, <1>16, <1>18, <1>19, StepKeeps

LEMMA DetachKeeps ==
  ASSUME Holding, NEW c \in Clients, Detach(c)
  PROVE  Holding'
<1>1. Globals' /\ sent' = sent /\ drift' = drift
  BY GlobalsKept DEF Holding, Globals, Detach
<1>2. PICK s : s = [sess[c] EXCEPT !.phase = "detached"]
  OBVIOUS
<1>3. PICK x : x = sess[c]
  OBVIOUS
<1>4. /\ x \in Sessions /\ SessionInv(c, x, drift, sent) /\ sent \in Nat
      /\ (x.cancel # None => x.cancel = x.held) /\ x.held \in Backends \cup {None}
      /\ ~x.busy
  BY <1>3, OfSession DEF Detach, Unlocked
<1>5. s \in Sessions /\ Same(s, x) /\ s.phase = "detached" /\ s.cancel = x.cancel /\ ~s.busy
  BY <1>2, <1>3, <1>4, PhaseSet DEF Phases
<1>6. /\ (s.cancel # None => s.cancel = s.held) /\ s.phase \in Attached
      /\ s.held = x.held
  BY <1>4, <1>5 DEF Same, Attached
<1>7. SessionInv(c, s, drift, sent)
  BY <1>4, <1>5, <1>6, QuietSession
<1>8. ASSUME NEW b, NEW r, LinkInv(c, x, b, r, drift), s.held = b => r.cut /\ r.broken
      PROVE  LinkInv(c, s, b, r, drift)
  <2>1. LinkOK(c, s, b, r)
    BY <1>6, <1>8 DEF LinkInv, LinkOK
  <2>2. Spared(drift) => UnitLink(c, s, b, r, drift)
    BY <1>5, <1>8 DEF LinkInv, UnitLink, Same
  <2>3. QED
    BY <2>1, <2>2 DEF LinkInv
<1>9. sess' = [sess EXCEPT ![c] = s] /\ sent <= sent'
  BY <1>1, <1>2, <1>4 DEF Detach, Set
<1>10. CASE x.held = None
  <2>1. back' = back
    BY <1>3, <1>10 DEF Detach
  <2>2. \A b \in Backends : sess[c].held # b
    BY <1>3, <1>10, Constants
  <2>3. QED
    BY <1>1, <1>3, <1>6, <1>7, <1>9, <2>1, <2>2, SessionKeeps
<1>11. CASE x.held # None
  <2>1. PICK b \in Backends : b = x.held
    BY <1>4, <1>11
  <2>2. PICK y : y = Interrupt(back[b])
    OBVIOUS
  <2>3. PICK z : z = Fail(y)
    OBVIOUS
  <2>4. back' = [back EXCEPT ![b] = z]
    BY <1>3, <1>11, <2>1, <2>2, <2>3 DEF Detach, SetB
  <2>5. PICK r : r = back[b]
    OBVIOUS
  <2>6. r \in Connections /\ ConnectionInv(b, r, drift) /\ LinkInv(c, x, b, r, drift) /\ r.owner = c
    BY <1>3, <2>1, <2>5, OfConnection
  <2>7. /\ y \in Connections /\ y.owner = r.owner /\ y.prepared = r.prepared /\ y.stmts = r.stmts
        /\ y.replies = r.replies /\ y.tx = r.tx /\ y.skip = r.skip /\ y.foreign = r.foreign
        /\ y.cut /\ y.wire = <<>>
    BY <2>2, <2>5, <2>6, CutSet
  <2>8. /\ z \in Connections /\ z.owner = r.owner /\ z.prepared = r.prepared /\ z.stmts = r.stmts
        /\ z.replies = r.replies /\ z.tx = r.tx /\ z.skip = r.skip /\ z.foreign = r.foreign
        /\ z.cut /\ z.wire = <<>> /\ z.broken
    <3>1. /\ z \in Connections /\ z.owner = y.owner /\ z.prepared = y.prepared /\ z.stmts = y.stmts
          /\ z.replies = y.replies /\ z.tx = y.tx /\ z.skip = y.skip /\ z.foreign = y.foreign
          /\ (z.cut <=> y.cut) /\ z.wire = y.wire /\ z.broken
      BY <2>3, <2>7, FailSet
    <3>2. QED
      BY <2>7, <3>1
  <2>9. ConnectionInv(b, z, drift)
    BY <2>6, <2>8, Damaged
  <2>10. LinkInv(c, x, b, z, drift)
    BY <2>1, <2>6, <2>8, Damaged
  <2>11. LinkInv(c, s, b, z, drift)
    BY <1>8, <2>8, <2>10
  <2>12. z.owner \in {c, None} /\ s.held \in {b, None} /\ sess[c].held = b /\ drift \ {b} \subseteq drift'
    BY <1>1, <1>3, <1>6, <2>1, <2>6, <2>8
  <2>13. QED
    BY <1>1, <1>7, <1>9, <2>4, <2>9, <2>11, <2>12, StepKeeps
<1>12. QED
  BY <1>10, <1>11

\* What drift is once a connection is back in the pool.
LEMMA ReconnectedIs ==
  ASSUME Holding, NEW b \in Backends, drift' = Reconnected(b) \/ drift' = drift,
         close' = close, count' = count
  PROVE  Globals' /\ drift \ {b} \subseteq drift' /\ sent' = sent /\ sent <= sent'
BY DEF Holding, Globals, Reconnected, count

LEMMA ReleaseBackendKeeps ==
  ASSUME Holding, NEW c \in Clients, ReleaseBackend(c)
  PROVE  Holding'
<1>1. close' = close /\ count' = count
  BY DEF ReleaseBackend
<1>2. PICK s : s = [NewSession EXCEPT !.phase = "done"]
  OBVIOUS
<1>3. PICK x : x = sess[c]
  OBVIOUS
<1>4. x \in Sessions /\ sent \in Nat /\ x.held \in Backends \cup {None} /\ x.phase = "detached"
  BY <1>3, OfSession DEF ReleaseBackend
<1>5. s.held = None /\ \A D : SessionInv(c, s, D, sent)
  BY <1>2, <1>4, DoneSession
<1>6. sess' = [sess EXCEPT ![c] = s]
  BY <1>2 DEF ReleaseBackend, Set
<1>7. CASE x.held = None
  <2>1. back' = back /\ drift' = drift
    BY <1>3, <1>7 DEF ReleaseBackend
  <2>2. Globals' /\ sent' = sent /\ sent <= sent'
    BY <1>1, <1>4, <2>1 DEF Holding, Globals, count
  <2>3. \A b \in Backends : sess[c].held # b
    BY <1>3, <1>7, Constants
  <2>4. s.held = sess[c].held /\ SessionInv(c, s, drift, sent')
    BY <1>3, <1>5, <1>7, <2>2
  <2>5. QED
    BY <1>6, <2>1, <2>2, <2>3, <2>4, SessionKeeps
<1>8. CASE x.held # None
  <2>1. PICK b \in Backends : b = x.held
    BY <1>4, <1>8
  <2>2. back' = [back EXCEPT ![b] = Release(back[b])] /\ drift' = Reconnected(b)
    BY <1>3, <1>8, <2>1 DEF ReleaseBackend, SetB
  <2>3. back[b].broken
    BY <1>3, <1>4, <2>1, OfConnection DEF LinkInv, LinkOK
  <2>4. PICK z : z = NewBackend
    OBVIOUS
  <2>5. back' = [back EXCEPT ![b] = z]
    BY <2>2, <2>3, <2>4 DEF Release
  <2>6. Globals' /\ drift \ {b} \subseteq drift' /\ sent' = sent /\ sent <= sent'
    BY <1>1, <2>2, ReconnectedIs
  <2>7. ConnectionInv(b, z, drift') /\ z.owner = None
    BY <2>4, FreshConnection
  <2>8. LinkInv(c, s, b, z, drift')
    BY <1>5, <2>7, Constants, Apart
  <2>9. SessionInv(c, s, drift', sent')
    BY <1>5, <2>6
  <2>10. sess[c].held = b /\ s.held \in {b, None} /\ z.owner \in {c, None}
    BY <1>3, <1>5, <2>1, <2>7
  <2>11. QED
    BY <1>6, <2>5, <2>6, <2>7, <2>8, <2>9, <2>10, StepKeeps
<1>9. QED
  BY <1>7, <1>8

-----------------------------------------------------------------------------
(* The relay reads one answer. *)

\* Read, of a connection whose status is u now.
Taken(r, u) == [r EXCEPT !.replies = Tail(r.replies), !.status = u]

\* Its last answer was a: the one of its holder, and there is nothing more.
Settles(y, a) == y.replies = <<>> /\ y.wire = <<>> /\ y.tx = a.tx /\ ~y.skip /\ ~HasEnd(y)
Answers(a, c) == a.by = c

LEMMA ReadConnection ==
  ASSUME NEW b, NEW r \in Connections, NEW D, ConnectionInv(b, r, D), r.replies # <<>>,
         NEW u \in Statuses, NEW y, y = Taken(r, u)
  PROVE  /\ y \in Connections /\ y.owner = r.owner /\ y.prepared = r.prepared /\ y.stmts = r.stmts
         /\ y.tx = r.tx /\ (y.skip <=> r.skip) /\ y.foreign = r.foreign
         /\ (y.cut <=> r.cut) /\ y.wire = r.wire /\ (y.broken <=> r.broken)
         /\ y.replies = Tail(r.replies) /\ y.status = u /\ ConnectionInv(b, y, D)
         /\ r.replies \in Seq(Replies) /\ r.wire \in Seq(Messages) /\ r.replies[1] \in Replies
         /\ Head(r.replies) = r.replies[1]
         /\ HasReady(y) => HasReady(r)
         /\ HasEnd(y) => HasEnd(r)
         /\ r.replies[1].k = "Z" => HasReady(r)
         /\ Spared(D) => Answers(r.replies[1], r.owner)
         /\ Spared(D) /\ r.replies[1].k = "Z" => Settles(y, r.replies[1])
<1>1. r.replies \in Seq(Replies) /\ r.wire \in Seq(Messages)
  BY DEF Connections
<1>2. PICK q : q = Tail(r.replies)
  OBVIOUS
<1>3. PICK R : R = r.replies
  OBVIOUS
<1>4. /\ q \in Seq(Replies) /\ Len(q) = Len(R) - 1 /\ Len(R) \in Nat /\ Len(R) > 0
      /\ DOMAIN q = 1 .. Len(R) - 1 /\ Head(R) = R[1] /\ 1 \in DOMAIN R
      /\ \A i \in 1 .. Len(R) - 1 : q[i] = R[i + 1] /\ i + 1 \in DOMAIN R
  BY <1>1, <1>2, <1>3, TailIs
<1>5. /\ y \in Connections /\ y.owner = r.owner /\ y.prepared = r.prepared /\ y.stmts = r.stmts
      /\ y.replies = q /\ y.tx = r.tx /\ (y.skip <=> r.skip) /\ y.foreign = r.foreign
      /\ (y.cut <=> r.cut) /\ y.wire = r.wire /\ (y.broken <=> r.broken) /\ y.status = u
  <2>1. y = [r EXCEPT !.replies = q, !.status = u]
    BY <1>2 DEF Taken
  <2>2. QED
    BY <1>4, <2>1 DEF Connections
<1>6. ConnectionOK(b, y, D)
  BY <1>5 DEF ConnectionInv, ConnectionOK
<1>7. HasReady(y) => HasReady(r)
  BY <1>3, <1>4, <1>5 DEF HasReady
<1>8. HasEnd(y) => HasEnd(r)
  BY <1>5, <1>7 DEF HasEnd
<1>9. r.replies[1].k = "Z" => HasReady(r)
  BY <1>3, <1>4 DEF HasReady
<1>10. ASSUME Spared(D)
       PROVE  /\ UnitConnection(b, y) /\ Answers(R[1], r.owner)
              /\ R[1].k = "Z" => Settles(y, R[1])
  <2>0. /\ r.owner = None => r.wire = <<>> /\ r.replies = <<>> /\ (~r.cut => r.tx = "I" /\ ~r.skip)
        /\ \A i \in DOMAIN r.wire : r.wire[i].by = r.owner
        /\ \A i \in DOMAIN r.wire : EndsTransactionUnit(r.wire[i]) => i = Len(r.wire)
        /\ \A i \in DOMAIN R : R[i].by = r.owner
        /\ \A i \in DOMAIN R : R[i].k = "Z" => i = Len(R) /\ r.wire = <<>> /\ r.tx = R[i].tx /\ ~r.skip
    BY <1>3, <1>10 DEF ConnectionInv, UnitConnection
  <2>1. \A i \in DOMAIN q : q[i].by = r.owner
    BY <1>4, <2>0, SMTT(30)
  <2>2. ASSUME NEW i \in DOMAIN q, q[i].k = "Z"
        PROVE  i = Len(q) /\ y.wire = <<>> /\ y.tx = q[i].tx /\ ~y.skip
    <3>1. q[i] = R[i + 1] /\ i + 1 \in DOMAIN R
      BY <1>4, <2>2
    <3>2. i + 1 = Len(R) /\ r.wire = <<>> /\ r.tx = R[i + 1].tx /\ ~r.skip
      BY <2>0, <2>2, <3>1
    <3>3. i = Len(q)
      BY <1>4, <3>2
    <3>4. QED
      BY <1>5, <3>1, <3>2, <3>3
  <2>3. UnitConnection(b, y)
    BY <1>5, <2>0, <2>1, <2>2 DEF UnitConnection
  <2>4. Answers(R[1], r.owner)
    BY <1>4, <2>0 DEF Answers
  <2>5. ASSUME R[1].k = "Z"
        PROVE  Settles(y, R[1])
    <3>1. Len(R) = 1 /\ r.wire = <<>> /\ r.tx = R[1].tx /\ ~r.skip
      BY <1>4, <2>0, <2>5
    <3>2. q = <<>>
      BY <1>4, <3>1, EmptySeq
    <3>3. DOMAIN <<>> = {}
      OBVIOUS
    <3>4. ~HasEnd(y)
      BY <1>5, <3>1, <3>2, <3>3 DEF HasEnd, HasReady
    <3>5. QED
      BY <1>5, <3>1, <3>2, <3>4 DEF Settles
  <2>6. QED
    BY <2>3, <2>4, <2>5
<1>11. ConnectionInv(b, y, D)
  BY <1>6, <1>10 DEF ConnectionInv
<1>12. R[1] \in Replies
  BY <1>1, <1>3, <1>4, SeqDomain
<1>13. QED
  BY <1>1, <1>2, <1>3, <1>4, <1>5, <1>7, <1>8, <1>9, <1>10, <1>11, <1>12

\* The backend the relay reads is the one the session holds.
LEMMA OfReading ==
  ASSUME Holding, NEW c \in Clients, Reading(c)
  PROVE  \E b \in Backends :
           /\ sess[c].held = b /\ sess[c].attach = <<b>> /\ sess[c].attach[1] = b /\ back[b].owner = c
           /\ sess[c].cancel = None /\ ~sess[c].busy
<1>1. sess[c].attach # <<>> /\ sess[c].cancel = None /\ ~sess[c].busy
  BY DEF Reading, Unlocked
<1>2. sess[c].held \in Backends /\ sess[c].attach = <<sess[c].held>>
  BY <1>1, OfSession DEF SessionOK
<1>3. QED
  BY <1>1, <1>2, OfConnection

Owing(x, e, o) == [x EXCEPT !.expect = e, !.owed = o]

LEMMA ExpectSet ==
  ASSUME NEW x \in Sessions, NEW e \in Seq({"1", "3"}), NEW o \in Int, NEW s, s = Owing(x, e, o)
  PROVE  /\ s \in Sessions /\ s.expect = e /\ s.owed = o /\ s.held = x.held
         /\ s.statements = x.statements /\ s.pending = x.pending /\ s.attach = x.attach
         /\ s.want = x.want /\ s.stray = x.stray /\ (s.open <=> x.open) /\ s.phase = x.phase
         /\ s.cancel = x.cancel
<1>1. PICK q : q = [x EXCEPT !.expect = e]
  OBVIOUS
<1>2. /\ q \in Sessions /\ q.expect = e /\ q.held = x.held
      /\ q.statements = x.statements /\ q.pending = x.pending /\ q.attach = x.attach
      /\ q.want = x.want /\ q.stray = x.stray /\ (q.open <=> x.open) /\ q.phase = x.phase
      /\ q.cancel = x.cancel
  BY <1>1 DEF Sessions
<1>3. s = [q EXCEPT !.owed = o]
  BY <1>1 DEF Owing
<1>4. /\ s \in Sessions /\ s.expect = q.expect /\ s.owed = o /\ s.held = q.held
      /\ s.statements = q.statements /\ s.pending = q.pending /\ s.attach = q.attach
      /\ s.want = q.want /\ s.stray = q.stray /\ (s.open <=> q.open) /\ s.phase = q.phase
      /\ s.cancel = q.cancel
  BY <1>2, <1>3 DEF Sessions
<1>5. QED
  BY <1>2, <1>4

LEMMA SwallowKeeps ==
  ASSUME Holding, NEW c \in Clients, Swallow(c)
  PROVE  Holding'
<1>1. Globals' /\ sent' = sent /\ drift' = drift
  BY GlobalsKept DEF Holding, Globals, Swallow
<1>2. PICK b \in Backends : sess[c].held = b /\ sess[c].attach[1] = b /\ back[b].owner = c
  BY OfReading DEF Swallow
<1>3. PICK x : x = sess[c]
  OBVIOUS
<1>4. PICK r : r = back[b]
  OBVIOUS
<1>5. /\ x \in Sessions /\ SessionInv(c, x, drift, sent) /\ sent \in Nat
      /\ x.expect \in Seq({"1", "3"}) /\ x.owed \in Int
      /\ r \in Connections /\ ConnectionInv(b, r, drift) /\ LinkInv(c, x, b, r, drift)
  BY <1>3, <1>4, OfSession, OfConnection DEF Sessions
<1>6. r.replies # <<>> /\ x.expect # <<>> /\ Head(x.expect) = Head(r.replies).k
  BY <1>2, <1>3, <1>4 DEF Swallow, Swallows
<1>7. PICK y : y = Taken(r, r.status)
  OBVIOUS
<1>b. r.status \in Statuses
  BY <1>5 DEF Connections
<1>8. back' = [back EXCEPT ![b] = y]
  <2>1. y = [r EXCEPT !.replies = Tail(r.replies)]
    BY <1>5, <1>7 DEF Taken, Connections
  <2>2. QED
    BY <1>2, <1>4, <2>1 DEF Swallow, SetB, Read
<1>9. PICK o \in Int : o = IF Head(r.replies).inj THEN x.owed ELSE x.owed + 1
  BY <1>5
<1>10. PICK e \in Seq({"1", "3"}) : e = Tail(x.expect)
  <2>1. Tail(x.expect) \in Seq({"1", "3"})
    BY <1>5, <1>6, TailIs
  <2>2. QED
    BY <2>1
<1>11. PICK s : s = Owing(x, e, o)
  OBVIOUS
<1>12. sess' = [sess EXCEPT ![c] = s]
  BY <1>2, <1>3, <1>4, <1>9, <1>10, <1>11 DEF Swallow, Set, Owing
<1>13. /\ y \in Connections /\ y.owner = r.owner /\ (y.cut <=> r.cut) /\ y.wire = r.wire
       /\ (y.broken <=> r.broken) /\ y.replies = Tail(r.replies)
       /\ r.replies \in Seq(Replies) /\ r.wire \in Seq(Messages)
  <2>1. r.replies \in Seq(Replies) /\ r.wire \in Seq(Messages)
    BY <1>5 DEF Connections
  <2>2. y \in Connections
    BY <1>5, <1>6, <1>7, <1>b, ReadConnection
  <2>3. /\ y.owner = r.owner /\ (y.cut <=> r.cut) /\ y.wire = r.wire
        /\ (y.broken <=> r.broken) /\ y.replies = Tail(r.replies)
    BY <1>5, <1>7 DEF Taken, Connections
  <2>4. QED
    BY <2>1, <2>2, <2>3
<1>a. /\ ConnectionInv(b, y, drift)
      /\ r.replies[1] \in Replies
      /\ Head(r.replies) = r.replies[1]
      /\ (HasReady(y) => HasReady(r)) /\ (HasEnd(y) => HasEnd(r))
  BY <1>5, <1>6, <1>7, <1>b, ReadConnection
<1>14. Head(x.expect) = x.expect[1] /\ x.expect[1] \in {"1", "3"}
  <2>1. Head(x.expect) = x.expect[1] /\ 1 \in DOMAIN x.expect
    BY <1>5, <1>6, TailIs
  <2>2. x.expect[1] \in {"1", "3"}
    BY <1>5, <2>1, SeqDomain
  <2>3. QED
    BY <2>1, <2>2
<1>15. /\ s \in Sessions /\ s.expect = e /\ s.owed = o /\ s.held = x.held
       /\ s.statements = x.statements /\ s.pending = x.pending /\ s.attach = x.attach
       /\ s.want = x.want /\ s.stray = x.stray /\ (s.open <=> x.open) /\ s.phase = x.phase
       /\ s.cancel = x.cancel /\ (s.busy <=> x.busy)
  <2>1. /\ s.expect = e /\ s.owed = o /\ s.held = x.held
        /\ s.statements = x.statements /\ s.pending = x.pending /\ s.attach = x.attach
        /\ s.want = x.want /\ s.stray = x.stray /\ (s.open <=> x.open) /\ s.phase = x.phase
        /\ s.cancel = x.cancel /\ (s.busy <=> x.busy)
    BY <1>5, <1>11 DEF Owing, Sessions
  <2>2. s \in Sessions
    BY <1>5, <1>11, ExpectSet
  <2>3. QED
    BY <2>1, <2>2
<1>16. s.held = b /\ b # None
  BY <1>2, <1>3, <1>15, Constants
<1>17. SessionInv(c, s, drift, sent)
  <2>1. SessionOK(c, s, sent)
    BY <1>5, <1>15 DEF SessionInv, SessionOK
  <2>2. Spared(drift) => UnitSession(c, s, drift)
    BY <1>5, <1>15, <1>16 DEF SessionInv, UnitSession
  <2>3. QED
    BY <2>1, <2>2 DEF SessionInv
<1>18. LinkInv(c, s, b, y, drift)
  <2>1. LinkOK(c, s, b, y)
    BY <1>5, <1>13, <1>15 DEF LinkInv, LinkOK
  <2>2. ASSUME Spared(drift) PROVE UnitLink(c, s, b, y, drift)
    <3>1. UnitLink(c, x, b, r, drift) /\ x.held = b
      BY <1>2, <1>3, <1>5, <2>2 DEF LinkInv
    <3>2. ASSUME c \notin drift, ~y.cut \/ HasReady(y)
          PROVE  Settled(e, o, y.replies, y.wire)
      <4>1. Settled(x.expect, x.owed, r.replies, r.wire)
        BY <1>13, <1>a, <3>1, <3>2 DEF UnitLink
      <4>2. PICK L : L = Len(y.replies) + Len(r.wire)
        OBVIOUS
      <4>3. /\ L \in Nat /\ L + 1 = Len(r.replies) + Len(r.wire)
            /\ (Counts(r.replies, r.wire, 1) <=> r.replies[1].inj /\ r.replies[1].k # "E")
            /\ \A i \in 1 .. L : /\ Kind(y.replies, r.wire, i) = Kind(r.replies, r.wire, i + 1)
                                 /\ (Counts(y.replies, r.wire, i) <=> Counts(r.replies, r.wire, i + 1))
        BY <1>6, <1>13, <1>a, <4>2, ReadMoves
      <4>4. r.replies[1].k # "E" /\ r.replies[1].inj \in BOOLEAN
        BY <1>6, <1>a, <1>14 DEF Replies
      <4>5. (Counts(r.replies, r.wire, 1) => o = x.owed) /\ (~Counts(r.replies, r.wire, 1) => o = x.owed + 1)
        BY <1>9, <1>a, <4>3, <4>4
      <4>6. Settled(Tail(x.expect), o, y.replies, r.wire)
        BY <1>5, <1>6, <1>14, <4>1, <4>2, <4>3, <4>5, SettledSwallow
      <4>7. QED
        BY <1>10, <1>13, <4>6
    <3>3. QED
      BY <1>13, <1>15, <1>a, <3>1, <3>2 DEF UnitLink
  <2>3. QED
    BY <2>1, <2>2 DEF LinkInv
<1>19. /\ y.owner \in {c, None} /\ s.held \in {b, None} /\ sess[c].held = b /\ drift \ {b} \subseteq drift'
       /\ sent <= sent'
  BY <1>1, <1>2, <1>4, <1>5, <1>13, <1>16
<1>20. QED
  BY <1>1, <1>8, <1>12, <1>17, <1>18, <1>19, <1>a, StepKeeps

\* The session when the relay has passed a on.
Relayed(c, a, f) ==
  [sess[c] EXCEPT
     !.relaying = f,
     !.stray = IF a.by = c THEN @ ELSE @ \cup {a.k},
     !.owed = IF a.inj /\ a.k # "E" THEN @ - 1 ELSE @,
     !.pending = IF a.k = "Z" /\ @ > 0 THEN @ - 1 ELSE @,
     !.open = IF a.k = "Z" THEN FALSE ELSE @,
     !.held = IF CompleteUnit(c, a) THEN None ELSE @,
     !.attach = IF CompleteUnit(c, a) THEN Tail(@) ELSE @]

LEMMA RelaySets ==
  ASSUME NEW c \in Clients, Relay(c), NEW a, a = Head(back[sess[c].attach[1]].replies)
  PROVE  \E f \in BOOLEAN : sess' = [sess EXCEPT ![c] = Relayed(c, a, f)]
<1>1. \E f \in {TRUE, ~Silent(c)} :
        sess' = [sess EXCEPT ![c] = Relayed(c, Head(back[sess[c].attach[1]].replies), f)]
  BY DEF Relay, Set, Relayed
<1>2. PICK f \in {TRUE, ~Silent(c)} : sess' = [sess EXCEPT ![c] = Relayed(c, a, f)]
  BY <1>1
<1>3. f \in BOOLEAN
  BY DEF Silent
<1>4. QED
  BY <1>2, <1>3

LEMMA RelayKeeps ==
  ASSUME Holding, NEW c \in Clients, Relay(c)
  PROVE  Holding'
<1>1. close' = close /\ count' = count
  BY DEF Relay
<1>2. PICK b \in Backends :
        sess[c].held = b /\ sess[c].attach = <<b>> /\ sess[c].attach[1] = b /\ back[b].owner = c
        /\ sess[c].cancel = None /\ ~sess[c].busy
  BY OfReading DEF Relay
<1>3. PICK x : x = sess[c]
  OBVIOUS
<1>4. PICK r : r = back[b]
  OBVIOUS
<1>5. /\ x \in Sessions /\ SessionInv(c, x, drift, sent) /\ sent \in Nat
      /\ x.expect \in Seq({"1", "3"}) /\ x.owed \in Int /\ x.pending \in Nat
      /\ x.attach \in Seq(Backends) /\ x.held \in Backends \cup {None}
      /\ r \in Connections /\ ConnectionInv(b, r, drift) /\ LinkInv(c, x, b, r, drift)
      /\ r.owner = c /\ b # None /\ b \notin Clients
  BY <1>2, <1>3, <1>4, OfSession, OfConnection, Constants DEF Sessions
<1>6. /\ r.replies # <<>> /\ (x.expect = <<>> \/ Head(x.expect) # Head(r.replies).k)
  BY <1>2, <1>3, <1>4 DEF Relay, Swallows
<1>9. PICK a : a = Head(r.replies)
  OBVIOUS
<1>a. PICK u : u = IF a.k = "Z" THEN a.tx ELSE r.status
  OBVIOUS
<1>b. u \in Statuses /\ a \in Replies
  <2>1. r.replies \in Seq(Replies) /\ r.status \in Statuses
    BY <1>5 DEF Connections
  <2>2. r.replies[1] \in Replies /\ Head(r.replies) = r.replies[1]
    BY <1>6, <2>1, TailIs, SeqDomain
  <2>3. a \in Replies
    BY <1>9, <2>2
  <2>4. a.tx \in Statuses
    BY <2>3 DEF Replies
  <2>5. QED
    BY <1>a, <2>1, <2>3, <2>4
<1>7. PICK y : y = Taken(r, u)
  OBVIOUS
<1>8. /\ y \in Connections /\ y.owner = r.owner /\ (y.cut <=> r.cut) /\ y.wire = r.wire
      /\ (y.broken <=> r.broken) /\ y.replies = Tail(r.replies)
      /\ r.replies \in Seq(Replies) /\ r.wire \in Seq(Messages)
  <2>1. r.replies \in Seq(Replies) /\ r.wire \in Seq(Messages)
    BY <1>5 DEF Connections
  <2>2. y \in Connections
    BY <1>5, <1>6, <1>7, <1>b, ReadConnection
  <2>3. /\ y.owner = r.owner /\ (y.cut <=> r.cut) /\ y.wire = r.wire
        /\ (y.broken <=> r.broken) /\ y.replies = Tail(r.replies)
    BY <1>5, <1>7 DEF Taken, Connections
  <2>4. QED
    BY <2>1, <2>2, <2>3
<1>10. /\ ConnectionInv(b, y, drift) /\ a = r.replies[1] /\ a \in Replies
       /\ (HasReady(y) => HasReady(r)) /\ (HasEnd(y) => HasEnd(r)) /\ (a.k = "Z" => HasReady(r))
  <2>1. /\ ConnectionInv(b, y, drift)
        /\ r.replies[1] \in Replies
        /\ Head(r.replies) = r.replies[1]
        /\ (HasReady(y) => HasReady(r)) /\ (HasEnd(y) => HasEnd(r))
        /\ (r.replies[1].k = "Z" => HasReady(r))
    <3>1. u \in Statuses
      BY <1>b
    <3>2. ConnectionInv(b, y, drift)
      BY <1>5, <1>6, <1>7, <3>1, ReadConnection
    <3>3. r.replies[1] \in Replies /\ Head(r.replies) = r.replies[1]
      BY <1>6, <1>8, TailIs, SeqDomain
    <3>4. (HasReady(y) => HasReady(r)) /\ (HasEnd(y) => HasEnd(r))
      BY <1>5, <1>6, <1>7, <3>1, ReadConnection
    <3>5. r.replies[1].k = "Z" => HasReady(r)
      BY <1>5, <1>6, <1>7, <3>1, ReadConnection
    <3>6. QED
      BY <3>2, <3>3, <3>4, <3>5
  <2>2. QED
    BY <1>9, <2>1
<1>11. ASSUME Spared(drift)
       PROVE  /\ a.by = c
              /\ a.k = "Z" => y.replies = <<>> /\ y.wire = <<>> /\ y.tx = a.tx /\ ~y.skip /\ ~HasEnd(y)
  <2>1. /\ Answers(r.replies[1], r.owner)
        /\ r.replies[1].k = "Z" => Settles(y, r.replies[1])
    BY <1>5, <1>6, <1>7, <1>b, <1>11, ReadConnection
  <2>2. QED
    BY <1>5, <1>10, <2>1 DEF Answers, Settles
<1>12. PICK v \in SUBSET ReplyKinds : v = IF a.by = c THEN x.stray ELSE x.stray \cup {a.k}
  <2>1. x.stray \in SUBSET ReplyKinds /\ a.k \in ReplyKinds
    BY <1>5, <1>b DEF Sessions, Replies
  <2>2. QED
    BY <2>1
<1>13. PICK o \in Int : o = IF a.inj /\ a.k # "E" THEN x.owed - 1 ELSE x.owed
  BY <1>5
<1>14. PICK p \in Nat : p = IF a.k = "Z" /\ x.pending > 0 THEN x.pending - 1 ELSE x.pending
  BY <1>5
<1>15. PICK w \in BOOLEAN : w = IF a.k = "Z" THEN FALSE ELSE x.open
  <2>1. (IF a.k = "Z" THEN FALSE ELSE x.open) \in BOOLEAN
    BY <1>5 DEF Sessions
  <2>2. QED
    BY <2>1
<1>16. PICK d \in BOOLEAN : d = CompleteUnit(c, a)
  <2>1. CompleteUnit(c, a) \in BOOLEAN
    BY DEF CompleteUnit
  <2>2. QED
    BY <2>1
<1>17. d <=> a.k = "Z" /\ x.pending <= 1 /\ a.tx = "I"
  BY <1>3, <1>16 DEF CompleteUnit
<1>18. PICK h \in Backends \cup {None} : h = IF d THEN None ELSE x.held
  BY <1>5
<1>19. PICK t : t = IF d THEN Tail(x.attach) ELSE x.attach
  OBVIOUS
<1>c. PICK f \in BOOLEAN : sess' = [sess EXCEPT ![c] = Relayed(c, a, f)]
  BY <1>2, <1>4, <1>9, RelaySets
<1>20. PICK s : s = [x EXCEPT !.relaying = f, !.stray = v, !.owed = o, !.pending = p, !.open = w,
                              !.held = h, !.attach = t]
  OBVIOUS
<1>21. sess' = [sess EXCEPT ![c] = s]
  BY <1>c, <1>3, <1>12, <1>13, <1>14, <1>15, <1>16, <1>18, <1>19, <1>20 DEF Relayed
<1>22. /\ back' = [back EXCEPT ![b] = IF d THEN Release(y) ELSE y]
       /\ drift' = IF d THEN Reconnected(b) ELSE drift
  <2>1. y = [[r EXCEPT !.replies = Tail(@)] EXCEPT !.status = IF a.k = "Z" THEN a.tx ELSE @]
    BY <1>5, <1>7, <1>a DEF Taken, Connections
  <2>2. QED
    BY <1>2, <1>4, <1>9, <1>16, <2>1 DEF Relay, SetB, Read
<1>23. /\ t = IF h = None THEN <<>> ELSE <<h>>
       /\ t \in Seq(Backends) /\ (h = None <=> d) /\ (~d => h = b)
  <2>1. x.attach = <<b>> /\ x.held = b
    BY <1>2, <1>3
  <2>2. Tail(<<b>>) = <<>> /\ <<>> \in Seq(Backends)
    OBVIOUS
  <2>3. QED
    BY <1>5, <1>18, <1>19, <2>1, <2>2
<1>24. /\ s.stray = v /\ s.owed = o /\ s.pending = p /\ s.open = w /\ s.held = h /\ s.attach = t
       /\ s.expect = x.expect /\ s.statements = x.statements /\ s.want = x.want /\ s.phase = x.phase
       /\ s.cancel = x.cancel /\ (s.busy <=> x.busy)
  BY <1>5, <1>20 DEF Sessions
<1>25. s \in Sessions
  <2>1. PICK g : g = [x EXCEPT !.relaying = f, !.stray = v, !.owed = o, !.pending = p]
    OBVIOUS
  <2>2. g \in Sessions
    BY <1>5, <2>1 DEF Sessions
  <2>3. s = [g EXCEPT !.open = w, !.held = h, !.attach = t]
    BY <1>20, <2>1
  <2>4. QED
    BY <1>23, <2>2, <2>3 DEF Sessions
<1>26. SessionOK(c, s, sent)
  <2>1. SessionOK(c, x, sent)
    BY <1>5 DEF SessionInv
  <2>2. s.pending + Len(s.want) <= sent
    <3>1. x.pending + Len(x.want) <= sent /\ Len(x.want) \in Nat
      BY <1>5, <2>1, SeqDomain DEF SessionOK, Sessions
    <3>2. p <= x.pending
      BY <1>5, <1>14
    <3>3. QED
      BY <1>5, <1>24, <3>1, <3>2
  <2>3. x.cancel = None /\ (s.held # None => s.phase \in Attached) /\ ~s.busy
    BY <1>2, <1>3, <1>5, <1>24, <2>1 DEF SessionOK
  <2>4. QED
    BY <1>23, <1>24, <1>25, <2>1, <2>2, <2>3 DEF SessionOK
<1>27. ASSUME Spared(drift), c \notin drift, ~r.cut \/ HasReady(r)
       PROVE  Settled(x.expect, o, y.replies, r.wire)
  <2>1. Settled(x.expect, x.owed, r.replies, r.wire)
    BY <1>2, <1>3, <1>5, <1>27 DEF LinkInv, UnitLink
  <2>2. PICK L : L = Len(y.replies) + Len(r.wire)
    OBVIOUS
  <2>3. /\ L \in Nat /\ L + 1 = Len(r.replies) + Len(r.wire)
        /\ Kind(r.replies, r.wire, 1) = r.replies[1].k
        /\ (Counts(r.replies, r.wire, 1) <=> r.replies[1].inj /\ r.replies[1].k # "E")
        /\ \A i \in 1 .. L : /\ Kind(y.replies, r.wire, i) = Kind(r.replies, r.wire, i + 1)
                             /\ (Counts(y.replies, r.wire, i) <=> Counts(r.replies, r.wire, i + 1))
    BY <1>6, <1>8, <2>2, ReadMoves
  <2>4. (Counts(r.replies, r.wire, 1) => o = x.owed - 1) /\ (~Counts(r.replies, r.wire, 1) => o = x.owed)
    BY <1>10, <1>13, <2>3
  <2>5. x.expect = <<>> \/ x.expect[1] # Kind(r.replies, r.wire, 1)
    <3>1. x.expect # <<>> => Head(x.expect) = x.expect[1]
      BY <1>5, TailIs
    <3>2. QED
      BY <1>6, <1>9, <1>10, <2>3, <3>1
  <2>6. QED
    BY <1>5, <2>1, <2>2, <2>3, <2>4, <2>5, SettledRelay
<1>28. ASSUME Spared(drift)
       PROVE  /\ UnitSession(c, s, drift)
              /\ a.k = "Z" => x.open /\ x.want = <<>>
  <2>1. UnitSession(c, x, drift) /\ UnitLink(c, x, b, r, drift) /\ x.held = b
    BY <1>2, <1>3, <1>5, <1>28 DEF SessionInv, LinkInv
  <2>2. a.k = "Z" => x.open /\ x.want = <<>>
    BY <1>10, <2>1 DEF UnitLink, HasEnd
  <2>3. /\ x.pending <= 1 /\ (x.pending = 1 => x.open /\ x.want = <<>>)
        /\ x.want # <<>> => (x.open <=> EndsTransactionUnit(x.want[1]))
    BY <2>1 DEF UnitSession
  <2>5. /\ a.k = "Z" => p = 0 /\ ~w
        /\ a.k # "Z" => p = x.pending /\ (w <=> x.open)
    BY <1>5, <1>14, <1>15, <2>3
  <2>6. p <= 1 /\ (p = 1 => w /\ x.want = <<>>)
    BY <2>3, <2>5
  <2>7. h = None => p = 0
    BY <1>17, <1>23, <2>5
  <2>8. x.want # <<>> => (w <=> EndsTransactionUnit(x.want[1]))
    BY <2>2, <2>3, <2>5
  <2>9. c \notin drift /\ h = None => x.expect = <<>> /\ o = 0
    <3>1. SUFFICES ASSUME c \notin drift, h = None PROVE x.expect = <<>> /\ o = 0
      OBVIOUS
    <3>2. a.k = "Z" /\ HasReady(r)
      BY <1>10, <1>17, <1>23, <3>1
    <3>3. y.replies = <<>> /\ r.wire = <<>>
      BY <1>8, <1>11, <1>28, <3>2
    <3>4. Settled(x.expect, o, <<>>, <<>>)
      BY <1>27, <1>28, <3>1, <3>2, <3>3
    <3>5. QED
      BY <1>5, <3>4, SettledEmpty
  <2>10. UnitSession(c, s, drift)
    BY <1>24, <2>6, <2>7, <2>8, <2>9 DEF UnitSession
  <2>11. QED
    BY <2>2, <2>10
<1>29. SessionInv(c, s, drift, sent)
  BY <1>26, <1>28 DEF SessionInv
<1>30. Globals' /\ drift \ {b} \subseteq drift' /\ sent' = sent /\ sent <= sent'
  <2>1. drift' = Reconnected(b) \/ drift' = drift
    BY <1>22
  <2>2. QED
    BY <1>1, <2>1, ReconnectedIs
<1>31. SessionInv(c, s, drift', sent')
  <2>1. (c \in drift => c \in drift') /\ (Spared(drift') => Spared(drift))
    BY <1>5, <1>30 DEF Spared
  <2>2. QED
    BY <1>5, <1>29, <1>30, <2>1, Later
<1>32. CASE ~d
  <2>1. back' = [back EXCEPT ![b] = y] /\ drift' = drift
    BY <1>22, <1>32
  <2>2. LinkOK(c, s, b, y)
    BY <1>5, <1>8, <1>23, <1>24, <1>32, <1>2, <1>3 DEF LinkInv, LinkOK
  <2>3. ASSUME Spared(drift) PROVE UnitLink(c, s, b, y, drift)
    <3>1. UnitLink(c, x, b, r, drift) /\ x.held = b
      BY <1>2, <1>3, <1>5, <2>3 DEF LinkInv
    <3>2. HasEnd(y) => s.open /\ s.want = <<>>
      <4>1. CASE a.k = "Z"
        BY <1>11, <2>3, <4>1
      <4>2. CASE a.k # "Z"
        BY <1>10, <1>15, <1>24, <3>1, <4>2 DEF UnitLink
      <4>3. QED
        BY <4>1, <4>2
    <3>3. c \notin drift /\ (~y.cut \/ HasReady(y)) => Settled(s.expect, s.owed, y.replies, y.wire)
      BY <1>8, <1>10, <1>24, <1>27, <2>3
    <3>4. QED
      BY <3>2, <3>3 DEF UnitLink
  <2>4. LinkInv(c, s, b, y, drift)
    BY <2>2, <2>3 DEF LinkInv
  <2>5. y.owner \in {c, None} /\ s.held \in {b, None} /\ sess[c].held = b
    BY <1>2, <1>5, <1>8, <1>23, <1>24, <1>32
  <2>6. QED
    BY <1>10, <1>21, <1>30, <1>31, <2>1, <2>4, <2>5, StepKeeps
<1>33. CASE d
  <2>1. PICK z : z = Release(y)
    OBVIOUS
  <2>2. back' = [back EXCEPT ![b] = z] /\ drift' = Reconnected(b) /\ s.held = None /\ a.k = "Z" /\ a.tx = "I"
    BY <1>17, <1>22, <1>23, <1>24, <1>33, <2>1
  <2>3. ConnectionInv(b, z, drift') /\ z.owner = None
    <3>1. CASE y.broken
      <4>1. z = NewBackend
        BY <2>1, <3>1 DEF Release
      <4>2. QED
        BY <4>1, FreshConnection
    <3>2. CASE ~y.broken
      <4>0. y.status = "I"
        BY <1>5, <1>7, <1>a, <2>2 DEF Taken, Connections
      <4>1. z = [y EXCEPT !.owner = None] /\ drift' = drift
        BY <1>4, <1>8, <2>1, <2>2, <3>2, <4>0 DEF Release, Reconnected
      <4>2. /\ z.owner = None /\ z.prepared = y.prepared /\ z.stmts = y.stmts
            /\ z.replies = y.replies /\ z.tx = y.tx /\ (z.skip <=> y.skip) /\ z.foreign = y.foreign
            /\ (z.cut <=> y.cut) /\ z.wire = y.wire /\ z \in Connections
        BY <1>8, <4>1 DEF Connections
      <4>3. ConnectionOK(b, z, drift)
        BY <1>10, <4>2 DEF ConnectionInv, ConnectionOK
      <4>4. ASSUME Spared(drift) PROVE UnitConnection(b, z)
        <5>1. DOMAIN <<>> = {}
          OBVIOUS
        <5>2. z.replies = <<>> /\ z.wire = <<>> /\ z.tx = "I" /\ ~z.skip
          BY <1>11, <2>2, <4>2, <4>4
        <5>3. QED
          BY <4>2, <5>1, <5>2 DEF UnitConnection
      <4>5. QED
        BY <4>1, <4>2, <4>3, <4>4 DEF ConnectionInv
    <3>3. QED
      BY <3>1, <3>2
  <2>4. LinkInv(c, s, b, z, drift')
    BY <2>2, <2>3, Constants, Apart
  <2>5. z.owner \in {c, None} /\ s.held \in {b, None} /\ sess[c].held = b
    BY <1>2, <2>2, <2>3
  <2>6. QED
    BY <1>21, <1>30, <1>31, <2>2, <2>3, <2>4, <2>5, StepKeeps
<1>34. QED
  BY <1>32, <1>33

-----------------------------------------------------------------------------
(* The server takes the first message off the wire. *)

\* What holds of the rest of the wire when there is one unit at a time.
UnitRest(r, w) ==
  /\ r.wire[1].by = r.owner /\ r.owner # None
  /\ EndsTransactionUnit(r.wire[1]) => w = <<>>
  /\ \A i \in DOMAIN w : w[i].by = r.owner /\ (EndsTransactionUnit(w[i]) => i = Len(w))
  /\ \A i \in DOMAIN r.replies : r.replies[i].by = r.owner /\ r.replies[i].k # "Z"

LEMMA WireHead ==
  ASSUME NEW b, NEW r \in Connections, NEW D, ConnectionInv(b, r, D), r.wire # <<>>, ~r.cut,
         NEW w, w = Tail(r.wire)
  PROVE  /\ r.wire[1] \in Messages /\ Head(r.wire) = r.wire[1] /\ w \in Seq(Messages)
         /\ r.wire \in Seq(Messages) /\ r.replies \in Seq(Replies)
         /\ b \notin D => \E x \in Views : StepsTo(r.stmts, r.wire[1], x) /\ Runs(w, x, View(r.prepared))
         /\ Spared(D) => UnitRest(r, w)
         /\ (\E i \in DOMAIN w : EndsTransactionUnit(w[i])) => HasEnd(r)
         /\ EndsTransactionUnit(r.wire[1]) => HasEnd(r)
<1>1. r.wire \in Seq(Messages) /\ r.replies \in Seq(Replies)
  BY DEF Connections
<1>2. PICK W : W = r.wire
  OBVIOUS
<1>3. /\ w \in Seq(Messages) /\ Len(w) = Len(W) - 1 /\ Len(W) \in Nat /\ Len(W) > 0
      /\ DOMAIN w = 1 .. Len(W) - 1 /\ Head(W) = W[1] /\ 1 \in DOMAIN W
      /\ \A i \in 1 .. Len(W) - 1 : w[i] = W[i + 1] /\ i + 1 \in DOMAIN W
  BY <1>1, <1>2, TailIs
<1>4. W[1] \in Messages
  BY <1>1, <1>2, <1>3, SeqDomain
<1>5. ASSUME b \notin D
      PROVE  \E x \in Views : StepsTo(r.stmts, W[1], x) /\ Runs(w, x, View(r.prepared))
  <2>1. Runs(W, r.stmts, View(r.prepared))
    BY <1>2, <1>5 DEF ConnectionInv, ConnectionOK
  <2>2. QED
    BY <1>1, <1>2, <2>1, HeadRuns
<1>6. ASSUME Spared(D) PROVE UnitRest(r, w)
  <2>1. /\ r.owner = None => W = <<>>
        /\ \A i \in DOMAIN W : W[i].by = r.owner
        /\ \A i \in DOMAIN W : EndsTransactionUnit(W[i]) => i = Len(W)
        /\ \A i \in DOMAIN r.replies : r.replies[i].by = r.owner
        /\ \A i \in DOMAIN r.replies : r.replies[i].k = "Z" => W = <<>>
    BY <1>2, <1>6 DEF ConnectionInv, UnitConnection
  <2>2. \A i \in DOMAIN r.replies : r.replies[i].by = r.owner /\ r.replies[i].k # "Z"
    BY <1>2, <2>1
  <2>3. ASSUME NEW i \in DOMAIN w PROVE w[i].by = r.owner /\ (EndsTransactionUnit(w[i]) => i = Len(w))
    <3>1. w[i] = W[i + 1] /\ i + 1 \in DOMAIN W
      BY <1>3
    <3>2. EndsTransactionUnit(w[i]) => i + 1 = Len(W)
      BY <2>1, <3>1
    <3>3. i + 1 = Len(W) => i = Len(w)
      BY <1>3
    <3>4. QED
      BY <2>1, <3>1, <3>2, <3>3
  <2>4. EndsTransactionUnit(W[1]) => w = <<>>
    <3>1. EndsTransactionUnit(W[1]) => 1 = Len(W)
      BY <1>3, <2>1
    <3>2. EndsTransactionUnit(W[1]) => Len(w) = 0
      BY <1>3, <3>1
    <3>3. QED
      BY <1>3, <3>2, EmptySeq
  <2>5. W[1].by = r.owner /\ r.owner # None
    BY <1>2, <1>3, <2>1
  <2>6. QED
    BY <1>2, <2>2, <2>3, <2>4, <2>5 DEF UnitRest
<1>7. /\ (\E i \in DOMAIN w : EndsTransactionUnit(w[i])) => HasEnd(r)
      /\ EndsTransactionUnit(r.wire[1]) => HasEnd(r)
  BY <1>2, <1>3 DEF HasEnd
<1>8. QED
  BY <1>1, <1>2, <1>3, <1>4, <1>5, <1>6, <1>7

\* The link to the session that holds the connection.
LEMMA AdvancedLink ==
  ASSUME NEW c, NEW x, NEW b, NEW r, NEW y, NEW D, NEW E, LinkInv(c, x, b, r, D),
         x.held = b, ~r.cut, y.owner = r.owner, ~y.cut, c \in D => c \in E, Spared(E) => Spared(D),
         Spared(E) /\ HasEnd(y) => HasEnd(r),
         Spared(E) /\ c \notin E /\ Settled(x.expect, x.owed, r.replies, r.wire)
           => Settled(x.expect, x.owed, y.replies, y.wire)
  PROVE  LinkInv(c, x, b, y, E)
<1>1. LinkOK(c, x, b, y)
  BY DEF LinkInv, LinkOK
<1>2. Spared(E) => UnitLink(c, x, b, y, E)
  BY DEF LinkInv, UnitLink
<1>3. QED
  BY <1>1, <1>2 DEF LinkInv

\* One answer a to the first message m.
Fitting(m, a) ==
  /\ m.k = "parse" => a.k = "1"
  /\ m.k = "close" => a.k = "3"
  /\ m.inj <=> a.inj /\ a.k # "E"

LEMMA AnsweredSettled ==
  ASSUME NEW e \in Seq({"1", "3"}), NEW owed, NEW R \in Seq(Replies), NEW W \in Seq(Messages), W # <<>>,
         NEW a \in Replies, Fitting(W[1], a), Settled(e, owed, R, W)
  PROVE  Settled(e, owed, Append(R, a), Tail(W))
<1>1. PICK Q : Q = Append(R, a)
  OBVIOUS
<1>2. PICK V : V = Tail(W)
  OBVIOUS
<1>3. Answering(R, W, a, Q, V)
  BY <1>1, <1>2, AnswerMoves
<1>4. ASSUME NEW i \in 1 .. Len(R) + Len(W)
      PROVE  /\ Kind(Q, V, i) = Kind(R, W, i) \/ Kind(R, W, i) \notin {"1", "3"}
             /\ Counts(Q, V, i) <=> Counts(R, W, i)
  <2>1. CASE i # Len(R) + 1
    BY <1>3, <2>1 DEF Answering
  <2>2. CASE i = Len(R) + 1
    BY <1>3, <2>2 DEF Fitting, Answering
  <2>3. QED
    BY <2>1, <2>2
<1>5. Settled(e, owed, Q, V)
  BY <1>3, <1>4, SettledSame DEF Answering
<1>6. QED
  BY <1>1, <1>2, <1>5

\* The step from r to y that answers the first message with a.
Answer(b, r, a, y, E) ==
  /\ a.by = r.wire[1].by /\ y.owner = r.owner /\ y.prepared = r.prepared /\ ~y.cut
  /\ y.wire = Tail(r.wire) /\ y.replies = Append(r.replies, a)
  /\ TRUE \in y.foreign => b \in E
  /\ b \notin E => Runs(y.wire, y.stmts, View(y.prepared))
  /\ a.k = "Z" => EndsTransactionUnit(r.wire[1]) /\ y.tx = a.tx /\ ~y.skip

LEMMA Answered ==
  ASSUME NEW b, NEW r \in Connections, NEW D, ConnectionInv(b, r, D), r.wire # <<>>, ~r.cut,
         NEW a \in Replies, NEW y \in Connections, NEW E, Answer(b, r, a, y, E), Spared(E) => Spared(D)
  PROVE  /\ ConnectionInv(b, y, E)
         /\ \A c, x : /\ x.held = b /\ x \in Sessions /\ LinkInv(c, x, b, r, D) /\ (c \in D => c \in E)
                      /\ Spared(E) /\ c \notin E => Fitting(r.wire[1], a)
                      => LinkInv(c, x, b, y, E)
<1>0. /\ a.by = r.wire[1].by /\ y.owner = r.owner /\ y.prepared = r.prepared /\ ~y.cut
      /\ y.wire = Tail(r.wire) /\ y.replies = Append(r.replies, a)
      /\ TRUE \in y.foreign => b \in E
      /\ b \notin E => Runs(y.wire, y.stmts, View(y.prepared))
      /\ a.k = "Z" => EndsTransactionUnit(r.wire[1]) /\ y.tx = a.tx /\ ~y.skip
  BY DEF Answer
<1>1. PICK w : w = Tail(r.wire)
  OBVIOUS
<1>2. /\ r.wire[1] \in Messages /\ w \in Seq(Messages)
      /\ r.wire \in Seq(Messages) /\ r.replies \in Seq(Replies)
      /\ (Spared(D) => UnitRest(r, w))
      /\ ((\E i \in DOMAIN w : EndsTransactionUnit(w[i])) => HasEnd(r))
      /\ (EndsTransactionUnit(r.wire[1]) => HasEnd(r))
  BY <1>1, WireHead
<1>3. PICK Q : Q = Append(r.replies, a)
  OBVIOUS
<1>4. /\ Q \in Seq(Replies) /\ Len(Q) = Len(r.replies) + 1 /\ DOMAIN Q = 1 .. Len(r.replies) + 1
      /\ Len(r.replies) \in Nat
      /\ \A i \in 1 .. Len(r.replies) : Q[i] = r.replies[i]
      /\ Q[Len(r.replies) + 1] = a
      /\ DOMAIN r.replies = 1 .. Len(r.replies)
  BY <1>2, <1>3, AppendIs, SeqDomain
<1>5. y.replies = Q /\ y.wire = w
  BY <1>0, <1>1, <1>3
<1>6. ConnectionOK(b, y, E)
  <2>1. SetOK(y.prepared)
    BY <1>0 DEF ConnectionInv, ConnectionOK
  <2>2. QED
    BY <1>0, <2>1 DEF ConnectionOK
<1>7. ASSUME Spared(E) PROVE UnitConnection(b, y)
  <2>1. /\ r.wire[1].by = r.owner /\ r.owner # None
        /\ (EndsTransactionUnit(r.wire[1]) => w = <<>>)
        /\ \A i \in DOMAIN w : w[i].by = r.owner /\ (EndsTransactionUnit(w[i]) => i = Len(w))
        /\ \A i \in DOMAIN r.replies : r.replies[i].by = r.owner /\ r.replies[i].k # "Z"
    BY <1>2, <1>7 DEF UnitRest
  <2>2. ASSUME NEW i \in DOMAIN Q
        PROVE  /\ Q[i].by = y.owner
               /\ Q[i].k = "Z" => i = Len(Q) /\ w = <<>> /\ y.tx = Q[i].tx /\ ~y.skip
    <3>1. CASE i = Len(r.replies) + 1
      BY <1>0, <1>4, <2>1, <3>1
    <3>2. CASE i # Len(r.replies) + 1
      <4>1. i \in DOMAIN r.replies /\ Q[i] = r.replies[i]
        BY <1>4, <3>2
      <4>2. QED
        BY <1>0, <2>1, <4>1
    <3>3. QED
      BY <3>1, <3>2
  <2>3. QED
    BY <1>0, <1>5, <2>1, <2>2 DEF UnitConnection
<1>8. HasEnd(y) => HasEnd(r)
  <2>1. HasReady(y) => HasReady(r) \/ EndsTransactionUnit(r.wire[1])
    <3>1. SUFFICES ASSUME NEW i \in DOMAIN Q, Q[i].k = "Z"
                   PROVE  HasReady(r) \/ EndsTransactionUnit(r.wire[1])
      BY <1>5 DEF HasReady
    <3>2. CASE i = Len(r.replies) + 1
      BY <1>0, <1>4, <3>1, <3>2
    <3>3. CASE i # Len(r.replies) + 1
      <4>1. i \in DOMAIN r.replies /\ Q[i] = r.replies[i]
        BY <1>4, <3>3
      <4>2. QED
        BY <3>1, <4>1 DEF HasReady
    <3>4. QED
      BY <3>2, <3>3
  <2>2. (\E i \in DOMAIN y.wire : EndsTransactionUnit(y.wire[i])) => HasEnd(r)
    BY <1>2, <1>5
  <2>3. QED
    BY <1>2, <2>1, <2>2 DEF HasEnd
<1>9. ASSUME NEW c, NEW x, x.held = b, x \in Sessions, LinkInv(c, x, b, r, D), c \in D => c \in E,
             Spared(E) /\ c \notin E => Fitting(r.wire[1], a)
      PROVE  LinkInv(c, x, b, y, E)
  <2>1. ASSUME Spared(E), c \notin E, Settled(x.expect, x.owed, r.replies, r.wire)
        PROVE  Settled(x.expect, x.owed, y.replies, y.wire)
    <3>1. x.expect \in Seq({"1", "3"})
      BY <1>9 DEF Sessions
    <3>2. Settled(x.expect, x.owed, Append(r.replies, a), Tail(r.wire))
      BY <1>2, <1>9, <2>1, <3>1, AnsweredSettled
    <3>3. QED
      BY <1>0, <3>2
  <2>2. QED
    BY <1>0, <1>8, <1>9, <2>1, AdvancedLink
<1>10. QED
  BY <1>6, <1>7, <1>9 DEF ConnectionInv

\* What a step of the server does to its connection.
Moved(r, w, q, t, s, x, f) ==
  [r EXCEPT !.wire = w, !.replies = q, !.tx = t, !.skip = s, !.stmts = x, !.foreign = f]

LEMMA MovedIs ==
  ASSUME NEW r \in Connections, NEW w \in Seq(Messages), NEW q \in Seq(Replies), NEW t \in {"I", "T", "E"},
         NEW s \in BOOLEAN, NEW x \in Views, NEW f \in SUBSET BOOLEAN, NEW y, y = Moved(r, w, q, t, s, x, f)
  PROVE  /\ y \in Connections /\ y.owner = r.owner /\ y.prepared = r.prepared /\ (y.cut <=> r.cut)
         /\ y.wire = w /\ y.replies = q /\ y.tx = t /\ (y.skip <=> s) /\ y.stmts = x /\ y.foreign = f
<1>1. PICK u : u = [r EXCEPT !.wire = w, !.replies = q]
  OBVIOUS
<1>2. /\ u \in Connections /\ u.owner = r.owner /\ u.prepared = r.prepared /\ u.cut = r.cut
      /\ u.wire = w /\ u.replies = q
  BY <1>1 DEF Connections
<1>3. PICK v : v = [u EXCEPT !.tx = t, !.skip = s]
  OBVIOUS
<1>4. /\ v \in Connections /\ v.owner = u.owner /\ v.prepared = u.prepared /\ v.cut = u.cut
      /\ v.wire = u.wire /\ v.replies = u.replies /\ v.tx = t /\ v.skip = s
  BY <1>2, <1>3 DEF Connections
<1>5. y = [v EXCEPT !.stmts = x, !.foreign = f]
  BY <1>1, <1>3 DEF Moved
<1>6. /\ y \in Connections /\ y.owner = v.owner /\ y.prepared = v.prepared /\ y.cut = v.cut
      /\ y.wire = v.wire /\ y.replies = v.replies /\ y.tx = v.tx /\ y.skip = v.skip
      /\ y.stmts = x /\ y.foreign = f
  BY <1>4, <1>5 DEF Connections
<1>7. QED
  BY <1>2, <1>4, <1>6

\* The step as a whole, given what it does to the connection r.
LEMMA ServerKeeps ==
  ASSUME Holding, NEW b \in Backends, back[b].wire # <<>>, ~back[b].cut, UNCHANGED <<sess, close, count>>,
         NEW y, back' = [back EXCEPT ![b] = y], y.owner = back[b].owner,
         drift \subseteq drift', drift' \subseteq Clients \cup Backends, ConnectionInv(b, y, drift'),
         \A c \in Clients : sess[c].held = b /\ back[b].owner = c => LinkInv(c, sess[c], b, y, drift')
  PROVE  Holding'
<1>1. Globals'
  BY DEF Holding, Globals, count
<1>2. QED
  BY <1>1, ConnectionKeeps DEF count

\* The connection, its first message and the rest of the wire.
LEMMA OfServer ==
  ASSUME Holding, NEW b \in Backends, back[b].wire # <<>>, ~back[b].cut, NEW r, r = back[b]
  PROVE  /\ r \in Connections /\ ConnectionInv(b, r, drift) /\ r.wire # <<>> /\ ~r.cut
         /\ r.wire[1] \in Messages /\ Head(r.wire) = r.wire[1] /\ Tail(r.wire) \in Seq(Messages)
         /\ b \notin drift =>
              \E x \in Views : StepsTo(r.stmts, r.wire[1], x) /\ Runs(Tail(r.wire), x, View(r.prepared))
         /\ Spared(drift) => UnitRest(r, Tail(r.wire))
         /\ \A c \in Clients : LinkInv(c, sess[c], b, r, drift) /\ sess[c] \in Sessions
         /\ r.replies \in Seq(Replies) /\ r.stmts \in Views /\ r.foreign \in SUBSET BOOLEAN
         /\ r.skip \in BOOLEAN /\ r.tx \in {"I", "T", "E"}
<1>1. r \in Connections /\ ConnectionInv(b, r, drift) /\ \A c \in Clients : LinkInv(c, sess[c], b, r, drift)
  BY OfConnection
<1>2. \A c \in Clients : sess[c] \in Sessions
  BY DEF Holding
<1>3. /\ r.replies \in Seq(Replies) /\ r.stmts \in Views /\ r.foreign \in SUBSET BOOLEAN
      /\ r.skip \in BOOLEAN /\ r.tx \in {"I", "T", "E"}
  BY <1>1 DEF Connections
<1>4. PICK w : w = Tail(r.wire)
  OBVIOUS
<1>5. /\ r.wire[1] \in Messages /\ Head(r.wire) = r.wire[1] /\ w \in Seq(Messages)
      /\ (b \notin drift => \E x \in Views : StepsTo(r.stmts, r.wire[1], x) /\ Runs(w, x, View(r.prepared)))
      /\ (Spared(drift) => UnitRest(r, w))
  BY <1>1, <1>4, WireHead
<1>6. QED
  BY <1>1, <1>2, <1>3, <1>4, <1>5

\* A query or a Sync is answered by ReadyForQuery.
LEMMA ServerReadyKeeps ==
  ASSUME Holding, NEW b \in Backends, back[b].wire # <<>>, ~back[b].cut, UNCHANGED <<sess, close, count>>,
         ServerReady(b, Head(back[b].wire))
  PROVE  Holding'
<1>1. PICK r : r = back[b]
  OBVIOUS
<1>2. /\ r \in Connections /\ ConnectionInv(b, r, drift) /\ r.wire # <<>> /\ ~r.cut
      /\ r.wire[1] \in Messages /\ Head(r.wire) = r.wire[1] /\ Tail(r.wire) \in Seq(Messages)
      /\ (b \notin drift =>
            \E x \in Views : StepsTo(r.stmts, r.wire[1], x) /\ Runs(Tail(r.wire), x, View(r.prepared)))
      /\ \A c \in Clients : LinkInv(c, sess[c], b, r, drift) /\ sess[c] \in Sessions
      /\ r.replies \in Seq(Replies) /\ r.stmts \in Views /\ r.foreign \in SUBSET BOOLEAN
      /\ r.skip \in BOOLEAN /\ r.tx \in {"I", "T", "E"}
  BY <1>1, OfServer
<1>3. PICK m \in Messages : m = r.wire[1]
  BY <1>2
<1>4. PICK tx \in {"I", "T", "E"} :
        tx = CASE m.k = "begin" /\ r.tx = "I" -> "T" [] m.k = "end" -> "I" [] OTHER -> r.tx
  <2>1. (CASE m.k = "begin" /\ r.tx = "I" -> "T" [] m.k = "end" -> "I" [] OTHER -> r.tx) \in {"I", "T", "E"}
    BY <1>2
  <2>2. QED
    BY <2>1
<1>5. PICK a \in Replies : a = Reply("Z", tx, m)
  <2>1. Reply("Z", tx, m) \in Replies
    BY DEF Reply, Replies, Statuses, ReplyKinds, Messages
  <2>2. QED
    BY <2>1
<1>6. a.k = "Z" /\ a.tx = tx /\ a.by = m.by /\ (a.inj <=> m.inj)
  BY <1>5 DEF Reply
<1>7. PICK u \in Views :
        /\ m.k # "sql" => u = r.stmts
        /\ back' = [back EXCEPT ![b] = [r EXCEPT !.wire = Tail(r.wire), !.tx = tx, !.skip = FALSE, !.stmts = u,
                                                !.replies = Append(r.replies, a)]]
  <2>1. PICK u \in IF m.k = "sql" THEN Changed(r.stmts, m.by) ELSE {r.stmts} :
          back' = [back EXCEPT ![b] = [r EXCEPT !.wire = Tail(r.wire), !.tx = tx, !.skip = FALSE, !.stmts = u,
                                                !.replies = Append(r.replies, a)]]
    <3>1. PICK t : t = CASE m.k = "begin" /\ back[b].tx = "I" -> "T" [] m.k = "end" -> "I" [] OTHER -> back[b].tx
      OBVIOUS
    <3>2. \E u \in IF m.k = "sql" THEN Changed(back[b].stmts, m.by) ELSE {back[b].stmts} :
            SetB(b, [back[b] EXCEPT !.wire = Tail(@), !.tx = t, !.skip = FALSE, !.stmts = u,
                                    !.replies = Append(@, Reply("Z", t, m))])
      BY <1>1, <1>2, <1>3, <3>1 DEF ServerReady
    <3>3. t = tx
      BY <1>1, <1>4, <3>1
    <3>4. QED
      BY <1>1, <1>5, <3>2, <3>3 DEF SetB
  <2>2. m.by \in Authors
    BY DEF Messages, Authors
  <2>3. Changed(r.stmts, m.by) \subseteq Views
    <3>1. [n \in Names |-> None] \in Views
      BY DEF Views
    <3>2. \A n \in Names, v \in {m.by, None} : [r.stmts EXCEPT ![n] = v] \in Views
      BY <1>2, <2>2 DEF Views
    <3>3. SUFFICES ASSUME NEW v \in Changed(r.stmts, m.by) PROVE v \in Views
      OBVIOUS
    <3>4. v = [n \in Names |-> None] \/ \E n \in Names, x \in {m.by, None} : v = [r.stmts EXCEPT ![n] = x]
      BY <3>3 DEF Changed
    <3>5. QED
      BY <3>1, <3>2, <3>4
  <2>4. QED
    BY <1>2, <2>1, <2>3
<1>8. PICK E : E = drift'
  OBVIOUS
<1>9. /\ m.k \in Ending /\ drift \subseteq E /\ E \subseteq Clients \cup Backends
      /\ b \notin E => b \notin drift /\ m.k # "sql"
  <2>1. m.k \in Ending /\ drift' = IF m.k = "sql" THEN drift \cup {b} ELSE drift
    BY <1>1, <1>2, <1>3 DEF ServerReady
  <2>2. drift \subseteq Clients \cup Backends
    BY DEF Holding, Globals
  <2>3. QED
    BY <1>8, <2>1, <2>2
<1>10. PICK y : y = [r EXCEPT !.wire = Tail(r.wire), !.tx = tx, !.skip = FALSE, !.stmts = u,
                              !.replies = Append(r.replies, a)]
  OBVIOUS
<1>11. PICK k \in BOOLEAN, q \in Seq(Replies), w \in Seq(Messages) :
        k = FALSE /\ q = Append(r.replies, a) /\ w = Tail(r.wire)
  <2>1. Append(r.replies, a) \in Seq(Replies)
    BY <1>2
  <2>2. QED
    BY <1>2, <2>1
<1>12. y = Moved(r, w, q, tx, k, u, r.foreign)
  BY <1>2, <1>10, <1>11 DEF Moved, Connections
<1>13. /\ y \in Connections /\ y.owner = r.owner /\ y.prepared = r.prepared /\ ~y.cut
       /\ y.wire = Tail(r.wire) /\ y.replies = Append(r.replies, a) /\ y.tx = tx /\ ~y.skip
       /\ y.stmts = u /\ y.foreign = r.foreign
  <2>1. /\ y \in Connections /\ y.owner = r.owner /\ y.prepared = r.prepared /\ (y.cut <=> r.cut)
        /\ y.wire = w /\ y.replies = q /\ y.tx = tx /\ (y.skip <=> k)
        /\ y.stmts = u /\ y.foreign = r.foreign
    BY <1>2, <1>12, MovedIs
  <2>2. QED
    BY <1>2, <1>11, <2>1
<1>14. b \notin E => Runs(y.wire, y.stmts, View(y.prepared))
  BY <1>2, <1>3, <1>7, <1>9, <1>13 DEF StepsTo, Ending, Query
<1>15. TRUE \in y.foreign => b \in E
  BY <1>2, <1>9, <1>13 DEF ConnectionInv, ConnectionOK
<1>16. Fitting(m, a)
  BY <1>6, <1>9 DEF Fitting, Ending, Query
<1>17. EndsTransactionUnit(m)
  BY <1>9 DEF EndsTransactionUnit
<1>18. /\ ConnectionInv(b, y, E)
       /\ \A c, x : /\ x.held = b /\ x \in Sessions /\ LinkInv(c, x, b, r, drift) /\ (c \in drift => c \in E)
                    /\ Spared(E) /\ c \notin E => Fitting(r.wire[1], a)
                    => LinkInv(c, x, b, y, E)
  <2>1. Answer(b, r, a, y, E)
    BY <1>3, <1>6, <1>13, <1>14, <1>15, <1>17 DEF Answer
  <2>2. Spared(E) => Spared(drift)
    BY <1>9 DEF Spared
  <2>3. QED
    BY <1>2, <1>13, <2>1, <2>2, Answered
<1>19. \A c \in Clients : sess[c].held = b => LinkInv(c, sess[c], b, y, E)
  BY <1>2, <1>3, <1>9, <1>16, <1>18
<1>20. back' = [back EXCEPT ![b] = y]
  BY <1>7, <1>10
<1>21. QED
  BY <1>1, <1>8, <1>9, <1>13, <1>18, <1>19, <1>20, ServerKeeps

\* Parse, Bind or Close, done.
LEMMA ServerDoesKeeps ==
  ASSUME Holding, NEW b \in Backends, back[b].wire # <<>>, ~back[b].cut, UNCHANGED <<sess, close, count>>,
         ServerDoes(b, Head(back[b].wire))
  PROVE  Holding'
<1>1. PICK r : r = back[b]
  OBVIOUS
<1>2. /\ r \in Connections /\ ConnectionInv(b, r, drift) /\ r.wire # <<>> /\ ~r.cut
      /\ r.wire[1] \in Messages /\ Head(r.wire) = r.wire[1] /\ Tail(r.wire) \in Seq(Messages)
      /\ (b \notin drift =>
            \E x \in Views : StepsTo(r.stmts, r.wire[1], x) /\ Runs(Tail(r.wire), x, View(r.prepared)))
      /\ \A c \in Clients : LinkInv(c, sess[c], b, r, drift) /\ sess[c] \in Sessions
      /\ r.replies \in Seq(Replies) /\ r.stmts \in Views /\ r.foreign \in SUBSET BOOLEAN
      /\ r.skip \in BOOLEAN /\ r.tx \in {"I", "T", "E"}
  BY <1>1, OfServer
<1>3. PICK m \in Messages : m = r.wire[1]
  BY <1>2
<1>4. m.k \in Naming /\ m.n \in Names /\ m.by \in Authors /\ m.known \in BOOLEAN
  <2>1. m.k \in Naming
    BY <1>1, <1>2, <1>3 DEF ServerDoes
  <2>2. QED
    BY <2>1 DEF Messages, Authors
<1>5. PICK k \in ReplyKinds : k = CASE m.k = "parse" -> "1" [] m.k = "bind" -> "2" [] OTHER -> "3"
  <2>1. (CASE m.k = "parse" -> "1" [] m.k = "bind" -> "2" [] OTHER -> "3") \in ReplyKinds
    BY DEF ReplyKinds
  <2>2. QED
    BY <2>1
<1>6. PICK a \in Replies : a = Reply(k, "", m)
  <2>1. Reply(k, "", m) \in Replies
    BY DEF Reply, Replies, Statuses, Messages
  <2>2. QED
    BY <2>1
<1>7. a.k = k /\ a.by = m.by /\ (a.inj <=> m.inj)
  BY <1>6 DEF Reply
<1>8. PICK u \in Views : u = IF m.k = "parse" THEN [r.stmts EXCEPT ![m.n] = m.by]
                             ELSE IF m.k = "close" THEN [r.stmts EXCEPT ![m.n] = None] ELSE r.stmts
  <2>1. (IF m.k = "parse" THEN [r.stmts EXCEPT ![m.n] = m.by]
         ELSE IF m.k = "close" THEN [r.stmts EXCEPT ![m.n] = None] ELSE r.stmts) \in Views
    BY <1>2, <1>4 DEF Views
  <2>2. QED
    BY <2>1
<1>9. PICK f \in SUBSET BOOLEAN : f = IF m.k = "bind" /\ r.stmts[m.n] # m.by
                                      THEN r.foreign \cup {m.known} ELSE r.foreign
  <2>1. (IF m.k = "bind" /\ r.stmts[m.n] # m.by THEN r.foreign \cup {m.known} ELSE r.foreign)
          \in SUBSET BOOLEAN
    BY <1>2, <1>4
  <2>2. QED
    BY <2>1
<1>10. PICK q \in Seq(Replies), w \in Seq(Messages) : q = Append(r.replies, a) /\ w = Tail(r.wire)
  <2>1. Append(r.replies, a) \in Seq(Replies)
    BY <1>2
  <2>2. QED
    BY <1>2, <2>1
<1>11. PICK y : y = [r EXCEPT !.wire = w, !.replies = q, !.stmts = u, !.foreign = f]
  OBVIOUS
<1>12. back' = [back EXCEPT ![b] = y] /\ drift' = drift
  <2>1. u = CASE m.k = "parse" -> [r.stmts EXCEPT ![m.n] = m.by]
              [] m.k = "close" -> [r.stmts EXCEPT ![m.n] = None] [] OTHER -> r.stmts
    BY <1>8
  <2>2. QED
    BY <1>1, <1>2, <1>3, <1>5, <1>6, <1>9, <1>10, <1>11, <2>1 DEF ServerDoes, SetB
<1>13. y = Moved(r, w, q, r.tx, r.skip, u, f)
  BY <1>2, <1>11 DEF Moved, Connections
<1>14. /\ y \in Connections /\ y.owner = r.owner /\ y.prepared = r.prepared /\ (y.cut <=> r.cut)
       /\ y.wire = w /\ y.replies = q /\ y.stmts = u /\ y.foreign = f
  BY <1>2, <1>13, MovedIs
<1>15. b \notin drift => Runs(w, u, View(r.prepared)) /\ (m.k = "bind" /\ m.known => r.stmts[m.n] = m.by)
  <2>1. SUFFICES ASSUME b \notin drift
                 PROVE  Runs(w, u, View(r.prepared)) /\ (m.k = "bind" /\ m.known => r.stmts[m.n] = m.by)
    OBVIOUS
  <2>2. PICK x \in Views : StepsTo(r.stmts, m, x) /\ Runs(w, x, View(r.prepared))
    BY <1>2, <1>3, <1>10, <2>1
  <2>3. x = u
    BY <1>8, <2>2 DEF StepsTo
  <2>4. QED
    BY <2>2, <2>3 DEF StepsTo
<1>16. TRUE \in y.foreign => b \in drift
  <2>1. TRUE \in r.foreign => b \in drift
    BY <1>2 DEF ConnectionInv, ConnectionOK
  <2>2. TRUE \in f => TRUE \in r.foreign \/ (m.k = "bind" /\ r.stmts[m.n] # m.by /\ m.known)
    BY <1>4, <1>9
  <2>3. QED
    BY <1>14, <1>15, <2>1, <2>2
<1>17. Fitting(m, a) /\ a.k # "Z"
  BY <1>4, <1>5, <1>7 DEF Fitting, Naming
<1>18. Answer(b, r, a, y, drift)
  BY <1>2, <1>3, <1>7, <1>10, <1>14, <1>15, <1>16, <1>17 DEF Answer
<1>19. /\ ConnectionInv(b, y, drift)
       /\ \A c, x : /\ x.held = b /\ x \in Sessions /\ LinkInv(c, x, b, r, drift) /\ (c \in drift => c \in drift)
                    /\ Spared(drift) /\ c \notin drift => Fitting(r.wire[1], a)
                    => LinkInv(c, x, b, y, drift)
  BY <1>2, <1>14, <1>18, Answered
<1>20. \A c \in Clients : sess[c].held = b => LinkInv(c, sess[c], b, y, drift)
  BY <1>2, <1>3, <1>17, <1>19
<1>21. drift \subseteq Clients \cup Backends
  BY DEF Holding, Globals
<1>22. QED
  BY <1>1, <1>12, <1>14, <1>19, <1>20, <1>21, ServerKeeps

\* What a refused or skipped message adds to what has drifted.
LEMMA DriftsIs ==
  ASSUME Holding, NEW b \in Backends, NEW m \in Messages, NEW E, E = Drifts(b, m)
  PROVE  /\ drift \subseteq E /\ E \subseteq Clients \cup Backends
         /\ E # drift => b \in E /\ m.by \in E
         /\ m.k = "close" => b \in E /\ m.by \in E
         /\ m.k = "parse" /\ (back[b].skip \/ back[b].tx = "E" \/ back[b].stmts[m.n] = None \/ b \in drift)
              => b \in E /\ m.by \in E
<1>1. drift \subseteq Clients \cup Backends
  BY DEF Holding, Globals
<1>2. m.by \in Clients
  BY DEF Messages
<1>3. QED
  BY <1>1, <1>2 DEF Drifts

\* The server skips a message after an error.
LEMMA ServerSkipsKeeps ==
  ASSUME Holding, NEW b \in Backends, back[b].wire # <<>>, ~back[b].cut, UNCHANGED <<sess, close, count>>,
         ServerSkips(b, Head(back[b].wire))
  PROVE  Holding'
<1>1. PICK r : r = back[b]
  OBVIOUS
<1>2. /\ r \in Connections /\ ConnectionInv(b, r, drift) /\ r.wire # <<>> /\ ~r.cut
      /\ r.wire[1] \in Messages /\ Head(r.wire) = r.wire[1] /\ Tail(r.wire) \in Seq(Messages)
      /\ (b \notin drift =>
            \E x \in Views : StepsTo(r.stmts, r.wire[1], x) /\ Runs(Tail(r.wire), x, View(r.prepared)))
      /\ (Spared(drift) => UnitRest(r, Tail(r.wire)))
      /\ \A c \in Clients : LinkInv(c, sess[c], b, r, drift) /\ sess[c] \in Sessions
      /\ r.replies \in Seq(Replies) /\ r.stmts \in Views /\ r.foreign \in SUBSET BOOLEAN
      /\ r.skip \in BOOLEAN /\ r.tx \in {"I", "T", "E"}
  BY <1>1, OfServer
<1>3. PICK m \in Messages : m = r.wire[1]
  BY <1>2
<1>4. PICK w \in Seq(Messages) : w = Tail(r.wire)
  BY <1>2
<1>5. PICK y : y = [r EXCEPT !.wire = w]
  OBVIOUS
<1>6. back' = [back EXCEPT ![b] = y] /\ drift' = Drifts(b, m) /\ r.skip
  BY <1>1, <1>2, <1>3, <1>4, <1>5 DEF ServerSkips, SetB
<1>7. y = Moved(r, w, r.replies, r.tx, r.skip, r.stmts, r.foreign)
  BY <1>2, <1>5 DEF Moved, Connections
<1>8. /\ y \in Connections /\ y.owner = r.owner /\ y.prepared = r.prepared /\ (y.cut <=> r.cut)
      /\ y.wire = w /\ y.replies = r.replies /\ y.tx = r.tx /\ (y.skip <=> r.skip)
      /\ y.stmts = r.stmts /\ y.foreign = r.foreign
  BY <1>2, <1>7, MovedIs
<1>9. PICK E : E = drift'
  OBVIOUS
<1>10. /\ drift \subseteq E /\ E \subseteq Clients \cup Backends
       /\ m.k \in {"parse", "close"} => b \in E /\ m.by \in E
       /\ Spared(E) => Spared(drift)
  <2>1. /\ drift \subseteq E /\ E \subseteq Clients \cup Backends
        /\ m.k \in {"parse", "close"} => b \in E /\ m.by \in E
    BY <1>1, <1>6, <1>9, DriftsIs
  <2>2. QED
    BY <2>1 DEF Spared
<1>11. ConnectionOK(b, y, E)
  <2>1. SetOK(y.prepared) /\ (TRUE \in y.foreign => b \in E)
    BY <1>2, <1>8, <1>10 DEF ConnectionInv, ConnectionOK
  <2>2. ASSUME b \notin E PROVE Runs(y.wire, y.stmts, View(y.prepared))
    <3>1. PICK x \in Views : StepsTo(r.stmts, m, x) /\ Runs(w, x, View(r.prepared))
      BY <1>2, <1>3, <1>4, <1>10, <2>2
    <3>2. x = r.stmts
      BY <1>10, <2>2, <3>1 DEF StepsTo
    <3>3. QED
      BY <1>8, <3>1, <3>2
  <2>3. QED
    BY <1>2, <1>8, <2>1, <2>2 DEF ConnectionOK
<1>12. ASSUME Spared(E) PROVE UnitConnection(b, y)
  <2>1. /\ r.owner # None
        /\ \A i \in DOMAIN w : w[i].by = r.owner /\ (EndsTransactionUnit(w[i]) => i = Len(w))
        /\ \A i \in DOMAIN r.replies : r.replies[i].by = r.owner /\ r.replies[i].k # "Z"
    BY <1>2, <1>4, <1>10, <1>12 DEF UnitRest
  <2>2. QED
    BY <1>8, <2>1 DEF UnitConnection
<1>13. HasEnd(y) => HasEnd(r)
  <2>1. (\E i \in DOMAIN w : EndsTransactionUnit(w[i])) => HasEnd(r)
    BY <1>2, <1>4, WireHead
  <2>2. HasReady(y) => HasReady(r)
    BY <1>8 DEF HasReady
  <2>3. QED
    BY <1>8, <2>1, <2>2 DEF HasEnd
<1>14. ASSUME NEW c \in Clients, sess[c].held = b, back[b].owner = c PROVE LinkInv(c, sess[c], b, y, E)
  <2>1. PICK x \in Sessions : x = sess[c]
    BY <1>2
  <2>2. ASSUME Spared(E), c \notin E, Settled(x.expect, x.owed, r.replies, r.wire)
        PROVE  Settled(x.expect, x.owed, y.replies, y.wire)
    <3>1. x.expect \in Seq({"1", "3"})
      BY DEF Sessions
    <3>2. PICK R \in Seq(Replies), W \in Seq(Messages) : R = r.replies /\ W = r.wire
      BY <1>2 DEF Connections
    <3>3. m.k \notin {"parse", "close"} /\ ~m.inj
      <4>1. m.by = c
        BY <1>1, <1>2, <1>3, <1>10, <1>14, <2>2 DEF UnitRest
      <4>2. m.k \notin {"parse", "close"}
        BY <1>10, <2>2, <4>1
      <4>3. QED
        BY <4>2 DEF Messages
    <3>4. Skipping(R, W, w)
      BY <1>2, <1>4, <3>2, SkipMoves
    <3>5. Dull(R, W, Len(R) + 1)
      <4>1. ~(Len(R) + 1 <= Len(R)) /\ (Len(R) + 1) - Len(R) = 1
        BY <3>2, SeqDomain
      <4>2. QED
        BY <1>3, <3>2, <3>3, <4>1 DEF Dull, Kind, Counts
    <3>6. Settled(x.expect, x.owed, R, w)
      <4>1. PICK L \in Nat : L = Len(R) + Len(w)
        BY <3>4 DEF Skipping
      <4>2. PICK p \in 1 .. L + 1 : p = Len(R) + 1
        BY <3>4, <4>1 DEF Skipping
      <4>3. /\ L + 1 = Len(R) + Len(W) /\ Len(R) + Len(w) = L /\ Dull(R, W, p)
            /\ \A i \in 1 .. L : i < p => Kind(R, w, i) = Kind(R, W, i) /\ (Counts(R, w, i) <=> Counts(R, W, i))
            /\ \A i \in 1 .. L : i >= p => Kind(R, w, i) = Kind(R, W, i + 1)
                                           /\ (Counts(R, w, i) <=> Counts(R, W, i + 1))
        BY <3>4, <3>5, <4>1, <4>2 DEF Skipping
      <4>4. Settled(x.expect, x.owed, R, W)
        BY <2>2, <3>2
      <4>5. QED
        BY <3>1, <4>3, <4>4, SettledDrop
    <3>7. QED
      BY <1>8, <3>2, <3>6
  <2>3. LinkInv(c, x, b, r, drift) /\ x.held = b /\ (c \in drift => c \in E)
    BY <1>2, <1>10, <1>14, <2>1
  <2>4. LinkInv(c, x, b, y, E)
    BY <1>2, <1>8, <1>10, <1>13, <2>2, <2>3, AdvancedLink
  <2>5. QED
    BY <2>1, <2>4
<1>15. ConnectionInv(b, y, E)
  BY <1>11, <1>12 DEF ConnectionInv
<1>16. QED
  BY <1>1, <1>6, <1>8, <1>9, <1>10, <1>14, <1>15, ServerKeeps

\* An error before the last answer.
LEMMA InsertSettled ==
  ASSUME NEW d \in Seq({"1", "3"}), NEW owed, NEW R \in Seq(Replies), NEW W \in Seq(Messages),
         NEW e \in Replies, e.k = "E", NEW a \in Replies, Settled(d, owed, Append(R, a), W)
  PROVE  Settled(d, owed, Append(Append(R, e), a), W)
<1>1. PICK P \in Seq(Replies), T \in Seq(Replies) : P = Append(R, a) /\ T = Append(R, e)
  <2>1. Append(R, a) \in Seq(Replies) /\ Append(R, e) \in Seq(Replies)
    BY AppendIs
  <2>2. QED
    BY <2>1
<1>2. PICK Q \in Seq(Replies) : Q = Append(T, a)
  <2>1. Append(T, a) \in Seq(Replies)
    BY AppendIs
  <2>2. QED
    BY <2>1
<1>3. PICK l \in Nat, n \in Nat : l = Len(R) /\ n = Len(W)
  BY SeqDomain
<1>4. Len(P) = l + 1 /\ P[l + 1] = a /\ \A i \in 1 .. l : P[i] = R[i]
  BY <1>1, <1>3, AppendIs
<1>5. Len(T) = l + 1 /\ T[l + 1] = e /\ \A i \in 1 .. l : T[i] = R[i]
  BY <1>1, <1>3, AppendIs
<1>6. Len(Q) = Len(T) + 1 /\ Q[Len(T) + 1] = a /\ \A i \in 1 .. Len(T) : Q[i] = T[i]
  BY <1>2, AppendIs
<1>7. Len(Q) = l + 2 /\ Q[l + 2] = a /\ Q[l + 1] = e /\ \A i \in 1 .. l : Q[i] = R[i]
  <2>1. l + 1 \in 1 .. Len(T) /\ (\A i \in 1 .. l : i \in 1 .. Len(T)) /\ Len(T) + 1 = l + 2
    BY <1>5
  <2>2. QED
    BY <1>5, <1>6, <2>1
<1>8. ~Counts(Q, W, l + 1)
  <2>1. l + 1 <= Len(Q)
    BY <1>7
  <2>2. QED
    BY <1>7, <2>1 DEF Counts
<1>9. PICK L \in Nat : L = Len(P) + Len(W) /\ L = (l + 1) + n
  BY <1>3, <1>4
<1>10. PICK p \in 1 .. L + 1 : p = l + 1
  BY <1>9
<1>11. ASSUME NEW i \in 1 .. L + 1, i < p
       PROVE  Kind(Q, W, i) = Kind(P, W, i) /\ (Counts(Q, W, i) <=> Counts(P, W, i))
  <2>1. i \in 1 .. l /\ i <= Len(Q) /\ i <= Len(P)
    BY <1>4, <1>7, <1>10, <1>11
  <2>2. QED
    BY <1>4, <1>7, <2>1 DEF Kind, Counts
<1>12. ASSUME NEW i \in 1 .. L + 1, i > p
       PROVE  Kind(Q, W, i) = Kind(P, W, i - 1) /\ (Counts(Q, W, i) <=> Counts(P, W, i - 1))
  <2>1. CASE i = l + 2
    <3>1. i <= Len(Q) /\ i - 1 <= Len(P) /\ i - 1 = l + 1
      BY <1>4, <1>7, <2>1
    <3>2. Q[i] = P[i - 1]
      BY <1>4, <1>7, <2>1, <3>1
    <3>3. QED
      BY <3>1, <3>2 DEF Kind, Counts
  <2>2. CASE i # l + 2
    <3>1. ~(i <= Len(Q)) /\ ~(i - 1 <= Len(P)) /\ i - Len(Q) = (i - 1) - Len(P)
      BY <1>4, <1>7, <1>10, <1>12, <2>2
    <3>2. QED
      BY <3>1 DEF Kind, Counts
  <2>3. QED
    BY <2>1, <2>2
<1>13. Len(Q) + Len(W) = L + 1
  <2>1. L = (l + 1) + n
    BY <1>9
  <2>2. (l + 2) + n = L + 1
    BY <2>1
  <2>3. Len(Q) = l + 2 /\ Len(W) = n
    BY <1>3, <1>7
  <2>4. QED
    BY <2>2, <2>3
<1>14. Settled(d, owed, P, W) /\ ~Counts(Q, W, p)
  BY <1>1, <1>8, <1>10
<1>15. Settled(d, owed, Q, W)
  <2>1. /\ \A i \in 1 .. L + 1 : i < p => Kind(Q, W, i) = Kind(P, W, i) /\ (Counts(Q, W, i) <=> Counts(P, W, i))
        /\ \A i \in 1 .. L + 1 : i > p => Kind(Q, W, i) = Kind(P, W, i - 1)
                                           /\ (Counts(Q, W, i) <=> Counts(P, W, i - 1))
    BY <1>11, <1>12
  <2>2. L = Len(P) + Len(W)
    BY <1>9
  <2>3. QED
    BY <1>13, <1>14, <2>1, <2>2, SettledInsert
<1>16. QED
  BY <1>1, <1>2, <1>15

\* The connection y is as z is, with an error before the last answer.
Erring(y, z, R, e, a, E) ==
  /\ e.k = "E" /\ z.replies = Append(R, a) /\ y.replies = Append(Append(R, e), a)
  /\ y.owner = z.owner /\ y.prepared = z.prepared /\ y.wire = z.wire /\ y.stmts = z.stmts
  /\ y.tx = z.tx /\ (y.skip <=> z.skip) /\ y.foreign = z.foreign /\ ~y.cut /\ ~z.cut
  /\ Spared(E) => e.by = z.owner /\ z.owner # None

LEMMA Erred ==
  ASSUME NEW b, NEW E, NEW y \in Connections, NEW z \in Connections, ConnectionInv(b, z, E),
         NEW R \in Seq(Replies), NEW e \in Replies, NEW a \in Replies, Erring(y, z, R, e, a, E)
  PROVE  /\ ConnectionInv(b, y, E)
         /\ \A c, x : x.held = b /\ x \in Sessions /\ LinkInv(c, x, b, z, E) => LinkInv(c, x, b, y, E)
<1>0. /\ e.k = "E" /\ z.replies = Append(R, a) /\ y.replies = Append(Append(R, e), a)
      /\ y.owner = z.owner /\ y.prepared = z.prepared /\ y.wire = z.wire /\ y.stmts = z.stmts
      /\ y.tx = z.tx /\ (y.skip <=> z.skip) /\ y.foreign = z.foreign /\ ~y.cut /\ ~z.cut
      /\ (Spared(E) => e.by = z.owner /\ z.owner # None)
  BY DEF Erring
<1>1. PICK P, Q : P = z.replies /\ Q = y.replies
  OBVIOUS
<1>2. PICK l \in Nat : l = Len(R)
  BY SeqDomain
<1>3. /\ Len(P) = l + 1 /\ P[l + 1] = a /\ DOMAIN P = 1 .. l + 1
      /\ \A i \in 1 .. l : P[i] = R[i]
  BY <1>0, <1>1, <1>2, AppendIs
<1>4. /\ Len(Q) = l + 2 /\ Q[l + 2] = a /\ Q[l + 1] = e /\ DOMAIN Q = 1 .. l + 2
      /\ \A i \in 1 .. l : Q[i] = R[i]
  <2>1. PICK T \in Seq(Replies) : T = Append(R, e)
    <3>1. Append(R, e) \in Seq(Replies)
      BY AppendIs
    <3>2. QED
      BY <3>1
  <2>2. Len(T) = l + 1 /\ T[l + 1] = e /\ \A i \in 1 .. l : T[i] = R[i]
    BY <1>2, <2>1, AppendIs
  <2>3. /\ Len(Q) = Len(T) + 1 /\ Q[Len(T) + 1] = a /\ DOMAIN Q = 1 .. Len(T) + 1
        /\ \A i \in 1 .. Len(T) : Q[i] = T[i]
    BY <1>0, <1>1, <2>1, AppendIs
  <2>4. l + 1 \in 1 .. Len(T) /\ (\A i \in 1 .. l : i \in 1 .. Len(T)) /\ Len(T) + 1 = l + 2
    BY <2>2
  <2>5. QED
    BY <2>2, <2>3, <2>4
<1>5. ASSUME NEW i \in DOMAIN Q, i # l + 1
      PROVE  \E j \in DOMAIN P : Q[i] = P[j] /\ (j = Len(P) => i = Len(Q)) /\ (j # Len(P) => i = j)
  <2>1. CASE i = l + 2
    <3>1. l + 1 \in DOMAIN P
      BY <1>3
    <3>2. QED
      BY <1>3, <1>4, <2>1, <3>1
  <2>2. CASE i # l + 2
    <3>1. i \in 1 .. l /\ i \in DOMAIN P /\ i # l + 1
      BY <1>3, <1>4, <1>5, <2>2
    <3>2. Q[i] = P[i]
      BY <1>3, <1>4, <3>1
    <3>3. QED
      BY <1>3, <3>1, <3>2
  <2>3. QED
    BY <2>1, <2>2
<1>6. ConnectionOK(b, y, E)
  BY <1>0 DEF ConnectionInv, ConnectionOK
<1>7. ASSUME Spared(E) PROVE UnitConnection(b, y)
  <2>1. UnitConnection(b, z)
    BY <1>7 DEF ConnectionInv
  <2>2. ASSUME NEW i \in DOMAIN Q
        PROVE  /\ Q[i].by = y.owner
               /\ Q[i].k = "Z" => i = Len(Q) /\ y.wire = <<>> /\ y.tx = Q[i].tx /\ ~y.skip
    <3>1. CASE i = l + 1
      BY <1>0, <1>4, <1>7, <3>1
    <3>2. CASE i # l + 1
      <4>1. PICK j \in DOMAIN P : Q[i] = P[j] /\ (j = Len(P) => i = Len(Q))
        BY <1>5, <3>2
      <4>2. P[j].by = z.owner /\ (P[j].k = "Z" => j = Len(P) /\ z.wire = <<>> /\ z.tx = P[j].tx /\ ~z.skip)
        BY <1>1, <2>1 DEF UnitConnection
      <4>3. QED
        BY <1>0, <4>1, <4>2
    <3>3. QED
      BY <3>1, <3>2
  <2>3. QED
    BY <1>0, <1>1, <1>7, <2>1, <2>2 DEF UnitConnection
<1>8. HasReady(y) => HasReady(z)
  BY <1>0, <1>1, <1>4, <1>5 DEF HasReady
<1>9. HasEnd(y) => HasEnd(z)
  BY <1>0, <1>8 DEF HasEnd
<1>10. ASSUME NEW c, NEW x, x.held = b, x \in Sessions, LinkInv(c, x, b, z, E) PROVE LinkInv(c, x, b, y, E)
  <2>1. ASSUME Settled(x.expect, x.owed, z.replies, z.wire) PROVE Settled(x.expect, x.owed, y.replies, y.wire)
    <3>1. x.expect \in Seq({"1", "3"}) /\ z.wire \in Seq(Messages)
      BY <1>10 DEF Sessions, Connections
    <3>2. Settled(x.expect, x.owed, Append(R, a), z.wire)
      BY <1>0, <2>1
    <3>3. Settled(x.expect, x.owed, Append(Append(R, e), a), z.wire)
      BY <1>0, <3>1, <3>2, InsertSettled
    <3>4. QED
      BY <1>0, <3>3
  <2>2. QED
    BY <1>0, <1>9, <1>10, <2>1, AdvancedLink
<1>11. QED
  BY <1>6, <1>7, <1>10 DEF ConnectionInv

LEMMA ErrorReplies ==
  ASSUME NEW R \in Seq(Replies), NEW e \in Replies, NEW a \in Replies
  PROVE  /\ R \o <<e>> \o <<>> = Append(R, e)
         /\ R \o <<e>> \o <<a>> = Append(Append(R, e), a)
<1>1. PICK T \in Seq(Replies) : T = Append(R, e)
  <2>1. Append(R, e) \in Seq(Replies)
    BY AppendIs
  <2>2. QED
    BY <2>1
<1>2. R \o <<e>> = T
  BY <1>1, AppendIsConcat
<1>3. T \o <<>> = T
  BY ConcatEmptySeq
<1>4. T \o <<a>> = Append(T, a)
  BY AppendIsConcat
<1>5. QED
  BY <1>1, <1>2, <1>3, <1>4

\* The server refuses a message.
LEMMA ServerRefusesKeeps ==
  ASSUME Holding, NEW b \in Backends, back[b].wire # <<>>, ~back[b].cut, UNCHANGED <<sess, close, count>>,
         ServerRefuses(b, Head(back[b].wire))
  PROVE  Holding'
<1>1. PICK r : r = back[b]
  OBVIOUS
<1>2. /\ r \in Connections /\ ConnectionInv(b, r, drift) /\ r.wire # <<>> /\ ~r.cut
      /\ r.wire[1] \in Messages /\ Head(r.wire) = r.wire[1] /\ Tail(r.wire) \in Seq(Messages)
      /\ (b \notin drift =>
            \E x \in Views : StepsTo(r.stmts, r.wire[1], x) /\ Runs(Tail(r.wire), x, View(r.prepared)))
      /\ (Spared(drift) => UnitRest(r, Tail(r.wire)))
      /\ \A c \in Clients : LinkInv(c, sess[c], b, r, drift) /\ sess[c] \in Sessions
      /\ r.replies \in Seq(Replies) /\ r.stmts \in Views /\ r.foreign \in SUBSET BOOLEAN
      /\ r.skip \in BOOLEAN /\ r.tx \in {"I", "T", "E"}
  BY <1>1, OfServer
<1>3. PICK m \in Messages : m = r.wire[1]
  BY <1>2
<1>4. PICK tx \in {"I", "T", "E"} : tx = IF r.tx = "T" THEN "E" ELSE r.tx
  <2>1. (IF r.tx = "T" THEN "E" ELSE r.tx) \in {"I", "T", "E"}
    BY <1>2
  <2>2. QED
    BY <2>1
<1>5. PICK e \in Replies, a \in Replies : e = Reply("E", "", m) /\ a = Reply("Z", tx, m)
  <2>1. Reply("E", "", m) \in Replies /\ Reply("Z", tx, m) \in Replies
    BY DEF Reply, Replies, Statuses, ReplyKinds, Messages
  <2>2. QED
    BY <2>1
<1>6. /\ e.k = "E" /\ e.by = m.by /\ a.k = "Z" /\ a.tx = tx /\ a.by = m.by /\ (a.inj <=> m.inj)
  BY <1>5 DEF Reply
<1>7. /\ (m.k \in {"parse", "bind"} \/ m.k \in Query) /\ drift' = Drifts(b, m) /\ ~r.skip
      /\ m.k = "parse" => Errors \/ r.tx = "E" \/ r.stmts[m.n] # None
  BY <1>1, <1>2, <1>3 DEF ServerRefuses, Refused
<1>8. PICK E : E = drift'
  OBVIOUS
<1>9. /\ drift \subseteq E /\ E \subseteq Clients \cup Backends /\ (m.k # "parse" => E = drift)
      /\ m.k = "parse" => b \in E /\ m.by \in E
      /\ Spared(E) => Spared(drift)
  <2>1. /\ drift \subseteq E /\ E \subseteq Clients \cup Backends
        /\ m.k = "parse" /\ (r.skip \/ r.tx = "E" \/ r.stmts[m.n] = None \/ b \in drift)
             => b \in E /\ m.by \in E
    BY <1>1, <1>7, <1>8, DriftsIs
  <2>2. m.k # "parse" => E = drift
    BY <1>7, <1>8 DEF Drifts, Query
  <2>3. m.k = "parse" /\ b \notin drift => r.stmts[m.n] = None
    BY <1>2, <1>3 DEF StepsTo
  <2>4. Spared(E) => Spared(drift)
    BY <2>1 DEF Spared
  <2>5. QED
    BY <2>1, <2>2, <2>3, <2>4
<1>10. b \notin E => Runs(Tail(r.wire), r.stmts, View(r.prepared))
  <2>1. SUFFICES ASSUME b \notin E PROVE Runs(Tail(r.wire), r.stmts, View(r.prepared))
    OBVIOUS
  <2>2. PICK x \in Views : StepsTo(r.stmts, m, x) /\ Runs(Tail(r.wire), x, View(r.prepared))
    BY <1>2, <1>3, <1>9, <2>1
  <2>3. x = r.stmts
    BY <1>7, <1>9, <2>1, <2>2 DEF StepsTo, Query
  <2>4. QED
    BY <2>2, <2>3
<1>11. TRUE \in r.foreign => b \in E
  BY <1>2, <1>9 DEF ConnectionInv, ConnectionOK
<1>12. PICK w \in Seq(Messages), p \in Seq(Replies), q \in Seq(Replies) :
         w = Tail(r.wire) /\ p = Append(r.replies, e) /\ q = Append(r.replies, a)
  <2>1. Append(r.replies, e) \in Seq(Replies) /\ Append(r.replies, a) \in Seq(Replies)
    BY <1>2, AppendIs
  <2>2. QED
    BY <1>2, <2>1
<1>13. CASE m.k \in {"parse", "bind"}
  <2>1. PICK k \in BOOLEAN : k = TRUE
    OBVIOUS
  <2>2. PICK y : y = [r EXCEPT !.wire = w, !.tx = tx, !.skip = k, !.replies = p]
    OBVIOUS
  <2>3. back' = [back EXCEPT ![b] = y]
    <3>1. ~(m.k \in Query)
      BY <1>13 DEF Query
    <3>2. r.replies \o <<e>> \o <<>> = p
      BY <1>2, <1>12, ErrorReplies
    <3>3. (~(m.k \in Query)) = k
      BY <2>1, <3>1
    <3>4. back' = [back EXCEPT ![b] = [r EXCEPT !.wire = Tail(r.wire), !.tx = tx, !.skip = ~(m.k \in Query),
                      !.replies = r.replies \o <<e>> \o <<>>]]
      BY <1>1, <1>2, <1>3, <1>4, <1>5, <3>1 DEF ServerRefuses, SetB
    <3>5. QED
      BY <1>12, <2>2, <3>2, <3>3, <3>4
  <2>4. y = Moved(r, w, p, tx, k, r.stmts, r.foreign)
    BY <1>2, <2>2 DEF Moved, Connections
  <2>5. /\ y \in Connections /\ y.owner = r.owner /\ y.prepared = r.prepared /\ (y.cut <=> r.cut)
        /\ y.wire = w /\ y.replies = p /\ y.tx = tx /\ y.stmts = r.stmts /\ y.foreign = r.foreign
    BY <1>2, <2>4, MovedIs
  <2>6. Answer(b, r, e, y, E)
    BY <1>2, <1>3, <1>6, <1>10, <1>11, <1>12, <2>5 DEF Answer
  <2>7. /\ ConnectionInv(b, y, E)
        /\ \A c, x : /\ x.held = b /\ x \in Sessions /\ LinkInv(c, x, b, r, drift) /\ (c \in drift => c \in E)
                     /\ Spared(E) /\ c \notin E => Fitting(r.wire[1], e)
                     => LinkInv(c, x, b, y, E)
    BY <1>2, <1>9, <2>5, <2>6, Answered
  <2>8. ASSUME NEW c \in Clients, sess[c].held = b, back[b].owner = c PROVE LinkInv(c, sess[c], b, y, E)
    <3>1. ASSUME Spared(E), c \notin E PROVE Fitting(m, e)
      <4>1. m.by = c
        BY <1>1, <1>2, <1>3, <1>9, <2>8, <3>1 DEF UnitRest
      <4>2. m.k = "bind"
        BY <1>9, <1>13, <3>1, <4>1
      <4>3. ~m.inj
        BY <4>2 DEF Messages
      <4>4. QED
        BY <1>6, <4>2, <4>3 DEF Fitting
    <3>2. sess[c] \in Sessions /\ LinkInv(c, sess[c], b, r, drift) /\ (c \in drift => c \in E)
      BY <1>2, <1>9
    <3>3. QED
      BY <1>3, <2>7, <2>8, <3>1, <3>2
  <2>9. QED
    BY <1>1, <1>8, <1>9, <2>3, <2>5, <2>7, <2>8, ServerKeeps
<1>14. CASE m.k \in Query
  <2>1. PICK k \in BOOLEAN, t \in Seq(Replies) : k = FALSE /\ t = Append(p, a)
    <3>1. Append(p, a) \in Seq(Replies)
      BY AppendIs
    <3>2. QED
      BY <3>1
  <2>2. PICK y : y = [r EXCEPT !.wire = w, !.tx = tx, !.skip = k, !.replies = t]
    OBVIOUS
  <2>3. back' = [back EXCEPT ![b] = y]
    <3>1. r.replies \o <<e>> \o <<a>> = t
      BY <1>2, <1>12, <2>1, ErrorReplies
    <3>2. (~(m.k \in Query)) = k
      BY <1>14, <2>1
    <3>3. back' = [back EXCEPT ![b] = [r EXCEPT !.wire = Tail(r.wire), !.tx = tx, !.skip = ~(m.k \in Query),
                      !.replies = r.replies \o <<e>> \o <<a>>]]
      BY <1>1, <1>2, <1>3, <1>4, <1>5, <1>14 DEF ServerRefuses, SetB
    <3>4. QED
      BY <1>12, <2>2, <3>1, <3>2, <3>3
  <2>4. y = Moved(r, w, t, tx, k, r.stmts, r.foreign)
    BY <1>2, <2>2 DEF Moved, Connections
  <2>5. /\ y \in Connections /\ y.owner = r.owner /\ y.prepared = r.prepared /\ (y.cut <=> r.cut)
        /\ y.wire = w /\ y.replies = t /\ y.tx = tx /\ (y.skip <=> k) /\ y.stmts = r.stmts /\ y.foreign = r.foreign
    BY <1>2, <2>4, MovedIs
  <2>6. PICK z : z = Moved(r, w, q, tx, k, r.stmts, r.foreign)
    OBVIOUS
  <2>7. /\ z \in Connections /\ z.owner = r.owner /\ z.prepared = r.prepared /\ (z.cut <=> r.cut)
        /\ z.wire = w /\ z.replies = q /\ z.tx = tx /\ (z.skip <=> k) /\ z.stmts = r.stmts /\ z.foreign = r.foreign
    BY <1>2, <2>6, MovedIs
  <2>8. Answer(b, r, a, z, E)
    <3>1. EndsTransactionUnit(r.wire[1])
      BY <1>3, <1>14 DEF EndsTransactionUnit, Ending, Query
    <3>2. QED
      BY <1>2, <1>3, <1>6, <1>10, <1>11, <1>12, <2>1, <2>7, <3>1 DEF Answer
  <2>9. /\ ConnectionInv(b, z, E)
        /\ \A c, x : /\ x.held = b /\ x \in Sessions /\ LinkInv(c, x, b, r, drift) /\ (c \in drift => c \in E)
                     /\ Spared(E) /\ c \notin E => Fitting(r.wire[1], a)
                     => LinkInv(c, x, b, z, E)
    BY <1>2, <1>9, <2>7, <2>8, Answered
  <2>10. Fitting(m, a)
    BY <1>6, <1>14 DEF Fitting, Query
  <2>11. Erring(y, z, r.replies, e, a, E)
    <3>1. Spared(E) => e.by = z.owner /\ z.owner # None
      BY <1>2, <1>3, <1>6, <1>9, <2>7 DEF UnitRest
    <3>2. QED
      BY <1>2, <1>6, <1>12, <2>1, <2>5, <2>7, <3>1 DEF Erring
  <2>12. /\ ConnectionInv(b, y, E)
         /\ \A c, x : x.held = b /\ x \in Sessions /\ LinkInv(c, x, b, z, E) => LinkInv(c, x, b, y, E)
    BY <1>2, <2>5, <2>7, <2>9, <2>11, Erred
  <2>13. \A c \in Clients : sess[c].held = b => LinkInv(c, sess[c], b, y, E)
    <3>1. SUFFICES ASSUME NEW c \in Clients, sess[c].held = b PROVE LinkInv(c, sess[c], b, y, E)
      OBVIOUS
    <3>2. sess[c] \in Sessions /\ LinkInv(c, sess[c], b, r, drift) /\ (c \in drift => c \in E)
      BY <1>2, <1>9
    <3>3. LinkInv(c, sess[c], b, z, E)
      BY <1>3, <2>9, <2>10, <3>1, <3>2
    <3>4. QED
      BY <2>12, <3>1, <3>2, <3>3
  <2>14. QED
    BY <1>1, <1>8, <1>9, <2>3, <2>5, <2>12, <2>13, ServerKeeps
<1>15. QED
  BY <1>7, <1>13, <1>14

LEMMA ServerStepKeeps ==
  ASSUME Holding, NEW b \in Backends, Server(b)
  PROVE  Holding'
<1>1. back[b].wire # <<>> /\ ~back[b].cut /\ UNCHANGED <<sess, close, count>>
  BY DEF Server
<1>2. PICK m : m = Head(back[b].wire)
  OBVIOUS
<1>3. ServerReady(b, m) \/ ServerDoes(b, m) \/ ServerRefuses(b, m) \/ ServerSkips(b, m)
  BY <1>2 DEF Server
<1>4. QED
  BY <1>1, <1>2, <1>3, ServerReadyKeeps, ServerDoesKeeps, ServerRefusesKeeps, ServerSkipsKeeps

-----------------------------------------------------------------------------
(* The pump forwards a message. *)

Forwarded(x, b, st, t, e, p) ==
  [x EXCEPT !.want = <<>>, !.busy = FALSE, !.held = b, !.attach = t, !.statements = st,
            !.expect = e, !.pending = p]
Fed(r, c, pr, w) == [r EXCEPT !.owner = c, !.prepared = pr, !.wire = w]

IsForwarded(s, x, b, st, t, e, p) ==
  /\ s \in Sessions /\ s.want = <<>> /\ ~s.busy /\ s.held = b /\ s.statements = st /\ s.attach = t
  /\ s.expect = e /\ s.pending = p /\ s.phase = x.phase /\ s.cancel = x.cancel
  /\ (s.open <=> x.open) /\ s.stray = x.stray /\ s.owed = x.owed

LEMMA ForwardedIs ==
  ASSUME NEW x \in Sessions, NEW b \in Backends, NEW st \in Seq(Entries), NEW t \in Seq(Backends),
         NEW e \in Seq({"1", "3"}), NEW p \in Nat, NEW s, s = Forwarded(x, b, st, t, e, p)
  PROVE  IsForwarded(s, x, b, st, t, e, p)
<1>1. PICK g \in Seq(Messages) : g = <<>>
  <2>1. <<>> \in Seq(Messages)
    OBVIOUS
  <2>2. QED
    BY <2>1
<1>0. PICK f \in BOOLEAN : f = FALSE
  OBVIOUS
<1>2. PICK u : u = [x EXCEPT !.want = g, !.busy = f, !.held = b]
  OBVIOUS
<1>3. /\ u \in Sessions /\ u.want = g /\ u.busy = f /\ u.held = b /\ u.phase = x.phase /\ u.cancel = x.cancel
      /\ u.open = x.open /\ u.stray = x.stray /\ u.owed = x.owed
  BY <1>2 DEF Sessions
<1>4. PICK v : v = [u EXCEPT !.statements = st, !.attach = t]
  OBVIOUS
<1>5. /\ v \in Sessions /\ v.want = u.want /\ v.held = u.held /\ v.statements = st /\ v.attach = t
      /\ v.busy = u.busy /\ v.phase = u.phase /\ v.cancel = u.cancel
      /\ v.open = u.open /\ v.stray = u.stray /\ v.owed = u.owed
  BY <1>3, <1>4 DEF Sessions
<1>6. s = [v EXCEPT !.expect = e, !.pending = p]
  BY <1>0, <1>1, <1>2, <1>4 DEF Forwarded
<1>7. /\ s \in Sessions /\ s.want = v.want /\ s.busy = v.busy /\ s.held = v.held /\ s.statements = v.statements
      /\ s.attach = v.attach /\ s.expect = e /\ s.pending = p /\ s.phase = v.phase /\ s.cancel = v.cancel
      /\ s.open = v.open /\ s.stray = v.stray /\ s.owed = v.owed
  BY <1>5, <1>6 DEF Sessions
<1>8. QED
  BY <1>0, <1>1, <1>3, <1>5, <1>7 DEF IsForwarded

LEMMA FedIs ==
  ASSUME NEW r \in Connections, NEW c \in Clients, NEW pr \in Seq(Entries), NEW w \in Seq(Messages),
         NEW y, y = Fed(r, c, pr, w)
  PROVE  /\ y \in Connections /\ y.owner = c /\ y.prepared = pr /\ y.wire = w /\ y.replies = r.replies
         /\ (y.cut <=> r.cut) /\ y.tx = r.tx /\ (y.skip <=> r.skip) /\ y.stmts = r.stmts
         /\ y.foreign = r.foreign
<1>1. PICK u : u = [r EXCEPT !.owner = c]
  OBVIOUS
<1>2. /\ u \in Connections /\ u.owner = c /\ u.replies = r.replies /\ u.cut = r.cut /\ u.tx = r.tx
      /\ u.skip = r.skip /\ u.stmts = r.stmts /\ u.foreign = r.foreign
  BY <1>1 DEF Connections
<1>3. y = [u EXCEPT !.prepared = pr, !.wire = w]
  BY <1>1 DEF Fed
<1>4. /\ y \in Connections /\ y.owner = u.owner /\ y.prepared = pr /\ y.wire = w /\ y.replies = u.replies
      /\ y.cut = u.cut /\ y.tx = u.tx /\ y.skip = u.skip /\ y.stmts = u.stmts /\ y.foreign = u.foreign
  BY <1>2, <1>3 DEF Connections
<1>5. QED
  BY <1>2, <1>4

\* What is on the wire after that.
Extends(N, W, c, m) ==
  /\ N \in Seq(Messages) /\ N # <<>>
  /\ \A i \in DOMAIN N : \/ i \in DOMAIN W /\ N[i] = W[i]
                         \/ N[i].by = c /\ N[i].k \in {"parse", "close"}
                         \/ i = Len(N) /\ N[i] = m

LEMMA ExtendsIs ==
  ASSUME NEW W \in Seq(Messages), NEW c, NEW q, Injected(q, c), NEW m \in Messages
  PROVE  Extends(W \o Append(q, m), W, c, m)
<1>1. q \in Seq(Messages) /\ \A i \in DOMAIN q : q[i].by = c /\ q[i].k \in {"parse", "close"}
  BY DEF Injected
<1>2. PICK t \in Seq(Messages) : t = Append(q, m)
  <2>1. Append(q, m) \in Seq(Messages)
    BY <1>1, AppendIs
  <2>2. QED
    BY <2>1
<1>3. PICK l \in Nat, n \in Nat : l = Len(W) /\ n = Len(q) /\ DOMAIN W = 1 .. l /\ DOMAIN q = 1 .. n
  BY <1>1, SeqDomain
<1>4. Len(t) = n + 1 /\ t[n + 1] = m /\ \A i \in 1 .. n : t[i] = q[i]
  BY <1>1, <1>2, <1>3, AppendIs
<1>5. PICK N : N = W \o t
  OBVIOUS
<1>6. /\ N \in Seq(Messages) /\ Len(N) = Len(W) + Len(t) /\ DOMAIN N = 1 .. Len(W) + Len(t)
      /\ \A i \in 1 .. Len(W) : N[i] = W[i]
      /\ \A i \in 1 .. Len(t) : N[Len(W) + i] = t[i]
  BY <1>5, ConcatIs
<1>7. Len(N) = l + (n + 1) /\ DOMAIN N = 1 .. l + (n + 1)
  BY <1>3, <1>4, <1>6
<1>8. ASSUME NEW i \in DOMAIN N
      PROVE  \/ i \in DOMAIN W /\ N[i] = W[i]
             \/ N[i].by = c /\ N[i].k \in {"parse", "close"}
             \/ i = Len(N) /\ N[i] = m
  <2>1. CASE i <= l
    <3>1. i \in 1 .. l
      BY <1>7, <2>1
    <3>2. QED
      BY <1>3, <1>6, <3>1
  <2>2. CASE ~(i <= l)
    <3>1. PICK j \in 1 .. n + 1 : i = l + j
      <4>1. i - l \in 1 .. n + 1 /\ i = l + (i - l)
        BY <1>7, <2>2
      <4>2. QED
        BY <4>1
    <3>2. N[i] = t[j]
      BY <1>3, <1>4, <1>6, <3>1
    <3>3. CASE j = n + 1
      BY <1>4, <1>7, <3>1, <3>2, <3>3
    <3>4. CASE j # n + 1
      <4>1. j \in 1 .. n
        BY <3>1, <3>4
      <4>2. QED
        BY <1>1, <1>3, <1>4, <3>2, <4>1
    <3>5. QED
      BY <3>3, <3>4
  <2>3. QED
    BY <2>1, <2>2
<1>9. N # <<>>
  BY <1>7, EmptySeq
<1>10. QED
  BY <1>2, <1>5, <1>6, <1>8, <1>9 DEF Extends

\* The message as it is forwarded.
Marked(g, st) == [g EXCEPT !.known = Has(st, g.n)]

LEMMA MarkedIs ==
  ASSUME NEW g \in Messages, NEW st, NEW m, m = Marked(g, st)
  PROVE  /\ m \in Messages /\ m.by = g.by /\ (m.inj <=> g.inj) /\ m.k = g.k /\ m.n = g.n
         /\ m.known <=> Has(st, m.n)
<1>1. PICK k \in BOOLEAN : k = Has(st, g.n)
  <2>1. Has(st, g.n) \in BOOLEAN
    BY DEF Has
  <2>2. QED
    BY <2>1
<1>2. m = [g EXCEPT !.known = k]
  BY <1>1 DEF Marked
<1>3. m \in Messages /\ m.by = g.by /\ m.inj = g.inj /\ m.k = g.k /\ m.n = g.n /\ m.known = k
  BY <1>2 DEF Messages
<1>4. QED
  BY <1>1, <1>3

LEMMA ForwardKeeps ==
  ASSUME Holding, NEW c \in Clients, Forward(c)
  PROVE  Holding'
<1>1. PICK x : x = sess[c]
  OBVIOUS
<1>2. /\ x \in Sessions /\ SessionInv(c, x, drift, sent) /\ SessionOK(c, x, sent) /\ sent \in Nat
      /\ x.held \in Backends \cup {None} /\ x.want \in Seq(Messages) /\ x.pending \in Nat
      /\ x.attach \in Seq(Backends) /\ x.expect \in Seq({"1", "3"}) /\ x.owed \in Int
  BY <1>1, OfSession DEF Sessions
<1>3. /\ x.phase = "running" /\ x.want # <<>>
      /\ x.cancel # None => x.cancel = x.held
  BY <1>1, OfSession DEF Forward
<1>4. PICK g \in Messages : g = x.want[1] /\ g.by = c /\ ~g.inj /\ Len(x.want) = 1
  <2>1. Len(x.want) \in Nat /\ DOMAIN x.want = 1 .. Len(x.want) /\ Len(x.want) # 0
    BY <1>2, <1>3, SeqDomain, EmptySeq
  <2>2. Len(x.want) = 1 /\ 1 \in DOMAIN x.want
    BY <1>2, <2>1 DEF SessionOK
  <2>3. x.want[1] \in Messages /\ x.want[1].by = c /\ ~x.want[1].inj
    BY <1>2, <2>2, SeqDomain DEF SessionOK
  <2>4. QED
    BY <2>2, <2>3
<1>5. PICK m : m = Marked(g, x.statements)
  OBVIOUS
<1>6. m \in Messages /\ m.by = c /\ ~m.inj /\ m.k = g.k /\ (m.known => Has(x.statements, m.n))
  BY <1>4, <1>5, MarkedIs
<1>7. PICK b \in Backends :
        LET r == Reconcile(c, m, x.statements, back[b].prepared)
        IN /\ EnsureBackend(c, b)
           /\ sess' = [sess EXCEPT ![c] = [x EXCEPT
                !.want = <<>>, !.busy = FALSE, !.held = b,
                !.attach = IF x.held = None THEN Append(x.attach, b) ELSE x.attach,
                !.statements = r.st,
                !.expect = x.expect \o [i \in DOMAIN r.inj |-> Completion(r.inj[i])],
                !.pending = IF EndsTransactionUnit(m) THEN x.pending + 1 ELSE x.pending]]
           /\ back' = [back EXCEPT ![b] = [back[b] EXCEPT
                !.owner = c, !.prepared = r.pr,
                !.wire = IF back[b].cut THEN back[b].wire ELSE back[b].wire \o Append(r.inj, m)]]
  <2>1. m = [sess[c].want[1] EXCEPT !.known = Has(sess[c].statements, sess[c].want[1].n)]
    BY <1>1, <1>4, <1>5 DEF Marked
  <2>2. PICK b \in Backends :
          LET r == Reconcile(c, m, sess[c].statements, back[b].prepared)
          IN /\ EnsureBackend(c, b) /\ Len(back[b].wire) < Room
             /\ Set(c, [sess[c] EXCEPT
                  !.want = <<>>, !.busy = FALSE, !.held = b, !.attach = Attach(c, b),
                  !.statements = r.st,
                  !.expect = @ \o [i \in DOMAIN r.inj |-> Completion(r.inj[i])],
                  !.pending = IF EndsTransactionUnit(m) THEN @ + 1 ELSE @])
             /\ SetB(b, [back[b] EXCEPT
                  !.owner = c, !.prepared = r.pr,
                  !.wire = IF back[b].cut THEN @ ELSE @ \o Append(r.inj, m)])
    BY <2>1, Zenon DEF Forward
  <2>3. QED
    BY <1>1, <2>2 DEF Set, SetB, Attach
<1>8. close' = close /\ drift' = drift /\ count' = count
  BY DEF Forward
<1>9. PICK r : r = back[b]
  OBVIOUS
<1>10. /\ r \in Connections /\ ConnectionInv(b, r, drift) /\ LinkInv(c, x, b, r, drift)
       /\ r.wire \in Seq(Messages) /\ r.replies \in Seq(Replies) /\ b # None /\ b \notin Clients /\ c # None
       /\ SetOK(r.prepared) /\ (x.held = b <=> r.owner = c)
  <2>1. r \in Connections /\ ConnectionInv(b, r, drift) /\ LinkInv(c, x, b, r, drift)
    BY <1>1, <1>9, OfConnection
  <2>2. QED
    BY <2>1, Constants DEF Connections, ConnectionInv, ConnectionOK, LinkInv, LinkOK
<1>11. /\ x.held # None => x.held = b /\ r.owner = c
       /\ x.held = None => r.owner = None
  BY <1>1, <1>7, <1>9, <1>10 DEF EnsureBackend
<1>12. PICK R : R = Reconcile(c, m, x.statements, r.prepared)
  OBVIOUS
<1>13. /\ SetOK(R.st) /\ Mine(R.st, c) /\ SetOK(R.pr) /\ Injected(R.inj, c)
       /\ Runs(Append(R.inj, m), View(r.prepared), View(R.pr))
  <2>1. SetOK(x.statements) /\ Mine(x.statements, c)
    BY <1>2 DEF SessionOK
  <2>2. QED
    BY <1>6, <1>10, <1>12, <2>1, ReconcileIs DEF Reconciles
<1>14. PICK ks \in Seq({"1", "3"}) :
         /\ ks = [i \in DOMAIN R.inj |-> Completion(R.inj[i])] /\ Len(ks) = Len(R.inj)
         /\ \A i \in 1 .. Len(R.inj) : ks[i] = Completion(R.inj[i])
  BY <1>13, CompletionsIs
<1>15. PICK e \in Seq({"1", "3"}) : e = x.expect \o ks
  <2>1. x.expect \o ks \in Seq({"1", "3"})
    BY <1>2, ConcatProperties
  <2>2. QED
    BY <2>1
<1>16. PICK p \in Nat : p = IF EndsTransactionUnit(m) THEN x.pending + 1 ELSE x.pending
  <2>1. (IF EndsTransactionUnit(m) THEN x.pending + 1 ELSE x.pending) \in Nat
    BY <1>2
  <2>2. QED
    BY <2>1
<1>17. PICK t \in Seq(Backends) : t = <<b>>
  <2>1. <<b>> \in Seq(Backends)
    OBVIOUS
  <2>2. QED
    BY <2>1
<1>18. (IF x.held = None THEN Append(x.attach, b) ELSE x.attach) = t
  <2>1. x.attach = IF x.held = None THEN <<>> ELSE <<x.held>>
    BY <1>2 DEF SessionOK
  <2>2. Append(<<>>, b) = <<b>>
    OBVIOUS
  <2>3. QED
    BY <1>11, <1>17, <2>1, <2>2
<1>19. Extends(r.wire \o Append(R.inj, m), r.wire, c, m)
  BY <1>6, <1>10, <1>13, ExtendsIs
<1>20. PICK w \in Seq(Messages) : w = IF r.cut THEN r.wire ELSE r.wire \o Append(R.inj, m)
  <2>1. (IF r.cut THEN r.wire ELSE r.wire \o Append(R.inj, m)) \in Seq(Messages)
    BY <1>10, <1>19 DEF Extends
  <2>2. QED
    BY <2>1
<1>21. PICK s : s = Forwarded(x, b, R.st, t, e, p)
  OBVIOUS
<1>22. PICK y : y = Fed(r, c, R.pr, w)
  OBVIOUS
<1>23. sess' = [sess EXCEPT ![c] = s] /\ back' = [back EXCEPT ![b] = y]
  BY <1>7, <1>9, <1>12, <1>14, <1>15, <1>16, <1>18, <1>20, <1>21, <1>22 DEF Forwarded, Fed
<1>24. /\ s \in Sessions /\ s.want = <<>> /\ ~s.busy /\ s.held = b /\ s.statements = R.st /\ s.attach = t
       /\ s.expect = e /\ s.pending = p /\ s.phase = x.phase /\ s.cancel = x.cancel
       /\ (s.open <=> x.open) /\ s.stray = x.stray /\ s.owed = x.owed
  <2>1. PICK st \in Seq(Entries) : st = R.st
    BY <1>13 DEF SetOK
  <2>2. s = Forwarded(x, b, st, t, e, p)
    BY <1>21, <2>1
  <2>3. IsForwarded(s, x, b, st, t, e, p)
    BY <1>2, <2>2, ForwardedIs
  <2>4. QED
    BY <2>1, <2>3 DEF IsForwarded
<1>25. /\ y \in Connections /\ y.owner = c /\ y.prepared = R.pr /\ y.wire = w /\ y.replies = r.replies
       /\ (y.cut <=> r.cut) /\ y.tx = r.tx /\ (y.skip <=> r.skip) /\ y.stmts = r.stmts
       /\ y.foreign = r.foreign
  <2>1. R.pr \in Seq(Entries)
    BY <1>13 DEF SetOK
  <2>2. QED
    BY <1>10, <1>22, <2>1, FedIs
<1>26. SessionOK(c, s, sent)
  <2>1. Len(<<>>) = 0 /\ DOMAIN <<>> = {}
    BY EmptySeq
  <2>2. p + 0 <= sent
    BY <1>2, <1>4, <1>16 DEF SessionOK
  <2>3. s.pending + Len(s.want) <= sent /\ Len(s.want) <= 1
    BY <1>24, <2>1, <2>2
  <2>4. s.phase \in Attached
    BY <1>3, <1>24 DEF Attached
  <2>5. s.attach = IF s.held = None THEN <<>> ELSE <<s.held>>
    BY <1>10, <1>17, <1>24
  <2>6. \A i \in DOMAIN s.want : s.want[i].by = c /\ ~s.want[i].inj
    BY <1>24, <2>1
  <2>7. SetOK(s.statements) /\ Mine(s.statements, c)
    BY <1>13, <1>24
  <2>8. s.cancel # None => s.cancel = s.held
    BY <1>3, <1>11, <1>24
  <2>9. QED
    BY <1>24, <2>3, <2>4, <2>5, <2>6, <2>7, <2>8 DEF SessionOK
<1>27. ASSUME Spared(drift)
       PROVE  /\ x.pending = 0 /\ (x.open <=> EndsTransactionUnit(m))
              /\ c \notin drift /\ x.held = None => x.expect = <<>> /\ x.owed = 0
  <2>1. UnitSession(c, x, drift)
    BY <1>2, <1>27 DEF SessionInv
  <2>2. EndsTransactionUnit(g) <=> EndsTransactionUnit(m)
    BY <1>6 DEF EndsTransactionUnit
  <2>3. x.pending = 0
    <3>1. x.pending <= 1 /\ x.pending # 1
      BY <1>3, <2>1 DEF UnitSession
    <3>2. QED
      BY <1>2, <3>1
  <2>4. QED
    BY <1>3, <1>4, <2>1, <2>2, <2>3 DEF UnitSession
<1>28. SessionInv(c, s, drift, sent)
  <2>1. ASSUME Spared(drift) PROVE UnitSession(c, s, drift)
    <3>1. p <= 1 /\ (p = 1 => EndsTransactionUnit(m))
      BY <1>16, <1>27, <2>1
    <3>2. QED
      BY <1>10, <1>24, <1>27, <2>1, <3>1 DEF UnitSession
  <2>2. QED
    BY <1>26, <2>1 DEF SessionInv
<1>29. ConnectionOK(b, y, drift)
  <2>1. ASSUME b \notin drift, ~r.cut PROVE Runs(w, r.stmts, View(R.pr))
    <3>1. Runs(r.wire, r.stmts, View(r.prepared))
      BY <1>10, <2>1 DEF ConnectionInv, ConnectionOK
    <3>2. Append(R.inj, m) \in Seq(Messages)
      <4>1. R.inj \in Seq(Messages)
        BY <1>13 DEF Injected
      <4>2. QED
        BY <1>6, <4>1, AppendIs
    <3>3. Runs(r.wire \o Append(R.inj, m), r.stmts, View(R.pr))
      BY <1>10, <1>13, <3>1, <3>2, ConcatRuns
    <3>4. QED
      BY <1>20, <2>1, <3>3
  <2>2. (r.cut => r.wire = <<>>) /\ (TRUE \in r.foreign => b \in drift)
    BY <1>10 DEF ConnectionInv, ConnectionOK
  <2>3. QED
    BY <1>13, <1>20, <1>25, <2>1, <2>2 DEF ConnectionOK
<1>30. ASSUME Spared(drift)
       PROVE  /\ ~HasEnd(r)
              /\ r.owner # c => r.wire = <<>> /\ r.replies = <<>>
  <2>1. UnitConnection(b, r) /\ UnitLink(c, x, b, r, drift)
    BY <1>10, <1>30 DEF ConnectionInv, LinkInv
  <2>2. CASE x.held = None
    <3>1. r.wire = <<>> /\ r.replies = <<>> /\ DOMAIN <<>> = {}
      BY <1>11, <2>1, <2>2 DEF UnitConnection
    <3>2. QED
      BY <3>1 DEF HasEnd, HasReady
  <2>3. CASE x.held # None
    BY <1>3, <1>11, <2>1, <2>3 DEF UnitLink
  <2>4. QED
    BY <2>2, <2>3
<1>31. ASSUME Spared(drift), NEW i \in DOMAIN w
       PROVE  w[i].by = c /\ (EndsTransactionUnit(w[i]) => i = Len(w) /\ EndsTransactionUnit(m))
  <2>1. ASSUME NEW j \in DOMAIN r.wire PROVE r.wire[j].by = c /\ ~EndsTransactionUnit(r.wire[j])
    <3>1. ~EndsTransactionUnit(r.wire[j])
      BY <1>30, <1>31 DEF HasEnd
    <3>2. r.owner = c
      BY <1>30, <1>31
    <3>3. r.wire[j].by = r.owner
      BY <1>10, <1>31 DEF ConnectionInv, UnitConnection
    <3>4. QED
      BY <3>1, <3>2, <3>3
  <2>2. CASE r.cut
    BY <1>20, <2>1, <2>2
  <2>3. CASE ~r.cut
    <3>1. w = r.wire \o Append(R.inj, m)
      BY <1>20, <2>3
    <3>2. \/ i \in DOMAIN r.wire /\ w[i] = r.wire[i]
          \/ w[i].by = c /\ w[i].k \in {"parse", "close"}
          \/ i = Len(w) /\ w[i] = m
      BY <1>19, <1>31, <3>1 DEF Extends
    <3>3. w[i].k \in {"parse", "close"} => ~EndsTransactionUnit(w[i])
      BY DEF EndsTransactionUnit, Ending, Query
    <3>4. QED
      BY <1>6, <2>1, <3>2, <3>3
  <2>4. QED
    BY <2>2, <2>3
<1>32. Spared(drift) => ~HasReady(y)
  BY <1>25, <1>30 DEF HasEnd, HasReady
<1>33. ConnectionInv(b, y, drift)
  <2>1. ASSUME Spared(drift) PROVE UnitConnection(b, y)
    <3>1. \A i \in DOMAIN r.replies : r.replies[i].by = c /\ r.replies[i].k # "Z"
      <4>1. SUFFICES ASSUME NEW i \in DOMAIN r.replies PROVE r.replies[i].by = c /\ r.replies[i].k # "Z"
        OBVIOUS
      <4>2. r.owner = c
        BY <1>30, <2>1
      <4>3. r.replies[i].by = r.owner
        BY <1>10, <2>1 DEF ConnectionInv, UnitConnection
      <4>4. QED
        BY <1>30, <2>1, <4>2, <4>3 DEF HasEnd, HasReady
    <3>2. QED
      BY <1>10, <1>25, <1>31, <2>1, <3>1 DEF UnitConnection
  <2>2. QED
    BY <1>29, <2>1 DEF ConnectionInv
<1>34. LinkInv(c, s, b, y, drift)
  <2>1. LinkOK(c, s, b, y)
    BY <1>3, <1>24, <1>25 DEF LinkOK
  <2>2. ASSUME Spared(drift) PROVE UnitLink(c, s, b, y, drift)
    <3>1. HasEnd(y) => EndsTransactionUnit(m)
      BY <1>25, <1>31, <1>32, <2>2 DEF HasEnd
    <3>2. HasEnd(y) => s.open /\ s.want = <<>>
      BY <1>24, <1>27, <2>2, <3>1
    <3>3. ASSUME c \notin drift, ~r.cut
          PROVE  Settled(s.expect, s.owed, y.replies, y.wire)
      <4>1. Settled(x.expect, x.owed, r.replies, r.wire)
        <5>1. CASE x.held = None
          <6>1. x.expect = <<>> /\ x.owed = 0 /\ r.wire = <<>> /\ r.replies = <<>>
            BY <1>10, <1>11, <1>27, <1>30, <2>2, <3>3, <5>1
          <6>2. QED
            BY <1>2, <6>1, SettledEmpty
        <5>2. CASE x.held # None
          BY <1>10, <1>11, <2>2, <3>3, <5>2 DEF LinkInv, UnitLink
        <5>3. QED
          BY <5>1, <5>2
      <4>2. Settled(x.expect \o ks, x.owed, r.replies, r.wire \o Append(R.inj, m))
        BY <1>2, <1>6, <1>10, <1>13, <1>14, <4>1, SettledForward
      <4>3. QED
        BY <1>15, <1>20, <1>24, <1>25, <3>3, <4>2
    <3>4. QED
      BY <1>25, <1>32, <2>2, <3>2, <3>3 DEF UnitLink
  <2>3. QED
    BY <2>1, <2>2 DEF LinkInv
<1>35. Globals'
  BY <1>8 DEF Holding, Globals, count
<1>36. drift' = drift /\ sent' = sent /\ sent <= sent'
  BY <1>2, <1>8 DEF count
<1>37. x.held = b \/ (x.held = None /\ r.owner = None)
  BY <1>11
<1>38. s.held \in {b, None} /\ y.owner \in {c, None} /\ drift \ {b} \subseteq drift'
  BY <1>24, <1>25, <1>36
<1>39. QED
  BY <1>1, <1>9, <1>23, <1>28, <1>33, <1>34, <1>35, <1>36, <1>37, <1>38, StepKeeps

-----------------------------------------------------------------------------

(* All steps together. *)

LEMMA SessionStepKeeps ==
  ASSUME Holding, NEW c \in Clients, Session(c)
  PROVE  Holding'
<1>1. \/ Accept(c) \/ StartupPacket(c) \/ Authenticate(c) \/ Ready(c) \/ Register(c)
      \/ Leave(c) \/ ForwardLocks(c) \/ RelayEnds(c) \/ Cancel(c) \/ CancelSent(c)
      \/ StartupEnds(c) \/ Send(c) \/ PumpEnds(c) \/ AcquireFails(c)
      \/ Forward(c) \/ ForwardFails(c) \/ BodyFails(c) \/ Detach(c) \/ ReleaseBackend(c)
      \/ RelayFails(c) \/ Swallow(c) \/ Relay(c)
  BY DEF Session
<1>2. CASE Accept(c) \/ StartupPacket(c) \/ Authenticate(c) \/ Ready(c) \/ Register(c)
  BY <1>2, HandshakeKeeps
<1>3. CASE Leave(c) \/ ForwardLocks(c) \/ RelayEnds(c) \/ Cancel(c) \/ CancelSent(c)
  BY <1>3, FlagsKeep
<1>4. CASE StartupEnds(c) \/ Send(c) \/ PumpEnds(c) \/ AcquireFails(c)
  BY <1>4, StartupEndsKeeps, SendKeeps, StopsKeep
<1>5. CASE Forward(c) \/ ForwardFails(c) \/ BodyFails(c)
  BY <1>5, ForwardKeeps, FailsOnKeeps DEF ForwardFails, BodyFails
<1>6. CASE Detach(c) \/ ReleaseBackend(c)
  BY <1>6, DetachKeeps, ReleaseBackendKeeps
<1>7. CASE RelayFails(c) \/ Swallow(c) \/ Relay(c)
  BY <1>7, RelayFailsKeeps, SwallowKeeps, RelayKeeps
<1>8. QED
  BY <1>1, <1>2, <1>3, <1>4, <1>5, <1>6, <1>7

LEMMA HoldingNext == Holding /\ [ProxyNext]_proxyVars => Holding'
<1>1. SUFFICES ASSUME Holding, [ProxyNext]_proxyVars PROVE Holding'
  OBVIOUS
<1>2. CASE UNCHANGED proxyVars
  <2>1. sess' = sess /\ back' = back /\ close' = close /\ drift' = drift /\ sent' = sent /\ deaths' = deaths
    BY <1>2 DEF proxyVars, count
  <2>2. QED
    BY <1>1, <2>1 DEF Holding, Globals
<1>3. CASE \E c \in Clients : Session(c)
  BY <1>1, <1>3, SessionStepKeeps
<1>4. CASE \E b \in Backends : Server(b) \/ ServerDies(b)
  BY <1>1, <1>4, ServerStepKeeps, ServerDiesKeeps
<1>5. CASE CloseStop \/ CloseWake \/ CloseDone
  BY <1>1, <1>5, CloseKeeps
<1>6. QED
  BY <1>1, <1>2, <1>3, <1>4, <1>5 DEF ProxyNext

LEMMA HoldingHolds == ProxySpec => []Holding
BY HoldingInit, HoldingNext, PTL DEF ProxySpec

-----------------------------------------------------------------------------
(* Units: every Query and Sync is counted until its ReadyForQuery has been   *)
(* relayed, whether the client waits for it or sends on.                     *)

Hits(s, K) == {i \in DOMAIN s : s[i].k \in K}
Tally(s, K) == Cardinality(Hits(s, K))

LEMMA TallyIs ==
  ASSUME NEW S, NEW s \in Seq(S), NEW K
  PROVE  /\ IsFiniteSet(Hits(s, K)) /\ Tally(s, K) \in Nat
         /\ Tally(s, K) = 0 <=> \A i \in DOMAIN s : s[i].k \notin K
<1>1. Len(s) \in Nat /\ DOMAIN s = 1 .. Len(s)
  BY SeqDomain
<1>2. IsFiniteSet(1 .. Len(s))
  BY <1>1, FS_Interval
<1>3. Hits(s, K) \in SUBSET (1 .. Len(s))
  BY <1>1 DEF Hits
<1>4. IsFiniteSet(Hits(s, K))
  BY <1>2, <1>3, FS_Subset
<1>5. Cardinality(Hits(s, K)) \in Nat /\ (Cardinality(Hits(s, K)) = 0 <=> Hits(s, K) = {})
  BY <1>4, FS_CardinalityType, FS_EmptySet
<1>6. Hits(s, K) = {} <=> \A i \in DOMAIN s : s[i].k \notin K
  BY DEF Hits
<1>7. QED
  BY <1>4, <1>5, <1>6 DEF Tally

LEMMA TallyAppend ==
  ASSUME NEW S, NEW s \in Seq(S), NEW a \in S, NEW K
  PROVE  Tally(Append(s, a), K) = IF a.k \in K THEN Tally(s, K) + 1 ELSE Tally(s, K)
<1>1. PICK t : t = Append(s, a)
  OBVIOUS
<1>2. PICK n \in Nat : n = Len(s) /\ DOMAIN s = 1 .. n
  BY SeqDomain
<1>3. DOMAIN t = 1 .. n + 1 /\ t[n + 1] = a /\ \A i \in 1 .. n : t[i] = s[i]
  BY <1>1, <1>2, AppendIs
<1>4. IsFiniteSet(Hits(s, K)) /\ n + 1 \notin Hits(s, K)
  <2>1. IsFiniteSet(Hits(s, K))
    BY TallyIs
  <2>2. n + 1 \notin Hits(s, K)
    BY <1>2 DEF Hits
  <2>3. QED
    BY <2>1, <2>2
<1>5. CASE a.k \in K
  <2>1. Hits(t, K) = Hits(s, K) \cup {n + 1}
    BY <1>2, <1>3, <1>5 DEF Hits
  <2>2. QED
    BY <1>1, <1>4, <1>5, <2>1, FS_AddElement DEF Tally
<1>6. CASE a.k \notin K
  <2>1. Hits(t, K) = Hits(s, K)
    BY <1>2, <1>3, <1>6 DEF Hits
  <2>2. QED
    BY <1>1, <1>6, <2>1 DEF Tally
<1>7. QED
  BY <1>5, <1>6

LEMMA TallyTail ==
  ASSUME NEW S, NEW s \in Seq(S), s # <<>>, NEW K
  PROVE  Tally(Tail(s), K) = IF s[1].k \in K THEN Tally(s, K) - 1 ELSE Tally(s, K)
<1>1. PICK t : t = Tail(s)
  OBVIOUS
<1>2. PICK n \in Nat : n = Len(s) /\ DOMAIN s = 1 .. n /\ n > 0
  BY SeqDomain, TailIs
<1>3. DOMAIN t = 1 .. n - 1 /\ \A i \in 1 .. n - 1 : t[i] = s[i + 1]
  BY <1>1, <1>2, TailIs
<1>4. PICK H, T : H = Hits(t, K) /\ T = Hits(s, K) \ {1}
  OBVIOUS
<1>5. /\ \A i \in H : i \in Int /\ i + 1 \in T
      /\ \A j \in T : j \in Int /\ j - 1 \in H
  BY <1>2, <1>3, <1>4 DEF Hits
<1>6. PICK f : f = [i \in H |-> i + 1]
  OBVIOUS
<1>7. /\ f \in [H -> T]
      /\ \A i, j \in H : f[i] = f[j] => i = j
      /\ \A j \in T : \E i \in H : f[i] = j
  <2>1. \A i \in H : f[i] = i + 1
    BY <1>6
  <2>2. f \in [H -> T]
    BY <1>5, <1>6
  <2>3. ASSUME NEW j \in T PROVE \E i \in H : f[i] = j
    <3>1. j - 1 \in H /\ (j - 1) + 1 = j
      BY <1>5
    <3>2. QED
      BY <2>1, <3>1
  <2>4. QED
    BY <1>5, <2>1, <2>2, <2>3
<1>8. ExistsBijection(H, T)
  <2>1. f \in Bijection(H, T)
    BY <1>7, Fun_IsBij
  <2>2. QED
    BY <2>1, Fun_ExistsBij
<1>9. t \in Seq(S)
  BY <1>1, TailIs
<1>10. IsFiniteSet(H) /\ IsFiniteSet(Hits(s, K))
  BY <1>4, <1>9, TallyIs
<1>11. Cardinality(T) = Cardinality(H)
  BY <1>8, <1>10, FS_Bijection
<1>12. Cardinality(T) = IF 1 \in Hits(s, K) THEN Cardinality(Hits(s, K)) - 1 ELSE Cardinality(Hits(s, K))
  BY <1>4, <1>10, FS_RemoveElement
<1>13. 1 \in Hits(s, K) <=> s[1].k \in K
  BY <1>2 DEF Hits
<1>14. QED
  BY <1>1, <1>4, <1>11, <1>12, <1>13 DEF Tally

\* A message forwarded adds one at most, and none if it ends no unit.
LEMMA TallyExtends ==
  ASSUME NEW W \in Seq(Messages), NEW N, NEW c, NEW m, Extends(N, W, c, m)
  PROVE  Tally(N, Ending) <= IF EndsTransactionUnit(m) THEN Tally(W, Ending) + 1 ELSE Tally(W, Ending)
<1>1. /\ N \in Seq(Messages)
      /\ \A i \in DOMAIN N : \/ i \in DOMAIN W /\ N[i] = W[i]
                             \/ N[i].by = c /\ N[i].k \in {"parse", "close"}
                             \/ i = Len(N) /\ N[i] = m
  BY DEF Extends
<1>2. \A k \in {"parse", "close"} : k \notin Ending
  BY DEF Ending, Query
<1>3. /\ IsFiniteSet(Hits(W, Ending)) /\ Tally(W, Ending) \in Nat
      /\ IsFiniteSet(Hits(N, Ending)) /\ Tally(N, Ending) \in Nat
  BY <1>1, TallyIs
<1>4. CASE EndsTransactionUnit(m)
  <2>1. PICK U : U = Hits(W, Ending) \cup {Len(N)}
    OBVIOUS
  <2>2. Hits(N, Ending) \in SUBSET U
    BY <1>1, <1>2, <2>1 DEF Hits
  <2>3. IsFiniteSet(U) /\ (Cardinality(U) = Tally(W, Ending) \/ Cardinality(U) = Tally(W, Ending) + 1)
    BY <1>3, <2>1, FS_AddElement DEF Tally
  <2>4. Cardinality(Hits(N, Ending)) <= Cardinality(U)
    BY <2>2, <2>3, FS_Subset
  <2>5. QED
    BY <1>3, <1>4, <2>3, <2>4 DEF Tally
<1>5. CASE ~EndsTransactionUnit(m)
  <2>1. Hits(N, Ending) \in SUBSET Hits(W, Ending)
    BY <1>1, <1>2, <1>5 DEF Hits, EndsTransactionUnit
  <2>2. Cardinality(Hits(N, Ending)) <= Cardinality(Hits(W, Ending))
    BY <1>3, <2>1, FS_Subset
  <2>3. QED
    BY <1>5, <2>2 DEF Tally
<1>6. QED
  BY <1>4, <1>5

\* The Queries and Syncs of a connection that are not answered to the client.
Unanswered(r) == Tally(r.replies, {"Z"}) + Tally(r.wire, Ending)

\* They are its holder's.
UnitsOwn(r) ==
  /\ \A i \in DOMAIN r.wire : EndsTransactionUnit(r.wire[i]) => r.wire[i].by = r.owner
  /\ \A i \in DOMAIN r.replies : r.replies[i].k = "Z" => r.replies[i].by = r.owner

\* The server is outside a block if the last ReadyForQuery of R says so.
LastReady(R, t) ==
  \A i \in DOMAIN R :
    R[i].k = "Z" /\ R[i].tx = "I" /\ (\A j \in DOMAIN R : R[j].k = "Z" => j <= i) => t = "I"

ConnectionCounted(r) ==
  UnitsOwn(r) /\ LastReady(r.replies, r.tx) /\ (r.owner = None => r.tx = "I")
SessionCounted(s) ==
  "Z" \notin s.stray /\ (s.held = None => s.pending = 0)
Counted ==
  /\ \A c \in Clients : SessionCounted(sess[c])
  /\ \A c \in Clients, b \in Backends : sess[c].held = b => Unanswered(back[b]) <= sess[c].pending
  /\ \A b \in Backends : ConnectionCounted(back[b])

LEMMA UnansweredIs ==
  ASSUME NEW r \in Connections
  PROVE  /\ Tally(r.replies, {"Z"}) \in Nat /\ Tally(r.wire, Ending) \in Nat /\ Unanswered(r) \in Nat
         /\ r.replies \in Seq(Replies) /\ r.wire \in Seq(Messages)
<1>1. r.replies \in Seq(Replies) /\ r.wire \in Seq(Messages)
  BY DEF Connections
<1>2. Tally(r.replies, {"Z"}) \in Nat /\ Tally(r.wire, Ending) \in Nat
  BY <1>1, TallyIs
<1>3. QED
  BY <1>1, <1>2 DEF Unanswered

LEMMA NothingUnanswered ==
  ASSUME NEW r \in Connections, Unanswered(r) = 0
  PROVE  /\ \A i \in DOMAIN r.wire : ~EndsTransactionUnit(r.wire[i])
         /\ \A i \in DOMAIN r.replies : r.replies[i].k # "Z"
<1>1. Tally(r.replies, {"Z"}) = 0 /\ Tally(r.wire, Ending) = 0
  BY UnansweredIs DEF Unanswered
<1>2. \A i \in DOMAIN r.wire : r.wire[i].k \notin Ending
  BY <1>1, UnansweredIs, TallyIs
<1>3. \A i \in DOMAIN r.replies : r.replies[i].k \notin {"Z"}
  BY <1>1, UnansweredIs, TallyIs
<1>4. QED
  BY <1>2, <1>3 DEF EndsTransactionUnit

\* A connection nobody holds has nothing unanswered.
LEMMA IdleUnanswered ==
  ASSUME NEW r \in Connections, UnitsOwn(r), r.owner = None
  PROVE  Unanswered(r) = 0
<1>1. r.replies \in Seq(Replies) /\ r.wire \in Seq(Messages)
  BY UnansweredIs
<1>2. ASSUME NEW i \in DOMAIN r.wire PROVE r.wire[i].k \notin Ending
  <2>1. r.wire[i].by \in Clients
    BY <1>1, SeqDomain DEF Messages
  <2>2. QED
    BY <2>1, Constants DEF UnitsOwn, EndsTransactionUnit
<1>3. ASSUME NEW i \in DOMAIN r.replies PROVE r.replies[i].k \notin {"Z"}
  <2>1. r.replies[i].by \in Clients
    <3>1. r.replies[i] \in Replies
      BY <1>1, <1>3, SeqDomain
    <3>2. QED
      BY <3>1 DEF Replies
  <2>2. QED
    BY <2>1, Constants DEF UnitsOwn
<1>4. Tally(r.replies, {"Z"}) = 0 /\ Tally(r.wire, Ending) = 0
  BY <1>1, <1>2, <1>3, TallyIs
<1>5. QED
  BY <1>4 DEF Unanswered

\* A step of session c that leaves the connections alone.
LEMMA CountedSession ==
  ASSUME Holding, Counted, NEW c \in Clients, NEW s, sess' = [sess EXCEPT ![c] = s], back' = back,
         s.held = sess[c].held, s.pending = sess[c].pending, "Z" \notin s.stray
  PROVE  Counted'
<1>1. \A d \in Clients : /\ sess'[d].held = sess[d].held /\ sess'[d].pending = sess[d].pending
                         /\ "Z" \notin sess'[d].stray
  BY DEF Holding, Counted, SessionCounted
<1>2. QED
  BY <1>1 DEF Counted, SessionCounted

\* A step of session c on its connection b.
LEMMA CountedStep ==
  ASSUME Holding, Counted, NEW c \in Clients, NEW b \in Backends, NEW s, NEW y,
         sess' = [sess EXCEPT ![c] = s], back' = [back EXCEPT ![b] = y],
         sess[c].held = b \/ (sess[c].held = None /\ back[b].owner = None), s.held \in {b, None},
         SessionCounted(s), ConnectionCounted(y), s.held = b => Unanswered(y) <= s.pending
  PROVE  Counted'
<1>1. /\ sess'[c] = s /\ back'[b] = y
      /\ \A d \in Clients : d # c => sess'[d] = sess[d]
      /\ \A e \in Backends : e # b => back'[e] = back[e]
  BY DEF Holding
<1>2. \A d \in Clients : d # c => sess[d].held # b
  <2>1. SUFFICES ASSUME NEW d \in Clients, d # c, sess[d].held = b PROVE FALSE
    OBVIOUS
  <2>2. back[b].owner = d
    BY <2>1, OfConnection
  <2>3. sess[c].held = b => back[b].owner = c
    BY OfConnection
  <2>4. QED
    BY <2>1, <2>2, <2>3, Constants
<1>3. \A d \in Clients : SessionCounted(sess'[d])
  BY <1>1 DEF Counted
<1>4. \A e \in Backends : ConnectionCounted(back'[e])
  BY <1>1 DEF Counted
<1>5. ASSUME NEW d \in Clients, NEW e \in Backends, sess'[d].held = e
      PROVE  Unanswered(back'[e]) <= sess'[d].pending
  <2>1. CASE d = c
    <3>1. e = b
      BY <1>1, <1>5, <2>1, Constants
    <3>2. QED
      BY <1>1, <1>5, <2>1, <3>1
  <2>2. CASE d # c
    <3>1. e # b
      BY <1>1, <1>2, <1>5, <2>2
    <3>2. QED
      BY <1>1, <1>5, <2>2, <3>1 DEF Counted
  <2>3. QED
    BY <2>1, <2>2
<1>6. QED
  BY <1>3, <1>4, <1>5 DEF Counted

\* A step of the server on connection b.
LEMMA CountedServer ==
  ASSUME Holding, Holding', Counted, NEW b \in Backends, NEW y, sess' = sess, back' = [back EXCEPT ![b] = y],
         ConnectionCounted(y), Unanswered(y) <= Unanswered(back[b])
  PROVE  Counted'
<1>1. back'[b] = y /\ \A e \in Backends : e # b => back'[e] = back[e]
  BY DEF Holding
<1>2. ASSUME NEW d \in Clients, NEW e \in Backends, sess[d].held = e
      PROVE  Unanswered(back'[e]) <= sess[d].pending
  <2>1. CASE e # b
    BY <1>1, <1>2, <2>1 DEF Counted
  <2>2. CASE e = b
    <3>1. Unanswered(y) \in Nat /\ Unanswered(back[b]) \in Nat
      <4>1. y \in Connections /\ back[b] \in Connections
        BY <1>1 DEF Holding
      <4>2. QED
        BY <4>1, UnansweredIs
    <3>2. sess[d].pending \in Nat /\ Unanswered(back[b]) <= sess[d].pending
      BY <1>2, <2>2, OfSession DEF Counted, Sessions
    <3>3. QED
      BY <1>1, <2>2, <3>1, <3>2
  <2>3. QED
    BY <2>1, <2>2
<1>3. \A e \in Backends : ConnectionCounted(back'[e])
  BY <1>1 DEF Counted
<1>4. QED
  BY <1>2, <1>3 DEF Counted

\* One more answer, or one less.
LEMMA ReadyAppended ==
  ASSUME NEW R \in Seq(Replies), NEW a \in Replies, NEW t, NEW u, LastReady(R, t),
         a.k = "Z" => u = a.tx, a.k # "Z" /\ t = "I" => u = "I"
  PROVE  LastReady(Append(R, a), u)
<1>1. PICK Q : Q = Append(R, a)
  OBVIOUS
<1>2. PICK n \in Nat : n = Len(R) /\ DOMAIN R = 1 .. n
  BY SeqDomain
<1>3. DOMAIN Q = 1 .. n + 1 /\ Q[n + 1] = a /\ \A i \in 1 .. n : Q[i] = R[i]
  BY <1>1, <1>2, AppendIs
<1>4. SUFFICES ASSUME NEW i \in DOMAIN Q, Q[i].k = "Z", Q[i].tx = "I",
                      \A j \in DOMAIN Q : Q[j].k = "Z" => j <= i
               PROVE  u = "I"
  BY <1>1 DEF LastReady
<1>5. CASE a.k = "Z"
  <2>1. i = n + 1
    BY <1>2, <1>3, <1>4, <1>5
  <2>2. QED
    BY <1>3, <1>4, <1>5, <2>1
<1>6. CASE a.k # "Z"
  <2>1. i \in DOMAIN R /\ Q[i] = R[i]
    BY <1>2, <1>3, <1>4, <1>6
  <2>2. \A j \in DOMAIN R : R[j].k = "Z" => j <= i
    BY <1>2, <1>3, <1>4
  <2>3. t = "I"
    BY <1>4, <2>1, <2>2 DEF LastReady
  <2>4. QED
    BY <1>6, <2>3
<1>7. QED
  BY <1>5, <1>6

LEMMA ReadyTail ==
  ASSUME NEW R \in Seq(Replies), R # <<>>, NEW t, LastReady(R, t)
  PROVE  LastReady(Tail(R), t)
<1>1. PICK Q : Q = Tail(R)
  OBVIOUS
<1>2. PICK n \in Nat : n = Len(R) /\ DOMAIN R = 1 .. n
  BY SeqDomain
<1>3. DOMAIN Q = 1 .. n - 1 /\ \A i \in 1 .. n - 1 : Q[i] = R[i + 1]
  BY <1>1, <1>2, TailIs
<1>4. SUFFICES ASSUME NEW i \in DOMAIN Q, Q[i].k = "Z", Q[i].tx = "I",
                      \A j \in DOMAIN Q : Q[j].k = "Z" => j <= i
               PROVE  t = "I"
  BY <1>1 DEF LastReady
<1>5. i + 1 \in DOMAIN R /\ R[i + 1] = Q[i] /\ i \in Nat
  BY <1>2, <1>3
<1>6. ASSUME NEW j \in DOMAIN R, R[j].k = "Z" PROVE j <= i + 1
  <2>1. CASE j = 1
    BY <1>5, <2>1
  <2>2. CASE j # 1
    <3>1. j - 1 \in DOMAIN Q /\ Q[j - 1] = R[j] /\ j \in Nat
      BY <1>2, <1>3, <2>2
    <3>2. j - 1 <= i
      BY <1>4, <1>6, <3>1
    <3>3. QED
      BY <1>5, <3>1, <3>2
  <2>3. QED
    BY <2>1, <2>2
<1>7. QED
  BY <1>4, <1>5, <1>6 DEF LastReady

\* The server answers the first message with a, after an error or not.
LEMMA AnswerCounted ==
  ASSUME NEW r \in Connections, ConnectionCounted(r), r.wire # <<>>,
         NEW y, NEW P \in Seq(Replies), NEW a \in Replies,
         y.owner = r.owner, y.wire = Tail(r.wire), y.replies = Append(P, a), a.by = r.wire[1].by,
         a.k = "Z" => EndsTransactionUnit(r.wire[1]) /\ y.tx = a.tx,
         a.k # "Z" /\ r.tx = "I" => y.tx = "I",
         P = r.replies \/ \E e \in Replies : e.k = "E" /\ e.by = a.by /\ P = Append(r.replies, e)
  PROVE  ConnectionCounted(y) /\ Unanswered(y) <= Unanswered(r)
<1>1. /\ r.wire \in Seq(Messages) /\ r.replies \in Seq(Replies) /\ UnitsOwn(r) /\ LastReady(r.replies, r.tx)
      /\ r.owner = None => r.tx = "I"
  BY UnansweredIs DEF ConnectionCounted
<1>2. PICK n \in Nat : n = Len(P) /\ DOMAIN P = 1 .. n
  BY SeqDomain
<1>3. /\ LastReady(P, r.tx) /\ Tally(P, {"Z"}) = Tally(r.replies, {"Z"})
      /\ \A i \in DOMAIN P : P[i].k = "Z" => P[i].by = r.owner
  <2>1. CASE P = r.replies
    BY <1>1, <2>1 DEF UnitsOwn
  <2>2. ASSUME NEW e \in Replies, e.k = "E", P = Append(r.replies, e)
        PROVE  /\ LastReady(P, r.tx) /\ Tally(P, {"Z"}) = Tally(r.replies, {"Z"})
               /\ \A i \in DOMAIN P : P[i].k = "Z" => P[i].by = r.owner
    <3>1. LastReady(P, r.tx)
      BY <1>1, <2>2, ReadyAppended
    <3>2. Tally(P, {"Z"}) = Tally(r.replies, {"Z"})
      BY <1>1, <2>2, TallyAppend
    <3>3. PICK k \in Nat : k = Len(r.replies) /\ DOMAIN r.replies = 1 .. k
      BY <1>1, SeqDomain
    <3>4. DOMAIN P = 1 .. k + 1 /\ P[k + 1] = e /\ \A i \in 1 .. k : P[i] = r.replies[i]
      BY <1>1, <2>2, <3>3, AppendIs
    <3>5. \A i \in DOMAIN P : P[i].k = "Z" => P[i].by = r.owner
      BY <1>1, <2>2, <3>3, <3>4 DEF UnitsOwn
    <3>6. QED
      BY <3>1, <3>2, <3>5
  <2>3. QED
    BY <2>1, <2>2
<1>4. PICK w \in Seq(Messages), l \in Nat :
        /\ w = Tail(r.wire) /\ DOMAIN w = 1 .. l - 1 /\ r.wire[1] \in Messages /\ 1 \in DOMAIN r.wire
        /\ \A i \in 1 .. l - 1 : w[i] = r.wire[i + 1] /\ i + 1 \in DOMAIN r.wire
  <2>1. PICK l \in Nat : l = Len(r.wire)
    BY <1>1, SeqDomain
  <2>2. 1 \in DOMAIN r.wire /\ Tail(r.wire) \in Seq(Messages)
    BY <1>1, TailIs
  <2>3. r.wire[1] \in Messages
    BY <1>1, <2>2, SeqDomain
  <2>4. QED
    BY <1>1, <2>1, <2>2, <2>3, TailIs
<1>5. DOMAIN y.replies = 1 .. n + 1 /\ y.replies[n + 1] = a /\ \A i \in 1 .. n : y.replies[i] = P[i]
  BY <1>2, AppendIs
<1>6. EndsTransactionUnit(r.wire[1]) => r.wire[1].by = r.owner
  BY <1>1, <1>4 DEF UnitsOwn
<1>7. UnitsOwn(y)
  <2>1. \A i \in DOMAIN y.wire : EndsTransactionUnit(y.wire[i]) => y.wire[i].by = y.owner
    <3>1. SUFFICES ASSUME NEW i \in DOMAIN y.wire, EndsTransactionUnit(y.wire[i]) PROVE y.wire[i].by = y.owner
      OBVIOUS
    <3>2. i + 1 \in DOMAIN r.wire /\ y.wire[i] = r.wire[i + 1]
      BY <1>4, <3>1
    <3>3. QED
      BY <1>1, <3>1, <3>2 DEF UnitsOwn
  <2>2. ASSUME NEW i \in DOMAIN y.replies, y.replies[i].k = "Z" PROVE y.replies[i].by = y.owner
    <3>1. CASE i = n + 1
      BY <1>5, <1>6, <2>2, <3>1
    <3>2. CASE i # n + 1
      <4>1. i \in DOMAIN P /\ y.replies[i] = P[i]
        BY <1>2, <1>5, <2>2, <3>2
      <4>2. QED
        BY <1>3, <2>2, <4>1
    <3>3. QED
      BY <3>1, <3>2
  <2>3. QED
    BY <2>1, <2>2 DEF UnitsOwn
<1>8. LastReady(y.replies, y.tx)
  BY <1>3, ReadyAppended
<1>9. ASSUME y.owner = None PROVE y.tx = "I"
  <2>1. r.wire[1].by \in Clients
    BY <1>4 DEF Messages
  <2>2. r.wire[1].by # r.owner
    BY <1>9, <2>1, Constants
  <2>3. QED
    BY <1>1, <1>6, <1>9, <2>2
<1>10. Unanswered(y) <= Unanswered(r)
  <2>1. Tally(y.replies, {"Z"}) = IF a.k = "Z" THEN Tally(r.replies, {"Z"}) + 1 ELSE Tally(r.replies, {"Z"})
    <3>1. Tally(Append(P, a), {"Z"}) = IF a.k \in {"Z"} THEN Tally(P, {"Z"}) + 1 ELSE Tally(P, {"Z"})
      BY TallyAppend
    <3>2. QED
      BY <1>3, <3>1
  <2>2. Tally(y.wire, Ending) = IF EndsTransactionUnit(r.wire[1]) THEN Tally(r.wire, Ending) - 1
                                ELSE Tally(r.wire, Ending)
    <3>1. Tally(Tail(r.wire), Ending) = IF r.wire[1].k \in Ending THEN Tally(r.wire, Ending) - 1
                                        ELSE Tally(r.wire, Ending)
      BY <1>1, TallyTail
    <3>2. QED
      BY <3>1 DEF EndsTransactionUnit
  <2>3. Tally(r.replies, {"Z"}) \in Nat /\ Tally(r.wire, Ending) \in Nat
    BY UnansweredIs
  <2>4. QED
    BY <2>1, <2>2, <2>3 DEF Unanswered
<1>11. QED
  BY <1>7, <1>8, <1>9, <1>10 DEF ConnectionCounted

\* A connection that loses messages and answers no others.
LEMMA LessCounted ==
  ASSUME NEW r \in Connections, ConnectionCounted(r), NEW y,
         y.owner = r.owner, y.replies = r.replies, y.tx = r.tx,
         y.wire = r.wire \/ y.wire = <<>> \/ (r.wire # <<>> /\ y.wire = Tail(r.wire))
  PROVE  ConnectionCounted(y) /\ Unanswered(y) <= Unanswered(r)
<1>1. r.wire \in Seq(Messages) /\ UnitsOwn(r) /\ Tally(r.replies, {"Z"}) \in Nat /\ Tally(r.wire, Ending) \in Nat
  BY UnansweredIs DEF ConnectionCounted
<1>2. /\ \A i \in DOMAIN y.wire : EndsTransactionUnit(y.wire[i]) => y.wire[i].by = r.owner
      /\ Tally(y.wire, Ending) \in Nat /\ Tally(y.wire, Ending) <= Tally(r.wire, Ending)
  <2>1. CASE y.wire = r.wire
    BY <1>1, <2>1 DEF UnitsOwn
  <2>2. CASE y.wire = <<>>
    <3>1. <<>> \in Seq(Messages) /\ DOMAIN <<>> = {}
      OBVIOUS
    <3>2. Tally(<<>>, Ending) = 0
      BY <3>1, TallyIs
    <3>3. QED
      BY <1>1, <2>2, <3>1, <3>2
  <2>3. CASE r.wire # <<>> /\ y.wire = Tail(r.wire)
    <3>1. PICK l \in Nat :
            /\ y.wire \in Seq(Messages) /\ DOMAIN y.wire = 1 .. l - 1
            /\ \A i \in 1 .. l - 1 : y.wire[i] = r.wire[i + 1] /\ i + 1 \in DOMAIN r.wire
      <4>1. PICK l, w : l = Len(r.wire) /\ w = Tail(r.wire) /\ l \in Nat
        BY <1>1, SeqDomain
      <4>2. /\ w \in Seq(Messages) /\ DOMAIN w = 1 .. l - 1
            /\ \A i \in 1 .. l - 1 : w[i] = r.wire[i + 1] /\ i + 1 \in DOMAIN r.wire
        BY <1>1, <2>3, <4>1, TailIs
      <4>3. QED
        BY <2>3, <4>1, <4>2
    <3>2. \A i \in DOMAIN y.wire : EndsTransactionUnit(y.wire[i]) => y.wire[i].by = r.owner
      BY <1>1, <3>1 DEF UnitsOwn
    <3>3. Tally(y.wire, Ending) \in Nat
      BY <3>1, TallyIs
    <3>4. Tally(y.wire, Ending) = IF r.wire[1].k \in Ending THEN Tally(r.wire, Ending) - 1
                                  ELSE Tally(r.wire, Ending)
      BY <1>1, <2>3, TallyTail
    <3>5. QED
      BY <1>1, <3>2, <3>3, <3>4
  <2>4. QED
    BY <2>1, <2>2, <2>3
<1>3. UnitsOwn(y)
  BY <1>1, <1>2 DEF UnitsOwn
<1>4. Unanswered(y) <= Unanswered(r)
  BY <1>1, <1>2 DEF Unanswered
<1>5. QED
  BY <1>3, <1>4 DEF ConnectionCounted

LEMMA ServerCounts ==
  ASSUME Holding, Holding', Counted, NEW b \in Backends, Server(b)
  PROVE  Counted'
<1>1. PICK r : r = back[b]
  OBVIOUS
<1>2. r.wire # <<>> /\ ~r.cut /\ sess' = sess
  BY <1>1 DEF Server
<1>3. /\ r \in Connections /\ r.wire[1] \in Messages /\ Head(r.wire) = r.wire[1] /\ Tail(r.wire) \in Seq(Messages)
      /\ r.replies \in Seq(Replies) /\ ConnectionCounted(r) /\ r.tx \in {"I", "T", "E"}
  BY <1>1, <1>2, OfServer DEF Counted
<1>4. PICK m \in Messages : m = r.wire[1]
  BY <1>3
<1>5. ServerReady(b, m) \/ ServerDoes(b, m) \/ ServerRefuses(b, m) \/ ServerSkips(b, m)
  BY <1>1, <1>3, <1>4 DEF Server
<1>6. SUFFICES \E y : /\ back' = [back EXCEPT ![b] = y] /\ ConnectionCounted(y)
                      /\ Unanswered(y) <= Unanswered(r)
  BY <1>1, <1>2, CountedServer
<1>7. CASE ServerReady(b, m)
  <2>1. PICK t : t = CASE m.k = "begin" /\ back[b].tx = "I" -> "T" [] m.k = "end" -> "I" [] OTHER -> back[b].tx
    OBVIOUS
  <2>2. PICK u : back' = [back EXCEPT ![b] = [back[b] EXCEPT !.wire = Tail(@), !.tx = t, !.skip = FALSE,
                                  !.stmts = u, !.replies = Append(@, Reply("Z", t, m))]]
    <3>1. \E u \in IF m.k = "sql" THEN Changed(back[b].stmts, m.by) ELSE {back[b].stmts} :
            SetB(b, [back[b] EXCEPT !.wire = Tail(@), !.tx = t, !.skip = FALSE, !.stmts = u,
                                    !.replies = Append(@, Reply("Z", t, m))])
      BY <1>7, <2>1 DEF ServerReady
    <3>2. QED
      BY <3>1 DEF SetB
  <2>3. t \in {"I", "T", "E"}
    BY <1>1, <1>3, <2>1
  <2>4. PICK a \in Replies : a = Reply("Z", t, m) /\ a.k = "Z" /\ a.tx = t /\ a.by = m.by
    <3>1. Reply("Z", t, m) \in Replies
      BY <2>3 DEF Reply, Replies, Statuses, ReplyKinds, Messages
    <3>2. QED
      BY <3>1 DEF Reply
  <2>5. PICK y : y = [r EXCEPT !.wire = Tail(r.wire), !.tx = t, !.skip = FALSE, !.stmts = u,
                              !.replies = Append(r.replies, a)]
    OBVIOUS
  <2>6. back' = [back EXCEPT ![b] = y]
    BY <1>1, <2>2, <2>4, <2>5
  <2>7. y.owner = r.owner /\ y.wire = Tail(r.wire) /\ y.replies = Append(r.replies, a) /\ y.tx = t
    BY <1>3, <2>5 DEF Connections
  <2>8. EndsTransactionUnit(r.wire[1])
    BY <1>4, <1>7 DEF ServerReady, EndsTransactionUnit
  <2>9. ConnectionCounted(y) /\ Unanswered(y) <= Unanswered(r)
    BY <1>2, <1>3, <1>4, <2>4, <2>7, <2>8, AnswerCounted
  <2>10. QED
    BY <2>6, <2>9
<1>8. CASE ServerDoes(b, m)
  <2>1. PICK k : k = CASE m.k = "parse" -> "1" [] m.k = "bind" -> "2" [] OTHER -> "3"
    OBVIOUS
  <2>2. PICK v, f : back' = [back EXCEPT ![b] = [back[b] EXCEPT !.wire = Tail(@),
                               !.replies = Append(@, Reply(k, "", m)), !.stmts = v, !.foreign = f]]
    BY <1>8, <2>1 DEF ServerDoes, SetB
  <2>3. k \in {"1", "2", "3"}
    BY <2>1
  <2>4. PICK a \in Replies : a = Reply(k, "", m) /\ a.k # "Z" /\ a.by = m.by
    <3>1. Reply(k, "", m) \in Replies
      BY <2>3 DEF Reply, Replies, Statuses, ReplyKinds, Messages
    <3>2. QED
      BY <2>3, <3>1 DEF Reply
  <2>5. PICK y : y = [r EXCEPT !.wire = Tail(r.wire), !.replies = Append(r.replies, a), !.stmts = v, !.foreign = f]
    OBVIOUS
  <2>6. back' = [back EXCEPT ![b] = y]
    BY <1>1, <2>2, <2>4, <2>5
  <2>7. y.owner = r.owner /\ y.wire = Tail(r.wire) /\ y.replies = Append(r.replies, a) /\ y.tx = r.tx
    BY <1>3, <2>5 DEF Connections
  <2>8. ConnectionCounted(y) /\ Unanswered(y) <= Unanswered(r)
    BY <1>2, <1>3, <1>4, <2>4, <2>7, AnswerCounted
  <2>9. QED
    BY <2>6, <2>8
<1>9. CASE ServerRefuses(b, m)
  <2>1. PICK t \in {"I", "T", "E"} : t = IF r.tx = "T" THEN "E" ELSE r.tx
    BY <1>3
  <2>2. PICK e \in Replies, a \in Replies :
          /\ e = Reply("E", "", m) /\ e.k = "E" /\ e.by = m.by
          /\ a = Reply("Z", t, m) /\ a.k = "Z" /\ a.tx = t /\ a.by = m.by
    <3>1. Reply("E", "", m) \in Replies /\ Reply("Z", t, m) \in Replies
      BY DEF Reply, Replies, Statuses, ReplyKinds, Messages
    <3>2. QED
      BY <3>1 DEF Reply
  <2>3. PICK P \in Seq(Replies) : P = Append(r.replies, e)
    <3>1. Append(r.replies, e) \in Seq(Replies)
      BY <1>3, AppendIs
    <3>2. QED
      BY <3>1
  <2>4. PICK k : k = ~(m.k \in Query)
    OBVIOUS
  <2>5. CASE m.k \in Query
    <3>1. PICK y : y = [r EXCEPT !.wire = Tail(r.wire), !.tx = t, !.skip = k, !.replies = Append(P, a)]
      OBVIOUS
    <3>2. back' = [back EXCEPT ![b] = y]
      <4>1. r.replies \o <<e>> \o <<a>> = Append(P, a)
        BY <1>3, <2>3, ErrorReplies
      <4>2. back' = [back EXCEPT ![b] = [r EXCEPT !.wire = Tail(r.wire), !.tx = t, !.skip = k,
                        !.replies = r.replies \o <<e>> \o <<a>>]]
        BY <1>1, <1>9, <2>1, <2>2, <2>4, <2>5 DEF ServerRefuses, SetB
      <4>3. QED
        BY <3>1, <4>1, <4>2
    <3>3. y.owner = r.owner /\ y.wire = Tail(r.wire) /\ y.replies = Append(P, a) /\ y.tx = t
      BY <1>3, <3>1 DEF Connections
    <3>4. EndsTransactionUnit(r.wire[1])
      BY <1>4, <2>5 DEF EndsTransactionUnit, Ending
    <3>5. ConnectionCounted(y) /\ Unanswered(y) <= Unanswered(r)
      BY <1>2, <1>3, <1>4, <2>2, <2>3, <3>3, <3>4, AnswerCounted
    <3>6. QED
      BY <3>2, <3>5
  <2>6. CASE ~(m.k \in Query)
    <3>1. PICK y : y = [r EXCEPT !.wire = Tail(r.wire), !.tx = t, !.skip = k, !.replies = P]
      OBVIOUS
    <3>2. back' = [back EXCEPT ![b] = y]
      <4>1. r.replies \o <<e>> \o <<>> = P
        BY <1>3, <2>3, ErrorReplies
      <4>2. back' = [back EXCEPT ![b] = [r EXCEPT !.wire = Tail(r.wire), !.tx = t, !.skip = k,
                        !.replies = r.replies \o <<e>> \o <<>>]]
        BY <1>1, <1>9, <2>1, <2>2, <2>4, <2>6 DEF ServerRefuses, SetB
      <4>3. QED
        BY <3>1, <4>1, <4>2
    <3>3. y.owner = r.owner /\ y.wire = Tail(r.wire) /\ y.replies = Append(r.replies, e) /\ y.tx = t
      BY <1>3, <2>3, <3>1 DEF Connections
    <3>4. e.k # "Z" /\ (r.tx = "I" => y.tx = "I")
      BY <2>1, <2>2, <3>3
    <3>5. ConnectionCounted(y) /\ Unanswered(y) <= Unanswered(r)
      BY <1>2, <1>3, <1>4, <2>2, <3>3, <3>4, AnswerCounted
    <3>6. QED
      BY <3>2, <3>5
  <2>7. QED
    BY <2>5, <2>6
<1>10. CASE ServerSkips(b, m)
  <2>1. PICK y : y = [r EXCEPT !.wire = Tail(r.wire)]
    OBVIOUS
  <2>2. back' = [back EXCEPT ![b] = y]
    BY <1>1, <1>10, <2>1 DEF ServerSkips, SetB
  <2>3. y.owner = r.owner /\ y.wire = Tail(r.wire) /\ y.replies = r.replies /\ y.tx = r.tx
    BY <1>3, <2>1 DEF Connections
  <2>4. ConnectionCounted(y) /\ Unanswered(y) <= Unanswered(r)
    BY <1>2, <1>3, <2>3, LessCounted
  <2>5. QED
    BY <2>2, <2>4
<1>11. QED
  BY <1>5, <1>7, <1>8, <1>9, <1>10

LEMMA ServerDiesCounts ==
  ASSUME Holding, Holding', Counted, NEW b \in Backends, ServerDies(b)
  PROVE  Counted'
<1>1. PICK r, y : r = back[b] /\ y = [r EXCEPT !.cut = TRUE, !.wire = <<>>]
  OBVIOUS
<1>2. r \in Connections /\ ConnectionCounted(r)
  BY <1>1, OfConnection DEF Counted
<1>3. back' = [back EXCEPT ![b] = y] /\ sess' = sess
  BY <1>1 DEF ServerDies, SetB
<1>4. y.owner = r.owner /\ y.wire = <<>> /\ y.replies = r.replies /\ y.tx = r.tx
  BY <1>1, <1>2 DEF Connections
<1>5. ConnectionCounted(y) /\ Unanswered(y) <= Unanswered(r)
  BY <1>2, <1>4, LessCounted
<1>6. QED
  BY <1>1, <1>3, <1>5, CountedServer

\* A session's own step leaves its backend and what is pending alone.
LEMMA QuietCounts ==
  ASSUME Holding, Counted, NEW c \in Clients,
         \/ Accept(c) \/ StartupPacket(c) \/ Authenticate(c) \/ Ready(c) \/ Register(c)
         \/ Send(c) \/ Leave(c) \/ ForwardLocks(c) \/ RelayEnds(c) \/ Cancel(c) \/ CancelSent(c)
         \/ PumpEnds(c) \/ AcquireFails(c)
  PROVE  Counted'
<1>1. PICK x : x = sess[c]
  OBVIOUS
<1>2. x \in Sessions /\ "Z" \notin x.stray
  BY <1>1, OfSession DEF Counted, SessionCounted
<1>3. SUFFICES \E s : /\ sess' = [sess EXCEPT ![c] = s] /\ back' = back
                      /\ s.held = x.held /\ s.pending = x.pending /\ s.stray = x.stray
  BY <1>1, <1>2, CountedSession
<1>4. CASE Accept(c) \/ StartupPacket(c) \/ Authenticate(c) \/ Ready(c) \/ Register(c)
  <2>1. PICK p : sess' = [sess EXCEPT ![c] = [sess[c] EXCEPT !.phase = p]] /\ back' = back
    BY <1>4 DEF Accept, StartupPacket, Authenticate, Ready, Register, Step, Set
  <2>2. PICK s : s = [x EXCEPT !.phase = p]
    OBVIOUS
  <2>3. s.held = x.held /\ s.pending = x.pending /\ s.stray = x.stray
    BY <1>2, <2>2 DEF Sessions
  <2>4. QED
    BY <1>1, <2>1, <2>2, <2>3
<1>5. CASE Send(c)
  <2>1. PICK w, o : sess' = [sess EXCEPT ![c] = [sess[c] EXCEPT !.want = w, !.open = o]] /\ back' = back
    BY <1>5 DEF Send, Set
  <2>2. PICK s : s = [x EXCEPT !.want = w, !.open = o]
    OBVIOUS
  <2>3. s.held = x.held /\ s.pending = x.pending /\ s.stray = x.stray
    BY <1>2, <2>2 DEF Sessions
  <2>4. QED
    BY <1>1, <2>1, <2>2, <2>3
<1>6. CASE Leave(c)
  <2>1. PICK s : s = [x EXCEPT !.gone = TRUE]
    OBVIOUS
  <2>2. sess' = [sess EXCEPT ![c] = s] /\ back' = back
    BY <1>1, <1>6, <2>1 DEF Leave, Set
  <2>3. s.held = x.held /\ s.pending = x.pending /\ s.stray = x.stray
    BY <1>2, <2>1 DEF Sessions
  <2>4. QED
    BY <2>2, <2>3
<1>7. CASE ForwardLocks(c)
  <2>1. PICK s : s = [x EXCEPT !.busy = TRUE]
    OBVIOUS
  <2>2. sess' = [sess EXCEPT ![c] = s] /\ back' = back
    BY <1>1, <1>7, <2>1 DEF ForwardLocks, Set
  <2>3. s.held = x.held /\ s.pending = x.pending /\ s.stray = x.stray
    BY <1>2, <2>1 DEF Sessions
  <2>4. QED
    BY <2>2, <2>3
<1>8. CASE RelayEnds(c)
  <2>1. PICK s : s = [x EXCEPT !.relaying = FALSE]
    OBVIOUS
  <2>2. sess' = [sess EXCEPT ![c] = s] /\ back' = back
    BY <1>1, <1>8, <2>1 DEF RelayEnds, Set
  <2>3. s.held = x.held /\ s.pending = x.pending /\ s.stray = x.stray
    BY <1>2, <2>1 DEF Sessions
  <2>4. QED
    BY <2>2, <2>3
<1>9. CASE Cancel(c) \/ CancelSent(c)
  <2>1. PICK k : sess' = [sess EXCEPT ![c] = [sess[c] EXCEPT !.cancel = k]] /\ back' = back
    BY <1>9 DEF Cancel, CurrentBackend, CancelSent, Set
  <2>2. PICK s : s = [x EXCEPT !.cancel = k]
    OBVIOUS
  <2>3. s.held = x.held /\ s.pending = x.pending /\ s.stray = x.stray
    BY <1>2, <2>2 DEF Sessions
  <2>4. QED
    BY <1>1, <2>1, <2>2, <2>3
<1>10. CASE PumpEnds(c)
  <2>1. PICK s : s = [x EXCEPT !.phase = "leaving", !.want = <<>>]
    OBVIOUS
  <2>2. sess' = [sess EXCEPT ![c] = s] /\ back' = back
    BY <1>1, <1>10, <2>1 DEF PumpEnds, Set
  <2>3. s.held = x.held /\ s.pending = x.pending /\ s.stray = x.stray
    BY <1>2, <2>1 DEF Sessions
  <2>4. QED
    BY <2>2, <2>3
<1>11. CASE AcquireFails(c)
  <2>1. PICK s : s = [x EXCEPT !.want = <<>>, !.busy = FALSE, !.phase = "leaving"]
    OBVIOUS
  <2>2. sess' = [sess EXCEPT ![c] = s] /\ back' = back
    BY <1>1, <1>11, <2>1 DEF AcquireFails, Set
  <2>3. s.held = x.held /\ s.pending = x.pending /\ s.stray = x.stray
    BY <1>2, <2>1 DEF Sessions
  <2>4. QED
    BY <2>2, <2>3
<1>12. QED
  BY <1>4, <1>5, <1>6, <1>7, <1>8, <1>9, <1>10, <1>11

\* Close, which wakes sessions and touches no connection.
LEMMA CloseCounts ==
  ASSUME Holding, Counted, CloseStop \/ CloseWake \/ CloseDone
  PROVE  Counted'
<1>1. back' = back
  BY DEF CloseStop, CloseWake, CloseDone
<1>2. \A c \in Clients : sess'[c].held = sess[c].held /\ sess'[c].pending = sess[c].pending
                         /\ sess'[c].stray = sess[c].stray
  <2>1. CASE CloseStop \/ CloseDone
    BY <2>1 DEF CloseStop, CloseDone
  <2>2. CASE CloseWake
    <3>1. SUFFICES ASSUME NEW c \in Clients
                   PROVE  sess'[c].held = sess[c].held /\ sess'[c].pending = sess[c].pending
                          /\ sess'[c].stray = sess[c].stray
      OBVIOUS
    <3>2. PICK x, k : x = sess[c] /\ sess'[c] = [x EXCEPT !.woken = k]
      BY <2>2 DEF CloseWake
    <3>3. x \in Sessions
      BY <3>2, OfSession
    <3>4. QED
      BY <3>2, <3>3 DEF Sessions
  <2>3. QED
    BY <2>1, <2>2
<1>3. QED
  BY <1>1, <1>2 DEF Counted, SessionCounted

LEMMA FreshCounted ==
  /\ ConnectionCounted(NewBackend)
  /\ \A p : LET s == [NewSession EXCEPT !.phase = p] IN s.held = None /\ s.pending = 0 /\ s.stray = {}
<1>1. NewBackend.wire = <<>> /\ NewBackend.replies = <<>> /\ NewBackend.tx = "I" /\ DOMAIN <<>> = {}
  BY DEF NewBackend
<1>2. ConnectionCounted(NewBackend)
  BY <1>1 DEF ConnectionCounted, UnitsOwn, LastReady
<1>3. QED
  BY <1>2 DEF NewSession

LEMMA StartupEndsCounts ==
  ASSUME Holding, Counted, NEW c \in Clients, StartupEnds(c)
  PROVE  Counted'
<1>1. PICK s : s = [NewSession EXCEPT !.phase = "done"]
  OBVIOUS
<1>2. s.held = None /\ s.pending = 0 /\ s.stray = {}
  BY <1>1, FreshCounted
<1>3. sess' = [sess EXCEPT ![c] = s] /\ back' = back
  BY <1>1 DEF StartupEnds, Set
<1>4. sess[c].held = None
  BY OfSession DEF StartupEnds, Attached
<1>5. sess[c].pending = 0
  BY <1>4 DEF Counted, SessionCounted
<1>6. QED
  BY <1>2, <1>3, <1>4, <1>5, CountedSession

\* The relay, or detach, gives up on the connection.
LEMMA RelayFailsCounts ==
  ASSUME Holding, Holding', Counted, NEW c \in Clients, RelayFails(c)
  PROVE  Counted'
<1>1. PICK x, s : x = sess[c] /\ s = [x EXCEPT !.relaying = FALSE]
  OBVIOUS
<1>2. /\ x \in Sessions /\ SessionCounted(x) /\ x.held \in Backends \cup {None} /\ x.attach # <<>>
      /\ x.attach = IF x.held = None THEN <<>> ELSE <<x.held>>
  BY <1>1, OfSession DEF Counted, SessionOK, RelayFails
<1>3. PICK b \in Backends : x.held = b /\ x.attach[1] = b
  BY <1>2
<1>4. PICK r, y : r = back[b] /\ y = Fail(r)
  OBVIOUS
<1>5. r \in Connections /\ ConnectionCounted(r) /\ Unanswered(r) <= x.pending
  BY <1>1, <1>3, <1>4, OfConnection DEF Counted
<1>6. sess' = [sess EXCEPT ![c] = s] /\ back' = [back EXCEPT ![b] = y]
  BY <1>1, <1>3, <1>4 DEF RelayFails, Set, SetB
<1>7. /\ y \in Connections /\ y.owner = r.owner /\ y.replies = r.replies /\ y.tx = r.tx /\ y.wire = r.wire
  BY <1>4, <1>5, FailSet
<1>8. ConnectionCounted(y) /\ Unanswered(y) <= Unanswered(r)
  BY <1>5, <1>7, LessCounted
<1>9. s.held = x.held /\ s.pending = x.pending /\ s.stray = x.stray /\ x.pending \in Nat
  BY <1>1, <1>2 DEF Sessions
<1>10. Unanswered(y) <= s.pending
  BY <1>5, <1>7, <1>8, <1>9, UnansweredIs
<1>11. SessionCounted(s)
  BY <1>2, <1>9 DEF SessionCounted
<1>12. QED
  BY <1>1, <1>3, <1>6, <1>8, <1>9, <1>10, <1>11, CountedStep

LEMMA DetachCounts ==
  ASSUME Holding, Holding', Counted, NEW c \in Clients, Detach(c)
  PROVE  Counted'
<1>1. PICK x, s : x = sess[c] /\ s = [x EXCEPT !.phase = "detached"]
  OBVIOUS
<1>2. x \in Sessions /\ SessionCounted(x) /\ x.held \in Backends \cup {None}
  BY <1>1, OfSession DEF Counted
<1>3. s.held = x.held /\ s.pending = x.pending /\ s.stray = x.stray /\ x.pending \in Nat
  BY <1>1, <1>2 DEF Sessions
<1>4. sess' = [sess EXCEPT ![c] = s]
  BY <1>1 DEF Detach, Set
<1>5. SessionCounted(s)
  BY <1>2, <1>3 DEF SessionCounted
<1>6. CASE x.held = None
  <2>1. back' = back
    BY <1>1, <1>6 DEF Detach
  <2>2. QED
    BY <1>1, <1>3, <1>4, <1>5, <2>1, CountedSession DEF SessionCounted
<1>7. CASE x.held # None
  <2>1. PICK b \in Backends : b = x.held
    BY <1>2, <1>7
  <2>2. PICK r, q, y : r = back[b] /\ q = Interrupt(r) /\ y = Fail(q)
    OBVIOUS
  <2>3. back' = [back EXCEPT ![b] = y]
    BY <1>1, <1>7, <2>1, <2>2 DEF Detach, SetB
  <2>4. r \in Connections /\ ConnectionCounted(r) /\ Unanswered(r) <= x.pending
    BY <1>1, <2>1, <2>2, OfConnection DEF Counted
  <2>5. q \in Connections /\ q.owner = r.owner /\ q.replies = r.replies /\ q.tx = r.tx /\ q.wire = <<>>
    BY <2>2, <2>4, CutSet
  <2>6. y \in Connections /\ y.owner = q.owner /\ y.replies = q.replies /\ y.tx = q.tx /\ y.wire = q.wire
    BY <2>2, <2>5, FailSet
  <2>7. ConnectionCounted(y) /\ Unanswered(y) <= Unanswered(r)
    BY <2>4, <2>5, <2>6, LessCounted
  <2>8. Unanswered(y) <= s.pending
    BY <1>3, <2>4, <2>6, <2>7, UnansweredIs
  <2>9. QED
    BY <1>1, <1>3, <1>4, <1>5, <2>1, <2>3, <2>7, <2>8, CountedStep
<1>8. QED
  BY <1>6, <1>7

LEMMA ReleaseBackendCounts ==
  ASSUME Holding, Counted, NEW c \in Clients, ReleaseBackend(c)
  PROVE  Counted'
<1>1. PICK s : s = [NewSession EXCEPT !.phase = "done"]
  OBVIOUS
<1>2. s.held = None /\ s.pending = 0 /\ s.stray = {}
  BY <1>1, FreshCounted
<1>3. sess' = [sess EXCEPT ![c] = s]
  BY <1>1 DEF ReleaseBackend, Set
<1>4. sess[c].held \in Backends \cup {None} /\ SessionCounted(sess[c])
  BY OfSession DEF Counted
<1>5. CASE sess[c].held = None
  BY <1>2, <1>3, <1>4, <1>5, CountedSession DEF ReleaseBackend, SessionCounted
<1>6. CASE sess[c].held # None
  <2>1. PICK b \in Backends : b = sess[c].held
    BY <1>4, <1>6
  <2>2. back[b].broken
    BY <2>1, OfConnection DEF LinkInv, LinkOK, ReleaseBackend
  <2>3. back' = [back EXCEPT ![b] = NewBackend]
    BY <1>6, <2>1, <2>2 DEF ReleaseBackend, SetB, Release
  <2>4. SessionCounted(s) /\ s.held \in {b, None} /\ s.held # b
    BY <1>2, Constants DEF SessionCounted
  <2>5. QED
    BY <1>3, <2>1, <2>3, <2>4, FreshCounted, CountedStep
<1>7. QED
  BY <1>4, <1>5, <1>6

\* The connection passes to c, or is its own already, with nothing on it changed.
LEMMA TakenOver ==
  ASSUME NEW r \in Connections, ConnectionCounted(r), NEW c \in Clients, r.owner \in {c, None},
         NEW y, y.owner = c, y.wire = r.wire, y.replies = r.replies, y.tx = r.tx
  PROVE  /\ ConnectionCounted(y) /\ Unanswered(y) = Unanswered(r)
         /\ r.owner = None => Unanswered(r) = 0
<1>1. UnitsOwn(r) /\ LastReady(r.replies, r.tx) /\ c # None
  BY Constants DEF ConnectionCounted
<1>2. Unanswered(y) = Unanswered(r)
  BY DEF Unanswered
<1>3. r.owner = None => Unanswered(r) = 0
  BY <1>1, IdleUnanswered
<1>4. UnitsOwn(y)
  <2>1. CASE r.owner = c
    BY <1>1, <2>1 DEF UnitsOwn
  <2>2. CASE r.owner = None
    BY <1>3, <2>2, NothingUnanswered DEF UnitsOwn
  <2>3. QED
    BY <2>1, <2>2
<1>5. QED
  BY <1>1, <1>2, <1>3, <1>4 DEF ConnectionCounted

\* The backend that ensureBackend gives session c.
LEMMA OfEnsured ==
  ASSUME Holding, Counted, NEW c \in Clients, NEW b \in Backends, EnsureBackend(c, b)
  PROVE  /\ sess[c].held = b \/ (sess[c].held = None /\ back[b].owner = None)
         /\ back[b] \in Connections /\ ConnectionCounted(back[b]) /\ back[b].owner \in {c, None}
         /\ sess[c] \in Sessions /\ SessionCounted(sess[c]) /\ sess[c].pending \in Nat
         /\ Unanswered(back[b]) <= sess[c].pending
<1>1. /\ back[b] \in Connections /\ ConnectionCounted(back[b])
      /\ sess[c] \in Sessions /\ SessionCounted(sess[c]) /\ sess[c].pending \in Nat
  BY OfSession, OfConnection DEF Counted, Sessions
<1>2. sess[c].held = b \/ (sess[c].held = None /\ back[b].owner = None)
  BY DEF EnsureBackend
<1>3. sess[c].held = b => back[b].owner = c /\ Unanswered(back[b]) <= sess[c].pending
  BY OfConnection DEF Counted
<1>4. back[b].owner = None => Unanswered(back[b]) = 0
  BY <1>1, IdleUnanswered DEF ConnectionCounted
<1>5. QED
  BY <1>1, <1>2, <1>3, <1>4

LEMMA FailsOnCounts ==
  ASSUME Holding, Counted, NEW c \in Clients, NEW b \in Backends, FailsOn(c, b)
  PROVE  Counted'
<1>1. PICK x, t, s : x = sess[c] /\ t = Attach(c, b) /\ s = Failed(x, b, t)
  OBVIOUS
<1>2. PICK r, y : r = back[b] /\ y = Lost(r, c)
  OBVIOUS
<1>3. EnsureBackend(c, b)
  BY DEF FailsOn
<1>4. /\ x.held = b \/ (x.held = None /\ r.owner = None)
      /\ r \in Connections /\ ConnectionCounted(r) /\ r.owner \in {c, None}
      /\ x \in Sessions /\ SessionCounted(x) /\ x.pending \in Nat /\ Unanswered(r) <= x.pending
  BY <1>1, <1>2, <1>3, OfEnsured
<1>5. sess' = [sess EXCEPT ![c] = s] /\ back' = [back EXCEPT ![b] = y]
  BY <1>1, <1>2 DEF FailsOn, Set, SetB, Failed, Lost
<1>6. s.held = b /\ s.pending = x.pending /\ s.stray = x.stray
  BY <1>1, <1>4 DEF Failed, Sessions
<1>7. y.owner = c /\ y.wire = r.wire /\ y.replies = r.replies /\ y.tx = r.tx
  BY <1>2, <1>4, LostIs
<1>8. ConnectionCounted(y) /\ Unanswered(y) <= s.pending
  BY <1>4, <1>6, <1>7, TakenOver
<1>9. SessionCounted(s)
  BY <1>4, <1>6, Constants DEF SessionCounted
<1>10. QED
  BY <1>1, <1>2, <1>4, <1>5, <1>6, <1>8, <1>9, CountedStep

LEMMA ForwardCounts ==
  ASSUME Holding, Counted, NEW c \in Clients, Forward(c)
  PROVE  Counted'
<1>1. PICK x : x = sess[c]
  OBVIOUS
<1>2. /\ x \in Sessions /\ SessionOK(c, x, sent) /\ x.want \in Seq(Messages) /\ x.want # <<>>
      /\ SetOK(x.statements) /\ Mine(x.statements, c)
  BY <1>1, OfSession DEF Sessions, Forward, SessionOK
<1>3. PICK g \in Messages : g = x.want[1] /\ g.by = c /\ ~g.inj
  <2>1. 1 \in DOMAIN x.want
    BY <1>2, TailIs
  <2>2. x.want[1] \in Messages /\ x.want[1].by = c /\ ~x.want[1].inj
    BY <1>2, <2>1, SeqDomain DEF SessionOK
  <2>3. QED
    BY <2>2
<1>4. PICK m : m = Marked(g, x.statements)
  OBVIOUS
<1>5. m \in Messages /\ m.by = c /\ ~m.inj /\ (m.known => Has(x.statements, m.n))
  BY <1>3, <1>4, MarkedIs
<1>6. PICK b \in Backends :
        LET R == Reconcile(c, m, sess[c].statements, back[b].prepared)
        IN /\ EnsureBackend(c, b)
           /\ Set(c, [sess[c] EXCEPT
                !.want = <<>>, !.busy = FALSE, !.held = b, !.attach = Attach(c, b),
                !.statements = R.st,
                !.expect = @ \o [i \in DOMAIN R.inj |-> Completion(R.inj[i])],
                !.pending = IF EndsTransactionUnit(m) THEN @ + 1 ELSE @])
           /\ SetB(b, [back[b] EXCEPT
                !.owner = c, !.prepared = R.pr,
                !.wire = IF back[b].cut THEN @ ELSE @ \o Append(R.inj, m)])
  <2>1. m = [sess[c].want[1] EXCEPT !.known = Has(sess[c].statements, sess[c].want[1].n)]
    BY <1>1, <1>3, <1>4 DEF Marked
  <2>2. QED
    BY <2>1, Zenon DEF Forward
<1>7. PICK r : r = back[b]
  OBVIOUS
<1>8. PICK R : R = Reconcile(c, m, x.statements, r.prepared)
  OBVIOUS
<1>9. /\ x.held = b \/ (x.held = None /\ r.owner = None)
      /\ r \in Connections /\ ConnectionCounted(r) /\ r.owner \in {c, None}
      /\ SessionCounted(x) /\ x.pending \in Nat /\ Unanswered(r) <= x.pending
  BY <1>1, <1>6, <1>7, OfEnsured
<1>10. PICK ks, p, w :
         /\ ks = x.expect \o [i \in DOMAIN R.inj |-> Completion(R.inj[i])]
         /\ p = IF EndsTransactionUnit(m) THEN x.pending + 1 ELSE x.pending
         /\ w = IF r.cut THEN r.wire ELSE r.wire \o Append(R.inj, m)
  OBVIOUS
<1>11. PICK s : s = Forwarded(x, b, R.st, Attach(c, b), ks, p)
  OBVIOUS
<1>12. PICK y : y = Fed(r, c, R.pr, w)
  OBVIOUS
<1>13. sess' = [sess EXCEPT ![c] = s] /\ back' = [back EXCEPT ![b] = y]
  BY <1>1, <1>6, <1>7, <1>8, <1>10, <1>11, <1>12 DEF Set, SetB, Forwarded, Fed
<1>14. s.held = b /\ s.pending = p /\ s.stray = x.stray
  BY <1>2, <1>11 DEF Forwarded, Sessions
<1>15. y.owner = c /\ y.wire = w /\ y.replies = r.replies /\ y.tx = r.tx
  BY <1>9, <1>12 DEF Fed, Connections
<1>16. r.wire \in Seq(Messages) /\ Tally(r.replies, {"Z"}) \in Nat /\ Tally(r.wire, Ending) \in Nat
  BY <1>9, UnansweredIs
<1>17. PICK z : z = [r EXCEPT !.owner = c]
  OBVIOUS
<1>18. z.owner = c /\ z.wire = r.wire /\ z.replies = r.replies /\ z.tx = r.tx
  BY <1>9, <1>17 DEF Connections
<1>19. ConnectionCounted(z)
  BY <1>9, <1>18, TakenOver
<1>20. /\ \A i \in DOMAIN w : EndsTransactionUnit(w[i]) => w[i].by = c
       /\ Tally(w, Ending) \in Nat
       /\ Tally(w, Ending) <= IF EndsTransactionUnit(m) THEN Tally(r.wire, Ending) + 1 ELSE Tally(r.wire, Ending)
  <2>1. \A i \in DOMAIN r.wire : EndsTransactionUnit(r.wire[i]) => r.wire[i].by = c
    BY <1>18, <1>19 DEF ConnectionCounted, UnitsOwn
  <2>2. CASE r.cut
    BY <1>10, <1>16, <2>1, <2>2
  <2>3. CASE ~r.cut
    <3>1. SetOK(r.prepared)
      BY <1>7, OfConnection DEF ConnectionOK
    <3>2. Injected(R.inj, c)
      BY <1>2, <1>5, <1>8, <3>1, ReconcileIs DEF Reconciles
    <3>3. Extends(w, r.wire, c, m)
      BY <1>5, <1>10, <1>16, <2>3, <3>2, ExtendsIs
    <3>4. \A i \in DOMAIN w : EndsTransactionUnit(w[i]) => w[i].by = c
      <4>1. SUFFICES ASSUME NEW i \in DOMAIN w, EndsTransactionUnit(w[i]) PROVE w[i].by = c
        OBVIOUS
      <4>2. \/ i \in DOMAIN r.wire /\ w[i] = r.wire[i]
            \/ w[i].by = c /\ w[i].k \in {"parse", "close"}
            \/ i = Len(w) /\ w[i] = m
        BY <3>3, <4>1 DEF Extends
      <4>3. QED
        BY <1>5, <2>1, <4>1, <4>2
    <3>5. Tally(w, Ending) \in Nat
      BY <3>3, TallyIs DEF Extends
    <3>6. QED
      BY <1>16, <3>3, <3>4, <3>5, TallyExtends
  <2>4. QED
    BY <2>2, <2>3
<1>21. ConnectionCounted(y)
  <2>1. UnitsOwn(y)
    BY <1>15, <1>18, <1>19, <1>20 DEF ConnectionCounted, UnitsOwn
  <2>2. LastReady(y.replies, y.tx) /\ y.owner # None
    BY <1>15, <1>18, <1>19, Constants DEF ConnectionCounted
  <2>3. QED
    BY <2>1, <2>2 DEF ConnectionCounted
<1>22. Unanswered(y) <= s.pending
  <2>1. Unanswered(y) = Tally(r.replies, {"Z"}) + Tally(w, Ending)
    BY <1>15 DEF Unanswered
  <2>2. Tally(r.replies, {"Z"}) + Tally(r.wire, Ending) <= x.pending
    BY <1>9 DEF Unanswered
  <2>3. QED
    BY <1>9, <1>10, <1>14, <1>16, <1>20, <2>1, <2>2
<1>23. SessionCounted(s)
  BY <1>9, <1>14, Constants DEF SessionCounted
<1>24. QED
  BY <1>1, <1>7, <1>9, <1>13, <1>14, <1>21, <1>22, <1>23, CountedStep

\* The relay has read the first answer of r, which is y now.
LEMMA ReadCounted ==
  ASSUME NEW r \in Connections, ConnectionCounted(r), r.replies # <<>>,
         NEW y, y.owner = r.owner, y.wire = r.wire, y.replies = Tail(r.replies), y.tx = r.tx
  PROVE  /\ ConnectionCounted(y) /\ r.replies[1] \in Replies /\ Head(r.replies) = r.replies[1]
         /\ r.replies[1].k = "Z" => r.replies[1].by = r.owner
         /\ Unanswered(y) = IF r.replies[1].k = "Z" THEN Unanswered(r) - 1 ELSE Unanswered(r)
         /\ Unanswered(y) \in Nat
         /\ r.replies[1].k = "Z" /\ r.replies[1].tx = "I" /\ Unanswered(y) = 0 => r.tx = "I"
<1>1. PICK R \in Seq(Replies) : R = r.replies
  BY UnansweredIs
<1>2. UnitsOwn(r) /\ LastReady(R, r.tx) /\ (r.owner = None => r.tx = "I")
  BY <1>1 DEF ConnectionCounted
<1>3. PICK Q, n :
        /\ Q = Tail(R) /\ Q \in Seq(Replies) /\ n = Len(R) /\ n \in Nat /\ n > 0 /\ DOMAIN R = 1 .. n
        /\ DOMAIN Q = 1 .. n - 1 /\ Head(R) = R[1] /\ R[1] \in Replies
        /\ \A i \in 1 .. n - 1 : Q[i] = R[i + 1]
  <2>0. PICK Q, n : Q = Tail(R) /\ n = Len(R)
    OBVIOUS
  <2>1. n \in Nat /\ DOMAIN R = 1 .. n
    BY <2>0, SeqDomain
  <2>2. /\ Q \in Seq(Replies) /\ n > 0 /\ DOMAIN Q = 1 .. n - 1 /\ Head(R) = R[1] /\ 1 \in DOMAIN R
        /\ \A i \in 1 .. n - 1 : Q[i] = R[i + 1]
    BY <1>1, <2>0, TailIs
  <2>3. R[1] \in Replies
    BY <2>2, SeqDomain
  <2>4. QED
    BY <2>0, <2>1, <2>2, <2>3
<1>4. y.replies = Q
  BY <1>1, <1>3
<1>5. \A i \in DOMAIN R : R[i].k = "Z" => R[i].by = r.owner
  BY <1>1, <1>2 DEF UnitsOwn
<1>6. UnitsOwn(y)
  <2>1. ASSUME NEW i \in DOMAIN Q, Q[i].k = "Z" PROVE Q[i].by = r.owner
    <3>1. i + 1 \in DOMAIN R /\ Q[i] = R[i + 1]
      BY <1>3
    <3>2. QED
      BY <1>5, <2>1, <3>1
  <2>2. QED
    BY <1>2, <1>4, <2>1 DEF UnitsOwn
<1>7. LastReady(y.replies, y.tx)
  BY <1>1, <1>2, <1>3, <1>4, ReadyTail
<1>8. ConnectionCounted(y)
  BY <1>2, <1>6, <1>7 DEF ConnectionCounted
<1>9. Tally(Q, {"Z"}) \in Nat /\ Tally(R, {"Z"}) \in Nat /\ Tally(r.wire, Ending) \in Nat
  BY <1>3, TallyIs, UnansweredIs
<1>10. Tally(Q, {"Z"}) = IF R[1].k = "Z" THEN Tally(R, {"Z"}) - 1 ELSE Tally(R, {"Z"})
  <2>1. Tally(Tail(R), {"Z"}) = IF R[1].k \in {"Z"} THEN Tally(R, {"Z"}) - 1 ELSE Tally(R, {"Z"})
    BY <1>1, TallyTail
  <2>2. QED
    BY <1>3, <2>1
<1>11. /\ Unanswered(y) = Tally(Q, {"Z"}) + Tally(r.wire, Ending)
       /\ Unanswered(r) = Tally(R, {"Z"}) + Tally(r.wire, Ending)
  BY <1>1, <1>4 DEF Unanswered
<1>12. /\ Unanswered(y) = IF R[1].k = "Z" THEN Unanswered(r) - 1 ELSE Unanswered(r)
       /\ Unanswered(y) \in Nat
  BY <1>9, <1>10, <1>11
<1>13. ASSUME R[1].k = "Z", R[1].tx = "I", Unanswered(y) = 0 PROVE r.tx = "I"
  <2>1. Tally(Q, {"Z"}) = 0
    BY <1>9, <1>11, <1>13
  <2>2. \A i \in DOMAIN Q : Q[i].k \notin {"Z"}
    BY <1>3, <2>1, TallyIs
  <2>3. ASSUME NEW j \in DOMAIN R, R[j].k = "Z" PROVE j <= 1
    <3>1. CASE j # 1
      <4>1. j - 1 \in DOMAIN Q /\ Q[j - 1] = R[j]
        BY <1>3, <3>1
      <4>2. QED
        BY <2>2, <2>3, <4>1
    <3>2. QED
      BY <3>1
  <2>4. 1 \in DOMAIN R
    BY <1>3
  <2>5. QED
    BY <1>2, <1>13, <2>3, <2>4 DEF LastReady
<1>14. R[1].k = "Z" => R[1].by = r.owner
  BY <1>3, <1>5
<1>15. QED
  BY <1>1, <1>3, <1>8, <1>12, <1>13, <1>14

LEMMA SwallowCounts ==
  ASSUME Holding, Counted, NEW c \in Clients, Swallow(c)
  PROVE  Counted'
<1>1. PICK b \in Backends : sess[c].held = b /\ sess[c].attach[1] = b
  BY OfReading DEF Swallow
<1>2. PICK x, r : x = sess[c] /\ r = back[b]
  OBVIOUS
<1>3. /\ x \in Sessions /\ SessionCounted(x) /\ x.pending \in Nat
      /\ r \in Connections /\ ConnectionCounted(r) /\ Unanswered(r) <= x.pending /\ Unanswered(r) \in Nat
  BY <1>1, <1>2, OfSession, OfConnection, UnansweredIs DEF Counted, Sessions
<1>4. PICK e, o : e = Tail(x.expect) /\ o = IF Head(r.replies).inj THEN x.owed ELSE x.owed + 1
  OBVIOUS
<1>5. PICK s, y : s = Owing(x, e, o) /\ y = [r EXCEPT !.replies = Tail(r.replies)]
  OBVIOUS
<1>6. /\ sess' = [sess EXCEPT ![c] = s] /\ back' = [back EXCEPT ![b] = y] /\ r.replies # <<>>
  BY <1>1, <1>2, <1>4, <1>5 DEF Swallow, Set, SetB, Owing, Read
<1>7. s.held = x.held /\ s.pending = x.pending /\ s.stray = x.stray
  BY <1>3, <1>5 DEF Owing, Sessions
<1>8. y.owner = r.owner /\ y.wire = r.wire /\ y.replies = Tail(r.replies) /\ y.tx = r.tx
  BY <1>3, <1>5 DEF Connections
<1>9. /\ ConnectionCounted(y) /\ Unanswered(y) \in Nat
      /\ Unanswered(y) = IF r.replies[1].k = "Z" THEN Unanswered(r) - 1 ELSE Unanswered(r)
  BY <1>3, <1>6, <1>8, ReadCounted
<1>10. Unanswered(y) <= s.pending /\ SessionCounted(s)
  BY <1>3, <1>7, <1>9 DEF SessionCounted
<1>11. QED
  BY <1>1, <1>2, <1>6, <1>7, <1>9, <1>10, CountedStep

LEMMA RelayCounts ==
  ASSUME Holding, Counted, NEW c \in Clients, Relay(c)
  PROVE  Counted'
<1>1. PICK b \in Backends : sess[c].held = b /\ sess[c].attach[1] = b /\ back[b].owner = c
  BY OfReading DEF Relay
<1>2. PICK x, r, a : x = sess[c] /\ r = back[b] /\ a = Head(back[b].replies)
  OBVIOUS
<1>3. /\ x \in Sessions /\ SessionCounted(x) /\ x.pending \in Nat /\ x.held = b /\ b # None
      /\ r \in Connections /\ ConnectionCounted(r) /\ Unanswered(r) <= x.pending /\ r.owner = c
  BY <1>1, <1>2, OfSession, OfConnection, Constants DEF Counted, Sessions
<1>4. r.replies # <<>>
  BY <1>1, <1>2 DEF Relay
<1>5. PICK f \in BOOLEAN : sess' = [sess EXCEPT ![c] = Relayed(c, a, f)]
  BY <1>1, <1>2, RelaySets
<1>6. PICK d : d = CompleteUnit(c, a)
  OBVIOUS
<1>7. d <=> a.k = "Z" /\ x.pending <= 1 /\ a.tx = "I"
  BY <1>2, <1>6 DEF CompleteUnit
<1>8. PICK v, o, p, w, h, t :
        /\ v = IF a.by = c THEN x.stray ELSE x.stray \cup {a.k}
        /\ o = IF a.inj /\ a.k # "E" THEN x.owed - 1 ELSE x.owed
        /\ p = IF a.k = "Z" /\ x.pending > 0 THEN x.pending - 1 ELSE x.pending
        /\ w = IF a.k = "Z" THEN FALSE ELSE x.open
        /\ h = IF CompleteUnit(c, a) THEN None ELSE x.held
        /\ t = IF CompleteUnit(c, a) THEN Tail(x.attach) ELSE x.attach
  OBVIOUS
<1>9. PICK s : s = [x EXCEPT !.relaying = f, !.stray = v, !.owed = o, !.pending = p, !.open = w,
                             !.held = h, !.attach = t]
  OBVIOUS
<1>10. sess' = [sess EXCEPT ![c] = s]
  BY <1>2, <1>5, <1>8, <1>9 DEF Relayed
<1>11. s.held = h /\ s.pending = p /\ s.stray = v
  BY <1>3, <1>9 DEF Sessions
<1>12. PICK u, y : /\ u = IF a.k = "Z" THEN a.tx ELSE r.status
                   /\ y = Taken(r, u)
  OBVIOUS
<1>13. back' = [back EXCEPT ![b] = IF CompleteUnit(c, a) THEN Release(y) ELSE y]
  <2>1. y = [[r EXCEPT !.replies = Tail(@)] EXCEPT !.status = IF a.k = "Z" THEN a.tx ELSE @]
    BY <1>3, <1>12 DEF Taken, Connections
  <2>2. QED
    BY <1>1, <1>2, <2>1 DEF Relay, SetB, Read
<1>14. /\ y.owner = r.owner /\ y.wire = r.wire /\ y.replies = Tail(r.replies) /\ y.tx = r.tx
       /\ y.status = u
  BY <1>3, <1>12 DEF Taken, Connections
<1>15. /\ ConnectionCounted(y) /\ r.replies[1] \in Replies /\ Head(r.replies) = r.replies[1]
       /\ (r.replies[1].k = "Z" => r.replies[1].by = r.owner)
       /\ Unanswered(y) = IF r.replies[1].k = "Z" THEN Unanswered(r) - 1 ELSE Unanswered(r)
       /\ Unanswered(y) \in Nat
       /\ (r.replies[1].k = "Z" /\ r.replies[1].tx = "I" /\ Unanswered(y) = 0 => r.tx = "I")
  BY <1>3, <1>4, <1>14, ReadCounted
<1>16. a = r.replies[1]
  BY <1>2, <1>15
<1>17. Unanswered(r) \in Nat
  BY <1>3, UnansweredIs
<1>18. Unanswered(y) <= p /\ (a.k = "Z" => x.pending > 0)
  BY <1>3, <1>8, <1>15, <1>16, <1>17
<1>19. "Z" \notin v
  BY <1>3, <1>8, <1>15, <1>16 DEF SessionCounted
<1>20. CASE ~CompleteUnit(c, a)
  <2>1. h = b
    BY <1>3, <1>8, <1>20
  <2>2. SessionCounted(s) /\ Unanswered(y) <= s.pending
    BY <1>3, <1>11, <1>18, <1>19, <2>1 DEF SessionCounted
  <2>3. back' = [back EXCEPT ![b] = y]
    BY <1>13, <1>20
  <2>4. QED
    BY <1>1, <1>10, <1>11, <1>15, <2>1, <2>2, <2>3, CountedStep
<1>21. CASE CompleteUnit(c, a)
  <2>1. a.k = "Z" /\ x.pending <= 1 /\ a.tx = "I"
    BY <1>6, <1>7, <1>21
  <2>2. p = 0 /\ Unanswered(y) = 0
    <3>1. p = x.pending - 1 /\ x.pending = 1
      BY <1>3, <1>8, <1>18, <2>1
    <3>2. Unanswered(y) <= 0 /\ Unanswered(y) \in Nat
      BY <1>15, <1>18, <3>1
    <3>3. QED
      BY <3>1, <3>2
  <2>3. h = None
    BY <1>8, <1>21
  <2>4. r.tx = "I"
    BY <1>15, <1>16, <2>1, <2>2
  <2>5. PICK z : z = Release(y)
    OBVIOUS
  <2>6. ConnectionCounted(z)
    <3>1. CASE y.broken
      BY <2>5, <3>1, FreshCounted DEF Release
    <3>2. CASE ~y.broken
      <4>1. z = [y EXCEPT !.owner = None]
        BY <1>12, <1>14, <2>1, <2>5, <3>2 DEF Release
      <4>2. z.owner = None /\ z.wire = y.wire /\ z.replies = y.replies /\ z.tx = y.tx
        BY <1>3, <1>12, <4>1 DEF Taken, Connections
      <4>3. y \in Connections
        <5>1. r.status \in Statuses /\ a \in Replies
          BY <1>3, <1>15, <1>16 DEF Connections
        <5>2. u \in Statuses
          BY <1>12, <5>1 DEF Replies
        <5>3. QED
          <6>1. ConnectionInv(b, r, drift)
            BY <1>1, <1>2, OfConnection
          <6>2. QED
            BY <1>3, <1>4, <1>12, <5>2, <6>1, ReadConnection
      <4>4. /\ \A i \in DOMAIN y.wire : ~EndsTransactionUnit(y.wire[i])
            /\ \A i \in DOMAIN y.replies : y.replies[i].k # "Z"
        BY <2>2, <4>3, NothingUnanswered
      <4>5. QED
        BY <1>14, <2>4, <4>2, <4>4 DEF ConnectionCounted, UnitsOwn, LastReady
    <3>3. QED
      BY <3>1, <3>2
  <2>7. SessionCounted(s)
    BY <1>11, <1>19, <2>2 DEF SessionCounted
  <2>8. back' = [back EXCEPT ![b] = z]
    BY <1>13, <1>21, <2>5
  <2>9. s.held = None /\ s.held # b
    BY <1>3, <1>11, <2>3
  <2>10. QED
    BY <1>1, <1>10, <2>6, <2>7, <2>8, <2>9, CountedStep
<1>22. QED
  BY <1>20, <1>21

LEMMA CountedInit == ProxyInit => Counted
<1>1. SUFFICES ASSUME ProxyInit PROVE Counted
  OBVIOUS
<1>2. ASSUME NEW c \in Clients PROVE sess[c].held = None /\ sess[c].pending = 0 /\ sess[c].stray = {}
  <2>1. sess[c] = NewSession \/ \E n \in Leftover : sess[c] = Knows(c, n)
    BY <1>1 DEF ProxyInit
  <2>2. NewSession.held = None /\ NewSession.pending = 0 /\ NewSession.stray = {}
    BY DEF NewSession
  <2>3. ASSUME NEW n PROVE Knows(c, n).held = None /\ Knows(c, n).pending = 0 /\ Knows(c, n).stray = {}
    BY DEF Knows, NewSession
  <2>4. QED
    BY <2>1, <2>2, <2>3
<1>3. ASSUME NEW b \in Backends PROVE ConnectionCounted(back[b])
  <2>1. back[b] = NewBackend \/ \E n \in Leftover : back[b] = Left(n)
    BY <1>1 DEF ProxyInit
  <2>2. NewBackend.wire = <<>> /\ NewBackend.replies = <<>> /\ NewBackend.tx = "I"
    BY DEF NewBackend
  <2>3. ASSUME NEW n PROVE Left(n).wire = <<>> /\ Left(n).replies = <<>> /\ Left(n).tx = "I"
    BY DEF Left, NewBackend
  <2>4. back[b].wire = <<>> /\ back[b].replies = <<>> /\ back[b].tx = "I"
    BY <2>1, <2>2, <2>3
  <2>5. DOMAIN <<>> = {}
    OBVIOUS
  <2>6. QED
    BY <2>4, <2>5 DEF ConnectionCounted, UnitsOwn, LastReady
<1>4. QED
  BY <1>2, <1>3, Constants DEF Counted, SessionCounted

LEMMA CountedNext == Holding /\ Holding' /\ Counted /\ [ProxyNext]_proxyVars => Counted'
<1>1. SUFFICES ASSUME Holding, Holding', Counted, [ProxyNext]_proxyVars PROVE Counted'
  OBVIOUS
<1>2. CASE UNCHANGED proxyVars
  <2>1. sess' = sess /\ back' = back
    BY <1>2 DEF proxyVars
  <2>2. QED
    BY <1>1, <2>1 DEF Counted
<1>3. ASSUME NEW c \in Clients, Session(c) PROVE Counted'
  <2>1. \/ Accept(c) \/ StartupPacket(c) \/ Authenticate(c) \/ Ready(c) \/ Register(c)
        \/ Send(c) \/ Leave(c) \/ ForwardLocks(c) \/ RelayEnds(c) \/ Cancel(c) \/ CancelSent(c)
        \/ PumpEnds(c) \/ AcquireFails(c)
        \/ StartupEnds(c) \/ Forward(c) \/ ForwardFails(c) \/ BodyFails(c) \/ Detach(c) \/ ReleaseBackend(c)
        \/ RelayFails(c) \/ Swallow(c) \/ Relay(c)
    BY <1>3 DEF Session
  <2>2. CASE \/ Accept(c) \/ StartupPacket(c) \/ Authenticate(c) \/ Ready(c) \/ Register(c)
             \/ Send(c) \/ Leave(c) \/ ForwardLocks(c) \/ RelayEnds(c) \/ Cancel(c) \/ CancelSent(c)
             \/ PumpEnds(c) \/ AcquireFails(c)
    BY <1>1, <2>2, QuietCounts
  <2>3. CASE ForwardFails(c) \/ BodyFails(c)
    BY <1>1, <2>3, FailsOnCounts DEF ForwardFails, BodyFails
  <2>4. CASE StartupEnds(c) \/ Forward(c) \/ Detach(c) \/ ReleaseBackend(c)
    BY <1>1, <2>4, StartupEndsCounts, ForwardCounts, DetachCounts, ReleaseBackendCounts
  <2>5. CASE RelayFails(c) \/ Swallow(c) \/ Relay(c)
    BY <1>1, <2>5, RelayFailsCounts, SwallowCounts, RelayCounts
  <2>6. QED
    BY <2>1, <2>2, <2>3, <2>4, <2>5
<1>4. CASE \E b \in Backends : Server(b) \/ ServerDies(b)
  BY <1>1, <1>4, ServerCounts, ServerDiesCounts
<1>5. CASE CloseStop \/ CloseWake \/ CloseDone
  BY <1>1, <1>5, CloseCounts
<1>6. QED
  BY <1>1, <1>2, <1>3, <1>4, <1>5 DEF ProxyNext

LEMMA CountedHolds == ProxySpec => []Counted
<1>1. Holding /\ Counted /\ [ProxyNext]_proxyVars => (Holding /\ Counted)'
  BY HoldingNext, CountedNext
<1>2. QED
  BY HoldingInit, CountedInit, <1>1, PTL DEF ProxySpec

-----------------------------------------------------------------------------
(* What follows, whatever the clients send. *)

LEMMA TypesFollow == Holding => ProxyTypeOK
<1>1. SUFFICES ASSUME Holding PROVE ProxyTypeOK
  OBVIOUS
<1>2. close \in {"no", "stopped", "woken", "done"} /\ drift \subseteq Clients \cup Backends
  BY <1>1 DEF Holding, Globals
<1>3. ASSUME NEW c \in Clients
      PROVE  /\ sess[c].phase \in {"none", "startup", "auth", "ready", "greeted",
                                    "running", "leaving", "detached", "done"}
             /\ sess[c].held \in Backends \cup {None} /\ sess[c].cancel \in Backends \cup {None}
             /\ Len(sess[c].attach) <= 1
             /\ Len(sess[c].statements) <= Limit /\ sess[c].pending \in 0 .. MaxMessages
  <2>1. PICK x : x = sess[c]
    OBVIOUS
  <2>2. /\ x \in Sessions /\ SessionOK(c, x, sent) /\ sent \in Nat /\ sent <= MaxMessages /\ MaxMessages \in Nat
    BY <1>1, <2>1, OfSession, Constants, ProxyAssumption DEF Holding, Globals
  <2>3. x.phase \in Phases /\ x.held \in Backends \cup {None} /\ x.cancel \in Backends \cup {None}
        /\ x.pending \in Nat /\ x.want \in Seq(Messages)
    BY <2>2 DEF Sessions
  <2>4. Len(x.attach) <= 1
    <3>1. Len(<<>>) = 0 /\ Len(<<x.held>>) = 1 /\ 0 <= 1 /\ 1 <= 1
      BY EmptySeq
    <3>2. x.attach = <<>> \/ x.attach = <<x.held>>
      BY <2>2 DEF SessionOK
    <3>3. QED
      BY <3>1, <3>2
  <2>5. x.pending <= MaxMessages
    <3>1. Len(x.want) \in Nat
      BY <2>3, SeqDomain
    <3>2. x.pending + Len(x.want) <= sent
      BY <2>2 DEF SessionOK
    <3>3. QED
      BY <2>2, <2>3, <3>1, <3>2
  <2>6. Len(x.statements) <= Limit
    BY <2>2 DEF SessionOK, SetOK
  <2>7. QED
    BY <2>1, <2>2, <2>3, <2>4, <2>5, <2>6 DEF Phases
<1>4. ASSUME NEW b \in Backends
      PROVE  /\ back[b].owner \in Clients \cup {None} /\ back[b].tx \in {"I", "T", "E"}
             /\ Len(back[b].prepared) <= Limit
  BY <1>1, OfConnection DEF ConnectionOK, Connections, SetOK
<1>5. QED
  BY <1>2, <1>3, <1>4 DEF ProxyTypeOK

LEMMA PreparedFollows == Holding => PreparedAgrees
<1>1. SUFFICES ASSUME Holding, NEW b \in Backends \ drift, back[b].wire = <<>>, ~back[b].cut, NEW n \in Names
               PROVE  back[b].stmts[n] = IF Has(back[b].prepared, n) THEN Text(back[b].prepared, n) ELSE None
  BY DEF PreparedAgrees
<1>2. Runs(<<>>, back[b].stmts, View(back[b].prepared))
  BY <1>1, OfConnection DEF ConnectionOK
<1>3. back[b].stmts = View(back[b].prepared)
  BY <1>2, EmptyRun
<1>4. QED
  BY <1>3 DEF View

LEMMA ParkedFollows == Holding => NeverParked
<1>1. SUFFICES ASSUME Holding, NEW c \in Clients, sess[c].phase = "detached", sess[c].attach # <<>>
               PROVE  back[sess[c].attach[1]].cut /\ back[sess[c].attach[1]].broken
  BY DEF NeverParked
<1>2. sess[c].attach = IF sess[c].held = None THEN <<>> ELSE <<sess[c].held>>
  BY <1>1, OfSession DEF SessionOK
<1>3. PICK b \in Backends : sess[c].held = b /\ sess[c].attach = <<b>>
  BY <1>1, <1>2, OfSession
<1>4. back[b].cut /\ back[b].broken
  BY <1>1, <1>3, OfConnection DEF LinkInv, LinkOK
<1>5. QED
  BY <1>3, <1>4

\* Types, and the attach channel holds one backend at most (session.go:548).
THEOREM ProxyTypes == ProxySpec => []ProxyTypeOK
BY HoldingHolds, TypesFollow, PTL

\* The backend a cancellation names is the session's until the request is sent
\* (session.go:664).
THEOREM CancelsHold == ProxySpec => []CancelNamesHolder
<1>1. Holding => CancelNamesHolder
  <2>1. SUFFICES ASSUME Holding, NEW c \in Clients, sess[c].cancel # None
                 PROVE  sess[c].held = sess[c].cancel /\ back[sess[c].cancel].owner = c
    BY DEF CancelNamesHolder
  <2>2. sess[c].cancel = sess[c].held /\ sess[c].held \in Backends
    BY <2>1, OfSession
  <2>3. QED
    BY <2>1, <2>2, OfConnection
<1>2. QED
  BY <1>1, HoldingHolds, PTL

\* The relay is never parked for good (session.go:634): a session that has
\* detached reads from a connection that is interrupted and will be discarded.
THEOREM RelaysEnd == ProxySpec => []NeverParked
BY HoldingHolds, ParkedFollows, PTL

\* The proxy's view of the statements a server holds is the server's (config.go:63),
\* as long as the server has refused or skipped no Parse and no Close and SQL has
\* not changed the statements.
THEOREM PreparedHolds == ProxySpec => []PreparedAgrees
BY HoldingHolds, PreparedFollows, PTL

\* A client runs its own statement, never one of the same name that another
\* client left on the backend (session.go:433), under the same condition.
THEOREM StatementsAreOwn == ProxySpec => []RunsOwnUnlessDrift
<1>1. Holding => RunsOwnUnlessDrift
  BY OfConnection DEF ConnectionOK, RunsOwnUnlessDrift
<1>2. QED
  BY <1>1, HoldingHolds, PTL

\* The proxy's accounts agree with the server: its view of the statements
\* (statements.go:85), and the completions it swallows (session.go:66, 579), of
\* which none is left between transactions unless the server refused one or a
\* client has pipelined.
THEOREM ProxyInvHolds == ProxySpec => []ProxyInv
<1>1. Holding => ExpectSettles
  BY OfSession DEF ExpectSettles, SessionInv, UnitSession, Spared
<1>2. Holding => ProxyInv
  BY <1>1, TypesFollow, PreparedFollows, ParkedFollows DEF ProxyInv
<1>3. QED
  BY <1>2, HoldingHolds, PTL

\* A backend is handed on when its client's units are answered, pipelined or not
\* (session.go:72, relay.go:71), and has one holder: what pending counts covers
\* every Query and Sync on its way, for any number of messages in flight.
THEOREM BackendsAreAnswered == ProxySpec => []UnitsAnswered
<1>1. ASSUME Holding, Counted PROVE UnitsAnswered
  <2>1. ASSUME NEW b \in Backends, back[b].owner = None
        PROVE  /\ \A i \in DOMAIN back[b].wire : ~EndsTransactionUnit(back[b].wire[i])
               /\ \A i \in DOMAIN back[b].replies : back[b].replies[i].k # "Z"
               /\ back[b].tx = "I"
    <3>1. back[b] \in Connections /\ ConnectionCounted(back[b])
      BY <1>1, OfConnection DEF Counted
    <3>2. Unanswered(back[b]) = 0 /\ back[b].tx = "I"
      BY <2>1, <3>1, IdleUnanswered DEF ConnectionCounted
    <3>3. QED
      BY <3>1, <3>2, NothingUnanswered
  <2>2. \A c \in Clients, b \in Backends : sess[c].held = b <=> back[b].owner = c
    BY <1>1, OfConnection
  <2>3. QED
    BY <2>1, <2>2 DEF UnitsAnswered
<1>2. QED
  BY <1>1, HoldingHolds, CountedHolds, PTL

\* Every ReadyForQuery a client is sent answers a Query or Sync of its own
\* (session.go:72), pipelined or not.
THEOREM ReadiesAreOwn == ProxySpec => []ReadyGoesHome
<1>1. Counted => ReadyGoesHome
  BY DEF Counted, SessionCounted, ReadyGoesHome
<1>2. QED
  BY <1>1, CountedHolds, PTL
=============================================================================
