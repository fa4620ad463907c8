--------------------------- MODULE PermitsProofs ---------------------------
(***************************************************************************)
(* The permit set keeps its books for every number of goroutines, every    *)
(* initial limit and every ceiling.                                        *)
(*                                                                         *)
(* The invariant has two layers.  Structure says who may be where: a       *)
(* goroutine is queued at most once, a queued or granted goroutine is      *)
(* parked, nobody is queued while the buffer holds a token, and where a    *)
(* resize stands agrees with the units it has left.  Books counts: it is   *)
(* Conservation and WithinCeiling, and needs Structure to know which set   *)
(* each step adds a goroutine to or takes it from.                         *)
(***************************************************************************)
EXTENDS Permits, FiniteSetTheorems, TLAPS

\* The goroutines parked on the channel, by their own program counters.
Sleepers == {p \in Parkers : IF p = Drainer THEN drainAt = "parked"
                                            ELSE pc[p] = "parked"}

QueueOK ==
  /\ \A i \in 1 .. Len(queue) : queue[i] \in Sleepers /\ queue[i] \notin grants
  /\ \A i, j \in 1 .. Len(queue) : queue[i] = queue[j] => i = j

GrantsOK == grants \subseteq Sleepers

\* Go's channels: a receiver is only parked while the buffer is empty.
Handoff == queue # << >> => tokens = 0

LocalsOK ==
  /\ resizeAt = "off"  => resizeLeft = 0
  /\ resizeAt = "send" => resizeLeft > 0 /\ debt = 0
  /\ resizeAt = "owe"  => resizeLeft < 0
  /\ drainAt = "parked" => drainLeft > 0

Structure == TypeOK /\ QueueOK /\ GrantsOK /\ Handoff /\ LocalsOK

Books == Conservation /\ WithinCeiling

IInv == Structure /\ Books

-----------------------------------------------------------------------------
(* Facts about the channel's operations. *)

\* A sequence without its k-th element is a sequence of the others.
LEMMA WithoutType ==
  ASSUME NEW S, NEW q \in Seq(S), NEW k \in 1 .. Len(q)
  PROVE  /\ Without(q, k) \in Seq(S)
         /\ Len(Without(q, k)) = Len(q) - 1
         /\ \A i \in 1 .. Len(q) - 1 :
               Without(q, k)[i] = IF i < k THEN q[i] ELSE q[i + 1]
BY DEF Without

\* Unpark takes the goroutine's only entry out and keeps the others in place.
LEMMA UnparkQueue ==
  ASSUME Structure, NEW p \in Parkers, Unpark(p)
  PROVE  /\ queue' \in Seq(Parkers)
         /\ \A i \in 1 .. Len(queue') : \E j \in 1 .. Len(queue) :
               queue'[i] = queue[j] /\ queue[j] # p
         /\ \A i, j \in 1 .. Len(queue') : queue'[i] = queue'[j] => i = j
         /\ p \notin grants
         /\ queue # << >>
<1>1. PICK k \in 1 .. Len(queue) : queue[k] = p /\ queue' = Without(queue, k)
  BY DEF Unpark
<1>2. queue \in Seq(Parkers)
  BY DEF Structure, TypeOK, PermitTypeOK
<1>3. /\ queue' \in Seq(Parkers)
      /\ Len(queue') = Len(queue) - 1
      /\ \A i \in 1 .. Len(queue) - 1 :
            queue'[i] = IF i < k THEN queue[i] ELSE queue[i + 1]
  BY <1>1, <1>2, WithoutType
<1>4. \A i, j \in 1 .. Len(queue) : queue[i] = queue[j] => i = j
  BY DEF Structure, QueueOK
<1>5. Len(queue) \in Nat
  BY <1>2
<1>6. \A i \in 1 .. Len(queue') : \E j \in 1 .. Len(queue) :
         queue'[i] = queue[j] /\ queue[j] # p
  <2>1. TAKE i \in 1 .. Len(queue')
  <2>2. CASE i < k
    <3>1. i \in 1 .. Len(queue) /\ i # k /\ queue'[i] = queue[i]
      BY <1>3, <1>5, <2>1, <2>2
    <3> QED BY <3>1, <1>1, <1>4
  <2>3. CASE ~(i < k)
    <3>1. i + 1 \in 1 .. Len(queue) /\ i + 1 # k /\ queue'[i] = queue[i + 1]
      BY <1>3, <1>5, <2>1, <2>3
    <3> QED BY <3>1, <1>1, <1>4
  <2> QED BY <2>2, <2>3
<1>7. \A i, j \in 1 .. Len(queue') : queue'[i] = queue'[j] => i = j
  <2>1. SUFFICES ASSUME NEW i \in 1 .. Len(queue'), NEW j \in 1 .. Len(queue'),
                        queue'[i] = queue'[j]
                 PROVE  i = j
    OBVIOUS
  <2> DEFINE a(x) == IF x < k THEN x ELSE x + 1
  <2>2. a(i) \in 1 .. Len(queue) /\ queue'[i] = queue[a(i)]
    BY <1>3, <1>5
  <2>3. a(j) \in 1 .. Len(queue) /\ queue'[j] = queue[a(j)]
    BY <1>3, <1>5
  <2>4. a(i) = a(j)
    BY <2>1, <2>2, <2>3, <1>4
  <2> QED BY <2>4, <1>3, <1>5
<1>8. p \notin grants
  BY <1>1 DEF Structure, QueueOK
<1>9. queue # << >>
  BY <1>1
<1> QED BY <1>3, <1>6, <1>7, <1>8, <1>9

\* Send keeps the channel in order: the head, if any, moves to grants.
LEMMA SendChannel ==
  ASSUME Structure, Send
  PROVE  /\ tokens' \in 0 .. Ceiling
         /\ queue' \in Seq(Parkers)
         /\ grants' \subseteq Parkers
         /\ queue' # << >> => tokens' = 0
         /\ \A i \in 1 .. Len(queue') : \E j \in 1 .. Len(queue) :
               queue'[i] = queue[j] /\ queue[j] \notin grants'
         /\ \A i, j \in 1 .. Len(queue') : queue'[i] = queue'[j] => i = j
         /\ grants' \subseteq Sleepers
         /\ \/ /\ queue # << >>
               /\ Head(queue) \in Parkers
               /\ Head(queue) \in Sleepers
               /\ Head(queue) \notin grants
               /\ grants' = grants \cup {Head(queue)}
               /\ tokens' = tokens
            \/ /\ queue = << >>
               /\ grants' = grants
               /\ tokens' = IF tokens < Ceiling THEN tokens + 1 ELSE tokens
<1> USE CeilingAssumption
<1>1. /\ queue \in Seq(Parkers) /\ grants \subseteq Parkers
      /\ tokens \in 0 .. Ceiling
  BY DEF Structure, TypeOK, PermitTypeOK
<1>2. CASE queue # << >>
  <2>1. /\ grants' = grants \cup {Head(queue)}
        /\ queue' = Tail(queue)
        /\ tokens' = tokens
    BY <1>2 DEF Send
  <2>2. /\ Len(queue) \in Nat \ {0}
        /\ Head(queue) = queue[1]
        /\ queue[1] \in Parkers
        /\ queue' \in Seq(Parkers)
        /\ Len(queue') = Len(queue) - 1
        /\ \A i \in 1 .. Len(queue') : queue'[i] = queue[i + 1]
    BY <1>1, <1>2, <2>1
  <2>3. queue[1] \in Sleepers /\ queue[1] \notin grants
    BY <2>2 DEF Structure, QueueOK
  <2>4. \A i \in 1 .. Len(queue') : \E j \in 1 .. Len(queue) :
           queue'[i] = queue[j] /\ queue[j] \notin grants'
    <3>1. TAKE i \in 1 .. Len(queue')
    <3>2. i + 1 \in 1 .. Len(queue) /\ 1 \in 1 .. Len(queue) /\ i + 1 # 1
      BY <2>2
    <3>3. queue[i + 1] # queue[1] /\ queue[i + 1] \notin grants
      BY <3>2 DEF Structure, QueueOK
    <3> QED BY <3>2, <3>3, <2>1, <2>2
  <2>5. \A i, j \in 1 .. Len(queue') : queue'[i] = queue'[j] => i = j
    <3>1. SUFFICES ASSUME NEW i \in 1 .. Len(queue'), NEW j \in 1 .. Len(queue'),
                          queue'[i] = queue'[j]
                   PROVE  i = j
      OBVIOUS
    <3>2. /\ i + 1 \in 1 .. Len(queue) /\ j + 1 \in 1 .. Len(queue)
          /\ queue[i + 1] = queue[j + 1]
      BY <3>1, <2>2
    <3>3. i + 1 = j + 1
      BY <3>2 DEF Structure, QueueOK
    <3> QED BY <3>3
  <2>6. grants' \subseteq Sleepers
    BY <2>1, <2>2, <2>3 DEF Structure, GrantsOK
  <2>7. tokens = 0
    BY <1>2 DEF Structure, Handoff
  <2> QED BY <1>1, <1>2, <2>1, <2>2, <2>3, <2>4, <2>5, <2>6, <2>7
<1>3. CASE queue = << >>
  <2>1. /\ grants' = grants /\ queue' = queue
        /\ tokens' = IF tokens < Ceiling THEN tokens + 1 ELSE tokens
    BY <1>3 DEF Send, Room
  <2> QED BY <1>1, <1>3, <2>1 DEF Structure, GrantsOK, QueueOK
<1> QED BY <1>2, <1>3

-----------------------------------------------------------------------------
(* Structure is inductive. *)

\* Acquiring and giving up keep the channel and the program counters in step.
LEMMA AcquireStructure ==
  ASSUME Structure, NEW p \in Holders, Acquire(p)
  PROVE  Structure'
<1> USE CeilingAssumption, HoldersAssumption
<1>1. CASE TryAcquire(p)
  <2>1. TypeOK'
    BY <1>1 DEF TryAcquire, Receive, Goto, settings, drainVars,
                Structure, TypeOK, PermitTypeOK, Points
  <2>2. pc' = [pc EXCEPT ![p] = "held"] /\ pc[p] = "idle" /\ pc \in [Holders -> Points]
    BY <1>1 DEF TryAcquire, Goto, Structure, TypeOK
  <2>3. queue' = queue /\ grants' = grants /\ queue \in Seq(Parkers)
    BY <1>1 DEF TryAcquire, Receive, Structure, TypeOK, PermitTypeOK
  <2>4. QueueOK' /\ GrantsOK'
    BY <1>1, <2>2, <2>3
       DEF TryAcquire, drainVars, Structure, TypeOK, PermitTypeOK,
           QueueOK, GrantsOK, Sleepers
  <2>5. Handoff' /\ LocalsOK'
    BY <1>1, <2>3 DEF TryAcquire, Receive, settings, drainVars, Structure,
                      TypeOK, PermitTypeOK, Handoff, LocalsOK
  <2> QED BY <2>1, <2>4, <2>5 DEF Structure
<1>2. CASE Wait(p)
  <2>1. queue \in Seq(Parkers) /\ p \in Parkers /\ p # Drainer
    BY DEF Structure, TypeOK, PermitTypeOK
  <2>2. /\ pc' = [pc EXCEPT ![p] = "parked"] /\ pc[p] = "idle"
        /\ pc \in [Holders -> Points]
        /\ queue' = Append(queue, p) /\ grants' = grants /\ tokens' = tokens
        /\ tokens = 0
        /\ drainAt' = drainAt
    BY <1>2 DEF Wait, Park, Goto, drainVars, Structure, TypeOK
  <2>3. /\ queue' \in Seq(Parkers)
        /\ Len(queue') = Len(queue) + 1
        /\ Len(queue) \in Nat
        /\ \A i \in 1 .. Len(queue) : queue'[i] = queue[i]
        /\ queue'[Len(queue) + 1] = p
    BY <2>1, <2>2
  <2>4. TypeOK'
    BY <1>2, <2>2, <2>3 DEF Wait, settings, drainVars, Structure, TypeOK,
                            PermitTypeOK, Points
  <2>5. \A i \in 1 .. Len(queue) : queue[i] # p
    BY <2>1, <2>2 DEF Structure, QueueOK, Sleepers
  <2>6. p \notin grants
    BY <2>1, <2>2 DEF Structure, GrantsOK, Sleepers
  <2>7. \A i \in 1 .. Len(queue') : queue'[i] \in Sleepers' /\ queue'[i] \notin grants'
    <3>1. TAKE i \in 1 .. Len(queue')
    <3>2. CASE i \in 1 .. Len(queue)
      <4>1. queue'[i] = queue[i] /\ queue[i] # p /\ queue[i] \in Parkers
        BY <3>2, <2>1, <2>3, <2>5
      <4>2. queue[i] \in Sleepers /\ queue[i] \notin grants
        BY <3>2 DEF Structure, QueueOK
      <4> QED BY <4>1, <4>2, <2>2 DEF Sleepers
    <3>3. CASE i = Len(queue) + 1
      BY <3>3, <2>1, <2>2, <2>3, <2>6 DEF Sleepers
    <3> QED BY <3>2, <3>3, <2>3
  <2>8. \A i, j \in 1 .. Len(queue') : queue'[i] = queue'[j] => i = j
    <3>1. \A i, j \in 1 .. Len(queue) : queue[i] = queue[j] => i = j
      BY DEF Structure, QueueOK
    <3> QED BY <3>1, <2>3, <2>5
  <2>9. GrantsOK'
    BY <2>1, <2>2, <2>6 DEF Structure, GrantsOK, Sleepers, TypeOK, PermitTypeOK
  <2>10. Handoff' /\ LocalsOK'
    BY <1>2, <2>2 DEF Wait, settings, drainVars, Structure, Handoff, LocalsOK
  <2> QED BY <2>4, <2>7, <2>8, <2>9, <2>10 DEF Structure, QueueOK
<1>3. CASE WaitServed(p)
  <2>1. /\ pc' = [pc EXCEPT ![p] = "held"] /\ pc[p] = "parked"
        /\ pc \in [Holders -> Points]
        /\ p \in grants /\ grants' = grants \ {p}
        /\ queue' = queue /\ tokens' = tokens /\ drainAt' = drainAt
        /\ queue \in Seq(Parkers) /\ p # Drainer
    BY <1>3 DEF WaitServed, Resume, Goto, drainVars, Structure, TypeOK, PermitTypeOK
  <2>2. TypeOK'
    BY <1>3, <2>1 DEF WaitServed, settings, drainVars, Structure, TypeOK,
                      PermitTypeOK, Points
  <2>3. QueueOK' /\ GrantsOK'
    BY <2>1 DEF Structure, TypeOK, PermitTypeOK, QueueOK, GrantsOK, Sleepers
  <2>4. Handoff' /\ LocalsOK'
    BY <1>3, <2>1 DEF WaitServed, settings, drainVars, Structure, Handoff, LocalsOK
  <2> QED BY <2>2, <2>3, <2>4 DEF Structure
<1>4. CASE WaitCancelled(p)
  <2>1. /\ pc' = [pc EXCEPT ![p] = "idle"]
        /\ pc \in [Holders -> Points]
        /\ grants' = grants /\ tokens' = tokens /\ drainAt' = drainAt
        /\ p \in Parkers /\ p # Drainer /\ Unpark(p)
        /\ queue \in Seq(Parkers)
    BY <1>4 DEF WaitCancelled, Unpark, Goto, drainVars, Structure, TypeOK, PermitTypeOK
  <2>2. /\ queue' \in Seq(Parkers)
        /\ \A i \in 1 .. Len(queue') : \E j \in 1 .. Len(queue) :
              queue'[i] = queue[j] /\ queue[j] # p
        /\ \A i, j \in 1 .. Len(queue') : queue'[i] = queue'[j] => i = j
        /\ p \notin grants
        /\ queue # << >>
    BY <2>1, UnparkQueue
  <2>3. TypeOK'
    BY <1>4, <2>1, <2>2 DEF WaitCancelled, settings, drainVars, Structure,
                            TypeOK, PermitTypeOK, Points
  <2>4. \A i \in 1 .. Len(queue') : queue'[i] \in Sleepers' /\ queue'[i] \notin grants'
    <3>1. TAKE i \in 1 .. Len(queue')
    <3>2. PICK j \in 1 .. Len(queue) : queue'[i] = queue[j] /\ queue[j] # p
      BY <2>2
    <3>3. queue[j] \in Sleepers /\ queue[j] \notin grants /\ queue[j] \in Parkers
      BY <2>1 DEF Structure, QueueOK
    <3> QED BY <3>2, <3>3, <2>1 DEF Sleepers
  <2>5. GrantsOK'
    BY <2>1, <2>2 DEF Structure, TypeOK, PermitTypeOK, GrantsOK, Sleepers
  <2>6. Handoff' /\ LocalsOK'
    BY <1>4, <2>1, <2>2 DEF WaitCancelled, settings, drainVars, Structure,
                            Handoff, LocalsOK
  <2> QED BY <2>2, <2>3, <2>4, <2>5, <2>6 DEF Structure, QueueOK
<1> QED BY <1>1, <1>2, <1>3, <1>4 DEF Acquire

\* Releasing does too: the sender of a token is not parked.
LEMMA ReleaseStructure ==
  ASSUME Structure, NEW p \in Holders, Release(p)
  PROVE  Structure'
<1> USE CeilingAssumption, HoldersAssumption
<1>1. CASE ReleaseRepay(p) \/ ReleaseNoDebt(p)
  <2>1. /\ \E l \in {"idle", "sending"} : pc' = [pc EXCEPT ![p] = l]
        /\ pc[p] = "held" /\ pc \in [Holders -> Points] /\ p # Drainer
        /\ queue' = queue /\ grants' = grants /\ tokens' = tokens
        /\ drainAt' = drainAt /\ queue \in Seq(Parkers)
    BY <1>1 DEF ReleaseRepay, ReleaseNoDebt, Goto, channelVars, drainVars,
                Structure, TypeOK, PermitTypeOK
  <2>2. TypeOK'
    BY <1>1, <2>1 DEF ReleaseRepay, ReleaseNoDebt, Repay, NoDebt, drainVars,
                      Structure, TypeOK, PermitTypeOK, Points
  <2>3. QueueOK' /\ GrantsOK'
    BY <2>1 DEF Structure, TypeOK, PermitTypeOK, QueueOK, GrantsOK, Sleepers
  <2>4. Handoff' /\ LocalsOK'
    BY <1>1, <2>1 DEF ReleaseRepay, ReleaseNoDebt, Repay, NoDebt, drainVars,
                      Structure, TypeOK, PermitTypeOK, Handoff, LocalsOK
  <2> QED BY <2>2, <2>3, <2>4 DEF Structure
<1>2. CASE ReleaseSend(p)
  <2>1. /\ pc' = [pc EXCEPT ![p] = "idle"] /\ pc[p] = "sending"
        /\ pc \in [Holders -> Points] /\ p # Drainer /\ Send
        /\ drainAt' = drainAt /\ queue \in Seq(Parkers)
    BY <1>2 DEF ReleaseSend, Goto, drainVars, Structure, TypeOK, PermitTypeOK
  <2>2. /\ tokens' \in 0 .. Ceiling
        /\ queue' \in Seq(Parkers)
        /\ grants' \subseteq Parkers
        /\ queue' # << >> => tokens' = 0
        /\ \A i \in 1 .. Len(queue') : \E j \in 1 .. Len(queue) :
              queue'[i] = queue[j] /\ queue[j] \notin grants'
        /\ \A i, j \in 1 .. Len(queue') : queue'[i] = queue'[j] => i = j
        /\ grants' \subseteq Sleepers
    BY <2>1, SendChannel
  <2>3. TypeOK'
    BY <1>2, <2>1, <2>2 DEF ReleaseSend, settings, drainVars, Structure,
                            TypeOK, PermitTypeOK, Points
  <2>4. Sleepers \subseteq Sleepers'
    BY <2>1 DEF Sleepers
  <2>5. QueueOK'
    <3>1. \A i \in 1 .. Len(queue') : queue'[i] \in Sleepers' /\ queue'[i] \notin grants'
      <4>1. TAKE i \in 1 .. Len(queue')
      <4>2. PICK j \in 1 .. Len(queue) : queue'[i] = queue[j] /\ queue[j] \notin grants'
        BY <2>2
      <4>3. queue[j] \in Sleepers /\ queue[j] \in Parkers
        BY <2>1 DEF Structure, QueueOK
      <4> QED BY <2>4, <4>2, <4>3
    <3> QED BY <3>1, <2>2 DEF QueueOK
  <2>6. GrantsOK'
    BY <2>2, <2>4 DEF GrantsOK
  <2>7. Handoff' /\ LocalsOK'
    BY <1>2, <2>2 DEF ReleaseSend, settings, drainVars, Structure, Handoff, LocalsOK
  <2> QED BY <2>3, <2>5, <2>6, <2>7 DEF Structure
<1> QED BY <1>1, <1>2 DEF Release

\* A resize touches no program counter; only its sends move a goroutine.
LEMMA ResizeStructure ==
  ASSUME Structure, Resize
  PROVE  Structure'
<1> USE CeilingAssumption, HoldersAssumption
<1>1. /\ pc' = pc /\ drainAt' = drainAt /\ drainLeft' = drainLeft
      /\ reclaimed' = reclaimed
  BY DEF Resize, clientVars
<1>2. Sleepers' = Sleepers
  BY <1>1 DEF Sleepers
<1>3. CASE GrowSend
  <2>1. /\ Send
        /\ limit' = limit /\ debt' = debt /\ resizeAt' = "unit"
        /\ resizeLeft' = resizeLeft - 1
    BY <1>3 DEF GrowSend
  <2>2. /\ tokens' \in 0 .. Ceiling
        /\ queue' \in Seq(Parkers)
        /\ grants' \subseteq Parkers
        /\ queue' # << >> => tokens' = 0
        /\ \A i \in 1 .. Len(queue') : \E j \in 1 .. Len(queue) :
              queue'[i] = queue[j] /\ queue[j] \notin grants'
        /\ \A i, j \in 1 .. Len(queue') : queue'[i] = queue'[j] => i = j
        /\ grants' \subseteq Sleepers
    BY <2>1, SendChannel
  <2>3. TypeOK'
    BY <1>1, <2>1, <2>2 DEF Structure, TypeOK, PermitTypeOK, ResizePoints
  <2>4. QueueOK'
    BY <1>2, <2>2 DEF Structure, QueueOK
  <2>5. GrantsOK' /\ Handoff'
    BY <1>2, <2>2 DEF GrantsOK, Handoff
  <2>6. LocalsOK'
    BY <1>1, <2>1 DEF Structure, LocalsOK
  <2> QED BY <2>3, <2>4, <2>5, <2>6 DEF Structure
<1>4. CASE ShrinkReceive
  <2>1. /\ tokens > 0 /\ tokens' = tokens - 1
        /\ queue' = queue /\ grants' = grants
        /\ resizeAt = "unit" /\ resizeLeft < 0
        /\ resizeLeft' = resizeLeft + 1
        /\ limit' = limit /\ debt' = debt /\ resizeAt' = resizeAt
    BY <1>4 DEF ShrinkReceive, Receive
  <2>2. TypeOK'
    BY <1>1, <2>1 DEF Structure, TypeOK, PermitTypeOK
  <2>3. QueueOK' /\ GrantsOK' /\ Handoff'
    BY <1>2, <2>1 DEF Structure, QueueOK, GrantsOK, Handoff, TypeOK, PermitTypeOK
  <2>4. LocalsOK'
    BY <1>1, <2>1 DEF Structure, LocalsOK
  <2> QED BY <2>2, <2>3, <2>4 DEF Structure
<1>5. CASE \/ \E n \in 0 .. Ceiling : ResizeSwap(n)
           \/ GrowRepay \/ GrowNoDebt \/ ShrinkMiss \/ ShrinkOwe \/ ResizeReturn
  <2>1. tokens' = tokens /\ queue' = queue /\ grants' = grants
    BY <1>5 DEF ResizeSwap, GrowRepay, GrowNoDebt, ShrinkMiss, ShrinkOwe,
                ResizeReturn, channelVars
  <2>2. QueueOK' /\ GrantsOK' /\ Handoff'
    BY <1>2, <2>1 DEF Structure, QueueOK, GrantsOK, Handoff
  <2>3. /\ limit' \in 0 .. Ceiling /\ debt' \in Nat
        /\ resizeAt' \in ResizePoints /\ resizeLeft' \in Int
    BY <1>5 DEF ResizeSwap, GrowRepay, GrowNoDebt, ShrinkMiss, ShrinkOwe,
                ResizeReturn, Repay, NoDebt, ResizePoints,
                Structure, TypeOK, PermitTypeOK
  <2>4. TypeOK'
    BY <1>1, <2>1, <2>3 DEF Structure, TypeOK, PermitTypeOK
  <2>5. LocalsOK'
    BY <1>1, <1>5 DEF ResizeSwap, GrowRepay, GrowNoDebt, ShrinkMiss, ShrinkOwe,
                ResizeReturn, Repay, NoDebt,
                Structure, TypeOK, PermitTypeOK, LocalsOK
  <2> QED BY <2>2, <2>4, <2>5 DEF Structure
<1> QED BY <1>3, <1>4, <1>5 DEF Resize, ResizeStep

\* The drain is a receiver like any other, except that it keeps what it gets.
LEMMA DrainStructure ==
  ASSUME Structure, Drain
  PROVE  Structure'
<1> USE CeilingAssumption, HoldersAssumption
<1>1. /\ pc' = pc /\ limit' = limit /\ debt' = debt
      /\ resizeAt' = resizeAt /\ resizeLeft' = resizeLeft
  BY DEF Drain, DrainStart, DrainReceive, DrainPark, DrainServed, DrainTimeout,
         DrainReturn, permitVars, settings
<1>2. /\ drainAt' \in {"off", "recv", "parked", "done"}
      /\ drainLeft' \in Nat /\ reclaimed' \in Nat
      /\ drainAt' = "parked" => drainLeft' > 0
  BY DEF Drain, DrainStart, DrainReceive, DrainPark, DrainServed, DrainTimeout,
         DrainReturn, Structure, TypeOK, LocalsOK
<1>3. LocalsOK'
  BY <1>1, <1>2 DEF Structure, LocalsOK
<1>4. queue \in Seq(Parkers) /\ Drainer \in Parkers /\ pc \in [Holders -> Points]
  BY DEF Structure, TypeOK, PermitTypeOK
<1>5. CASE DrainStart \/ DrainReceive \/ DrainReturn
           \/ (DrainTimeout /\ drainAt = "recv")
  <2>1. /\ queue' = queue /\ grants' = grants
        /\ tokens' = tokens \/ (tokens > 0 /\ tokens' = tokens - 1)
        /\ drainAt # "parked" /\ drainAt' # "parked"
    <3>1. CASE DrainStart \/ DrainReturn
      BY <3>1 DEF DrainStart, DrainReturn, permitVars
    <3>2. CASE DrainReceive
      BY <3>2 DEF DrainReceive, Receive
    <3>3. CASE DrainTimeout /\ drainAt = "recv"
      BY <3>3 DEF DrainTimeout, channelVars
    <3> QED BY <1>5, <3>1, <3>2, <3>3
  <2>2. TypeOK'
    BY <1>1, <1>2, <2>1 DEF Structure, TypeOK, PermitTypeOK
  <2>3. QueueOK' /\ GrantsOK' /\ Handoff'
    BY <1>1, <2>1 DEF Structure, TypeOK, PermitTypeOK, QueueOK, GrantsOK,
                      Handoff, Sleepers
  <2> QED BY <1>3, <2>2, <2>3 DEF Structure
<1>6. CASE DrainPark
  <2>1. /\ queue' = Append(queue, Drainer) /\ grants' = grants
        /\ tokens' = tokens /\ tokens = 0
        /\ drainAt = "recv" /\ drainAt' = "parked"
    BY <1>6 DEF DrainPark, Park
  <2>2. /\ queue' \in Seq(Parkers)
        /\ Len(queue') = Len(queue) + 1
        /\ Len(queue) \in Nat
        /\ \A i \in 1 .. Len(queue) : queue'[i] = queue[i]
        /\ queue'[Len(queue) + 1] = Drainer
    BY <1>4, <2>1
  <2>3. Drainer \notin Sleepers /\ Sleepers' = Sleepers \cup {Drainer}
    BY <1>1, <1>4, <2>1 DEF Sleepers
  <2>4. TypeOK'
    BY <1>1, <1>2, <2>1, <2>2 DEF Structure, TypeOK, PermitTypeOK
  <2>5. QueueOK'
    <3>1. \A i \in 1 .. Len(queue) :
             queue[i] \in Sleepers /\ queue[i] \notin grants /\ queue[i] # Drainer
      BY <2>3 DEF Structure, QueueOK
    <3>2. Drainer \notin grants
      BY <2>3 DEF Structure, GrantsOK
    <3>3. \A i \in 1 .. Len(queue') :
             i \in 1 .. Len(queue) \/ i = Len(queue) + 1
      BY <2>2
    <3>4. \A i \in 1 .. Len(queue') :
             queue'[i] \in Sleepers' /\ queue'[i] \notin grants'
      BY <2>1, <2>2, <2>3, <3>1, <3>2, <3>3
    <3>5. \A i, j \in 1 .. Len(queue') : queue'[i] = queue'[j] => i = j
      <4>1. \A i, j \in 1 .. Len(queue) : queue[i] = queue[j] => i = j
        BY DEF Structure, QueueOK
      <4> QED BY <4>1, <2>2, <3>1, <3>3
    <3> QED BY <3>4, <3>5 DEF QueueOK
  <2>6. GrantsOK' /\ Handoff'
    BY <2>1, <2>3 DEF Structure, GrantsOK, Handoff
  <2> QED BY <1>3, <2>4, <2>5, <2>6 DEF Structure
<1>7. CASE DrainServed
  <2>1. /\ queue' = queue /\ tokens' = tokens
        /\ Drainer \in grants /\ grants' = grants \ {Drainer}
        /\ drainAt' = "recv"
    BY <1>7 DEF DrainServed, Resume
  <2>2. Sleepers' = Sleepers \ {Drainer}
    BY <1>1, <2>1 DEF Sleepers
  <2>3. TypeOK'
    BY <1>1, <1>2, <2>1 DEF Structure, TypeOK, PermitTypeOK
  <2>4. QueueOK' /\ GrantsOK' /\ Handoff'
    BY <1>4, <2>1, <2>2 DEF Structure, QueueOK, GrantsOK, Handoff
  <2> QED BY <1>3, <2>3, <2>4 DEF Structure
<1>8. CASE DrainTimeout /\ drainAt = "parked"
  <2>1. Unpark(Drainer) /\ drainAt' = "done" /\ tokens' = tokens /\ grants' = grants
    BY <1>8 DEF DrainTimeout, Unpark
  <2>2. /\ queue' \in Seq(Parkers)
        /\ \A i \in 1 .. Len(queue') : \E j \in 1 .. Len(queue) :
              queue'[i] = queue[j] /\ queue[j] # Drainer
        /\ \A i, j \in 1 .. Len(queue') : queue'[i] = queue'[j] => i = j
        /\ Drainer \notin grants
        /\ queue # << >>
    BY <1>4, <2>1, UnparkQueue
  <2>3. Sleepers' = Sleepers \ {Drainer}
    BY <1>1, <2>1 DEF Sleepers
  <2>4. TypeOK'
    BY <1>1, <1>2, <2>1, <2>2 DEF Structure, TypeOK, PermitTypeOK
  <2>5. QueueOK'
    BY <2>1, <2>2, <2>3 DEF Structure, QueueOK
  <2>6. GrantsOK' /\ Handoff'
    BY <2>1, <2>2, <2>3 DEF Structure, GrantsOK, Handoff
  <2> QED BY <1>3, <2>4, <2>5, <2>6 DEF Structure
<1> QED BY <1>5, <1>6, <1>7, <1>8 DEF Drain, DrainTimeout

-----------------------------------------------------------------------------
(* The books balance. *)

\* Outstanding is finite; one goroutine more or less counts one more or less.
LEMMA OutstandingFinite ==
  ASSUME Structure
  PROVE  /\ IsFiniteSet(Outstanding)
         /\ Cardinality(Outstanding) \in Nat
         /\ \A p : p \notin Outstanding
               => Cardinality(Outstanding \cup {p}) = Cardinality(Outstanding) + 1
         /\ \A p : p \in Outstanding
               => Cardinality(Outstanding \ {p}) = Cardinality(Outstanding) - 1
<1>1. Outstanding \subseteq Parkers
  BY HoldersAssumption DEF Structure, TypeOK, PermitTypeOK, Outstanding
<1>2. IsFiniteSet(Outstanding)
  BY <1>1, ParkersAssumption, FS_Subset
<1>3. Cardinality(Outstanding) \in Nat
  BY <1>2, FS_CardinalityType
<1>4. ASSUME NEW p, p \notin Outstanding
      PROVE  Cardinality(Outstanding \cup {p}) = Cardinality(Outstanding) + 1
  BY <1>2, <1>4, FS_AddElement
<1>5. ASSUME NEW p, p \in Outstanding
      PROVE  Cardinality(Outstanding \ {p}) = Cardinality(Outstanding) - 1
  BY <1>2, <1>5, FS_RemoveElement
<1> QED BY <1>2, <1>3, <1>4, <1>5

\* A permit that changes hands is still one permit.
LEMMA SwapOne ==
  ASSUME NEW S, NEW x, NEW y, IsFiniteSet(S), x \in S, y \notin S
  PROVE  Cardinality((S \ {x}) \cup {y}) = Cardinality(S)
<1>1. IsFiniteSet(S \ {x}) /\ Cardinality(S \ {x}) = Cardinality(S) - 1
  BY FS_RemoveElement
<1>2. Cardinality((S \ {x}) \cup {y}) = Cardinality(S \ {x}) + 1
  BY <1>1, FS_AddElement
<1>3. Cardinality(S) \in Nat
  BY FS_CardinalityType
<1> QED BY <1>1, <1>2, <1>3

\* Acquiring moves a token to a goroutine; giving up moves nothing.
LEMMA AcquireBooks ==
  ASSUME IInv, NEW p \in Holders, Acquire(p)
  PROVE  Books'
<1> DEFINE n == Cardinality(Outstanding)
<1>1. Structure /\ Books
  BY DEF IInv
<1>2. /\ n \in Nat
      /\ \A x : x \notin Outstanding => Cardinality(Outstanding \cup {x}) = n + 1
  BY <1>1, OutstandingFinite
<1>3. /\ tokens \in 0 .. Ceiling /\ Ceiling \in Nat /\ limit \in 0 .. Ceiling
      /\ debt \in Nat /\ resizeLeft \in Int /\ reclaimed \in Nat
      /\ pc \in [Holders -> Points] /\ p \in Parkers /\ p # Drainer
  BY <1>1, CeilingAssumption, HoldersAssumption DEF Structure, TypeOK, PermitTypeOK
<1>4. /\ limit' = limit /\ debt' = debt /\ resizeLeft' = resizeLeft
      /\ reclaimed' = reclaimed
  BY DEF Acquire, TryAcquire, Wait, WaitServed, WaitCancelled, settings, drainVars
<1>5. p \in grants => pc[p] = "parked"
  BY <1>1, <1>3 DEF Structure, GrantsOK, Sleepers
<1>6. CASE TryAcquire(p)
  <2>1. /\ pc[p] = "idle" /\ pc' = [pc EXCEPT ![p] = "held"]
        /\ grants' = grants /\ tokens' = tokens - 1
    BY <1>6 DEF TryAcquire, Receive, Goto
  <2>2. Outstanding' = Outstanding \cup {p} /\ p \notin Outstanding
    BY <1>3, <1>5, <2>1 DEF Outstanding
  <2>3. Cardinality(Outstanding') = n + 1
    BY <1>2, <2>2
  <2> QED BY <1>1, <1>2, <1>3, <1>4, <2>1, <2>3
          DEF Books, Conservation, WithinCeiling, Extant
<1>7. CASE Wait(p) \/ WaitServed(p) \/ WaitCancelled(p)
  <2>1. tokens' = tokens
    BY <1>7 DEF Wait, WaitServed, WaitCancelled, Park, Resume, Unpark
  <2>2. Outstanding' = Outstanding
    <3>1. CASE Wait(p)
      BY <1>3, <3>1 DEF Wait, Park, Goto, Outstanding
    <3>2. CASE WaitServed(p)
      BY <1>3, <3>2 DEF WaitServed, Resume, Goto, Outstanding
    <3>3. CASE WaitCancelled(p)
      BY <1>3, <3>3 DEF WaitCancelled, Unpark, Goto, Outstanding
    <3> QED BY <1>7, <3>1, <3>2, <3>3
  <2> QED BY <1>1, <1>4, <2>1, <2>2
          DEF Books, Conservation, WithinCeiling, Extant
<1> QED BY <1>6, <1>7 DEF Acquire

\* Releasing pays one unit of debt or sends the token on.
LEMMA ReleaseBooks ==
  ASSUME IInv, NEW p \in Holders, Release(p)
  PROVE  Books'
<1> DEFINE n == Cardinality(Outstanding)
<1>1. Structure /\ Books
  BY DEF IInv
<1>2. /\ n \in Nat /\ IsFiniteSet(Outstanding)
      /\ \A x : x \in Outstanding => Cardinality(Outstanding \ {x}) = n - 1
  BY <1>1, OutstandingFinite
<1>3. /\ tokens \in 0 .. Ceiling /\ Ceiling \in Nat /\ limit \in 0 .. Ceiling
      /\ debt \in Nat /\ resizeLeft \in Int /\ reclaimed \in Nat
      /\ pc \in [Holders -> Points] /\ p \in Parkers /\ p # Drainer
  BY <1>1, CeilingAssumption, HoldersAssumption DEF Structure, TypeOK, PermitTypeOK
<1>4. limit' = limit /\ resizeLeft' = resizeLeft /\ reclaimed' = reclaimed
  BY DEF Release, ReleaseRepay, ReleaseNoDebt, ReleaseSend, settings, drainVars
<1>5. p \in grants => pc[p] = "parked"
  BY <1>1, <1>3 DEF Structure, GrantsOK, Sleepers
<1>6. p \in Outstanding /\ p \notin grants
  BY <1>5 DEF Release, ReleaseRepay, ReleaseNoDebt, ReleaseSend, Outstanding
<1>7. CASE ReleaseRepay(p)
  <2>1. /\ debt' = debt - 1 /\ tokens' = tokens /\ grants' = grants
        /\ pc' = [pc EXCEPT ![p] = "idle"]
    BY <1>7 DEF ReleaseRepay, Repay, Goto, channelVars
  <2>2. Outstanding' = Outstanding \ {p}
    BY <1>3, <1>6, <2>1 DEF Outstanding
  <2>3. Cardinality(Outstanding') = n - 1
    BY <1>2, <1>6, <2>2
  <2> QED BY <1>1, <1>2, <1>3, <1>4, <2>1, <2>3
          DEF Books, Conservation, WithinCeiling, Extant
<1>8. CASE ReleaseNoDebt(p)
  <2>1. /\ debt' = debt /\ tokens' = tokens /\ grants' = grants
        /\ pc[p] = "held" /\ pc' = [pc EXCEPT ![p] = "sending"]
    BY <1>8 DEF ReleaseNoDebt, NoDebt, Goto, channelVars
  <2>2. Outstanding' = Outstanding
    BY <1>3, <2>1 DEF Outstanding
  <2> QED BY <1>1, <1>4, <2>1, <2>2
          DEF Books, Conservation, WithinCeiling, Extant
<1>9. CASE ReleaseSend(p)
  <2>1. /\ Send /\ debt' = debt /\ pc[p] = "sending"
        /\ pc' = [pc EXCEPT ![p] = "idle"]
    BY <1>9 DEF ReleaseSend, Goto, settings
  <2>2. CASE queue # << >>
    <3>1. /\ Head(queue) \in Sleepers /\ Head(queue) \notin grants
          /\ grants' = grants \cup {Head(queue)} /\ tokens' = tokens
      BY <1>1, <2>1, <2>2, SendChannel
    <3>2. Head(queue) \notin Outstanding
      BY <3>1, HoldersAssumption DEF Sleepers, Outstanding
    <3>3. Outstanding' = (Outstanding \ {p}) \cup {Head(queue)}
      BY <1>3, <1>6, <2>1, <3>1 DEF Outstanding
    <3>4. Cardinality(Outstanding') = n
      BY <1>2, <1>6, <3>2, <3>3, SwapOne
    <3> QED BY <1>1, <1>4, <2>1, <3>1, <3>4
            DEF Books, Conservation, WithinCeiling, Extant
  <2>3. CASE queue = << >>
    <3>1. /\ grants' = grants
          /\ tokens' = IF tokens < Ceiling THEN tokens + 1 ELSE tokens
      BY <1>1, <2>1, <2>3, SendChannel
    <3>2. Outstanding' = Outstanding \ {p}
      BY <1>3, <1>6, <2>1, <3>1 DEF Outstanding
    <3>3. Cardinality(Outstanding') = n - 1
      BY <1>2, <1>6, <3>2
    <3>4. n >= 1
      BY <1>2, <1>6, FS_EmptySet
    <3>5. tokens < Ceiling
      BY <1>1, <1>2, <1>3, <3>4 DEF Books, WithinCeiling, Extant
    <3> QED BY <1>1, <1>2, <1>3, <1>4, <2>1, <3>1, <3>3, <3>5
            DEF Books, Conservation, WithinCeiling, Extant
  <2> QED BY <2>2, <2>3
<1> QED BY <1>7, <1>8, <1>9 DEF Release

\* Each unit of a resize adds, cancels, takes or owes exactly one permit; a
\* growth only sends when no debt is left to cancel.
LEMMA ResizeBooks ==
  ASSUME IInv, Resize
  PROVE  Books'
<1> DEFINE n == Cardinality(Outstanding)
<1>1. Structure /\ Books
  BY DEF IInv
<1>2. /\ n \in Nat
      /\ \A x : x \notin Outstanding => Cardinality(Outstanding \cup {x}) = n + 1
  BY <1>1, OutstandingFinite
<1>3. /\ tokens \in 0 .. Ceiling /\ Ceiling \in Nat /\ limit \in 0 .. Ceiling
      /\ debt \in Nat /\ resizeLeft \in Int /\ reclaimed \in Nat
  BY <1>1, CeilingAssumption DEF Structure, TypeOK, PermitTypeOK
<1>4. pc' = pc /\ reclaimed' = reclaimed
  BY DEF Resize, clientVars
<1>5. CASE GrowSend
  <2>1. /\ Send /\ limit' = limit /\ debt' = debt
        /\ resizeLeft' = resizeLeft - 1
        /\ resizeLeft > 0 /\ debt = 0
    BY <1>1, <1>5 DEF GrowSend, Structure, LocalsOK
  <2>2. tokens + n + reclaimed < Ceiling
    BY <1>1, <1>2, <1>3, <2>1 DEF Books, Conservation, Extant
  <2>3. CASE queue # << >>
    <3>1. /\ Head(queue) \in Sleepers /\ Head(queue) \notin grants
          /\ grants' = grants \cup {Head(queue)} /\ tokens' = tokens
      BY <1>1, <2>1, <2>3, SendChannel
    <3>2. /\ Head(queue) \notin Outstanding
          /\ Outstanding' = Outstanding \cup {Head(queue)}
      BY <1>4, <3>1, HoldersAssumption DEF Sleepers, Outstanding
    <3>3. Cardinality(Outstanding') = n + 1
      BY <1>2, <3>2
    <3> QED BY <1>1, <1>2, <1>3, <1>4, <2>1, <2>2, <3>1, <3>3
            DEF Books, Conservation, WithinCeiling, Extant
  <2>4. CASE queue = << >>
    <3>1. /\ grants' = grants
          /\ tokens' = IF tokens < Ceiling THEN tokens + 1 ELSE tokens
      BY <1>1, <2>1, <2>4, SendChannel
    <3>2. Outstanding' = Outstanding
      BY <1>4, <3>1 DEF Outstanding
    <3>3. tokens' = tokens + 1
      BY <1>2, <1>3, <2>2, <3>1
    <3> QED BY <1>1, <1>2, <1>3, <1>4, <2>1, <2>2, <3>2, <3>3
            DEF Books, Conservation, WithinCeiling, Extant
  <2> QED BY <2>3, <2>4
<1>6. CASE ~GrowSend
  <2>1. grants' = grants
    BY <1>6 DEF Resize, ResizeStep, ResizeSwap, GrowRepay, GrowNoDebt,
                ShrinkReceive, ShrinkMiss, ShrinkOwe, ResizeReturn,
                Receive, channelVars
  <2>2. Outstanding' = Outstanding
    BY <1>4, <2>1 DEF Outstanding
  <2>3. CASE \E k \in 0 .. Ceiling : ResizeSwap(k)
    <3>1. /\ tokens' = tokens /\ debt' = debt
          /\ limit' \in Int /\ resizeLeft' = limit' - limit /\ resizeLeft = 0
      BY <1>1, <2>3 DEF ResizeSwap, channelVars, Structure, LocalsOK
    <3> QED BY <1>1, <1>2, <1>3, <1>4, <2>2, <3>1
            DEF Books, Conservation, WithinCeiling, Extant
  <2>4. CASE ResizeStep
    <3>1. /\ limit' = limit
          /\ \/ debt' = debt - 1 /\ tokens' = tokens /\ resizeLeft' = resizeLeft - 1
             \/ debt' = debt /\ tokens' = tokens /\ resizeLeft' = resizeLeft
             \/ debt' = debt /\ tokens' = tokens - 1 /\ resizeLeft' = resizeLeft + 1
             \/ debt' = debt + 1 /\ tokens' = tokens /\ resizeLeft' = resizeLeft + 1
      BY <1>6, <2>4 DEF ResizeStep, GrowRepay, GrowNoDebt, ShrinkReceive, ShrinkMiss,
                  ShrinkOwe, ResizeReturn, Repay, NoDebt, Receive, channelVars
    <3>2. /\ tokens' + n + reclaimed + resizeLeft' = limit' + debt'
          /\ tokens' + n + reclaimed <= Ceiling
      <4>1. /\ tokens + n + reclaimed + resizeLeft = limit + debt
            /\ tokens + n + reclaimed <= Ceiling
        BY <1>1 DEF Books, Conservation, WithinCeiling, Extant
      <4> HIDE DEF n
      <4>2. CASE debt' = debt - 1 /\ tokens' = tokens /\ resizeLeft' = resizeLeft - 1
        BY <1>2, <1>3, <3>1, <4>1, <4>2
      <4>3. CASE debt' = debt /\ tokens' = tokens /\ resizeLeft' = resizeLeft
        BY <1>2, <1>3, <3>1, <4>1, <4>3
      <4>4. CASE debt' = debt /\ tokens' = tokens - 1 /\ resizeLeft' = resizeLeft + 1
        BY <1>2, <1>3, <3>1, <4>1, <4>4
      <4>5. CASE debt' = debt + 1 /\ tokens' = tokens /\ resizeLeft' = resizeLeft + 1
        BY <1>2, <1>3, <3>1, <4>1, <4>5
      <4> QED BY <3>1, <4>2, <4>3, <4>4, <4>5
    <3> QED BY <1>4, <2>2, <3>2 DEF Books, Conservation, WithinCeiling, Extant
  <2> QED BY <2>3, <2>4 DEF Resize
<1> QED BY <1>5, <1>6

\* What drain takes out of the channel it has reclaimed.
LEMMA DrainBooks ==
  ASSUME IInv, Drain
  PROVE  Books'
<1> DEFINE n == Cardinality(Outstanding)
<1>1. Structure /\ Books
  BY DEF IInv
<1>2. /\ n \in Nat
      /\ \A x : x \in Outstanding => Cardinality(Outstanding \ {x}) = n - 1
  BY <1>1, OutstandingFinite
<1>3. /\ tokens \in 0 .. Ceiling /\ Ceiling \in Nat /\ limit \in 0 .. Ceiling
      /\ debt \in Nat /\ resizeLeft \in Int /\ reclaimed \in Nat
  BY <1>1, CeilingAssumption DEF Structure, TypeOK, PermitTypeOK
<1>4. pc' = pc /\ limit' = limit /\ debt' = debt /\ resizeLeft' = resizeLeft
  BY DEF Drain, DrainStart, DrainReceive, DrainPark, DrainServed, DrainTimeout,
         DrainReturn, permitVars, settings
<1>5. CASE DrainServed
  <2>1. /\ Drainer \in grants /\ grants' = grants \ {Drainer}
        /\ tokens' = tokens /\ reclaimed' = reclaimed + 1
    BY <1>5 DEF DrainServed, Resume
  <2>2. Outstanding' = Outstanding \ {Drainer} /\ Drainer \in Outstanding
    BY <1>4, <2>1, HoldersAssumption DEF Outstanding
  <2>3. Cardinality(Outstanding') = n - 1
    BY <1>2, <2>2
  <2> QED BY <1>1, <1>2, <1>3, <1>4, <2>1, <2>3
          DEF Books, Conservation, WithinCeiling, Extant
<1>6. CASE DrainReceive
  <2>1. grants' = grants /\ tokens' = tokens - 1 /\ reclaimed' = reclaimed + 1
    BY <1>6 DEF DrainReceive, Receive
  <2>2. Outstanding' = Outstanding
    BY <1>4, <2>1 DEF Outstanding
  <2> QED BY <1>1, <1>2, <1>3, <1>4, <2>1, <2>2
          DEF Books, Conservation, WithinCeiling, Extant
<1>7. CASE DrainStart \/ DrainPark \/ DrainTimeout \/ DrainReturn
  <2>1. grants' = grants /\ tokens' = tokens /\ reclaimed' = reclaimed
    BY <1>7 DEF DrainStart, DrainPark, DrainTimeout, DrainReturn, Park, Unpark,
                permitVars, channelVars
  <2>2. Outstanding' = Outstanding
    BY <1>4, <2>1 DEF Outstanding
  <2> QED BY <1>1, <1>4, <2>1, <2>2
          DEF Books, Conservation, WithinCeiling, Extant
<1> QED BY <1>5, <1>6, <1>7 DEF Drain

-----------------------------------------------------------------------------
(* The theorems. *)

\* The structure and the books hold of a fresh permit set.
LEMMA InitInv == Init => IInv
<1> SUFFICES ASSUME Init PROVE IInv
  OBVIOUS
<1>2. TypeOK /\ GrantsOK /\ Handoff /\ LocalsOK
  BY CeilingAssumption
     DEF Init, PermitInit, TypeOK, PermitTypeOK, Points, ResizePoints,
         GrantsOK, Handoff, LocalsOK
<1>3. QueueOK
  BY DEF Init, PermitInit, QueueOK
<1>4. Outstanding = {}
  BY DEF Init, PermitInit, Outstanding
<1>5. Cardinality(Outstanding) = 0
  BY <1>4, FS_EmptySet
<1>6. Books
  BY <1>5, CeilingAssumption
     DEF Init, PermitInit, Books, Conservation, WithinCeiling, Extant
<1> QED BY <1>2, <1>3, <1>6 DEF IInv, Structure

\* Every step of every client keeps them.
LEMMA NextInv == IInv /\ [Next]_vars => IInv'
<1>1. SUFFICES ASSUME IInv, [Next]_vars PROVE IInv'
  OBVIOUS
<1>2. Structure
  BY <1>1 DEF IInv
<1>3. ASSUME NEW p \in Holders, Acquire(p) PROVE IInv'
  BY <1>1, <1>2, <1>3, AcquireStructure, AcquireBooks DEF IInv
<1>4. ASSUME NEW p \in Holders, Release(p) PROVE IInv'
  BY <1>1, <1>2, <1>4, ReleaseStructure, ReleaseBooks DEF IInv
<1>5. CASE Resize
  BY <1>1, <1>2, <1>5, ResizeStructure, ResizeBooks DEF IInv
<1>6. CASE Drain
  BY <1>1, <1>2, <1>6, DrainStructure, DrainBooks DEF IInv
<1>7. CASE UNCHANGED vars
  BY <1>1, <1>7
     DEF vars, permitVars, clientVars, IInv, Structure, TypeOK, PermitTypeOK,
         QueueOK, GrantsOK, Handoff, LocalsOK, Sleepers, Books, Conservation,
         WithinCeiling, Extant, Outstanding
<1> QED BY <1>1, <1>3, <1>4, <1>5, <1>6, <1>7 DEF Next

\* The strengthened invariant holds throughout.
THEOREM PermitsInvariant == Spec => []IInv
BY InitInv, NextInv, PTL DEF Spec

\* Type correctness of the permit set (permit.go): in particular the debt is
\* never negative and the channel never over-full, whatever the clients do.
THEOREM TypeCorrect == Spec => []TypeOK
<1>1. IInv => TypeOK
  BY DEF IInv, Structure
<1> QED BY <1>1, PermitsInvariant, PTL

\* No permit is lost or invented by any interleaving of acquire, release, resize
\* and drain, for any number of goroutines.
THEOREM PermitsConserved == Spec => []Conservation
<1>1. IInv => Conservation
  BY DEF IInv, Books
<1> QED BY <1>1, PermitsInvariant, PTL

\* The number of permits in existence never passes the channel's capacity.
THEOREM PermitsWithinCeiling == Spec => []WithinCeiling
<1>1. IInv => WithinCeiling
  BY DEF IInv, Books
<1> QED BY <1>1, PermitsInvariant, PTL

\* The token-dropping default branches of release and resize are dead code.
THEOREM NoTokenIsDropped == Spec => []NoTokenDropped
<1>1. ASSUME IInv PROVE NoTokenDropped
  <2> DEFINE n == Cardinality(Outstanding)
  <2>1. Structure /\ Books
    BY <1>1 DEF IInv
  <2>2. /\ n \in Nat /\ IsFiniteSet(Outstanding)
    BY <2>1, OutstandingFinite
  <2>3. /\ tokens \in 0 .. Ceiling /\ Ceiling \in Nat /\ limit \in 0 .. Ceiling
        /\ debt \in Nat /\ resizeLeft \in Int /\ reclaimed \in Nat
    BY <2>1, CeilingAssumption DEF Structure, TypeOK, PermitTypeOK
  <2>4. CASE resizeAt = "send"
    <3>1. resizeLeft > 0 /\ debt = 0
      BY <2>1, <2>4 DEF Structure, LocalsOK
    <3>2. tokens < Ceiling
      BY <2>1, <2>2, <2>3, <3>1 DEF Books, Conservation, Extant
    <3> QED BY <3>2 DEF NoTokenDropped, Room
  <2>5. CASE \E p \in Holders : pc[p] = "sending"
    <3>1. Outstanding # {}
      BY <2>5 DEF Outstanding
    <3>2. n # 0
      BY <2>2, <3>1, FS_EmptySet
    <3>3. tokens < Ceiling
      BY <2>1, <2>2, <2>3, <3>2 DEF Books, WithinCeiling, Extant
    <3> QED BY <3>3 DEF NoTokenDropped, Room
  <2> QED BY <2>4, <2>5 DEF NoTokenDropped
<1> QED BY <1>1, PermitsInvariant, PTL
=============================================================================
