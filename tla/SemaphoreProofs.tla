-------------------------- MODULE SemaphoreProofs ---------------------------
(***************************************************************************)
(* Proofs about Semaphore (and the Scheduler inside it), for any number of *)
(* processes and semaphores.                                               *)
(*                                                                         *)
(* PlaceInv is the inductive invariant: no queue holds a process twice, no *)
(* two queues share one, everything in a queue is alive, a parent waits    *)
(* for one child and is in no queue, the idle process is running or ready, *)
(* and the state field agrees with the queue.  Every action is shown to    *)
(* preserve it; TypeOK, AlwaysSomethingToRun, StateMatchesQueue and        *)
(* EveryProcessInOnePlace follow.                                          *)
(*                                                                         *)
(* Then waking up: a semaphore never leaves its first waiter waiting for   *)
(* units that are there, a sleeper sleeps exactly as long as it asked for, *)
(* and the units handed to waiters are neither lost nor made.              *)
(***************************************************************************)
EXTENDS Semaphore, DataLemmas

(* The queue lemmas of DataLemmas, for queues of processes. *)
LEMMA AppendDistinct ==
    ASSUME NEW q \in Seq(Proc), NEW p \in Proc, IsInjective(q), p \notin Range(q)
    PROVE  /\ Append(q, p) \in Seq(Proc)
           /\ Append(q, p) # <<>>
           /\ IsInjective(Append(q, p))
           /\ Range(Append(q, p)) = Range(q) \cup {p}
BY AppendNew

LEMMA PopDistinct ==
    ASSUME NEW q \in Seq(Proc), q # <<>>, IsInjective(q)
    PROVE  /\ Head(q) \in Proc
           /\ Head(q) \in Range(q)
           /\ Tail(q) \in Seq(Proc)
           /\ IsInjective(Tail(q))
           /\ Range(Tail(q)) = Range(q) \ {Head(q)}
BY PopFirst

LEMMA SplitDistinct ==
    ASSUME NEW q \in Seq(Proc), IsInjective(q), NEW n \in 0..Len(q)
    PROVE  LET a == SubSeq(q, 1, n)
               b == SubSeq(q, n + 1, Len(q))
           IN  /\ a \in Seq(Proc) /\ Len(a) = n
               /\ b \in Seq(Proc) /\ Len(b) = Len(q) - n
               /\ \A i \in 1..n : a[i] = q[i]
               /\ \A i \in 1..Len(q) - n : b[i] = q[n + i]
               /\ IsInjective(a) /\ IsInjective(b)
               /\ Range(a) \cup Range(b) = Range(q)
               /\ Range(a) \cap Range(b) = {}
BY CutInTwo, Zenon

LEMMA ConcatDistinct ==
    ASSUME NEW a \in Seq(Proc), NEW b \in Seq(Proc),
           IsInjective(a), IsInjective(b), Range(a) \cap Range(b) = {}
    PROVE  /\ a \o b \in Seq(Proc)
           /\ IsInjective(a \o b)
           /\ Range(a \o b) = Range(a) \cup Range(b)
BY JoinApart

-----------------------------------------------------------------------------
(***************************************************************************)
(* The inductive invariant.  A process's state field decides its queue;    *)
(* the running, the dead, the parked and the dropped share ACTIVE.         *)
(***************************************************************************)
Distinct ==
    /\ IsInjective(ready)
    /\ IsInjective(sleepq)
    /\ IsInjective(deleteq)
    /\ \A s \in Sem : IsInjective(waitq[s])

ReadyInv == \A p \in Proc : p \in Range(ready) <=> p \in alive /\ pstate[p] = "READY"

SleepingInv == \A p \in Proc : p \in Range(sleepq) <=> p \in alive /\ pstate[p] = "SLEEP"

BlockedInv ==
    /\ \A s \in Sem : \A p \in Range(waitq[s]) : p \in alive /\ pstate[p] = "BLOCK"
    /\ \A p \in alive : pstate[p] = "BLOCK" => \E s \in Sem : p \in Range(waitq[s])
    /\ \A s, t \in Sem : \A p \in Proc : p \in Range(waitq[s]) /\ p \in Range(waitq[t]) => s = t

(* p is neither dead nor dropped, and its state field says ACTIVE. *)
Suspended(p) ==
    p \in alive /\ pstate[p] = "ACTIVE" /\ p \notin Range(deleteq) /\ p \notin dropped

RunningInv ==
    /\ current \in Proc
    /\ Suspended(current)
    /\ \A c \in Children : attachedFrom[c] # current

DeadInv ==
    /\ \A p \in Range(deleteq) : p \in alive /\ pstate[p] = "ACTIVE" /\ p \notin dropped
    /\ \A p \in dropped : p \in alive /\ pstate[p] = "ACTIVE"

ParkedInv ==
    /\ \A c \in Children : attachedFrom[c] # NULL => Suspended(attachedFrom[c])
    /\ \A c, d \in Children :
          attachedFrom[c] = attachedFrom[d] /\ attachedFrom[c] # NULL => c = d
    /\ \A p \in alive : Suspended(p) /\ p # current
          => \E c \in Children : attachedFrom[c] = p

IdleInv == Idle \in alive /\ (current = Idle \/ pstate[Idle] = "READY")

PlaceInv ==
    /\ Distinct
    /\ ReadyInv
    /\ SleepingInv
    /\ BlockedInv
    /\ RunningInv
    /\ DeadInv
    /\ ParkedInv
    /\ IdleInv
-----------------------------------------------------------------------------
(* ToNextProcess keeps the types of what it assigns. *)
LEMMA ToNextProcessType ==
    ASSUME NEW rq \in Seq(Proc), NEW st \in [Proc -> States], ToNextProcess(rq, st)
    PROVE  /\ current' \in Proc \cup {NULL}
           /\ ready' \in Seq(Proc)
           /\ pstate' \in [Proc -> States]
<1>1. CASE rq = <<>>
  BY <1>1, EmptySeq DEF ToNextProcess
<1>2. CASE rq # <<>>
  <2>1. Head(rq) \in Proc /\ Tail(rq) \in Seq(Proc)
    BY <1>2, HeadTailProperties
  <2> QED
    BY <1>2, <2>1 DEF ToNextProcess, States
<1> QED
  BY <1>1, <1>2

(* A prefix and the rest of a queue are queues. *)
LEMMA CutType ==
    ASSUME NEW q \in Seq(Proc), NEW n \in 0..Len(q)
    PROVE  SubSeq(q, 1, n) \in Seq(Proc) /\ SubSeq(q, n + 1, Len(q)) \in Seq(Proc)
<1>1. Len(q) \in Nat /\ \A i \in 1..Len(q) : q[i] \in Proc
  BY LenProperties, ElementOfSeq
<1>2. \A i \in 1..n : q[i] \in Proc
  BY <1>1
<1>3. \A i \in n + 1..Len(q) : q[i] \in Proc
  BY <1>1
<1> QED
  BY <1>1, <1>2, <1>3, SubSeqProperties

(* The sorted queue after an insertion is a queue. *)
LEMMA SortedPushType ==
    ASSUME NEW q \in Seq(Proc), NEW p \in Proc, NEW ticks, NEW r, SortedPush(q, p, ticks, r)
    PROVE  r \in Seq(Proc)
<1>1. PICK i \in 1..Len(q) + 1 : r = SubSeq(q, 1, i-1) \o <<p>> \o SubSeq(q, i, Len(q))
  BY DEF SortedPush
<1>2. Len(q) \in Nat
  BY LenProperties
<1>3. i - 1 \in 0..Len(q) /\ (i - 1) + 1 = i
  BY <1>2
<1>4. SubSeq(q, 1, i-1) \in Seq(Proc) /\ SubSeq(q, i, Len(q)) \in Seq(Proc)
  BY <1>3, CutType
<1>5. <<p>> \in Seq(Proc)
  OBVIOUS
<1> QED
  BY <1>1, <1>4, <1>5, ConcatProperties

(* The fields process_new fills in keep their types. *)
NewProcessType(p) ==
    /\ alive' \subseteq Proc
    /\ aliveTicks' \in [Proc -> 0..PROCESS_ALIVE_TICKS - 1]
    /\ sleepTicks' \in [Proc -> Nat]

LEMMA NewProcessTypes ==
    ASSUME TypeOK, NEW p \in Proc, NewProcess(p)
    PROVE  NewProcessType(p)
<1>1. 0 \in 0..PROCESS_ALIVE_TICKS - 1
  BY SliceAssumption
<1>2. aliveTicks' \in [Proc -> 0..PROCESS_ALIVE_TICKS - 1]
  BY <1>1 DEF NewProcess, TypeOK
<1>3. sleepTicks' \in [Proc -> Nat] /\ alive' \subseteq Proc
  BY DEF NewProcess, TypeOK
<1> QED
  BY <1>2, <1>3 DEF NewProcessType

(* Every variable keeps its type: the type invariant of the composed       *)
(* scheduler and semaphores, for any number of processes and semaphores.   *)
THEOREM TypeCorrect == Spec => []TypeOK
<1> USE ProcAssumption, SliceAssumption, SleepAssumption, SemAssumption
<1>1. Init => TypeOK
  <2> SUFFICES ASSUME Init PROVE TypeOK
    OBVIOUS
  <2>1. ready \in Seq(Proc) /\ sleepq \in Seq(Proc) /\ deleteq \in Seq(Proc)
    BY DEF Init, SchedInit
  <2>2. waitq \in [Sem -> Seq(Proc)]
    BY DEF Init
  <2> QED
    BY <2>1, <2>2 DEF Init, SchedInit, TypeOK, States
<1>2. TypeOK /\ [Next]_vars => TypeOK'
  <2> SUFFICES ASSUME TypeOK, [Next]_vars PROVE TypeOK'
    OBVIOUS
  <2>1. ASSUME NEW p \in Proc, Spawn(p), UNCHANGED semVars PROVE TypeOK'
    <3>1. ready' \in Seq(Proc)
      BY <2>1, AppendProperties DEF Spawn, TypeOK
    <3>2. NewProcessType(p)
      BY <2>1, NewProcessTypes DEF Spawn
    <3>3. attachedFrom' \in [Proc -> Proc \cup {NULL}] /\ pstate' \in [Proc -> States]
      BY <2>1 DEF Spawn, TypeOK, States
    <3> QED
      BY <2>1, <3>1, <3>2, <3>3 DEF Spawn, NewProcessType, semVars, TypeOK
  <2>2. ASSUME NEW p \in Proc, SpawnAttached(p), UNCHANGED semVars PROVE TypeOK'
    <3>1. Append(ready, p) \in Seq(Proc) /\ [pstate EXCEPT ![p] = "READY"] \in [Proc -> States]
      BY AppendProperties DEF TypeOK, States
    <3>2. /\ current' \in Proc \cup {NULL} /\ ready' \in Seq(Proc)
          /\ pstate' \in [Proc -> States]
      BY <2>2, <3>1, ToNextProcessType DEF SpawnAttached
    <3>3. NewProcessType(p)
      BY <2>2, NewProcessTypes DEF SpawnAttached
    <3>4. attachedFrom' \in [Proc -> Proc \cup {NULL}]
      BY <2>2 DEF SpawnAttached, TypeOK
    <3> QED
      BY <2>2, <3>2, <3>3, <3>4 DEF SpawnAttached, NewProcessType, semVars, TypeOK
  <2>3. ASSUME NEW addBack \in BOOLEAN, Yield(addBack), UNCHANGED semVars PROVE TypeOK'
    <3>1. current \in Proc
      BY <2>3 DEF Yield, Running
    <3>2. /\ Append(ready, current) \in Seq(Proc)
          /\ [pstate EXCEPT ![current] = "READY"] \in [Proc -> States]
      BY <3>1, AppendProperties DEF TypeOK, States
    <3>3. /\ current' \in Proc \cup {NULL} /\ ready' \in Seq(Proc)
          /\ pstate' \in [Proc -> States]
      BY <2>3, <3>2, ToNextProcessType DEF Yield, TypeOK
    <3> QED
      BY <2>3, <3>1, <3>3 DEF Yield, semVars, TypeOK
  <2>4. ASSUME NEW ticks \in SleepRequests, SetSleep(ticks), UNCHANGED semVars PROVE TypeOK'
    <3>1. current \in Proc
      BY <2>4 DEF SetSleep, Running
    <3>2. [pstate EXCEPT ![current] = "SLEEP"] \in [Proc -> States]
      BY <3>1 DEF TypeOK, States
    <3>3. /\ current' \in Proc \cup {NULL} /\ ready' \in Seq(Proc)
          /\ pstate' \in [Proc -> States]
      BY <2>4, <3>2, ToNextProcessType DEF SetSleep, TypeOK
    <3>4. sleepq' \in Seq(Proc)
      BY <2>4, <3>1, SortedPushType DEF SetSleep, TypeOK
    <3>5. sleepTicks' \in [Proc -> Nat] /\ remaining' \in [Proc -> Nat]
      <4>1. /\ sleepTicks' = [sleepTicks EXCEPT ![current] = ticks + globalSleep]
            /\ remaining' = [remaining EXCEPT ![current] = IF ticks = 0 THEN 1 ELSE ticks]
        BY <2>4 DEF SetSleep
      <4>2. ticks \in Nat /\ ticks + globalSleep \in Nat
        BY DEF TypeOK
      <4> QED
        BY <4>1, <4>2 DEF TypeOK
    <3> QED
      BY <2>4, <3>3, <3>4, <3>5 DEF SetSleep, semVars, TypeOK
  <2>5. ASSUME Kill, UNCHANGED semVars PROVE TypeOK'
    <3>1. CASE current = Idle
      BY <2>5, <3>1 DEF Kill, schedVars, semVars, TypeOK
    <3>2. CASE current # Idle
      <4>1. current \in Proc /\ KillCurrent
        BY <2>5, <3>2 DEF Kill, TypeOK
      <4> DEFINE parent == attachedFrom[current]
      <4>2. parent # NULL => /\ Append(ready, parent) \in Seq(Proc)
                             /\ [pstate EXCEPT ![parent] = "READY"] \in [Proc -> States]
        BY <4>1, AppendProperties DEF TypeOK, States
      <4>3. /\ current' \in Proc \cup {NULL} /\ ready' \in Seq(Proc)
            /\ pstate' \in [Proc -> States]
        BY <4>1, <4>2, ToNextProcessType DEF KillCurrent, TypeOK
      <4>4. deleteq' \in Seq(Proc)
        BY <4>1, AppendProperties DEF KillCurrent, TypeOK
      <4> QED
        BY <2>5, <4>1, <4>3, <4>4 DEF KillCurrent, semVars, TypeOK
    <3> QED
      BY <3>1, <3>2
  <2>6. ASSUME Tick, UNCHANGED semVars PROVE TypeOK'
    <3>1. current \in Proc
      BY <2>6 DEF Tick, TypeOK
    <3>2. PICK n \in 0..Len(sleepq) :
            LET woken == SubSeq(sleepq, 1, n)
                rq    == ready \o woken
                st    == [p \in Proc |-> IF p \in Range(woken) THEN "READY" ELSE pstate[p]]
            IN /\ WakeSleepers(n)
               /\ IF SliceOver(aliveTicks'[current])
                  THEN ToNextProcess(Append(rq, current), [st EXCEPT ![current] = "READY"])
                  ELSE /\ ready' = rq
                       /\ pstate' = st
                       /\ UNCHANGED current
      BY <2>6 DEF Tick
    <3> DEFINE woken == SubSeq(sleepq, 1, n)
               rq    == ready \o woken
               st    == [p \in Proc |-> IF p \in Range(woken) THEN "READY" ELSE pstate[p]]
    <3>3. /\ woken \in Seq(Proc)
          /\ SubSeq(sleepq, n + 1, Len(sleepq)) \in Seq(Proc)
      BY CutType DEF TypeOK
    <3>4. rq \in Seq(Proc)
      BY <3>3, ConcatProperties DEF TypeOK
    <3>5. Append(rq, current) \in Seq(Proc)
      BY <3>4, <3>1, AppendProperties
    <3>6. st \in [Proc -> States]
      BY DEF TypeOK, States
    <3>7. [st EXCEPT ![current] = "READY"] \in [Proc -> States]
      BY <3>6, <3>1 DEF States
    <3> HIDE DEF rq, st, woken
    <3>8. /\ current' \in Proc \cup {NULL} /\ ready' \in Seq(Proc)
          /\ pstate' \in [Proc -> States]
      <4>1. CASE SliceOver(aliveTicks'[current])
        <5>1. ToNextProcess(Append(rq, current), [st EXCEPT ![current] = "READY"])
          BY <3>2, <4>1 DEF rq, st, woken
        <5> QED
          BY <5>1, <3>5, <3>7, ToNextProcessType
      <4>2. CASE ~SliceOver(aliveTicks'[current])
        <5>1. ready' = rq /\ pstate' = st /\ current' = current
          BY <3>2, <4>2 DEF rq, st, woken
        <5> QED
          BY <5>1, <3>1, <3>4, <3>6
      <4> QED
        BY <4>1, <4>2
    <3>9. sleepq' \in Seq(Proc) /\ globalSleep' \in Nat
      <4>1. WakeSleepers(n)
        BY <3>2
      <4>2. sleepq' = sleepq \/ sleepq' = SubSeq(sleepq, n + 1, Len(sleepq))
        BY <4>1 DEF WakeSleepers
      <4>3. globalSleep' \in {globalSleep, 0, globalSleep + 1}
        BY <4>1 DEF WakeSleepers
      <4>4. sleepq \in Seq(Proc) /\ globalSleep \in Nat
        BY DEF TypeOK
      <4>5. sleepq' \in Seq(Proc)
        BY <3>3, <4>2, <4>4
      <4>6. globalSleep' \in Nat
        BY <4>3, <4>4
      <4> QED
        BY <4>5, <4>6
    <3>10. deleteq' \in Seq(Proc)
      BY <2>6, EmptySeq DEF Tick
    <3>11. aliveTicks' \in [Proc -> 0..PROCESS_ALIVE_TICKS - 1]
      <4>1. \A t \in Nat : AfterTick(t) \in 0..PROCESS_ALIVE_TICKS - 1
        BY DEF AfterTick
      <4>2. aliveTicks[current] \in Nat
        BY <3>1 DEF TypeOK
      <4> QED
        BY <2>6, <4>1, <4>2 DEF Tick, TypeOK
    <3>12. remaining' \in [Proc -> Nat]
      <4>1. remaining' = [p \in Proc |-> IF remaining[p] > 0 THEN remaining[p] - 1 ELSE 0]
        BY <2>6 DEF Tick
      <4>2. remaining \in [Proc -> Nat]
        BY DEF TypeOK
      <4>3. \A p \in Proc : (IF remaining[p] > 0 THEN remaining[p] - 1 ELSE 0) \in Nat
        BY <4>2
      <4> QED
        BY <4>1, <4>3
    <3> QED
      BY <2>6, <3>8, <3>9, <3>10, <3>11, <3>12 DEF Tick, semVars, TypeOK
  <2>7. ASSUME NEW s \in Sem, NEW n \in Requests, Acquire(s, n) PROVE TypeOK'
    <3>1. current \in Proc
      BY <2>7 DEF Acquire, Running
    <3>2. CASE count[s] >= n
      <4>1. /\ count' = [count EXCEPT ![s] = @ - n]
            /\ holds' = [holds EXCEPT ![current][s] = @ + n]
            /\ UNCHANGED <<schedVars, waitq, wanted>>
        BY <2>7, <3>2 DEF Acquire
      <4>2. count[s] \in 0..COUNT_MOD - 1 /\ n \in 0..COUNT_MOD - 1
        BY DEF TypeOK
      <4>3. count[s] - n \in 0..COUNT_MOD - 1
        BY <3>2, <4>2
      <4>4. count' \in [Sem -> 0..COUNT_MOD - 1]
        BY <4>1, <4>3 DEF TypeOK
      <4>5. holds' \in [Proc -> [Sem -> Int]]
        <5>0. holds \in [Proc -> [Sem -> Int]]
          BY DEF TypeOK
        <5>1. holds \in [Proc -> [Sem -> Int]] /\ holds[current][s] \in Int
          BY <5>0, <3>1
        <5>2. holds[current][s] + n \in Int
          BY <4>2, <5>1
        <5> QED
          BY <4>1, <5>1, <5>2, <3>1
      <4> QED
        BY <4>1, <4>4, <4>5 DEF schedVars, TypeOK
    <3>3. CASE ~(count[s] >= n)
      <4>1. [pstate EXCEPT ![current] = "BLOCK"] \in [Proc -> States]
        BY <3>1 DEF TypeOK, States
      <4>2. /\ current' \in Proc \cup {NULL} /\ ready' \in Seq(Proc)
            /\ pstate' \in [Proc -> States]
        BY <2>7, <3>3, <4>1, ToNextProcessType DEF Acquire, TypeOK
      <4>3. waitq' \in [Sem -> Seq(Proc)]
        <5>1. waitq' = [waitq EXCEPT ![s] = Append(@, current)]
          BY <2>7, <3>3 DEF Acquire
        <5>2. Append(waitq[s], current) \in Seq(Proc)
          BY <3>1, AppendProperties DEF TypeOK
        <5> QED
          BY <5>1, <5>2 DEF TypeOK
      <4>4. wanted' \in [Proc -> 0..COUNT_MOD - 1]
        BY <2>7, <3>1, <3>3 DEF Acquire, TypeOK
      <4> QED
        BY <2>7, <3>3, <4>2, <4>3, <4>4 DEF Acquire, TypeOK
    <3> QED
      BY <3>2, <3>3
  <2>8. ASSUME NEW s \in Sem, NEW n \in Requests, Release(s, n) PROVE TypeOK'
    <3>1. current \in Proc
      BY <2>8 DEF Release, Running
    <3> DEFINE available == (count[s] + n) % COUNT_MOD
    <3>2. PICK k \in 0..Len(waitq[s]) :
             /\ Serves(s, available, k)
             /\ count' = [count EXCEPT ![s] = available - UnitsFor(s, k)]
             /\ waitq' = [waitq EXCEPT ![s] = SubSeq(@, k + 1, Len(@))]
             /\ ready' = ready \o SubSeq(waitq[s], 1, k)
             /\ pstate' = [p \in Proc |-> IF p \in Range(SubSeq(waitq[s], 1, k))
                                          THEN "READY" ELSE pstate[p]]
             /\ holds' = [p \in Proc |-> [holds[p] EXCEPT ![s] =
                             @ + (IF p \in Range(SubSeq(waitq[s], 1, k)) THEN wanted[p] ELSE 0)
                               - (IF p = current THEN n ELSE 0)]]
      BY <2>8 DEF Release
    <3>3. available \in 0..COUNT_MOD - 1
      <4>0. count[s] \in 0..COUNT_MOD - 1 /\ n \in 0..COUNT_MOD - 1
        BY DEF TypeOK
      <4>1. count[s] + n \in Nat
        BY <4>0
      <4> QED
        BY <4>1
    <3> HIDE DEF available
    <3>4. count' \in [Sem -> 0..COUNT_MOD - 1]
      <4>1. UnitsFor(s, k) \in 0..available
        BY <3>2 DEF Serves
      <4>2. available - UnitsFor(s, k) \in 0..COUNT_MOD - 1
        BY <3>3, <4>1
      <4> QED
        BY <3>2, <4>2 DEF TypeOK
    <3>5. waitq[s] \in Seq(Proc)
      BY DEF TypeOK
    <3>6. /\ SubSeq(waitq[s], 1, k) \in Seq(Proc)
          /\ SubSeq(waitq[s], k + 1, Len(waitq[s])) \in Seq(Proc)
      BY <3>5, CutType
    <3>7. ready' \in Seq(Proc) /\ waitq' \in [Sem -> Seq(Proc)]
      BY <3>2, <3>6, ConcatProperties DEF TypeOK
    <3>8. pstate' \in [Proc -> States]
      BY <3>2 DEF TypeOK, States
    <3>9. holds' \in [Proc -> [Sem -> Int]]
      <4> DEFINE got(p) == IF p \in Range(SubSeq(waitq[s], 1, k)) THEN wanted[p] ELSE 0
                 gave(p) == IF p = current THEN n ELSE 0
      <4>1. ASSUME NEW p \in Proc
            PROVE  [holds[p] EXCEPT ![s] = @ + got(p) - gave(p)] \in [Sem -> Int]
        <5>1. holds[p] \in [Sem -> Int] /\ got(p) \in Int /\ gave(p) \in Int
          BY DEF TypeOK
        <5> HIDE DEF got, gave
        <5> QED
          BY <5>1
      <4> QED
        BY <3>2, <4>1
    <3> QED
      BY <2>8, <3>4, <3>7, <3>8, <3>9 DEF Release, TypeOK
  <2>9. CASE UNCHANGED vars
    BY <2>9 DEF vars, schedVars, semVars, TypeOK
  <2> QED
    BY <2>1, <2>2, <2>3, <2>4, <2>5, <2>6, <2>7, <2>8, <2>9 DEF Next, SchedNext
<1> QED
  BY <1>1, <1>2, PTL DEF Spec

-----------------------------------------------------------------------------
(* What ToNextProcess does to the ready queue, in terms of sets: it takes   *)
(* one ready process out and makes it the running one.                      *)
LEMMA ToNextProcessPlace ==
    ASSUME NEW rq \in Seq(Proc), IsInjective(rq), rq # <<>>,
           NEW st \in [Proc -> States], NEW A,
           \A p \in Proc : p \in Range(rq) <=> p \in A /\ st[p] = "READY",
           ToNextProcess(rq, st)
    PROVE  /\ current' \in Proc
           /\ current' \in A
           /\ st[current'] = "READY"
           /\ IsInjective(ready')
           /\ pstate' = [st EXCEPT ![current'] = "ACTIVE"]
           /\ \A p \in Proc : p \in Range(ready') <=> p \in A /\ pstate'[p] = "READY"
<1>1. /\ current' = Head(rq)
      /\ ready' = Tail(rq)
      /\ pstate' = [st EXCEPT ![Head(rq)] = "ACTIVE"]
  BY DEF ToNextProcess
<1>2. /\ Head(rq) \in Proc
      /\ Head(rq) \in Range(rq)
      /\ IsInjective(Tail(rq))
      /\ Range(Tail(rq)) = Range(rq) \ {Head(rq)}
  BY PopDistinct
<1>3. \A p \in Proc : p \in Range(ready') <=> p \in A /\ pstate'[p] = "READY"
  BY <1>1, <1>2 DEF States
<1> QED
  BY <1>1, <1>2, <1>3

(* While another process runs, the idle process is in the ready queue. *)
LEMMA ReadyNonEmpty ==
    ASSUME TypeOK, ReadyInv, IdleInv, current # Idle
    PROVE  ready # <<>>
<1>1. Idle \in Range(ready)
  BY ProcAssumption DEF ReadyInv, IdleInv
<1>2. Range(<<>>) = {}
  BY DEF Range
<1> QED
  BY <1>1, <1>2

(* The blocked processes stay as they are when no queue of waiters and no   *)
(* BLOCK state changes.                                                     *)
LEMMA BlockedFrame ==
    ASSUME BlockedInv, TypeOK, waitq' = waitq, alive' \subseteq Proc,
           \A p \in Proc : p \in alive' /\ pstate'[p] = "BLOCK" <=> p \in alive /\ pstate[p] = "BLOCK"
    PROVE  BlockedInv'
<1>1. \A s \in Sem : \A p \in Range(waitq[s]) : p \in Proc
  BY LenProperties DEF TypeOK, Range
<1> QED
  BY <1>1 DEF BlockedInv, TypeOK

(* The same for the sleepers. *)
LEMMA SleepingFrame ==
    ASSUME SleepingInv, sleepq' = sleepq,
           \A p \in Proc : p \in alive' /\ pstate'[p] = "SLEEP" <=> p \in alive /\ pstate[p] = "SLEEP"
    PROVE  SleepingInv'
BY DEF SleepingInv

(* A spawned process goes to the ready queue, its creator keeps running. *)
LEMMA SpawnPlace ==
    ASSUME TypeOK, PlaceInv, NEW p \in Proc, Spawn(p), UNCHANGED semVars
    PROVE  PlaceInv'
<1>1. /\ p \notin alive /\ alive' = alive \cup {p}
      /\ attachedFrom' = [attachedFrom EXCEPT ![p] = NULL]
      /\ pstate' = [pstate EXCEPT ![p] = "READY"]
      /\ ready' = Append(ready, p)
      /\ current' = current /\ sleepq' = sleepq /\ deleteq' = deleteq /\ dropped' = dropped
      /\ waitq' = waitq
  BY DEF Spawn, NewProcess, semVars
<1>2. p \notin Range(ready)
  BY <1>1 DEF PlaceInv, ReadyInv
<1>3. IsInjective(ready') /\ Range(ready') = Range(ready) \cup {p}
  BY <1>1, <1>2, AppendDistinct DEF PlaceInv, Distinct, TypeOK
<1>4. /\ p # current /\ p # Idle /\ p \notin Range(deleteq) /\ p \notin dropped
      /\ \A c \in Children : attachedFrom[c] # p /\ c # p
  BY <1>1, ProcAssumption DEF PlaceInv, RunningInv, Suspended, IdleInv, DeadInv, ParkedInv, Children
<1>5. Children' = Children \cup {p}
  BY <1>1, <1>4 DEF Children
<1>7. Distinct'
  BY <1>1, <1>3 DEF PlaceInv, Distinct
<1>8. ReadyInv'
  BY <1>1, <1>3 DEF PlaceInv, ReadyInv, TypeOK, States
<1>9. SleepingInv'
  BY <1>1, SleepingFrame DEF PlaceInv, TypeOK, States
<1>10. BlockedInv'
  BY <1>1, BlockedFrame DEF PlaceInv, TypeOK, States
<1>20. /\ \A c \in Children : attachedFrom'[c] = attachedFrom[c] /\ attachedFrom[c] \in Proc \cup {NULL}
       /\ attachedFrom'[p] = NULL
  BY <1>1, <1>4 DEF TypeOK, Children
<1>11. RunningInv'
  <2>1. \A c \in Children' : attachedFrom'[c] # current'
    BY <1>1, <1>5, <1>20, ProcAssumption DEF PlaceInv, RunningInv
  <2>2. Suspended(current)'
    BY <1>1, <1>4 DEF PlaceInv, RunningInv, Suspended, TypeOK, States
  <2> QED
    BY <1>1, <2>1, <2>2 DEF PlaceInv, RunningInv
<1>12. DeadInv'
  BY <1>1, <1>4 DEF PlaceInv, DeadInv, TypeOK, States
<1>13. ParkedInv'
  <2>1. ASSUME NEW c \in Children', attachedFrom'[c] # NULL
        PROVE  Suspended(attachedFrom[c])'
    <3>1. c \in Children /\ attachedFrom'[c] = attachedFrom[c] /\ attachedFrom[c] \in Proc
      BY <2>1, <1>5, <1>20
    <3>2. Suspended(attachedFrom[c])
      BY <2>1, <3>1 DEF PlaceInv, ParkedInv
    <3> QED
      BY <1>1, <1>4, <3>1, <3>2 DEF Suspended, TypeOK, States
  <2>2. \A c, d \in Children' :
          attachedFrom'[c] = attachedFrom'[d] /\ attachedFrom'[c] # NULL => c = d
    BY <1>5, <1>20 DEF PlaceInv, ParkedInv
  <2>3. ASSUME NEW x \in alive', Suspended(x)', x # current'
        PROVE  \E c \in Children' : attachedFrom'[c] = x
    <3>1. x \in alive /\ Suspended(x) /\ x # current
      BY <2>3, <1>1, <1>4 DEF Suspended, TypeOK, States
    <3>2. PICK c \in Children : attachedFrom[c] = x
      BY <3>1 DEF PlaceInv, ParkedInv
    <3> QED
      BY <3>2, <1>5, <1>20
  <2> QED
    BY <2>1, <2>2, <2>3 DEF ParkedInv
<1>14. IdleInv'
  BY <1>1, <1>4, ProcAssumption DEF PlaceInv, IdleInv, TypeOK
<1> QED
  BY <1>7, <1>8, <1>9, <1>10, <1>11, <1>12, <1>13, <1>14 DEF PlaceInv

(* The running process changes its state to v (READY, SLEEP or BLOCK) and   *)
(* the next ready one runs: what holds of the places in every such switch.  *)
LEMMA SwitchPlace ==
    ASSUME TypeOK, PlaceInv,
           alive' = alive, deleteq' = deleteq, dropped' = dropped, attachedFrom' = attachedFrom,
           NEW v \in {"READY", "SLEEP", "BLOCK"},
           current # Idle \/ v = "READY",
           NEW st, st = [pstate EXCEPT ![current] = v],
           NEW rq \in Seq(Proc), IsInjective(rq), rq # <<>>,
           \A p \in Proc : p \in Range(rq) <=> p \in alive /\ st[p] = "READY",
           ToNextProcess(rq, st)
    PROVE  /\ IsInjective(ready') /\ ReadyInv' /\ RunningInv' /\ DeadInv' /\ ParkedInv' /\ IdleInv'
           /\ \A p \in Proc : pstate'[p] = "SLEEP" <=> st[p] = "SLEEP"
           /\ \A p \in Proc : pstate'[p] = "BLOCK" <=> st[p] = "BLOCK"
<1>1. current \in Proc /\ Suspended(current) /\ \A c \in Children : attachedFrom[c] # current
  BY DEF PlaceInv, RunningInv
<1>2. st \in [Proc -> States]
  BY DEF TypeOK, States
<1>3. /\ current' \in Proc /\ current' \in alive
      /\ st[current'] = "READY"
      /\ IsInjective(ready')
      /\ pstate' = [st EXCEPT ![current'] = "ACTIVE"]
      /\ \A p \in Proc : p \in Range(ready') <=> p \in alive /\ pstate'[p] = "READY"
  BY <1>2, ToNextProcessPlace
<1>4. \A p \in Proc : pstate'[p] = IF p = current' THEN "ACTIVE"
                                   ELSE IF p = current THEN v ELSE pstate[p]
  BY <1>1, <1>2, <1>3 DEF TypeOK
<1>5. st[current'] = IF current' = current THEN v ELSE pstate[current']
  BY <1>1, <1>3 DEF TypeOK
<1>6. Children' = Children
  BY DEF Children
<1>7. ReadyInv'
  BY <1>3 DEF ReadyInv
<1>8. RunningInv'
  <2>1. current' \notin Range(deleteq) /\ current' \notin dropped
    BY <1>1, <1>3, <1>5 DEF PlaceInv, DeadInv, Suspended
  <2>2. Suspended(current)'
    BY <1>3, <1>4, <2>1 DEF Suspended
  <2>3. \A c \in Children : attachedFrom[c] # current'
    BY <1>1, <1>3, <1>5, ProcAssumption DEF PlaceInv, ParkedInv, Suspended
  <2> QED
    BY <1>3, <1>6, <2>2, <2>3 DEF RunningInv
<1>9. DeadInv'
  <2>1. \A p \in Range(deleteq) \cup dropped : p \in Proc /\ p \in alive /\ p # current /\ pstate[p] = "ACTIVE"
    BY <1>1 DEF PlaceInv, DeadInv, Suspended, TypeOK
  <2>2. \A p \in Range(deleteq) \cup dropped : pstate'[p] = "ACTIVE"
    BY <1>4, <2>1
  <2> QED
    BY <2>1, <2>2 DEF PlaceInv, DeadInv
<1>10. ParkedInv'
  <2>1. ASSUME NEW c \in Children', attachedFrom'[c] # NULL
        PROVE  Suspended(attachedFrom[c])'
    <3>1. Suspended(attachedFrom[c]) /\ attachedFrom[c] # current
      BY <2>1, <1>1, <1>6 DEF PlaceInv, ParkedInv
    <3>2. attachedFrom[c] \in Proc
      BY <3>1 DEF Suspended, TypeOK
    <3> QED
      BY <1>4, <3>1, <3>2 DEF Suspended
  <2>2. ASSUME NEW x \in alive', Suspended(x)', x # current'
        PROVE  \E c \in Children' : attachedFrom'[c] = x
    <3>1. x \in Proc
      BY <2>2 DEF TypeOK
    <3>2. x # current
      BY <1>4, <2>2, <3>1 DEF Suspended
    <3>3. Suspended(x)
      BY <1>4, <2>2, <3>1, <3>2 DEF Suspended
    <3> QED
      BY <1>6, <2>2, <3>2, <3>3 DEF PlaceInv, ParkedInv
  <2>3. \A c, d \in Children' :
          attachedFrom'[c] = attachedFrom'[d] /\ attachedFrom'[c] # NULL => c = d
    BY <1>6 DEF PlaceInv, ParkedInv
  <2> QED
    BY <2>1, <2>2, <2>3 DEF ParkedInv
<1>11. IdleInv'
  BY <1>4, ProcAssumption DEF PlaceInv, IdleInv
<1>12. \A p \in Proc : pstate'[p] = "SLEEP" <=> st[p] = "SLEEP"
  BY <1>2, <1>3
<1>13. \A p \in Proc : pstate'[p] = "BLOCK" <=> st[p] = "BLOCK"
  BY <1>2, <1>3
<1> QED
  BY <1>3, <1>7, <1>8, <1>9, <1>10, <1>11, <1>12, <1>13

(* A sorted insertion adds one element to a sequence without repetitions. *)
LEMMA SortedPushPlace ==
    ASSUME NEW q \in Seq(Proc), IsInjective(q), NEW p \in Proc, p \notin Range(q),
           NEW ticks, NEW r, SortedPush(q, p, ticks, r)
    PROVE  r \in Seq(Proc) /\ IsInjective(r) /\ Range(r) = Range(q) \cup {p}
<1>1. PICK i \in 1..Len(q) + 1 : r = SubSeq(q, 1, i-1) \o <<p>> \o SubSeq(q, i, Len(q))
  BY DEF SortedPush
<1>2. Len(q) \in Nat
  BY LenProperties
<1>3. i - 1 \in 0..Len(q) /\ (i - 1) + 1 = i
  BY <1>2
<1> DEFINE a == SubSeq(q, 1, i-1)
           b == SubSeq(q, i, Len(q))
<1>4. /\ a \in Seq(Proc) /\ b \in Seq(Proc) /\ IsInjective(a) /\ IsInjective(b)
      /\ Range(a) \cup Range(b) = Range(q) /\ Range(a) \cap Range(b) = {}
  BY <1>3, SplitDistinct
<1> HIDE DEF a, b
<1> DEFINE one == <<p>>
           ap == a \o one
<1>5. one \in Seq(Proc) /\ IsInjective(one) /\ Range(one) = {p}
  BY DEF IsInjective, Range
<1> HIDE DEF one
<1>6. Range(a) \cap Range(one) = {}
  BY <1>4, <1>5
<1>7. ap \in Seq(Proc) /\ IsInjective(ap) /\ Range(ap) = Range(a) \cup {p}
  BY <1>4, <1>5, <1>6, ConcatDistinct
<1> HIDE DEF ap
<1>8. Range(ap) \cap Range(b) = {}
  BY <1>4, <1>7
<1>9. ap \o b \in Seq(Proc) /\ IsInjective(ap \o b) /\ Range(ap \o b) = Range(ap) \cup Range(b)
  BY <1>4, <1>7, <1>8, ConcatDistinct
<1>10. r = ap \o b
  BY <1>1 DEF ap, one, a, b
<1> QED
  BY <1>4, <1>7, <1>9, <1>10

(* A process that yields with add_back goes to the end of the ready queue;  *)
(* without it, it is recorded as dropped.                                   *)
LEMMA YieldPlace ==
    ASSUME TypeOK, PlaceInv, NEW addBack \in BOOLEAN, Yield(addBack), UNCHANGED semVars
    PROVE  PlaceInv'
<1>1. /\ current \in Proc /\ current # Idle
      /\ alive' = alive /\ sleepq' = sleepq /\ deleteq' = deleteq
      /\ attachedFrom' = attachedFrom /\ waitq' = waitq
  BY DEF Yield, Running, semVars
<1>2. /\ Suspended(current) /\ current \notin Range(ready)
      /\ \A c \in Children : attachedFrom[c] # current
  BY <1>1 DEF PlaceInv, RunningInv, ReadyInv, Suspended
<1>3. CASE addBack
  <2> DEFINE rq == Append(ready, current)
             st == [pstate EXCEPT ![current] = "READY"]
  <2>1. ToNextProcess(rq, st) /\ dropped' = dropped
    BY <1>3 DEF Yield
  <2>2. rq \in Seq(Proc) /\ IsInjective(rq) /\ rq # <<>> /\ Range(rq) = Range(ready) \cup {current}
    BY <1>1, <1>2, AppendDistinct DEF PlaceInv, Distinct, TypeOK
  <2>3. \A p \in Proc : p \in Range(rq) <=> p \in alive /\ st[p] = "READY"
    BY <1>1, <1>2, <2>2 DEF PlaceInv, ReadyInv, Suspended, TypeOK
  <2>4. \A p \in Proc : (st[p] = "SLEEP" <=> pstate[p] = "SLEEP") /\ (st[p] = "BLOCK" <=> pstate[p] = "BLOCK")
    BY <1>1, <1>2 DEF Suspended, TypeOK
  <2> HIDE DEF rq
  <2>5. /\ IsInjective(ready') /\ ReadyInv' /\ RunningInv' /\ DeadInv' /\ ParkedInv' /\ IdleInv'
        /\ \A p \in Proc : pstate'[p] = "SLEEP" <=> st[p] = "SLEEP"
        /\ \A p \in Proc : pstate'[p] = "BLOCK" <=> st[p] = "BLOCK"
    BY <1>1, <2>1, <2>2, <2>3, SwitchPlace
  <2> HIDE DEF st
  <2>6. SleepingInv'
    BY <1>1, <2>4, <2>5, SleepingFrame DEF PlaceInv
  <2>7. BlockedInv'
    BY <1>1, <2>4, <2>5, BlockedFrame DEF PlaceInv, TypeOK
  <2> QED
    BY <1>1, <2>5, <2>6, <2>7 DEF PlaceInv, Distinct
<1>4. CASE ~addBack
  <2>1. ToNextProcess(ready, pstate) /\ dropped' = dropped \cup {current}
    BY <1>4 DEF Yield
  <2>2. ready # <<>>
    BY <1>1, ReadyNonEmpty DEF PlaceInv
  <2>3. /\ current' \in Proc /\ current' \in alive
        /\ pstate[current'] = "READY"
        /\ IsInjective(ready')
        /\ pstate' = [pstate EXCEPT ![current'] = "ACTIVE"]
        /\ \A p \in Proc : p \in Range(ready') <=> p \in alive /\ pstate'[p] = "READY"
    BY <2>1, <2>2, ToNextProcessPlace DEF PlaceInv, Distinct, ReadyInv, TypeOK
  <2>4. \A p \in Proc : pstate'[p] = IF p = current' THEN "ACTIVE" ELSE pstate[p]
    BY <2>3 DEF TypeOK
  <2>5. Children' = Children /\ current' # current
    BY <1>1, <1>2, <2>3 DEF Children, Suspended
  <2>6. SleepingInv'
    BY <1>1, <2>3, <2>4, SleepingFrame DEF PlaceInv
  <2>7. BlockedInv'
    BY <1>1, <2>3, <2>4, BlockedFrame DEF PlaceInv, TypeOK
  <2>8. RunningInv'
    <3>1. current' \notin Range(deleteq) /\ current' \notin dropped'
      BY <2>1, <2>3, <2>5 DEF PlaceInv, DeadInv
    <3>2. Suspended(current)'
      BY <1>1, <2>3, <2>4, <3>1 DEF Suspended
    <3>3. \A c \in Children : attachedFrom[c] # current'
      BY <2>3, ProcAssumption DEF PlaceInv, ParkedInv, Suspended
    <3> QED
      BY <1>1, <2>3, <2>5, <3>2, <3>3 DEF RunningInv
  <2>9. DeadInv'
    <3>1. \A p \in Range(deleteq) \cup dropped' : p \in Proc /\ p \in alive /\ pstate[p] = "ACTIVE"
      BY <1>2, <2>1 DEF PlaceInv, DeadInv, Suspended, TypeOK
    <3>2. \A p \in Range(deleteq) : p \notin dropped'
      BY <1>2, <2>1 DEF PlaceInv, DeadInv, Suspended
    <3> QED
      BY <1>1, <2>4, <3>1, <3>2 DEF DeadInv
  <2>10. ParkedInv'
    <3>1. ASSUME NEW c \in Children', attachedFrom'[c] # NULL
          PROVE  Suspended(attachedFrom[c])'
      <4>1. Suspended(attachedFrom[c]) /\ attachedFrom[c] # current
        BY <3>1, <1>1, <1>2, <2>5 DEF PlaceInv, ParkedInv
      <4>2. attachedFrom[c] \in Proc
        BY <4>1 DEF Suspended, TypeOK
      <4> QED
        BY <1>1, <2>1, <2>4, <4>1, <4>2 DEF Suspended
    <3>2. ASSUME NEW x \in alive', Suspended(x)', x # current'
          PROVE  \E c \in Children' : attachedFrom'[c] = x
      <4>1. x \in Proc /\ x # current /\ Suspended(x)
        BY <1>1, <2>1, <2>4, <3>2 DEF Suspended, TypeOK
      <4> QED
        BY <1>1, <2>5, <3>2, <4>1 DEF PlaceInv, ParkedInv
    <3>3. \A c, d \in Children' :
            attachedFrom'[c] = attachedFrom'[d] /\ attachedFrom'[c] # NULL => c = d
      BY <1>1, <2>5 DEF PlaceInv, ParkedInv
    <3> QED
      BY <3>1, <3>2, <3>3 DEF ParkedInv
  <2>11. IdleInv'
    BY <1>1, <2>4, ProcAssumption DEF PlaceInv, IdleInv
  <2> QED
    BY <1>1, <2>3, <2>6, <2>7, <2>8, <2>9, <2>10, <2>11 DEF PlaceInv, Distinct, ReadyInv
<1> QED
  BY <1>3, <1>4

(* A process that sleeps goes from the processor to the sleep queue. *)
LEMMA SetSleepPlace ==
    ASSUME TypeOK, PlaceInv, NEW ticks \in SleepRequests, SetSleep(ticks), UNCHANGED semVars
    PROVE  PlaceInv'
<1> DEFINE st == [pstate EXCEPT ![current] = "SLEEP"]
<1>1. /\ current \in Proc /\ current # Idle
      /\ alive' = alive /\ deleteq' = deleteq /\ dropped' = dropped
      /\ attachedFrom' = attachedFrom /\ waitq' = waitq
      /\ SortedPush(sleepq, current, sleepTicks', sleepq')
      /\ ToNextProcess(ready, st)
  BY DEF SetSleep, Running, semVars
<1>2. Suspended(current) /\ current \notin Range(ready) /\ current \notin Range(sleepq)
  BY <1>1 DEF PlaceInv, RunningInv, ReadyInv, SleepingInv, Suspended
<1>3. IsInjective(sleepq') /\ Range(sleepq') = Range(sleepq) \cup {current}
  BY <1>1, <1>2, SortedPushPlace DEF PlaceInv, Distinct, TypeOK
<1>4. ready # <<>> /\ ready \in Seq(Proc) /\ IsInjective(ready)
  BY <1>1, ReadyNonEmpty DEF PlaceInv, Distinct, TypeOK
<1>5. \A p \in Proc : p \in Range(ready) <=> p \in alive /\ st[p] = "READY"
  BY <1>1, <1>2 DEF PlaceInv, ReadyInv, Suspended, TypeOK
<1>6. \A p \in Proc : /\ st[p] = "SLEEP" <=> pstate[p] = "SLEEP" \/ p = current
                      /\ st[p] = "BLOCK" <=> pstate[p] = "BLOCK"
  BY <1>1, <1>2 DEF Suspended, TypeOK
<1>7. /\ IsInjective(ready') /\ ReadyInv' /\ RunningInv' /\ DeadInv' /\ ParkedInv' /\ IdleInv'
      /\ \A p \in Proc : pstate'[p] = "SLEEP" <=> st[p] = "SLEEP"
      /\ \A p \in Proc : pstate'[p] = "BLOCK" <=> st[p] = "BLOCK"
  BY <1>1, <1>4, <1>5, SwitchPlace
<1> HIDE DEF st
<1>8. SleepingInv'
  BY <1>1, <1>2, <1>3, <1>6, <1>7 DEF PlaceInv, SleepingInv, Suspended
<1>9. BlockedInv'
  BY <1>1, <1>6, <1>7, BlockedFrame DEF PlaceInv, TypeOK
<1> QED
  BY <1>1, <1>3, <1>7, <1>8, <1>9 DEF PlaceInv, Distinct

(* A process that blocks goes from the processor to the waiting queue. *)
LEMMA AcquirePlace ==
    ASSUME TypeOK, PlaceInv, NEW s \in Sem, NEW n \in Requests, Acquire(s, n)
    PROVE  PlaceInv'
<1>1. CASE count[s] >= n
  <2>1. UNCHANGED <<schedVars, waitq>>
    BY <1>1 DEF Acquire
  <2> QED
    BY <2>1 DEF schedVars, PlaceInv, Distinct, ReadyInv, SleepingInv, BlockedInv, RunningInv,
                DeadInv, ParkedInv, IdleInv, Suspended, Children
<1>2. CASE ~(count[s] >= n)
  <2> DEFINE st == [pstate EXCEPT ![current] = "BLOCK"]
  <2>1. /\ current \in Proc /\ current # Idle
        /\ alive' = alive /\ deleteq' = deleteq /\ dropped' = dropped
        /\ attachedFrom' = attachedFrom /\ sleepq' = sleepq
        /\ waitq' = [waitq EXCEPT ![s] = Append(@, current)]
        /\ ToNextProcess(ready, st)
    BY <1>2 DEF Acquire, Running
  <2>2. /\ Suspended(current) /\ current \notin Range(ready)
        /\ \A t \in Sem : current \notin Range(waitq[t])
    BY <2>1 DEF PlaceInv, RunningInv, ReadyInv, BlockedInv, Suspended
  <2>3. /\ IsInjective(waitq'[s]) /\ Range(waitq'[s]) = Range(waitq[s]) \cup {current}
        /\ \A t \in Sem \ {s} : waitq'[t] = waitq[t]
    BY <2>1, <2>2, AppendDistinct DEF PlaceInv, Distinct, TypeOK
  <2>4. ready # <<>> /\ ready \in Seq(Proc) /\ IsInjective(ready)
    BY <2>1, ReadyNonEmpty DEF PlaceInv, Distinct, TypeOK
  <2>5. \A p \in Proc : p \in Range(ready) <=> p \in alive /\ st[p] = "READY"
    BY <2>1, <2>2 DEF PlaceInv, ReadyInv, Suspended, TypeOK
  <2>6. \A p \in Proc : /\ st[p] = "SLEEP" <=> pstate[p] = "SLEEP"
                        /\ st[p] = "BLOCK" <=> pstate[p] = "BLOCK" \/ p = current
    BY <2>1, <2>2 DEF Suspended, TypeOK
  <2>7. /\ IsInjective(ready') /\ ReadyInv' /\ RunningInv' /\ DeadInv' /\ ParkedInv' /\ IdleInv'
        /\ \A p \in Proc : pstate'[p] = "SLEEP" <=> st[p] = "SLEEP"
        /\ \A p \in Proc : pstate'[p] = "BLOCK" <=> st[p] = "BLOCK"
    BY <2>1, <2>4, <2>5, SwitchPlace
  <2> HIDE DEF st
  <2>8. SleepingInv'
    BY <2>1, <2>6, <2>7, SleepingFrame DEF PlaceInv
  <2>9. BlockedInv'
    <3>1. \A t \in Sem : \A p \in Range(waitq'[t]) : p = current \/ p \in Range(waitq[t])
      BY <2>3
    <3>2. \A t \in Sem : \A p \in Range(waitq'[t]) : p \in alive /\ pstate'[p] = "BLOCK"
      <4>1. \A t \in Sem : \A p \in Range(waitq[t]) : p \in Proc /\ p \in alive /\ pstate[p] = "BLOCK"
        BY DEF PlaceInv, BlockedInv, TypeOK
      <4>2. current \in alive
        BY <2>2 DEF Suspended
      <4> QED
        BY <2>1, <2>6, <2>7, <3>1, <4>1, <4>2
    <3>3. \A p \in alive : pstate'[p] = "BLOCK" => \E t \in Sem : p \in Range(waitq'[t])
      <4>1. ASSUME NEW p \in alive, pstate'[p] = "BLOCK" PROVE \E t \in Sem : p \in Range(waitq'[t])
        <5>1. CASE p = current
          BY <5>1, <2>3
        <5>2. CASE p # current
          <6>1. pstate[p] = "BLOCK"
            BY <4>1, <5>2, <2>6, <2>7 DEF TypeOK
          <6>2. PICK t \in Sem : p \in Range(waitq[t])
            BY <6>1 DEF PlaceInv, BlockedInv
          <6> QED
            BY <6>2, <2>3
        <5> QED
          BY <5>1, <5>2
      <4> QED
        BY <4>1
    <3>4. \A t, u \in Sem : \A p \in Proc :
             p \in Range(waitq'[t]) /\ p \in Range(waitq'[u]) => t = u
      BY <2>2, <2>3 DEF PlaceInv, BlockedInv
    <3> QED
      BY <2>1, <3>2, <3>3, <3>4 DEF BlockedInv
  <2>10. \A t \in Sem : IsInjective(waitq'[t])
    BY <2>3 DEF PlaceInv, Distinct
  <2> QED
    BY <2>1, <2>7, <2>8, <2>9, <2>10 DEF PlaceInv, Distinct
<1> QED
  BY <1>1, <1>2

(* A process that spawns with attach waits for its child, in no queue. *)
LEMMA SpawnAttachedPlace ==
    ASSUME TypeOK, PlaceInv, NEW p \in Proc, SpawnAttached(p), UNCHANGED semVars
    PROVE  PlaceInv'
<1> DEFINE rq == Append(ready, p)
           st == [pstate EXCEPT ![p] = "READY"]
<1>1. /\ current \in Proc /\ current # Idle
      /\ p \notin alive /\ alive' = alive \cup {p}
      /\ attachedFrom' = [attachedFrom EXCEPT ![p] = current]
      /\ ToNextProcess(rq, st)
      /\ sleepq' = sleepq /\ deleteq' = deleteq /\ dropped' = dropped
      /\ waitq' = waitq
  BY DEF SpawnAttached, NewProcess, Running, semVars
<1>2. p \notin Range(ready)
  BY <1>1 DEF PlaceInv, ReadyInv
<1>3. /\ rq \in Seq(Proc) /\ IsInjective(rq) /\ rq # <<>>
      /\ Range(rq) = Range(ready) \cup {p}
  BY <1>2, AppendDistinct DEF PlaceInv, Distinct, TypeOK
<1>4. \A x \in Proc : x \in Range(rq) <=> x \in alive' /\ st[x] = "READY"
  BY <1>1, <1>3 DEF PlaceInv, ReadyInv, TypeOK
<1>5. st \in [Proc -> States]
  BY DEF TypeOK, States
<1> HIDE DEF rq
<1>6. /\ current' \in Proc /\ current' \in alive' /\ st[current'] = "READY"
      /\ IsInjective(ready')
      /\ pstate' = [st EXCEPT ![current'] = "ACTIVE"]
      /\ \A x \in Proc : x \in Range(ready') <=> x \in alive' /\ pstate'[x] = "READY"
  BY <1>1, <1>3, <1>4, <1>5, ToNextProcessPlace
<1>7. \A x \in Proc : pstate'[x] = IF x = current' THEN "ACTIVE"
                                   ELSE IF x = p THEN "READY" ELSE pstate[x]
  BY <1>5, <1>6 DEF TypeOK
<1>8. current' = p \/ pstate[current'] = "READY"
  BY <1>6 DEF TypeOK
<1> HIDE DEF st
<1>9. /\ Suspended(current) /\ p # current /\ p # Idle /\ p \notin Range(deleteq) /\ p \notin dropped
      /\ \A c \in Children : attachedFrom[c] # p /\ c # p /\ attachedFrom[c] # current
  BY <1>1, ProcAssumption DEF PlaceInv, RunningInv, Suspended, IdleInv, DeadInv, ParkedInv, Children
<1>10. Children' = Children \cup {p} /\ current' # current
  BY <1>1, <1>8, <1>9 DEF Children, Suspended
<1>11. /\ \A c \in Children : attachedFrom'[c] = attachedFrom[c] /\ attachedFrom[c] \in Proc \cup {NULL}
       /\ attachedFrom'[p] = current
  BY <1>1, <1>9 DEF TypeOK, Children
<1>12. SleepingInv'
  BY <1>1, <1>6, <1>7, <1>8, SleepingFrame DEF PlaceInv
<1>13. BlockedInv'
  <2>1. alive' \subseteq Proc
    BY <1>1 DEF TypeOK
  <2>2. \A x \in Proc : x \in alive' /\ pstate'[x] = "BLOCK" <=> x \in alive /\ pstate[x] = "BLOCK"
    BY <1>1, <1>6, <1>7, <1>8
  <2> QED
    BY <1>1, <2>1, <2>2, BlockedFrame DEF PlaceInv
<1>14. RunningInv'
  <2>1. current' \notin Range(deleteq) /\ current' \notin dropped
    BY <1>8, <1>9 DEF PlaceInv, DeadInv
  <2>2. Suspended(current)'
    BY <1>1, <1>6, <1>7, <2>1 DEF Suspended
  <2>3. \A c \in Children : attachedFrom[c] # current'
    BY <1>6, <1>8, <1>9, ProcAssumption DEF PlaceInv, ParkedInv, Suspended
  <2> QED
    BY <1>6, <1>10, <1>11, <2>2, <2>3 DEF RunningInv
<1>15. DeadInv'
  <2>1. \A x \in Range(deleteq) \cup dropped : x \in Proc /\ x \in alive /\ x # p /\ pstate[x] = "ACTIVE"
    BY <1>1 DEF PlaceInv, DeadInv, TypeOK
  <2> QED
    BY <1>1, <1>7, <2>1 DEF PlaceInv, DeadInv
<1>16. ParkedInv'
  <2>1. ASSUME NEW x \in Proc, x # p PROVE Suspended(x) => Suspended(x)'
    BY <2>1, <1>1, <1>7 DEF Suspended
  <2>2. ASSUME NEW c \in Children', attachedFrom'[c] # NULL
        PROVE  Suspended(attachedFrom[c])'
    <3>1. CASE c = p
      <4>1. Suspended(current) /\ current \in Proc /\ current # p
        BY <1>1, <1>9
      <4>2. current \in alive' /\ pstate'[current] = "ACTIVE" /\ current \notin Range(deleteq') /\ current \notin dropped'
        BY <1>1, <1>7, <4>1 DEF Suspended
      <4> QED
        BY <3>1, <1>11, <4>2 DEF Suspended
    <3>2. CASE c \in Children
      <4>1. Suspended(attachedFrom[c]) /\ attachedFrom[c] # p /\ attachedFrom[c] \in Proc
        BY <2>2, <3>2, <1>9, <1>11 DEF PlaceInv, ParkedInv
      <4> QED
        BY <3>2, <1>1, <1>7, <1>11, <4>1 DEF Suspended
    <3> QED
      BY <3>1, <3>2, <1>10
  <2>3. \A c, d \in Children' :
          attachedFrom'[c] = attachedFrom'[d] /\ attachedFrom'[c] # NULL => c = d
    BY <1>9, <1>10, <1>11 DEF PlaceInv, ParkedInv
  <2>4. ASSUME NEW x \in alive', Suspended(x)', x # current'
        PROVE  \E c \in Children' : attachedFrom'[c] = x
    <3>1. x \in Proc
      BY <1>1 DEF TypeOK
    <3>2. x # p /\ x \in alive /\ Suspended(x)
      BY <1>1, <1>7, <2>4, <3>1 DEF Suspended
    <3>3. CASE x = current
      BY <3>3, <1>10, <1>11
    <3>4. CASE x # current
      <4>1. PICK c \in Children : attachedFrom[c] = x
        BY <3>2, <3>4 DEF PlaceInv, ParkedInv
      <4> QED
        BY <4>1, <1>10, <1>11
    <3> QED
      BY <3>3, <3>4
  <2> QED
    BY <2>2, <2>3, <2>4 DEF ParkedInv
<1>17. IdleInv'
  BY <1>1, <1>7, <1>9, ProcAssumption DEF PlaceInv, IdleInv
<1> QED
  BY <1>1, <1>6, <1>12, <1>13, <1>14, <1>15, <1>16, <1>17 DEF PlaceInv, Distinct, ReadyInv

(* A process that dies goes to the delete queue and, if it was attached,    *)
(* its parent to the ready queue.                                           *)
LEMMA KillPlace ==
    ASSUME TypeOK, PlaceInv, current # Idle, KillCurrent, UNCHANGED semVars
    PROVE  PlaceInv'
<1> DEFINE parent == attachedFrom[current]
           rq == IF parent # NULL THEN Append(ready, parent) ELSE ready
           st == IF parent # NULL THEN [pstate EXCEPT ![parent] = "READY"] ELSE pstate
<1>1. /\ alive' = alive /\ sleepq' = sleepq /\ attachedFrom' = attachedFrom
      /\ dropped' = dropped /\ waitq' = waitq
      /\ deleteq' = Append(deleteq, current)
      /\ ToNextProcess(rq, st)
  BY DEF KillCurrent, semVars
<1>2. /\ current \in Proc /\ Suspended(current) /\ current \in Children
      /\ \A c \in Children : attachedFrom[c] # current
  BY DEF PlaceInv, RunningInv, Suspended, Children
<1>3. parent # NULL => parent \in Proc /\ Suspended(parent) /\ parent # current
  BY <1>2 DEF PlaceInv, ParkedInv, TypeOK
<1>4. IsInjective(deleteq') /\ Range(deleteq') = Range(deleteq) \cup {current}
  BY <1>1, <1>2, AppendDistinct DEF PlaceInv, Distinct, Suspended, TypeOK
<1>5. /\ rq \in Seq(Proc) /\ IsInjective(rq) /\ rq # <<>>
      /\ Range(rq) = IF parent # NULL THEN Range(ready) \cup {parent} ELSE Range(ready)
  <2>1. ready \in Seq(Proc) /\ IsInjective(ready) /\ ready # <<>>
    BY ReadyNonEmpty DEF PlaceInv, Distinct, TypeOK
  <2>2. CASE parent # NULL
    <3>1. parent \notin Range(ready)
      BY <1>3, <2>2 DEF PlaceInv, ReadyInv, Suspended
    <3> QED
      BY <1>3, <2>1, <2>2, <3>1, AppendDistinct
  <2>3. CASE parent = NULL
    BY <2>1, <2>3
  <2> QED
    BY <2>2, <2>3
<1>6. /\ st \in [Proc -> States]
      /\ \A x \in Proc : st[x] = IF parent # NULL /\ x = parent THEN "READY" ELSE pstate[x]
  BY <1>3 DEF TypeOK, States
<1>7. \A x \in Proc : x \in Range(rq) <=> x \in alive /\ st[x] = "READY"
  BY <1>3, <1>5, <1>6 DEF PlaceInv, ReadyInv, Suspended
<1> HIDE DEF rq, st
<1>8. /\ current' \in Proc /\ current' \in alive /\ st[current'] = "READY"
      /\ IsInjective(ready')
      /\ pstate' = [st EXCEPT ![current'] = "ACTIVE"]
      /\ \A x \in Proc : x \in Range(ready') <=> x \in alive /\ pstate'[x] = "READY"
  BY <1>1, <1>5, <1>6, <1>7, ToNextProcessPlace
<1>9. \A x \in Proc : pstate'[x] = IF x = current' THEN "ACTIVE"
                                   ELSE IF parent # NULL /\ x = parent THEN "READY" ELSE pstate[x]
  BY <1>6, <1>8
<1>10. (current' = parent /\ parent # NULL) \/ pstate[current'] = "READY"
  BY <1>6, <1>8
<1>11. Children' = Children \ {current} /\ current' # current
  BY <1>1, <1>2, <1>3, <1>4, <1>10 DEF Children, Suspended
<1>12. \A c \in Children' : parent # NULL => attachedFrom[c] # parent
  BY <1>2, <1>11 DEF PlaceInv, ParkedInv
<1> HIDE DEF parent
<1>13. parent # NULL => pstate[parent] = "ACTIVE" /\ parent \notin Range(deleteq) /\ parent \notin dropped
  BY <1>3 DEF Suspended
<1>14. SleepingInv'
  BY <1>1, <1>8, <1>9, <1>10, <1>13, SleepingFrame DEF PlaceInv
<1>15. BlockedInv'
  <2>1. alive' \subseteq Proc
    BY <1>1 DEF TypeOK
  <2>2. \A x \in Proc : x \in alive' /\ pstate'[x] = "BLOCK" <=> x \in alive /\ pstate[x] = "BLOCK"
    BY <1>1, <1>8, <1>9, <1>10, <1>13
  <2> QED
    BY <1>1, <2>1, <2>2, BlockedFrame DEF PlaceInv
<1>16. RunningInv'
  <2>1. current' \notin Range(deleteq') /\ current' \notin dropped
    BY <1>4, <1>10, <1>11, <1>13 DEF PlaceInv, DeadInv
  <2>2. Suspended(current)'
    BY <1>1, <1>8, <1>9, <2>1 DEF Suspended
  <2>3. \A c \in Children' : attachedFrom[c] # current'
    BY <1>8, <1>10, <1>11, <1>12, ProcAssumption DEF PlaceInv, ParkedInv, Suspended
  <2> QED
    BY <1>1, <1>8, <2>2, <2>3 DEF RunningInv
<1>17. DeadInv'
  <2>1. \A x \in Range(deleteq') \cup dropped : x \in Proc /\ x \in alive /\ pstate[x] = "ACTIVE"
    BY <1>2, <1>4 DEF PlaceInv, DeadInv, Suspended, TypeOK
  <2>2. \A x \in Range(deleteq') : x \notin dropped
    BY <1>2, <1>4 DEF PlaceInv, DeadInv, Suspended
  <2>3. \A x \in Range(deleteq') \cup dropped : parent # NULL => x # parent
    BY <1>3, <1>4, <1>13
  <2> QED
    BY <1>1, <1>9, <2>1, <2>2, <2>3 DEF DeadInv
<1>18. ParkedInv'
  <2>1. ASSUME NEW c \in Children', attachedFrom'[c] # NULL
        PROVE  Suspended(attachedFrom[c])'
    <3>1. /\ Suspended(attachedFrom[c]) /\ attachedFrom[c] # current
          /\ (parent # NULL => attachedFrom[c] # parent)
      BY <2>1, <1>1, <1>2, <1>11, <1>12 DEF PlaceInv, ParkedInv
    <3>2. attachedFrom[c] \in Proc
      BY <3>1 DEF Suspended, TypeOK
    <3> QED
      BY <1>1, <1>4, <1>9, <3>1, <3>2 DEF Suspended
  <2>2. \A c, d \in Children' :
          attachedFrom'[c] = attachedFrom'[d] /\ attachedFrom'[c] # NULL => c = d
    BY <1>1, <1>11 DEF PlaceInv, ParkedInv
  <2>3. ASSUME NEW x \in alive', Suspended(x)', x # current'
        PROVE  \E c \in Children' : attachedFrom'[c] = x
    <3>1. x \in Proc /\ x \in alive
      BY <1>1 DEF TypeOK
    <3>2. x # current /\ Suspended(x) /\ (parent # NULL => x # parent)
      BY <1>1, <1>4, <1>9, <2>3, <3>1 DEF Suspended
    <3>3. PICK c \in Children : attachedFrom[c] = x
      BY <3>1, <3>2 DEF PlaceInv, ParkedInv
    <3>4. c # current
      BY <3>1, <3>2, <3>3, ProcAssumption DEF parent
    <3> QED
      BY <1>1, <1>11, <3>3, <3>4
  <2> QED
    BY <2>1, <2>2, <2>3 DEF ParkedInv
<1>19. IdleInv'
  BY <1>1, <1>9, ProcAssumption DEF PlaceInv, IdleInv
<1> QED
  BY <1>1, <1>4, <1>8, <1>14, <1>15, <1>16, <1>17, <1>18, <1>19 DEF PlaceInv, Distinct, ReadyInv

(* A tick frees the dead, moves the woken sleepers to the ready queue and   *)
(* possibly rotates the running process behind them.                        *)
LEMMA TickPlace ==
    ASSUME TypeOK, PlaceInv, Tick, UNCHANGED semVars
    PROVE  PlaceInv'
<1>1. /\ current \in Proc /\ Suspended(current)
      /\ \A c \in Children : attachedFrom[c] # current
  BY DEF PlaceInv, RunningInv
<1>2. /\ deleteq' = <<>> /\ alive' = alive \ Range(deleteq)
      /\ attachedFrom' = attachedFrom /\ dropped' = dropped /\ waitq' = waitq
  BY DEF Tick, semVars
<1>3. PICK n \in 0..Len(sleepq) :
        LET woken == SubSeq(sleepq, 1, n)
            rq    == ready \o woken
            st    == [p \in Proc |-> IF p \in Range(woken) THEN "READY" ELSE pstate[p]]
        IN /\ WakeSleepers(n)
           /\ IF SliceOver(aliveTicks'[current])
              THEN ToNextProcess(Append(rq, current), [st EXCEPT ![current] = "READY"])
              ELSE /\ ready' = rq
                   /\ pstate' = st
                   /\ UNCHANGED current
  BY DEF Tick
<1> DEFINE woken == SubSeq(sleepq, 1, n)
           rest  == SubSeq(sleepq, n + 1, Len(sleepq))
           rq    == ready \o woken
           st    == [p \in Proc |-> IF p \in Range(woken) THEN "READY" ELSE pstate[p]]
           W     == Range(woken)
<1>4. /\ woken \in Seq(Proc) /\ rest \in Seq(Proc) /\ IsInjective(woken) /\ IsInjective(rest)
      /\ Range(woken) \cup Range(rest) = Range(sleepq) /\ Range(woken) \cap Range(rest) = {}
  BY SplitDistinct DEF PlaceInv, Distinct, TypeOK
<1>5. IsInjective(sleepq') /\ Range(sleepq') = Range(sleepq) \ W
  <2>1. CASE sleepq = <<>>
    <3>1. sleepq' = sleepq
      BY <1>3, <2>1 DEF WakeSleepers
    <3>2. Range(sleepq) = {}
      BY <2>1 DEF Range
    <3> QED
      BY <1>4, <3>1, <3>2 DEF PlaceInv, Distinct
  <2>2. CASE sleepq # <<>>
    <3>1. sleepq' = rest
      BY <1>3, <2>2 DEF WakeSleepers
    <3> QED
      BY <1>4, <3>1
  <2> QED
    BY <2>1, <2>2
<1>6. \A p \in W : p \in Proc /\ p \in alive /\ pstate[p] = "SLEEP"
  BY <1>4, RangeOfSeq DEF PlaceInv, SleepingInv
<1>7. rq \in Seq(Proc) /\ IsInjective(rq) /\ Range(rq) = Range(ready) \cup W
  <2>1. ready \in Seq(Proc) /\ IsInjective(ready)
    BY DEF PlaceInv, Distinct, TypeOK
  <2>2. Range(ready) \cap Range(woken) = {}
    BY <1>6 DEF PlaceInv, ReadyInv
  <2> QED
    BY <1>4, <2>1, <2>2, ConcatDistinct
<1>8. st \in [Proc -> States] /\ \A p \in Proc : st[p] = IF p \in W THEN "READY" ELSE pstate[p]
  BY DEF TypeOK, States
<1> HIDE DEF woken, rest, rq, st, W
<1>9. current \notin Range(deleteq) /\ current \in alive /\ pstate[current] = "ACTIVE" /\ current \notin W
  BY <1>1, <1>6 DEF Suspended
<1>10. \A p \in Range(deleteq) : p \in Proc /\ p \in alive /\ pstate[p] = "ACTIVE" /\ p \notin W
  BY <1>6 DEF PlaceInv, DeadInv, TypeOK
<1>11. \A p \in Proc : p \in Range(rq) <=> p \in alive' /\ st[p] = "READY"
  BY <1>2, <1>6, <1>7, <1>8, <1>10 DEF PlaceInv, ReadyInv
<1>12. /\ current' \in Proc /\ current' \in alive'
       /\ current' = current \/ current' \in W \/ pstate[current'] = "READY"
       /\ IsInjective(ready')
       /\ \A p \in Proc : pstate'[p] = IF p = current' THEN "ACTIVE"
                                       ELSE IF p \in W \cup {current} THEN "READY" ELSE pstate[p]
       /\ \A p \in Proc : p \in Range(ready') <=> p \in alive' /\ pstate'[p] = "READY"
  <2>1. CASE SliceOver(aliveTicks'[current])
    <3> DEFINE rq2 == Append(rq, current)
               st2 == [st EXCEPT ![current] = "READY"]
    <3>1. ToNextProcess(rq2, st2)
      BY <1>3, <2>1 DEF rq, st, woken
    <3>2. /\ rq2 \in Seq(Proc) /\ IsInjective(rq2) /\ rq2 # <<>>
          /\ Range(rq2) = Range(rq) \cup {current}
      <4>1. current \notin Range(rq)
        BY <1>1, <1>8, <1>9, <1>11
      <4> QED
        BY <1>1, <1>7, <4>1, AppendDistinct
    <3>3. /\ st2 \in [Proc -> States]
          /\ \A p \in Proc : st2[p] = IF p \in W \cup {current} THEN "READY" ELSE pstate[p]
      BY <1>1, <1>8 DEF States
    <3>4. \A p \in Proc : p \in Range(rq2) <=> p \in alive' /\ st2[p] = "READY"
      BY <1>2, <1>8, <1>9, <1>11, <3>2, <3>3
    <3> HIDE DEF rq2, st2
    <3>5. /\ current' \in Proc /\ current' \in alive' /\ st2[current'] = "READY"
          /\ IsInjective(ready')
          /\ pstate' = [st2 EXCEPT ![current'] = "ACTIVE"]
          /\ \A p \in Proc : p \in Range(ready') <=> p \in alive' /\ pstate'[p] = "READY"
      BY <3>1, <3>2, <3>3, <3>4, ToNextProcessPlace
    <3> QED
      BY <3>3, <3>5
  <2>2. CASE ~SliceOver(aliveTicks'[current])
    <3>1. ready' = rq /\ pstate' = st /\ current' = current
      BY <1>3, <2>2 DEF rq, st, woken
    <3> QED
      BY <1>1, <1>2, <1>7, <1>8, <1>9, <1>11, <3>1
  <2> QED
    BY <2>1, <2>2
<1>13. Range(deleteq') = {}
  BY <1>2 DEF Range
<1>14. Children' = Children
  BY <1>2, <1>13 DEF Children
<1>15. SleepingInv'
  BY <1>2, <1>5, <1>6, <1>9, <1>10, <1>12 DEF PlaceInv, SleepingInv
<1>16. BlockedInv'
  <2>1. alive' \subseteq Proc
    BY <1>2 DEF TypeOK
  <2>2. \A p \in Proc : p \in alive' /\ pstate'[p] = "BLOCK" <=> p \in alive /\ pstate[p] = "BLOCK"
    BY <1>2, <1>6, <1>9, <1>10, <1>12
  <2> QED
    BY <1>2, <2>1, <2>2, BlockedFrame DEF PlaceInv
<1>17. RunningInv'
  <2>1. current' \notin dropped
    BY <1>1, <1>6, <1>12 DEF PlaceInv, DeadInv, Suspended
  <2>2. Suspended(current)'
    BY <1>2, <1>12, <1>13, <2>1 DEF Suspended
  <2>3. \A c \in Children : attachedFrom[c] # current'
    BY <1>1, <1>6, <1>12, ProcAssumption DEF PlaceInv, ParkedInv, Suspended
  <2> QED
    BY <1>2, <1>12, <1>14, <2>2, <2>3 DEF RunningInv
<1>18. DeadInv'
  <2>1. \A p \in dropped : p \in Proc /\ p \in alive' /\ p # current /\ p \notin W /\ pstate[p] = "ACTIVE"
    BY <1>1, <1>2, <1>6 DEF PlaceInv, DeadInv, Suspended, TypeOK
  <2> QED
    BY <1>2, <1>12, <1>13, <2>1 DEF DeadInv
<1>19. ParkedInv'
  <2>1. ASSUME NEW c \in Children', attachedFrom'[c] # NULL
        PROVE  Suspended(attachedFrom[c])'
    <3>1. Suspended(attachedFrom[c]) /\ attachedFrom[c] # current
      BY <2>1, <1>1, <1>2, <1>14 DEF PlaceInv, ParkedInv
    <3>2. attachedFrom[c] \in Proc /\ attachedFrom[c] \notin W
      BY <1>6, <3>1 DEF Suspended, TypeOK
    <3> QED
      BY <1>2, <1>12, <1>13, <3>1, <3>2 DEF Suspended
  <2>2. \A c, d \in Children' :
          attachedFrom'[c] = attachedFrom'[d] /\ attachedFrom'[c] # NULL => c = d
    BY <1>2, <1>14 DEF PlaceInv, ParkedInv
  <2>3. ASSUME NEW x \in alive', Suspended(x)', x # current'
        PROVE  \E c \in Children' : attachedFrom'[c] = x
    <3>1. x \in Proc /\ x \in alive /\ x \notin Range(deleteq)
      BY <1>2 DEF TypeOK
    <3>2. x # current /\ Suspended(x)
      BY <1>2, <1>12, <2>3, <3>1 DEF Suspended
    <3> QED
      BY <1>2, <1>14, <3>1, <3>2 DEF PlaceInv, ParkedInv
  <2> QED
    BY <2>1, <2>2, <2>3 DEF ParkedInv
<1>20. IdleInv'
  <2>1. Idle \in alive' /\ Idle \in Proc
    BY <1>2, <1>9, <1>10, ProcAssumption DEF PlaceInv, IdleInv
  <2> QED
    BY <1>12, <2>1 DEF PlaceInv, IdleInv
<1>21. IsInjective(deleteq')
  BY <1>2 DEF IsInjective
<1> QED
  BY <1>2, <1>5, <1>12, <1>15, <1>16, <1>17, <1>18, <1>19, <1>20, <1>21
     DEF PlaceInv, Distinct, ReadyInv

(* A release moves the waiters it serves to the ready queue. *)
LEMMA ReleasePlace ==
    ASSUME TypeOK, PlaceInv, NEW s \in Sem, NEW n \in Requests, Release(s, n)
    PROVE  PlaceInv'
<1>1. /\ alive' = alive /\ current' = current /\ sleepq' = sleepq /\ deleteq' = deleteq
      /\ attachedFrom' = attachedFrom /\ dropped' = dropped
  BY DEF Release
<1>2. PICK k \in 0..Len(waitq[s]) :
         /\ waitq' = [waitq EXCEPT ![s] = SubSeq(@, k + 1, Len(@))]
         /\ ready' = ready \o SubSeq(waitq[s], 1, k)
         /\ pstate' = [p \in Proc |-> IF p \in Range(SubSeq(waitq[s], 1, k))
                                      THEN "READY" ELSE pstate[p]]
  BY DEF Release
<1> DEFINE served == SubSeq(waitq[s], 1, k)
           rest   == SubSeq(waitq[s], k + 1, Len(waitq[s]))
           W      == Range(served)
<1>3. /\ served \in Seq(Proc) /\ rest \in Seq(Proc) /\ IsInjective(served) /\ IsInjective(rest)
      /\ Range(served) \cup Range(rest) = Range(waitq[s]) /\ Range(served) \cap Range(rest) = {}
  BY SplitDistinct DEF PlaceInv, Distinct, TypeOK
<1>4. \A p \in W : p \in Proc /\ p \in alive /\ pstate[p] = "BLOCK"
  BY <1>3, RangeOfSeq DEF PlaceInv, BlockedInv
<1>5. \A p \in Proc : pstate'[p] = IF p \in W THEN "READY" ELSE pstate[p]
  BY <1>2
<1>6. /\ waitq'[s] = rest
      /\ \A t \in Sem : t # s => waitq'[t] = waitq[t]
  BY <1>2 DEF TypeOK
<1>7. IsInjective(ready') /\ Range(ready') = Range(ready) \cup W
  <2>1. ready \in Seq(Proc) /\ IsInjective(ready)
    BY DEF PlaceInv, Distinct, TypeOK
  <2>2. Range(ready) \cap Range(served) = {}
    BY <1>4 DEF PlaceInv, ReadyInv
  <2> QED
    BY <1>2, <1>3, <2>1, <2>2, ConcatDistinct
<1> HIDE DEF served, rest, W
<1>8. ReadyInv'
  BY <1>1, <1>4, <1>5, <1>7 DEF PlaceInv, ReadyInv
<1>9. SleepingInv'
  BY <1>1, <1>4, <1>5, SleepingFrame DEF PlaceInv
<1>10. Range(waitq'[s]) = Range(waitq[s]) \ W
  BY <1>3, <1>6 DEF W
<1>11. BlockedInv'
  <2>1. \A t \in Sem : \A p \in Range(waitq'[t]) :
           p \in Range(waitq[t]) /\ p \notin W /\ p \in Proc
    <3>1. ASSUME NEW t \in Sem, NEW p \in Range(waitq'[t])
          PROVE  p \in Range(waitq[t]) /\ p \notin W /\ p \in Proc
      <4>1. p \in Range(waitq[t])
        BY <3>1, <1>6, <1>10
      <4>2. p \in Proc
        BY <4>1, RangeOfSeq DEF TypeOK
      <4>3. CASE t = s
        BY <3>1, <4>1, <4>2, <4>3, <1>10
      <4>4. CASE t # s
        <5>1. \A x \in W : x \in Range(waitq[s])
          BY <1>3 DEF W
        <5> QED
          BY <4>1, <4>2, <4>4, <5>1 DEF PlaceInv, BlockedInv
      <4> QED
        BY <4>3, <4>4
    <3> QED
      BY <3>1
  <2>2. \A t \in Sem : \A p \in Range(waitq'[t]) : p \in alive /\ pstate'[p] = "BLOCK"
    BY <1>5, <2>1 DEF PlaceInv, BlockedInv
  <2>3. ASSUME NEW p \in alive, pstate'[p] = "BLOCK" PROVE \E t \in Sem : p \in Range(waitq'[t])
    <3>1. p \in Proc /\ p \notin W /\ pstate[p] = "BLOCK"
      BY <1>5, <2>3 DEF TypeOK
    <3>2. PICK t \in Sem : p \in Range(waitq[t])
      BY <3>1 DEF PlaceInv, BlockedInv
    <3> QED
      BY <1>6, <1>10, <3>1, <3>2
  <2>4. \A t, u \in Sem : \A p \in Proc : p \in Range(waitq'[t]) /\ p \in Range(waitq'[u]) => t = u
    BY <2>1 DEF PlaceInv, BlockedInv
  <2> QED
    BY <1>1, <2>2, <2>3, <2>4 DEF BlockedInv
<1>12. Children' = Children
  BY <1>1 DEF Children
<1>13. \A p \in Proc : Suspended(p)' <=> Suspended(p)
  BY <1>1, <1>4, <1>5 DEF Suspended
<1>14. RunningInv'
  BY <1>1, <1>4, <1>5, <1>12 DEF PlaceInv, RunningInv, Suspended
<1>15. DeadInv'
  <2>1. \A p \in Range(deleteq) \cup dropped : p \in Proc /\ p \in alive /\ p \notin W /\ pstate[p] = "ACTIVE"
    BY <1>4 DEF PlaceInv, DeadInv, TypeOK
  <2> QED
    BY <1>1, <1>5, <2>1 DEF PlaceInv, DeadInv
<1>16. ParkedInv'
  <2>1. ASSUME NEW c \in Children', attachedFrom'[c] # NULL
        PROVE  Suspended(attachedFrom[c])'
    <3>1. Suspended(attachedFrom[c])
      BY <2>1, <1>1, <1>12 DEF PlaceInv, ParkedInv
    <3>2. attachedFrom[c] \in Proc /\ attachedFrom[c] \notin W
      BY <1>4, <3>1 DEF Suspended, TypeOK
    <3> QED
      BY <1>1, <1>5, <3>1, <3>2 DEF Suspended
  <2>2. \A c, d \in Children' :
          attachedFrom'[c] = attachedFrom'[d] /\ attachedFrom'[c] # NULL => c = d
    BY <1>1, <1>12 DEF PlaceInv, ParkedInv
  <2>3. ASSUME NEW x \in alive', Suspended(x)', x # current'
        PROVE  \E c \in Children' : attachedFrom'[c] = x
    <3>1. x \in Proc /\ x \in alive
      BY <1>1 DEF TypeOK
    <3>2. Suspended(x)
      BY <1>1, <1>5, <2>3, <3>1 DEF Suspended
    <3> QED
      BY <1>1, <1>12, <2>3, <3>1, <3>2 DEF PlaceInv, ParkedInv
  <2> QED
    BY <2>1, <2>2, <2>3 DEF ParkedInv
<1>17. IdleInv'
  BY <1>1, <1>5, ProcAssumption DEF PlaceInv, IdleInv
<1>18. \A t \in Sem : IsInjective(waitq'[t])
  BY <1>3, <1>6 DEF PlaceInv, Distinct
<1> QED
  BY <1>1, <1>7, <1>8, <1>9, <1>11, <1>14, <1>15, <1>16, <1>17, <1>18 DEF PlaceInv, Distinct

(* The invariant holds at boot. *)
LEMMA InitPlace == Init => PlaceInv
<1> SUFFICES ASSUME Init PROVE PlaceInv
  OBVIOUS
<1>1. /\ alive = {Idle, Kmain} /\ current = Idle /\ ready = <<Kmain>>
      /\ sleepq = <<>> /\ deleteq = <<>> /\ dropped = {} /\ waitq = [s \in Sem |-> <<>>]
      /\ pstate = [p \in Proc |-> IF p = Idle THEN "ACTIVE" ELSE "READY"]
      /\ \A p \in Proc : p # Idle => attachedFrom[p] = NULL
  BY DEF Init, SchedInit
<1>2. Range(ready) = {Kmain} /\ IsInjective(ready)
  BY <1>1 DEF Range, IsInjective
<1>3. Range(<<>>) = {} /\ IsInjective(<<>>)
  BY DEF Range, IsInjective
<1>4. \A s \in Sem : Range(waitq[s]) = {} /\ IsInjective(waitq[s])
  BY <1>1, <1>3
<1>5. Children = {Kmain} /\ attachedFrom[Kmain] = NULL
  BY <1>1, <1>3, ProcAssumption DEF Children
<1>6. Distinct
  BY <1>1, <1>2, <1>3, <1>4 DEF Distinct
<1>7. ReadyInv /\ SleepingInv /\ BlockedInv
  BY <1>1, <1>2, <1>3, <1>4, ProcAssumption DEF ReadyInv, SleepingInv, BlockedInv
<1>8. RunningInv /\ DeadInv /\ IdleInv
  BY <1>1, <1>3, <1>5, ProcAssumption DEF RunningInv, DeadInv, IdleInv, Suspended
<1>9. ParkedInv
  BY <1>1, <1>3, <1>5, ProcAssumption DEF ParkedInv, Suspended
<1> QED
  BY <1>6, <1>7, <1>8, <1>9 DEF PlaceInv

(* Every step of the scheduler and of the semaphores preserves it. *)
LEMMA NextPlace == TypeOK /\ PlaceInv /\ [Next]_vars => PlaceInv'
<1> SUFFICES ASSUME TypeOK, PlaceInv, [Next]_vars PROVE PlaceInv'
  OBVIOUS
<1>1. CASE UNCHANGED vars
  BY <1>1 DEF vars, schedVars, semVars, PlaceInv, Distinct, ReadyInv, SleepingInv, BlockedInv,
              RunningInv, DeadInv, ParkedInv, IdleInv, Suspended, Children
<1>2. CASE Kill /\ UNCHANGED semVars
  <2>1. CASE current = Idle
    BY <1>2, <2>1 DEF Kill, schedVars, semVars, PlaceInv, Distinct, ReadyInv, SleepingInv,
                      BlockedInv, RunningInv, DeadInv, ParkedInv, IdleInv, Suspended, Children
  <2>2. CASE current # Idle
    BY <1>2, <2>2, KillPlace DEF Kill
  <2> QED
    BY <2>1, <2>2
<1> QED
  BY <1>1, <1>2, SpawnPlace, SpawnAttachedPlace, YieldPlace, SetSleepPlace, TickPlace,
     AcquirePlace, ReleasePlace DEF Next, SchedNext

(* PlaceInv is an invariant of the composed scheduler and semaphores. *)
THEOREM PlaceInvariant == Spec => []PlaceInv
<1>1. Spec => []TypeOK
  BY TypeCorrect
<1> QED
  BY <1>1, InitPlace, NextPlace, PTL DEF Spec

(* scheduler_to_next_process never pops an empty ready queue: a process is  *)
(* always running, for any number of processes and semaphores.              *)
THEOREM SomethingToRun == Spec => []AlwaysSomethingToRun
<1>1. PlaceInv => AlwaysSomethingToRun
  BY ProcAssumption DEF PlaceInv, RunningInv, AlwaysSomethingToRun
<1> QED
  BY <1>1, PlaceInvariant, PTL

(* The state field of every live process agrees with the queue it is in. *)
THEOREM StateAgrees == Spec => []StateMatchesQueue
<1>1. TypeOK /\ PlaceInv => StateMatchesQueue
  BY DEF PlaceInv, ReadyInv, SleepingInv, BlockedInv, StateMatchesQueue, TypeOK
<1> QED
  BY <1>1, TypeCorrect, PlaceInvariant, PTL

(* The slots of p in a queue without repetitions: one if p is in it. *)
LEMMA QueueSlots ==
    ASSUME NEW q \in Seq(Proc), IsInjective(q), NEW p, NEW tag
    PROVE  /\ p \notin Range(q) => SlotsIn(tag, q, p) = {}
           /\ p \in Range(q) => \E x : SlotsIn(tag, q, p) = {x}
<1> DEFINE I == {j \in 1..Len(q) : q[j] = p}
<1>1. DOMAIN q = 1..Len(q)
  BY LenProperties
<1>2. p \notin Range(q) => I = {}
  BY <1>1 DEF Range
<1>3. ASSUME p \in Range(q) PROVE \E x : SlotsIn(tag, q, p) = {x}
  <2>1. PICK i \in 1..Len(q) : q[i] = p
    BY <1>1, <1>3 DEF Range
  <2>2. I = {i}
    BY <1>1, <2>1 DEF IsInjective
  <2>3. SlotsIn(tag, q, p) = {<<tag, i>>}
    BY <2>2 DEF SlotsIn
  <2> QED
    BY <2>3
<1> QED
  BY <1>2, <1>3 DEF SlotsIn

(* A live process is in exactly one queue (or runs, or waits for its only   *)
(* attached child, or was dropped by a yield) and a freed control block is  *)
(* in none, for any number of processes and semaphores.                     *)
THEOREM OnePlace == Spec => []EveryProcessInOnePlace
<1>1. TypeOK /\ PlaceInv => EveryProcessInOnePlace
  <2> SUFFICES ASSUME TypeOK, PlaceInv, NEW p \in Proc
               PROVE  Cardinality(Slots(p)) = IF p \in alive THEN 1 ELSE 0
    BY DEF EveryProcessInOnePlace
  <2> DEFINE run == {<<"run", 0>> : x \in {current} \cap {p}}
             rdy == SlotsIn("ready", ready, p)
             slp == SlotsIn("sleep", sleepq, p)
             del == SlotsIn("delete", deleteq, p)
             att == {<<"attached", c>> : c \in {d \in Children : attachedFrom[d] = p}}
             drp == {<<"dropped", 0>> : x \in dropped \cap {p}}
             wai(s) == SlotsIn(s, waitq[s], p)
             wait == UNION {wai(s) : s \in Sem}
  <2>1. Slots(p) = run \cup rdy \cup slp \cup del \cup att \cup drp \cup wait
    BY DEF Slots
  <2>2. (current # p => run = {}) /\ (current = p => run = {<<"run", 0>>})
    OBVIOUS
  <2>3. (p \notin dropped => drp = {}) /\ (p \in dropped => drp = {<<"dropped", 0>>})
    OBVIOUS
  <2>4. (p \notin Range(ready) => rdy = {}) /\ (p \in Range(ready) => \E x : rdy = {x})
    BY QueueSlots DEF PlaceInv, Distinct, TypeOK
  <2>5. (p \notin Range(sleepq) => slp = {}) /\ (p \in Range(sleepq) => \E x : slp = {x})
    BY QueueSlots DEF PlaceInv, Distinct, TypeOK
  <2>6. (p \notin Range(deleteq) => del = {}) /\ (p \in Range(deleteq) => \E x : del = {x})
    BY QueueSlots DEF PlaceInv, Distinct, TypeOK
  <2>7. \A s \in Sem : /\ p \notin Range(waitq[s]) => wai(s) = {}
                       /\ p \in Range(waitq[s]) => \E x : wai(s) = {x}
    <3>1. ASSUME NEW s \in Sem
          PROVE /\ p \notin Range(waitq[s]) => wai(s) = {}
                /\ p \in Range(waitq[s]) => \E x : wai(s) = {x}
      BY QueueSlots DEF PlaceInv, Distinct, TypeOK
    <3> QED
      BY <3>1
  <2>8. (\A c \in Children : attachedFrom[c] # p) => att = {}
    OBVIOUS
  <2>9. ASSUME NEW c \in Children, attachedFrom[c] = p PROVE att = {<<"attached", c>>}
    <3>1. p # NULL
      BY ProcAssumption
    <3>2. {d \in Children : attachedFrom[d] = p} = {c}
      BY <2>9, <3>1 DEF PlaceInv, ParkedInv
    <3> QED
      BY <3>2
  <2> HIDE DEF run, rdy, slp, del, att, drp, wai
  <2>10. (\A s \in Sem : p \notin Range(waitq[s])) => wait = {}
    BY <2>7
  <2>11. ASSUME NEW s \in Sem, p \in Range(waitq[s]) PROVE \E x : wait = {x}
    <3>1. \A t \in Sem : t # s => p \notin Range(waitq[t])
      BY <2>11 DEF PlaceInv, BlockedInv
    <3>2. wait = wai(s)
      BY <2>7, <2>11, <3>1
    <3> QED
      BY <2>7, <2>11, <3>2
  <2> HIDE DEF wait
  <2>12. CASE p \notin alive
    <3>1. current # p /\ p \notin dropped /\ p \notin Range(deleteq)
      BY <2>12 DEF PlaceInv, RunningInv, DeadInv, Suspended
    <3>2. p \notin Range(ready) /\ p \notin Range(sleepq) /\ \A s \in Sem : p \notin Range(waitq[s])
      BY <2>12 DEF PlaceInv, ReadyInv, SleepingInv, BlockedInv
    <3>3. \A c \in Children : attachedFrom[c] # p
      BY <2>12, ProcAssumption DEF PlaceInv, ParkedInv, Suspended
    <3>4. Slots(p) = {}
      BY <2>1, <2>2, <2>3, <2>4, <2>5, <2>6, <2>8, <2>10, <3>1, <3>2, <3>3
    <3> QED
      BY <2>12, <3>4, FS_EmptySet
  <2>13. CASE p \in alive
    <3> SUFFICES \E x : Slots(p) = {x}
      BY <2>13, FS_Singleton
    <3>1. pstate[p] # "READY" => p \notin Range(ready)
      BY DEF PlaceInv, ReadyInv
    <3>2. pstate[p] # "SLEEP" => p \notin Range(sleepq)
      BY DEF PlaceInv, SleepingInv
    <3>3. pstate[p] # "BLOCK" => \A s \in Sem : p \notin Range(waitq[s])
      BY DEF PlaceInv, BlockedInv
    <3>4. pstate[p] # "ACTIVE" =>
             /\ current # p /\ p \notin dropped /\ p \notin Range(deleteq)
             /\ \A c \in Children : attachedFrom[c] # p
      BY ProcAssumption DEF PlaceInv, RunningInv, DeadInv, ParkedInv, Suspended
    <3>5. CASE pstate[p] = "READY"
      <4>1. p \in Range(ready)
        BY <2>13, <3>5 DEF PlaceInv, ReadyInv
      <4> QED
        BY <2>1, <2>2, <2>3, <2>4, <2>5, <2>6, <2>8, <2>10, <3>2, <3>3, <3>4, <3>5, <4>1
    <3>6. CASE pstate[p] = "SLEEP"
      <4>1. p \in Range(sleepq)
        BY <2>13, <3>6 DEF PlaceInv, SleepingInv
      <4> QED
        BY <2>1, <2>2, <2>3, <2>4, <2>5, <2>6, <2>8, <2>10, <3>1, <3>3, <3>4, <3>6, <4>1
    <3>7. CASE pstate[p] = "BLOCK"
      <4>1. PICK s \in Sem : p \in Range(waitq[s])
        BY <2>13, <3>7 DEF PlaceInv, BlockedInv
      <4> QED
        BY <2>1, <2>2, <2>3, <2>4, <2>5, <2>6, <2>8, <2>11, <3>1, <3>2, <3>4, <3>7, <4>1
    <3>8. CASE pstate[p] = "ACTIVE"
      <4>0. rdy = {} /\ slp = {} /\ wait = {}
        BY <2>4, <2>5, <2>10, <3>1, <3>2, <3>3, <3>8
      <4>1. CASE p \in Range(deleteq)
        <5>1. current # p /\ p \notin dropped /\ \A c \in Children : attachedFrom[c] # p
          BY <4>1, ProcAssumption DEF PlaceInv, RunningInv, DeadInv, ParkedInv, Suspended
        <5> QED
          BY <2>1, <2>2, <2>3, <2>6, <2>8, <4>0, <4>1, <5>1
      <4>2. CASE p \in dropped
        <5>1. current # p /\ p \notin Range(deleteq) /\ \A c \in Children : attachedFrom[c] # p
          BY <4>2, ProcAssumption DEF PlaceInv, RunningInv, DeadInv, ParkedInv, Suspended
        <5> QED
          BY <2>1, <2>2, <2>3, <2>6, <2>8, <4>0, <4>2, <5>1
      <4>3. CASE p = current
        <5>1. p \notin dropped /\ p \notin Range(deleteq) /\ \A c \in Children : attachedFrom[c] # p
          BY <4>3 DEF PlaceInv, RunningInv, Suspended
        <5> QED
          BY <2>1, <2>2, <2>3, <2>6, <2>8, <4>0, <4>3, <5>1
      <4>4. CASE p \notin Range(deleteq) /\ p \notin dropped /\ p # current
        <5>1. PICK c \in Children : attachedFrom[c] = p
          BY <2>13, <3>8, <4>4 DEF PlaceInv, ParkedInv, Suspended
        <5> QED
          BY <2>1, <2>2, <2>3, <2>6, <2>9, <4>0, <4>4, <5>1
      <4> QED
        BY <4>1, <4>2, <4>3, <4>4
    <3> QED
      BY <3>5, <3>6, <3>7, <3>8 DEF TypeOK, States
  <2> QED
    BY <2>12, <2>13
<1> QED
  BY <1>1, TypeCorrect, PlaceInvariant, PTL

-----------------------------------------------------------------------------

(* A blocked process waits for units that are not there, for any number of  *)
(* processes and semaphores and any request sizes (semaphore_acquire and    *)
(* semaphore_release).                                                      *)
THEOREM WakeupsNotLost == Spec => []NoLostWakeup
<1>1. Init => NoLostWakeup
  BY DEF Init, NoLostWakeup
<1>2. TypeOK /\ PlaceInv /\ NoLostWakeup /\ [Next]_vars => NoLostWakeup'
  <2> SUFFICES ASSUME TypeOK, PlaceInv, NoLostWakeup, [Next]_vars PROVE NoLostWakeup'
    OBVIOUS
  <2>1. CASE UNCHANGED semVars
    BY <2>1 DEF semVars, NoLostWakeup
  <2>2. ASSUME NEW s \in Sem, NEW n \in Requests, Acquire(s, n) PROVE NoLostWakeup'
    <3>1. n \in Nat /\ \A t \in Sem : count[t] \in Nat
      BY SemAssumption DEF TypeOK
    <3>2. CASE count[s] >= n
      <4>1. count' = [count EXCEPT ![s] = @ - n] /\ UNCHANGED <<waitq, wanted>>
        BY <2>2, <3>2 DEF Acquire
      <4>2. \A t \in Sem : count'[t] <= count[t] /\ count'[t] \in Int
        BY <3>1, <4>1 DEF TypeOK
      <4>3. \A t \in Sem : waitq[t] # <<>> => wanted[Head(waitq[t])] \in Nat
        BY HeadTailProperties DEF TypeOK
      <4> QED
        BY <3>1, <4>1, <4>2, <4>3 DEF NoLostWakeup
    <3>3. CASE ~(count[s] >= n)
      <4>1. /\ current \in Proc /\ UNCHANGED count
            /\ wanted' = [wanted EXCEPT ![current] = n]
            /\ waitq' = [waitq EXCEPT ![s] = Append(@, current)]
        BY <2>2, <3>3 DEF Acquire, Running
      <4>2. \A t \in Sem : current \notin Range(waitq[t])
        BY <4>1 DEF PlaceInv, RunningInv, BlockedInv, Suspended
      <4>3. ASSUME NEW t \in Sem, waitq[t] # <<>>
            PROVE  Head(waitq[t]) \in Proc /\ Head(waitq[t]) # current
        <5>1. waitq[t] \in Seq(Proc) /\ IsInjective(waitq[t])
          BY DEF PlaceInv, Distinct, TypeOK
        <5>2. Head(waitq[t]) \in Range(waitq[t]) /\ Head(waitq[t]) \in Proc
          BY <4>3, <5>1, PopDistinct
        <5> QED
          BY <4>2, <5>2
      <4>4. \A t \in Sem : waitq[t] # <<>> => count'[t] < wanted'[Head(waitq[t])]
        BY <4>1, <4>3 DEF NoLostWakeup, TypeOK
      <4>5. \A t \in Sem : t # s => waitq'[t] = waitq[t]
        BY <4>1 DEF TypeOK
      <4>6. waitq[s] \in Seq(Proc) /\ waitq'[s] = Append(waitq[s], current)
        BY <4>1 DEF TypeOK
      <4>7. Head(waitq'[s]) = IF waitq[s] = <<>> THEN current ELSE Head(waitq[s])
        BY <4>6, HeadTailAppend
      <4>8. count'[s] < wanted'[Head(waitq'[s])]
        <5>1. CASE waitq[s] = <<>>
          <6>1. wanted'[Head(waitq'[s])] = n
            BY <4>1, <4>7, <5>1 DEF TypeOK
          <6> QED
            BY <3>1, <3>3, <4>1, <6>1
        <5>2. CASE waitq[s] # <<>>
          BY <4>4, <4>7, <5>2
        <5> QED
          BY <5>1, <5>2
      <4> QED
        BY <4>4, <4>5, <4>8 DEF NoLostWakeup
    <3> QED
      BY <3>2, <3>3
  <2>3. ASSUME NEW s \in Sem, NEW n \in Requests, Release(s, n) PROVE NoLostWakeup'
    <3> DEFINE available == (count[s] + n) % COUNT_MOD
    <3>1. PICK k \in 0..Len(waitq[s]) :
             /\ Serves(s, available, k)
             /\ count' = [count EXCEPT ![s] = available - UnitsFor(s, k)]
             /\ waitq' = [waitq EXCEPT ![s] = SubSeq(@, k + 1, Len(@))]
      BY <2>3 DEF Release
    <3>2. wanted' = wanted
      BY <2>3 DEF Release
    <3>3. available \in Nat
      <4>1. count[s] + n \in Nat /\ COUNT_MOD \in Nat \ {0}
        BY SemAssumption DEF TypeOK
      <4> QED
        BY <4>1
    <3> HIDE DEF available
    <3>4. UnitsFor(s, k) \in Int
      BY <3>1, <3>3 DEF Serves
    <3>5. /\ \A t \in Sem : t # s => waitq'[t] = waitq[t] /\ count'[t] = count[t]
          /\ waitq'[s] = SubSeq(waitq[s], k + 1, Len(waitq[s]))
          /\ count'[s] = available - UnitsFor(s, k)
      BY <3>1 DEF TypeOK
    <3>6. waitq[s] \in Seq(Proc) /\ Len(waitq[s]) \in Nat
      BY LenProperties DEF TypeOK
    <3>7. CASE k = Len(waitq[s])
      <4>1. waitq'[s] = <<>>
        BY <3>5, <3>6, <3>7, SubSeqEmpty
      <4> QED
        BY <3>2, <3>5, <4>1 DEF NoLostWakeup
    <3>8. CASE k < Len(waitq[s])
      <4>1. Head(waitq'[s]) = waitq[s][k + 1]
        <5>1. k + 1 \in 1..Len(waitq[s]) /\ Len(waitq[s]) \in k + 1..Len(waitq[s])
          BY <3>6, <3>8
        <5> QED
          BY <3>5, <3>6, <5>1, HeadTailOfSubSeq
      <4>2. ~(available - UnitsFor(s, k) >= wanted[waitq[s][k + 1]])
        BY <3>1, <3>8 DEF Serves
      <4>3. wanted[waitq[s][k + 1]] \in Nat
        <5>1. k + 1 \in 1..Len(waitq[s])
          BY <3>6, <3>8
        <5>2. waitq[s][k + 1] \in Proc
          BY <3>6, <5>1, ElementOfSeq
        <5>3. wanted \in [Proc -> 0..COUNT_MOD - 1]
          BY DEF TypeOK
        <5>4. wanted[waitq[s][k + 1]] \in 0..COUNT_MOD - 1
          BY <5>2, <5>3
        <5>5. COUNT_MOD \in Nat
          BY SemAssumption
        <5> QED
          BY <5>4, <5>5
      <4>4. count'[s] < wanted'[Head(waitq'[s])]
        <5>1. wanted'[Head(waitq'[s])] = wanted[waitq[s][k + 1]]
          BY <3>2, <4>1
        <5>2. available - UnitsFor(s, k) < wanted[waitq[s][k + 1]]
          BY <3>3, <3>4, <4>2, <4>3
        <5> QED
          BY <3>5, <5>1, <5>2
      <4> QED
        BY <3>2, <3>5, <4>4 DEF NoLostWakeup
    <3> QED
      BY <3>6, <3>7, <3>8
  <2> QED
    BY <2>1, <2>2, <2>3 DEF Next, vars
<1> QED
  BY <1>1, <1>2, TypeCorrect, PlaceInvariant, PTL DEF Spec

-----------------------------------------------------------------------------
(***************************************************************************)
(* The sleep queue.  The invariant says what the wake-up times mean: the   *)
(* queue is sorted by them, and a sleeper has its wake-up time minus the   *)
(* sleep clock still to go (one tick if it asked for none).  It rests on   *)
(* PlaceInv: only somebody outside the queue has its wake-up time changed. *)
(***************************************************************************)
Sorted(q, ticks) ==
    \A i, j \in 1..Len(q) : i < j => ticks[q[i]] <= ticks[q[j]]

TicksToGo(p) ==
    /\ sleepTicks[p] >= globalSleep
    /\ remaining[p] = IF sleepTicks[p] = globalSleep THEN 1 ELSE sleepTicks[p] - globalSleep

SleepInv ==
    /\ Sorted(sleepq, sleepTicks)
    /\ \A p \in Range(sleepq) : TicksToGo(p)
    /\ \A p \in Proc : p \notin Range(sleepq) => remaining[p] = 0

(* process_queue_sorted_push keeps a sorted queue sorted. *)
LEMMA SortedPushSorted ==
    ASSUME NEW q \in Seq(Proc), NEW p \in Proc, NEW ticks \in [Proc -> Nat], NEW r,
           Sorted(q, ticks), SortedPush(q, p, ticks, r)
    PROVE  Sorted(r, ticks)
<1>1. PICK i \in 1..Len(q) + 1 :
         /\ \A j \in 1..i-1 : ticks[q[j]] < ticks[p]
         /\ i <= Len(q) => ~(ticks[q[i]] < ticks[p])
         /\ r = SubSeq(q, 1, i-1) \o <<p>> \o SubSeq(q, i, Len(q))
  BY DEF SortedPush
<1>2. Len(q) \in Nat /\ \A j \in 1..Len(q) : q[j] \in Proc
  BY LenProperties, ElementOfSeq
<1>3. \A j \in 1..Len(q) : ticks[q[j]] \in Nat
  BY <1>2
<1>4. ticks[p] \in Nat
  OBVIOUS
<1> DEFINE a == SubSeq(q, 1, i-1)
           b == SubSeq(q, i, Len(q))
           one == <<p>>
<1>5. a \in Seq(Proc) /\ Len(a) = i - 1 /\ \A j \in 1..i-1 : a[j] = q[j]
  <2>1. \A j \in 1..i-1 : q[j] \in Proc
    BY <1>2
  <2>2. /\ a \in Seq(Proc)
        /\ Len(a) = IF 1 <= i - 1 THEN (i - 1) - 1 + 1 ELSE 0
        /\ \A j \in 1..(i - 1) - 1 + 1 : a[j] = q[1 + j - 1]
    BY <2>1, <1>2, SubSeqProperties
  <2> QED
    BY <2>2, <1>2
<1>6. b \in Seq(Proc) /\ Len(b) = Len(q) - i + 1 /\ \A j \in 1..Len(q) - i + 1 : b[j] = q[i + j - 1]
  <2>1. \A j \in i..Len(q) : q[j] \in Proc
    BY <1>2
  <2>2. /\ b \in Seq(Proc)
        /\ Len(b) = IF i <= Len(q) THEN Len(q) - i + 1 ELSE 0
        /\ \A j \in 1..Len(q) - i + 1 : b[j] = q[i + j - 1]
    BY <2>1, <1>2, SubSeqProperties
  <2> QED
    BY <2>2, <1>2
<1>7. one \in Seq(Proc) /\ Len(one) = 1 /\ one[1] = p
  OBVIOUS
<1>8. r = (a \o one) \o b
  BY <1>1
<1> HIDE DEF a, b, one
<1> DEFINE ap == a \o one
<1>9. /\ ap \in Seq(Proc) /\ Len(ap) = i
      /\ \A j \in 1..i : ap[j] = IF j < i THEN q[j] ELSE p
  <2>1. /\ ap \in Seq(Proc)
        /\ Len(ap) = Len(a) + Len(one)
        /\ \A j \in 1..Len(a) + Len(one) :
              ap[j] = IF j <= Len(a) THEN a[j] ELSE one[j - Len(a)]
    BY <1>5, <1>7, ConcatProperties
  <2> HIDE DEF ap
  <2>2. Len(a) + Len(one) = i /\ Len(a) = i - 1
    BY <1>5, <1>7
  <2>3. ASSUME NEW j \in 1..i PROVE ap[j] = IF j < i THEN q[j] ELSE p
    <3>1. CASE j < i
      <4>1. j \in 1..i-1
        BY <3>1
      <4>2. j \in 1..Len(a) + Len(one) /\ j <= Len(a)
        BY <4>1, <2>2
      <4>3. ap[j] = a[j]
        BY <4>2, <2>1
      <4> QED
        BY <3>1, <4>1, <4>3, <1>5
    <3>2. CASE j = i
      <4>3. i \in Int /\ i >= 1
        BY <1>2
      <4>1. j \in 1..Len(a) + Len(one) /\ ~(j <= Len(a)) /\ j - Len(a) = 1
        BY <3>2, <2>2, <4>3
      <4>2. ap[j] = one[1]
        BY <4>1, <2>1
      <4> QED
        BY <3>2, <4>2, <1>7
    <3> QED
      BY <3>1, <3>2
  <2> QED
    BY <2>1, <2>2, <2>3
<1>10. /\ Len(r) = Len(q) + 1
       /\ \A j \in 1..Len(q) + 1 :
             r[j] = IF j < i THEN q[j] ELSE IF j = i THEN p ELSE q[j - 1]
  <2> HIDE DEF ap
  <2>1. /\ Len(ap \o b) = Len(ap) + Len(b)
        /\ \A j \in 1..Len(ap) + Len(b) :
              (ap \o b)[j] = IF j <= Len(ap) THEN ap[j] ELSE b[j - Len(ap)]
    BY <1>6, <1>9, ConcatProperties
  <2>2. r = ap \o b
    BY <1>8 DEF ap
  <2>3. Len(ap) + Len(b) = Len(q) + 1 /\ Len(ap) = i
    BY <1>2, <1>6, <1>9
  <2>4. /\ Len(r) = Len(q) + 1
        /\ \A j \in 1..Len(q) + 1 : r[j] = IF j <= i THEN ap[j] ELSE b[j - i]
    BY <2>1, <2>2, <2>3
  <2>5. ASSUME NEW j \in 1..Len(q) + 1, j <= i
        PROVE  r[j] = IF j < i THEN q[j] ELSE p
    <3>1. j \in 1..i
      BY <2>5
    <3> QED
      BY <3>1, <2>4, <2>5, <1>9
  <2>6. ASSUME NEW j \in 1..Len(q) + 1, j > i PROVE r[j] = q[j - 1]
    <3>1. j - i \in 1..Len(q) - i + 1 /\ i + (j - i) - 1 = j - 1
      BY <2>6, <1>2
    <3>2. b[j - i] = q[j - 1]
      BY <3>1, <1>6
    <3> QED
      BY <3>2, <2>4, <2>6
  <2> QED
    BY <2>4, <2>5, <2>6, <1>2
<1> SUFFICES ASSUME NEW j \in 1..Len(q) + 1, NEW k \in 1..Len(q) + 1, j < k
             PROVE  ticks[r[j]] <= ticks[r[k]]
  BY <1>10 DEF Sorted
<1>11. \A x, y \in 1..Len(q) : x <= y => ticks[q[x]] <= ticks[q[y]]
  BY <1>2, <1>3 DEF Sorted
<1>12. \A x \in 1..Len(q) : x < i => ticks[q[x]] < ticks[p]
  BY <1>1, <1>2
<1>13. \A x \in 1..Len(q) : x >= i => ticks[p] <= ticks[q[x]]
  <2> SUFFICES ASSUME NEW x \in 1..Len(q), x >= i PROVE ticks[p] <= ticks[q[x]]
    OBVIOUS
  <2>1. i \in 1..Len(q)
    BY <1>2
  <2>2. ticks[p] <= ticks[q[i]]
    <3>1. i <= Len(q)
      BY <1>2, <2>1
    <3>2. ~(ticks[q[i]] < ticks[p])
      BY <1>1, <3>1
    <3>3. ticks[q[i]] \in Nat
      BY <1>3, <2>1
    <3> QED
      BY <1>4, <3>2, <3>3
  <2>3. ticks[q[i]] <= ticks[q[x]]
    BY <1>11, <2>1
  <2> QED
    BY <1>3, <1>4, <2>1, <2>2, <2>3
<1>14. CASE k < i
  <2>1. j \in 1..Len(q) /\ k \in 1..Len(q) /\ r[j] = q[j] /\ r[k] = q[k]
    BY <1>2, <1>10, <1>14
  <2> QED
    BY <1>11, <2>1
<1>15. CASE k = i
  <2>1. j \in 1..Len(q) /\ r[j] = q[j] /\ r[k] = p /\ j < i
    BY <1>2, <1>10, <1>15
  <2> QED
    BY <1>3, <1>4, <1>12, <2>1
<1>16. CASE k > i
  <2>1. k - 1 \in 1..Len(q) /\ r[k] = q[k - 1] /\ k - 1 >= i
    BY <1>2, <1>10, <1>16
  <2>2. CASE j < i
    <3>1. j \in 1..Len(q) /\ r[j] = q[j] /\ j <= k - 1
      BY <1>2, <1>10, <2>2
    <3> QED
      BY <1>11, <2>1, <3>1
  <2>3. CASE j = i
    <3>1. r[j] = p
      BY <1>10, <2>3
    <3> QED
      BY <1>13, <2>1, <3>1
  <2>4. CASE j > i
    <3>1. j - 1 \in 1..Len(q) /\ r[j] = q[j - 1] /\ j - 1 <= k - 1
      BY <1>2, <1>10, <2>4
    <3> QED
      BY <1>11, <2>1, <3>1
  <2> QED
    BY <2>2, <2>3, <2>4
<1> QED
  BY <1>14, <1>15, <1>16

(* Steps that leave the sleepers' fields alone. *)
LEMMA SleepFrame ==
    ASSUME TypeOK, SleepInv, sleepq' = sleepq, globalSleep' = globalSleep,
           remaining' = remaining,
           \A p \in Range(sleepq) : sleepTicks'[p] = sleepTicks[p]
    PROVE  SleepInv'
<1>1. sleepq \in Seq(Proc) /\ Len(sleepq) \in Nat /\ DOMAIN sleepq = 1..Len(sleepq)
  BY LenProperties DEF TypeOK
<1>2. \A i \in 1..Len(sleepq) : sleepTicks'[sleepq[i]] = sleepTicks[sleepq[i]]
  BY <1>1 DEF Range
<1>3. Sorted(sleepq, sleepTicks)'
  BY <1>2 DEF SleepInv, Sorted
<1>4. \A p \in Range(sleepq) : TicksToGo(p)'
  BY DEF SleepInv, TicksToGo
<1> QED
  BY <1>3, <1>4 DEF SleepInv

(* The new sleeper is inserted at its place and has its whole sleep to go. *)
LEMMA SetSleepSleep ==
    ASSUME TypeOK, PlaceInv, SleepInv, NEW ticks \in SleepRequests, SetSleep(ticks)
    PROVE  SleepInv'
<1>1. ticks \in Nat /\ globalSleep \in Nat
  BY SleepAssumption DEF TypeOK
<1>2. /\ current \in Proc
      /\ globalSleep' = globalSleep
      /\ sleepTicks' = [sleepTicks EXCEPT ![current] = ticks + globalSleep]
      /\ remaining' = [remaining EXCEPT ![current] = IF ticks = 0 THEN 1 ELSE ticks]
      /\ SortedPush(sleepq, current, sleepTicks', sleepq')
  BY DEF SetSleep, Running
<1>3. current \notin Range(sleepq)
  BY <1>2 DEF PlaceInv, RunningInv, SleepingInv, Suspended
<1>4. /\ sleepq \in Seq(Proc) /\ IsInjective(sleepq) /\ Len(sleepq) \in Nat
      /\ DOMAIN sleepq = 1..Len(sleepq) /\ Range(sleepq) \subseteq Proc
  BY LenProperties, RangeOfSeq DEF TypeOK, PlaceInv, Distinct
<1>5. Range(sleepq') = Range(sleepq) \cup {current}
  BY <1>2, <1>3, <1>4, SortedPushPlace
<1>6. sleepTicks \in [Proc -> Nat] /\ remaining \in [Proc -> Nat]
  BY DEF TypeOK
<1>7. sleepTicks' \in [Proc -> Nat] /\ sleepTicks'[current] = ticks + globalSleep
  BY <1>1, <1>2, <1>6
<1>8. \A p \in Proc : p # current => sleepTicks'[p] = sleepTicks[p] /\ remaining'[p] = remaining[p]
  BY <1>2, <1>6
<1>9. Sorted(sleepq, sleepTicks')
  <2>1. \A i \in 1..Len(sleepq) : sleepq[i] \in Proc /\ sleepq[i] # current
    BY <1>3, <1>4 DEF Range
  <2> QED
    BY <1>8, <2>1 DEF SleepInv, Sorted
<1>10. Sorted(sleepq', sleepTicks')
  BY <1>2, <1>4, <1>7, <1>9, SortedPushSorted
<1>11. ASSUME NEW p \in Range(sleepq) PROVE TicksToGo(p)'
  <2>1. p \in Proc /\ p # current
    BY <1>3, <1>4
  <2> QED
    BY <1>2, <1>8, <2>1 DEF SleepInv, TicksToGo
<1>12. ASSUME NEW p, p = current PROVE TicksToGo(p)'
  <2>1. remaining'[p] = IF ticks = 0 THEN 1 ELSE ticks
    BY <1>2, <1>6, <1>12
  <2>2. sleepTicks'[p] = ticks + globalSleep
    BY <1>7, <1>12
  <2> QED
    BY <1>1, <1>2, <2>1, <2>2 DEF TicksToGo
<1>13. \A p \in Proc : p \notin Range(sleepq') => remaining'[p] = 0
  BY <1>5, <1>8 DEF SleepInv
<1> QED
  BY <1>5, <1>10, <1>11, <1>12, <1>13 DEF SleepInv

(* A tick wakes those at the front whose time has come, and all of them:    *)
(* the queue is sorted, so the rest wakes later.                            *)
LEMMA TickSleep ==
    ASSUME TypeOK, PlaceInv, SleepInv, Tick
    PROVE  SleepInv'
<1>1. PICK n \in 0..Len(sleepq) : WakeSleepers(n)
  BY DEF Tick
<1>2. /\ sleepTicks' = sleepTicks
      /\ remaining' = [p \in Proc |-> IF remaining[p] > 0 THEN remaining[p] - 1 ELSE 0]
  BY DEF Tick
<1>3. sleepTicks \in [Proc -> Nat] /\ remaining \in [Proc -> Nat] /\ globalSleep \in Nat
  BY DEF TypeOK
<1>4. /\ sleepq \in Seq(Proc) /\ IsInjective(sleepq) /\ Len(sleepq) \in Nat
      /\ DOMAIN sleepq = 1..Len(sleepq) /\ Range(sleepq) \subseteq Proc
  BY LenProperties, RangeOfSeq DEF TypeOK, PlaceInv, Distinct
<1>5. CASE sleepq = <<>>
  <2>1. sleepq' = sleepq /\ globalSleep' = globalSleep
    BY <1>1, <1>5 DEF WakeSleepers
  <2>2. Range(sleepq) = {}
    BY <1>5 DEF Range
  <2>3. \A p \in Proc : remaining'[p] = 0
    BY <1>2, <2>2 DEF SleepInv
  <2>4. Sorted(sleepq, sleepTicks)'
    BY <1>2, <2>1 DEF SleepInv
  <2> QED
    BY <2>1, <2>2, <2>3, <2>4 DEF SleepInv
<1>6. CASE sleepq # <<>>
  <2>1. /\ \A i \in 1..n : sleepTicks[sleepq[i]] <= globalSleep + 1
        /\ n < Len(sleepq) => ~(sleepTicks[sleepq[n+1]] <= globalSleep + 1)
        /\ sleepq' = SubSeq(sleepq, n + 1, Len(sleepq))
        /\ globalSleep' = IF n = Len(sleepq) THEN 0 ELSE globalSleep + 1
    BY <1>1, <1>6 DEF WakeSleepers
  <2> DEFINE woken == SubSeq(sleepq, 1, n)
             rest  == SubSeq(sleepq, n + 1, Len(sleepq))
  <2>2. /\ woken \in Seq(Proc) /\ Len(woken) = n
        /\ rest \in Seq(Proc) /\ Len(rest) = Len(sleepq) - n
        /\ \A i \in 1..n : woken[i] = sleepq[i]
        /\ \A i \in 1..Len(sleepq) - n : rest[i] = sleepq[n + i]
        /\ Range(woken) \cup Range(rest) = Range(sleepq)
    <3>1. /\ woken \in Seq(Proc) /\ Len(woken) = n
          /\ \A i \in 1..n : woken[i] = sleepq[i]
      BY <1>4, SplitDistinct
    <3>2. /\ rest \in Seq(Proc) /\ Len(rest) = Len(sleepq) - n
          /\ \A i \in 1..Len(sleepq) - n : rest[i] = sleepq[n + i]
      BY <1>4, SplitDistinct
    <3>3. Range(woken) \cup Range(rest) = Range(sleepq)
      BY <1>4, SplitDistinct
    <3> QED
      BY <3>1, <3>2, <3>3
  <2>3. sleepq' = rest
    BY <2>1
  <2> HIDE DEF woken, rest
  <2>4. DOMAIN woken = 1..n /\ DOMAIN rest = 1..Len(sleepq) - n
    BY <2>2, LenProperties
  <2>5. \A i \in 1..Len(sleepq) : sleepTicks[sleepq[i]] \in Nat
    BY <1>3, <1>4 DEF Range
  <2>6. Sorted(sleepq', sleepTicks')
    <3>1. \A i \in 1..Len(sleepq) - n : n + i \in 1..Len(sleepq)
      BY <1>4
    <3>2. ASSUME NEW i \in 1..Len(sleepq) - n, NEW j \in 1..Len(sleepq) - n, i < j
          PROVE  sleepTicks[rest[i]] <= sleepTicks[rest[j]]
      <4>1. n + i \in 1..Len(sleepq) /\ n + j \in 1..Len(sleepq) /\ n + i < n + j
        BY <3>1, <3>2
      <4>2. sleepTicks[sleepq[n + i]] <= sleepTicks[sleepq[n + j]]
        BY <4>1 DEF SleepInv, Sorted
      <4> QED
        BY <4>2, <2>2
    <3> QED
      BY <1>2, <2>2, <2>3, <3>2 DEF Sorted
  <2>7. ASSUME NEW p \in Range(rest)
        PROVE  n < Len(sleepq) /\ p \in Range(sleepq) /\ sleepTicks[p] > globalSleep + 1
    <3>1. PICK i \in 1..Len(sleepq) - n : p = sleepq[n + i]
      BY <2>2, <2>4 DEF Range
    <3>2. n < Len(sleepq) /\ n + i \in 1..Len(sleepq) /\ n + 1 \in 1..Len(sleepq) /\ n + 1 <= n + i
      BY <1>4
    <3>3. sleepTicks[sleepq[n + 1]] <= sleepTicks[sleepq[n + i]]
      <4>1. CASE i = 1
        BY <2>5, <3>2, <4>1
      <4>2. CASE i > 1
        <5>1. n + 1 < n + i
          BY <4>2
        <5> QED
          BY <3>2, <5>1 DEF SleepInv, Sorted
      <4> QED
        BY <4>1, <4>2
    <3>4. sleepTicks[sleepq[n + 1]] > globalSleep + 1
      BY <1>3, <2>1, <2>5, <3>2
    <3>5. sleepTicks[p] > globalSleep + 1
      BY <1>3, <2>5, <3>1, <3>2, <3>3, <3>4
    <3> QED
      BY <2>2, <3>2, <3>5
  <2>8. ASSUME NEW p \in Range(rest) PROVE TicksToGo(p)'
    <3>1. p \in Proc /\ TicksToGo(p) /\ sleepTicks[p] > globalSleep + 1 /\ n < Len(sleepq)
      BY <1>4, <2>7 DEF SleepInv
    <3>2. globalSleep' = globalSleep + 1
      <4>2. n < Len(sleepq) /\ Len(sleepq) \in Nat
        BY <3>1, <1>4
      <4>1. n # Len(sleepq)
        BY <4>2
      <4> QED
        BY <2>1, <4>1
    <3>3. sleepTicks[p] \in Nat
      BY <1>3, <3>1
    <3>4. remaining[p] = sleepTicks[p] - globalSleep
      BY <3>1, <3>3, <1>3 DEF TicksToGo
    <3>5. remaining'[p] = remaining[p] - 1
      BY <1>2, <1>3, <3>1, <3>3, <3>4
    <3> QED
      BY <1>2, <1>3, <3>1, <3>2, <3>3, <3>4, <3>5 DEF TicksToGo
  <2>9. ASSUME NEW p \in Range(woken) PROVE remaining'[p] = 0
    <3>1. PICK i \in 1..n : p = sleepq[i]
      BY <2>2, <2>4 DEF Range
    <3>2. p \in Proc /\ TicksToGo(p) /\ sleepTicks[p] <= globalSleep + 1
      BY <1>4, <2>1, <2>2, <2>9, <3>1 DEF SleepInv
    <3>3. sleepTicks[p] \in Nat
      BY <1>3, <3>2
    <3>4. remaining[p] = 1
      BY <3>2, <3>3, <1>3 DEF TicksToGo
    <3> QED
      BY <1>2, <3>2, <3>4
  <2>10. ASSUME NEW p \in Proc, p \notin Range(rest) PROVE remaining'[p] = 0
    <3>1. CASE p \in Range(woken)
      BY <2>9, <3>1
    <3>2. CASE p \notin Range(woken)
      <4>1. remaining[p] = 0
        BY <2>2, <2>10, <3>2 DEF SleepInv
      <4> QED
        BY <1>2, <4>1
    <3> QED
      BY <3>1, <3>2
  <2> QED
    BY <2>3, <2>6, <2>8, <2>10 DEF SleepInv
<1> QED
  BY <1>5, <1>6

(* A sleeper sleeps exactly as long as it asked for, whoever else goes to   *)
(* sleep or wakes up meanwhile (scheduler_set_sleep, scheduler_switch).     *)
THEOREM SleepExact == Spec => []SleepIsExact
<1>1. Init => SleepInv
  BY DEF Init, SchedInit, SleepInv, Sorted, Range
<1>2. TypeOK /\ PlaceInv /\ SleepInv /\ [Next]_vars => SleepInv'
  <2> SUFFICES ASSUME TypeOK, PlaceInv, SleepInv, [Next]_vars PROVE SleepInv'
    OBVIOUS
  <2>1. ASSUME NEW p \in Proc, NewProcess(p), UNCHANGED <<sleepq, globalSleep, remaining>>
        PROVE  SleepInv'
    <3>1. \A q \in Range(sleepq) : sleepTicks'[q] = sleepTicks[q]
      <4>1. p \notin Range(sleepq) /\ Range(sleepq) \subseteq Proc
        BY <2>1, RangeOfSeq DEF NewProcess, PlaceInv, SleepingInv, TypeOK
      <4> QED
        BY <2>1, <4>1 DEF NewProcess, TypeOK
    <3> QED
      BY <2>1, <3>1, SleepFrame
  <2>2. ASSUME NEW p \in Proc, Spawn(p) \/ SpawnAttached(p) PROVE SleepInv'
    BY <2>1, <2>2 DEF Spawn, SpawnAttached
  <2>3. CASE UNCHANGED <<sleepq, globalSleep, remaining, sleepTicks>>
    BY <2>3, SleepFrame
  <2>4. ASSUME NEW addBack \in BOOLEAN, Yield(addBack) PROVE SleepInv'
    BY <2>3, <2>4 DEF Yield
  <2>5. CASE Kill
    BY <2>3, <2>5 DEF Kill, KillCurrent, schedVars
  <2>6. ASSUME NEW s \in Sem, NEW n \in Requests, Acquire(s, n) \/ Release(s, n) PROVE SleepInv'
    BY <2>3, <2>6 DEF Acquire, Release, schedVars
  <2>7. CASE UNCHANGED vars
    BY <2>3, <2>7 DEF vars, schedVars
  <2> QED
    BY <2>2, <2>4, <2>5, <2>6, <2>7, SetSleepSleep, TickSleep DEF Next, SchedNext
<1>3. TypeOK /\ PlaceInv /\ SleepInv => SleepIsExact
  <2> SUFFICES ASSUME TypeOK, SleepInv, NEW p \in alive
               PROVE  p \in Range(sleepq) <=> remaining[p] > 0
    BY DEF SleepIsExact
  <2>1. p \in Proc /\ remaining[p] \in Nat /\ sleepTicks[p] \in Nat /\ globalSleep \in Nat
    BY DEF TypeOK
  <2> QED
    BY <2>1 DEF SleepInv, TicksToGo
<1> QED
  BY <1>1, <1>2, <1>3, TypeCorrect, PlaceInvariant, PTL DEF Spec

-----------------------------------------------------------------------------
(***************************************************************************)
(* Conservation of units.  Modulo COUNT_MOD is said with a multiple of it, *)
(* so that releases that overflow the counter stay linear.                 *)
(***************************************************************************)
Held(s) == SumFunctionOnSet([p \in Proc |-> holds[p][s]], Proc)

Balanced(s) == \E q \in Int : count[s] + Held(s) = InitialCount[s] + COUNT_MOD * q

UnitsInv == \A s \in Sem : Balanced(s)

LEMMA HeldType ==
    ASSUME TypeOK, NEW s \in Sem
    PROVE  Held(s) \in Int
<1>1. \A p \in Proc : [q \in Proc |-> holds[q][s]][p] \in Int
  BY DEF TypeOK
<1> QED
  BY <1>1, FiniteAssumption, SumType DEF Held

(* A semaphore nobody touches keeps its balance. *)
LEMMA HeldFrame ==
    ASSUME TypeOK, NEW s \in Sem, \A p \in Proc : holds'[p][s] = holds[p][s]
    PROVE  Held(s)' = Held(s)
<1> DEFINE f == [p \in Proc |-> holds[p][s]]
           h == [p \in Proc |-> holds'[p][s]]
<1>1. \A p \in Proc : f[p] \in Int /\ h[p] = f[p]
  BY DEF TypeOK
<1> HIDE DEF f, h
<1>2. SumFunctionOnSet(h, Proc) = SumFunctionOnSet(f, Proc)
  BY <1>1, FiniteAssumption, SumEqual
<1> QED
  BY <1>2 DEF f, h, Held

LEMMA AcquireUnits ==
    ASSUME TypeOK, PlaceInv, UnitsInv, NEW s \in Sem, NEW n \in Requests, Acquire(s, n)
    PROVE  UnitsInv'
<1>0. n \in Nat /\ current \in Proc
  BY SemAssumption DEF PlaceInv, RunningInv
<1>1. CASE count[s] >= n
  <2>1. /\ count' = [count EXCEPT ![s] = @ - n]
        /\ holds' = [holds EXCEPT ![current][s] = @ + n]
    BY <1>1 DEF Acquire
  <2> DEFINE f == [p \in Proc |-> holds[p][s]]
             h == [p \in Proc |-> holds'[p][s]]
  <2>2. /\ \A p \in Proc : f[p] \in Int /\ h[p] \in Int
        /\ \A p \in Proc \ {current} : h[p] = f[p]
        /\ h[current] = f[current] + n
    BY <1>0, <2>1 DEF TypeOK
  <2> HIDE DEF f, h
  <2>3. SumFunctionOnSet(h, Proc) = SumFunctionOnSet(f, Proc) - f[current] + h[current]
    BY <1>0, <2>2, FiniteAssumption, SumUpdate
  <2>4. SumFunctionOnSet(f, Proc) \in Int
    BY <2>2, FiniteAssumption, SumType
  <2>5. Held(s)' = Held(s) + n /\ Held(s) \in Int
    BY <1>0, <2>2, <2>3, <2>4 DEF Held, f, h
  <2>6. count'[s] = count[s] - n /\ count[s] \in Int
    BY <1>0, <2>1 DEF TypeOK
  <2>7. Balanced(s)'
    BY <1>0, <2>5, <2>6 DEF UnitsInv, Balanced
  <2>8. ASSUME NEW t \in Sem, t # s PROVE Balanced(t)'
    <3>1. \A p \in Proc : holds'[p][t] = holds[p][t]
      BY <1>0, <2>1, <2>8 DEF TypeOK
    <3>2. count'[t] = count[t]
      BY <2>1, <2>8 DEF TypeOK
    <3> QED
      BY <3>1, <3>2, HeldFrame DEF UnitsInv, Balanced
  <2> QED
    BY <2>7, <2>8 DEF UnitsInv
<1>2. CASE ~(count[s] >= n)
  <2>1. count' = count /\ holds' = holds
    BY <1>2 DEF Acquire
  <2> QED
    BY <2>1 DEF UnitsInv, Balanced, Held
<1> QED
  BY <1>1, <1>2

LEMMA ReleaseUnits ==
    ASSUME TypeOK, PlaceInv, UnitsInv, NEW s \in Sem, NEW n \in Requests, Release(s, n)
    PROVE  UnitsInv'
<1>0. n \in Nat /\ current \in Proc /\ COUNT_MOD \in Nat \ {0}
  BY SemAssumption DEF PlaceInv, RunningInv
<1> DEFINE available == (count[s] + n) % COUNT_MOD
           turns == (count[s] + n) \div COUNT_MOD
<1>1. PICK k \in 0..Len(waitq[s]) :
         LET served == SubSeq(waitq[s], 1, k) IN
         /\ count' = [count EXCEPT ![s] = available - UnitsFor(s, k)]
         /\ holds' = [p \in Proc |-> [holds[p] EXCEPT ![s] =
                             @ + (IF p \in Range(served) THEN wanted[p] ELSE 0)
                               - (IF p = current THEN n ELSE 0)]]
  BY DEF Release
<1>2. count[s] \in Int /\ waitq[s] \in Seq(Proc) /\ Len(waitq[s]) \in Nat
  BY LenProperties DEF TypeOK
<1>3. count[s] + n = COUNT_MOD * turns + available /\ available \in Int /\ turns \in Int
  <2>1. count[s] + n \in Int
    BY <1>0, <1>2
  <2> DEFINE x == count[s] + n
  <2>2. \A y \in Int : y = COUNT_MOD * (y \div COUNT_MOD) + (y % COUNT_MOD)
                        /\ y % COUNT_MOD \in Int /\ y \div COUNT_MOD \in Int
    BY <1>0, DivMod
  <2>3. available = x % COUNT_MOD /\ turns = x \div COUNT_MOD /\ x = count[s] + n
    OBVIOUS
  <2> HIDE DEF x, available, turns
  <2>4. x = COUNT_MOD * (x \div COUNT_MOD) + (x % COUNT_MOD)
        /\ x % COUNT_MOD \in Int /\ x \div COUNT_MOD \in Int
    BY <2>1, <2>2, <2>3
  <2> QED
    BY <2>3, <2>4
<1> HIDE DEF available, turns
<1> DEFINE q == waitq[s]
           served == SubSeq(q, 1, k)
           f == [p \in Proc |-> holds[p][s]]
           b == [p \in Proc |-> IF \E i \in 1..k : q[i] = p THEN wanted[p] ELSE 0]
           g == [p \in Proc |-> holds[p][s] + b[p]]
           h == [p \in Proc |-> holds'[p][s]]
           a == [i \in 1..k |-> wanted[q[i]]]
<1>4. /\ \A i \in 1..k : q[i] \in Proc
      /\ \A i, j \in 1..k : q[i] = q[j] => i = j
  <2>1. IsInjective(q) /\ 1..k \subseteq 1..Len(q) /\ DOMAIN q = 1..Len(q)
    BY <1>2, LenProperties DEF PlaceInv, Distinct
  <2> QED
    BY <1>2, <2>1, ElementOfSeq DEF IsInjective
<1>5. \A p \in Proc : p \in Range(served) <=> \E i \in 1..k : q[i] = p
  <2>1. /\ served \in Seq(Proc) /\ Len(served) = IF 1 <= k THEN k - 1 + 1 ELSE 0
        /\ \A i \in 1..k - 1 + 1 : served[i] = q[1 + i - 1]
    BY <1>4, SubSeqProperties
  <2>2. DOMAIN served = 1..k
    BY <2>1, LenProperties
  <2>3. \A i \in 1..k : served[i] = q[i]
    BY <2>1
  <2> QED
    BY <2>2, <2>3 DEF Range
<1>6. \A p \in Proc : wanted[p] \in Int
  BY SemAssumption DEF TypeOK
<1>7. \A p \in Proc : f[p] \in Int /\ b[p] \in Int /\ g[p] = f[p] + b[p] /\ g[p] \in Int
  BY <1>6, SMTT(30) DEF TypeOK
<1>8. \A p \in Proc : h[p] = g[p] - (IF p = current THEN n ELSE 0)
  <2> SUFFICES ASSUME NEW p \in Proc PROVE h[p] = g[p] - (IF p = current THEN n ELSE 0)
    OBVIOUS
  <2>1. holds[p] \in [Sem -> Int] /\ holds[p][s] \in Int
    BY DEF TypeOK
  <2>2. holds'[p][s] = holds[p][s] + (IF p \in Range(served) THEN wanted[p] ELSE 0)
                                   - (IF p = current THEN n ELSE 0)
    BY <1>1, <2>1
  <2>3. (IF p \in Range(served) THEN wanted[p] ELSE 0) = b[p]
    BY <1>5
  <2>4. b[p] \in Int /\ g[p] = holds[p][s] + b[p]
    BY <1>7
  <2>5. h[p] = holds'[p][s]
    OBVIOUS
  <2> HIDE DEF b, g, h, served
  <2> QED
    BY <1>0, <2>1, <2>2, <2>3, <2>4, <2>5
<1>9. UnitsFor(s, k) = SumFunctionOnSet(a, 1..k)
  BY DEF UnitsFor, SumFunction
<1>10. /\ \A i \in 1..k : a[i] = wanted[q[i]]
       /\ \A p \in Proc : b[p] = IF \E i \in 1..k : q[i] = p THEN wanted[p] ELSE 0
  OBVIOUS
<1>11. Held(s) = SumFunctionOnSet(f, Proc) /\ Held(s)' = SumFunctionOnSet(h, Proc)
  BY DEF Held
<1> HIDE DEF f, b, g, h, a, q, served
<1>12. SumFunctionOnSet(b, Proc) = SumFunctionOnSet(a, 1..k)
  <2>1. k \in Nat
    BY <1>2
  <2>2. RunsThrough(q, k, Proc)
    BY <1>4 DEF RunsThrough
  <2>3. WeighsPlaces(a, wanted, q, k)
    BY <1>10 DEF WeighsPlaces
  <2>4. WeighsElements(b, wanted, q, k, Proc)
    BY <1>10 DEF WeighsElements
  <2> QED
    BY <1>6, <2>1, <2>2, <2>3, <2>4, FiniteAssumption, SumOfSequence
<1>13. SumFunctionOnSet(g, Proc) = SumFunctionOnSet(f, Proc) + SumFunctionOnSet(b, Proc)
  BY <1>7, FiniteAssumption, SumAdd
<1>14. SumFunctionOnSet(h, Proc) = SumFunctionOnSet(g, Proc) - g[current] + h[current]
  <2>1. \A p \in Proc : h[p] \in Int
    BY <1>0, <1>7, <1>8
  <2>2. \A p \in Proc \ {current} : h[p] = g[p]
    BY <1>7, <1>8
  <2> QED
    BY <1>0, <1>7, <2>1, <2>2, FiniteAssumption, SumUpdate
<1>15. SumFunctionOnSet(f, Proc) \in Int /\ SumFunctionOnSet(b, Proc) \in Int
  BY <1>7, FiniteAssumption, SumType
<1>16. g[current] \in Int /\ h[current] = g[current] - n
  BY <1>0, <1>7, <1>8
<1>17. Held(s) \in Int /\ UnitsFor(s, k) \in Int /\ Held(s)' = Held(s) + UnitsFor(s, k) - n
  BY <1>0, <1>9, <1>11, <1>12, <1>13, <1>14, <1>15, <1>16
<1>18. count'[s] = available - UnitsFor(s, k)
  BY <1>1 DEF TypeOK
<1>19. Balanced(s)'
  <2>1. PICK m \in Int : count[s] + Held(s) = InitialCount[s] + COUNT_MOD * m
    BY DEF UnitsInv, Balanced
  <2>2. InitialCount[s] \in Int
    BY SemAssumption
  <2>3. count'[s] + Held(s)' = InitialCount[s] + COUNT_MOD * m - COUNT_MOD * turns
    <3>1. COUNT_MOD * m \in Int /\ COUNT_MOD * turns \in Int /\ n \in Int
      BY <1>0, <1>3
    <3> DEFINE c == count[s]
               hd == Held(s)
               u == UnitsFor(s, k)
               i == InitialCount[s]
               x == COUNT_MOD * m
               y == COUNT_MOD * turns
               c2 == count'[s]
               h2 == Held(s)'
    <3>2. /\ c2 = available - u /\ h2 = hd + u - n /\ c + hd = i + x /\ c + n = y + available
          /\ c \in Int /\ hd \in Int /\ u \in Int /\ i \in Int /\ available \in Int
      BY <1>2, <1>3, <1>17, <1>18, <2>1, <2>2
    <3>3. x \in Int /\ y \in Int
      BY <3>1
    <3> HIDE DEF c, hd, u, i, x, y, c2, h2
    <3>4. c2 + h2 = i + x - y
      BY <3>1, <3>2, <3>3
    <3> QED
      BY <3>4 DEF c2, h2, i, x, y
  <2>4. m - turns \in Int
    BY <1>3
  <2>5. COUNT_MOD * m - COUNT_MOD * turns = COUNT_MOD * (m - turns)
    BY <1>0, <1>3
  <2>6. count'[s] + Held(s)' = InitialCount[s] + COUNT_MOD * (m - turns)
    BY <1>0, <1>3, <2>2, <2>3, <2>5
  <2> QED
    BY <2>4, <2>6 DEF Balanced
<1>20. ASSUME NEW t \in Sem, t # s PROVE Balanced(t)'
  <2>1. \A p \in Proc : holds'[p][t] = holds[p][t]
    BY <1>1, <1>20 DEF TypeOK
  <2>2. count'[t] = count[t]
    BY <1>1, <1>20 DEF TypeOK
  <2> QED
    BY <2>1, <2>2, HeldFrame DEF UnitsInv, Balanced
<1> QED
  BY <1>19, <1>20 DEF UnitsInv

(* Units are neither lost nor made, for any number of processes and         *)
(* semaphores, any requests and any width of the counter, releases that     *)
(* wrap around included (semaphore_acquire, semaphore_release).             *)
THEOREM UnitsAreConserved == Spec => []UnitsConserved
<1>1. Init => UnitsInv
  <2> SUFFICES ASSUME Init, NEW s \in Sem PROVE Balanced(s)
    BY DEF UnitsInv
  <2> DEFINE f == [p \in Proc |-> holds[p][s]]
  <2>1. \A p \in Proc : f[p] = 0
    BY DEF Init
  <2> HIDE DEF f
  <2>2. SumFunctionOnSet(f, Proc) = 0
    BY <2>1, FiniteAssumption, SumZero
  <2>3. Held(s) = 0
    BY <2>2 DEF Held, f
  <2>4. count[s] = InitialCount[s] /\ InitialCount[s] \in Int /\ COUNT_MOD \in Int
    BY SemAssumption DEF Init
  <2>5. count[s] + Held(s) = InitialCount[s] + COUNT_MOD * 0
    BY <2>3, <2>4
  <2> QED
    BY <2>5 DEF Balanced
<1>2. TypeOK /\ PlaceInv /\ UnitsInv /\ [Next]_vars => UnitsInv'
  <2> SUFFICES ASSUME TypeOK, PlaceInv, UnitsInv, [Next]_vars PROVE UnitsInv'
    OBVIOUS
  <2>1. CASE UNCHANGED semVars
    BY <2>1 DEF semVars, UnitsInv, Balanced, Held
  <2>2. CASE UNCHANGED vars
    BY <2>1, <2>2 DEF vars
  <2> QED
    BY <2>1, <2>2, AcquireUnits, ReleaseUnits DEF Next
<1>3. TypeOK /\ UnitsInv => UnitsConserved
  <2> SUFFICES ASSUME TypeOK, UnitsInv, NEW s \in Sem
               PROVE  (count[s] + SumFunction([p \in Proc |-> holds[p][s]])) % COUNT_MOD = InitialCount[s]
    BY DEF UnitsConserved
  <2>1. SumFunction([p \in Proc |-> holds[p][s]]) = Held(s)
    BY DEF SumFunction, Held
  <2>2. PICK q \in Int : count[s] + Held(s) = InitialCount[s] + COUNT_MOD * q
    BY DEF UnitsInv, Balanced
  <2>3. COUNT_MOD \in Nat \ {0} /\ InitialCount[s] \in 0..COUNT_MOD - 1
    BY SemAssumption
  <2>4. (InitialCount[s] + COUNT_MOD * q) % COUNT_MOD = InitialCount[s]
    BY <2>3, ModUnique
  <2> QED
    BY <2>1, <2>2, <2>4
<1> QED
  BY <1>1, <1>2, <1>3, TypeCorrect, PlaceInvariant, PTL DEF Spec
=============================================================================
