----------------------------- MODULE PipeProofs -----------------------------
(***************************************************************************)
(* The control of a pipe, for any number of readers and writers, any sizes *)
(* and any capacity, with closes and allocation failures: the bulk acquire *)
(* never blocks, since from the moment the units are counted to the moment *)
(* they are taken the process keeps the processor; the node's lock has at  *)
(* most one holder; and nobody waits for a unit that is there.             *)
(*                                                                         *)
(* Then the bytes: a pipe is a bounded first-in first-out queue of bytes,  *)
(* for every instance whose ramfs heap has room for a full pipe.  First the*)
(* loops of ramfs_pipe_read and ramfs_pipe_write over the chain of         *)
(* datanodes, then the units of the two semaphores, then the refinement.   *)
(***************************************************************************)
EXTENDS Pipe, DataLemmas

(* Types of the variables the argument is about. *)
Types ==
    /\ cpu \in Proc \cup {NULL}
    /\ pc \in [Proc -> Places]
    /\ size \in [Proc -> Nat]
    /\ todo \in [Proc -> Nat]
    /\ count \in [Sem -> Nat]
    /\ waitq \in [Sem -> Seq(Proc)]

(* Whoever has counted units and not finished copying is in a system call   *)
(* that has not blocked, ...                                                *)
OnCpu == \A p \in Proc : pc[p] \in {"bulk", "copy"} => cpu = p

(* ... the one on the processor is in no waiting queue, ... *)
CpuNotBlocked == cpu \in Proc => ~Blocked(cpu)

(* ... and the units that were counted are still there. *)
CountedStillThere ==
    \A p \in Proc : pc[p] = "bulk" => todo[p] > 1 /\ todo[p] <= 1 + count[Own(p)]

BulkInv == Types /\ OnCpu /\ CpuNotBlocked /\ CountedStillThere

(* What an acquire does to what the invariant mentions. *)
LEMMA AcquireBulk ==
    ASSUME BulkInv, NEW p \in Proc, NEW s \in Sem, NEW n \in Nat, NEW next \in Places \ {"bulk"},
           MayRun(p), Acquire(p, s, n, next), pc[p] # "bulk" => next # "copy",
           pc[p] = "bulk" => s = Own(p) /\ n = todo[p] - 1,
           size' \in [Proc -> Nat], todo' = todo
    PROVE  BulkInv'
<1> USE PipeAssumption
<1>1. /\ pc' = [pc EXCEPT ![p] = next] /\ pc'[p] = next
      /\ \A q \in Proc : q # p => pc'[q] = pc[q]
      /\ pc' \in [Proc -> Places]
  BY DEF Acquire, BulkInv, Types
<1>2. \A q \in Proc : q # p => pc[q] \notin {"bulk", "copy"}
  BY DEF BulkInv, OnCpu, MayRun, Proc
<1>3. count[s] \in Nat
  BY DEF BulkInv, Types
<1>4. CASE count[s] >= n
  <2>1. count' = [count EXCEPT ![s] = @ - n] /\ cpu' = p /\ waitq' = waitq
    BY <1>4 DEF Acquire
  <2>2. count[s] - n \in Nat
    BY <1>3, <1>4
  <2>3. Types'
    BY <1>1, <2>1, <2>2 DEF BulkInv, Types
  <2>4. OnCpu'
    BY <1>1, <1>2, <2>1 DEF OnCpu
  <2>5. CpuNotBlocked'
    BY <2>1 DEF CpuNotBlocked, Blocked, MayRun
  <2>6. CountedStillThere'
    BY <1>1, <1>2 DEF CountedStillThere
  <2> QED
    BY <2>3, <2>4, <2>5, <2>6 DEF BulkInv
<1>5. CASE ~(count[s] >= n)
  <2>1. count' = count /\ cpu' = NULL /\ waitq' = [waitq EXCEPT ![s] = Append(@, p)]
    BY <1>5 DEF Acquire
  <2>2. pc[p] # "bulk"
    <3> SUFFICES ASSUME pc[p] = "bulk" PROVE FALSE
      OBVIOUS
    <3>1. todo[p] \in Nat /\ todo[p] <= 1 + count[s] /\ n = todo[p] - 1
      BY DEF BulkInv, CountedStillThere, Types
    <3> QED
      BY <3>1, <1>3, <1>5
  <2>3. Append(waitq[s], p) \in Seq(Proc)
    BY AppendProperties DEF BulkInv, Types
  <2>4. Types'
    BY <1>1, <2>1, <2>3 DEF BulkInv, Types
  <2>5. OnCpu'
    BY <1>1, <1>2, <2>2 DEF OnCpu
  <2>6. CpuNotBlocked'
    BY <2>1 DEF CpuNotBlocked, Proc
  <2>7. CountedStillThere'
    BY <1>1, <1>2 DEF CountedStillThere
  <2> QED
    BY <2>4, <2>5, <2>6, <2>7 DEF BulkInv
<1> QED
  BY <1>4, <1>5

(* A release leaves nobody waiting who was not waiting before. *)
LEMMA ReleaseWaiters ==
    ASSUME Types, NEW s \in Sem, NEW n \in Nat, Release(s, n)
    PROVE  /\ count' \in [Sem -> Nat]
           /\ waitq' \in [Sem -> Seq(Proc)]
           /\ \A p \in Proc : ~Blocked(p) => ~Blocked(p)'
<1>1. PICK k \in 0..Len(waitq[s]) :
         /\ UnitsFor(s, k) \in 0..count[s] + n
         /\ count' = [count EXCEPT ![s] = @ + n - UnitsFor(s, k)]
         /\ waitq' = [waitq EXCEPT ![s] = SubSeq(@, k + 1, Len(@))]
  BY DEF Release
<1>2. count[s] \in Nat /\ waitq[s] \in Seq(Proc) /\ Len(waitq[s]) \in Nat
  BY LenProperties DEF Types
<1>3. count[s] + n - UnitsFor(s, k) \in Nat
  BY <1>1, <1>2
<1>4. count' \in [Sem -> Nat]
  BY <1>1, <1>3 DEF Types
<1> DEFINE rest == SubSeq(waitq[s], k + 1, Len(waitq[s]))
<1>5. /\ rest \in Seq(Proc)
      /\ \A i \in 1..Len(rest) : k + i \in 1..Len(waitq[s]) /\ rest[i] = waitq[s][k + i]
  <2>1. \A i \in k + 1..Len(waitq[s]) : waitq[s][i] \in Proc
    BY <1>2, ElementOfSeq
  <2>2. /\ rest \in Seq(Proc)
        /\ Len(rest) = IF k + 1 <= Len(waitq[s]) THEN Len(waitq[s]) - (k + 1) + 1 ELSE 0
        /\ \A i \in 1..Len(waitq[s]) - (k + 1) + 1 : rest[i] = waitq[s][k + 1 + i - 1]
    BY <1>2, <2>1, SubSeqProperties
  <2> HIDE DEF rest
  <2>3. ASSUME NEW i \in 1..Len(rest) PROVE k + i \in 1..Len(waitq[s]) /\ rest[i] = waitq[s][k + i]
    <3>1. k + 1 <= Len(waitq[s]) /\ Len(rest) = Len(waitq[s]) - k
      BY <1>2, <2>2
    <3>2. i \in 1..Len(waitq[s]) - (k + 1) + 1 /\ k + 1 + i - 1 = k + i /\ k + i \in 1..Len(waitq[s])
      BY <1>2, <3>1
    <3> QED
      BY <2>2, <3>2
  <2> QED
    BY <2>2, <2>3
<1>6. waitq' = [waitq EXCEPT ![s] = rest]
  BY <1>1
<1> HIDE DEF rest
<1>7. waitq' \in [Sem -> Seq(Proc)]
  BY <1>5, <1>6 DEF Types
<1>8. Range(rest) \subseteq Range(waitq[s])
  BY <1>2, <1>5, LenProperties DEF Range
<1>9. \A p \in Proc : ~Blocked(p) => ~Blocked(p)'
  BY <1>6, <1>8 DEF Blocked, Types
<1> QED
  BY <1>4, <1>7, <1>9

(* A step of p that keeps the processor or gives it up between two calls. *)
LEMMA StepBulk ==
    ASSUME BulkInv, NEW p \in Proc, MayRun(p), NEW next \in Places,
           pc' = [pc EXCEPT ![p] = next], cpu' \in {p, NULL},
           count' \in [Sem -> Nat], waitq' \in [Sem -> Seq(Proc)],
           size' \in [Proc -> Nat], todo' \in [Proc -> Nat],
           \A q \in Proc : ~Blocked(q) => ~Blocked(q)',
           next \in {"bulk", "copy"} => cpu' = p,
           next = "bulk" => todo'[p] > 1 /\ todo'[p] <= 1 + count'[Own(p)]
    PROVE  BulkInv'
<1> USE PipeAssumption
<1>1. /\ pc' \in [Proc -> Places] /\ pc'[p] = next
      /\ \A q \in Proc : q # p => pc'[q] = pc[q]
  BY DEF BulkInv, Types
<1>2. \A q \in Proc : q # p => pc[q] \notin {"bulk", "copy"}
  BY DEF BulkInv, OnCpu, MayRun, Proc
<1>3. Types'
  BY <1>1 DEF Types
<1>4. OnCpu'
  BY <1>1, <1>2 DEF OnCpu
<1>5. CpuNotBlocked'
  <2>1. ~Blocked(p)'
    BY DEF MayRun
  <2>2. CASE cpu' = p
    BY <2>1, <2>2 DEF CpuNotBlocked, Blocked
  <2>3. CASE cpu' = NULL
    BY <2>3 DEF CpuNotBlocked, Proc
  <2> QED
    BY <2>2, <2>3
<1>6. CountedStillThere'
  BY <1>1, <1>2 DEF CountedStillThere
<1> QED
  BY <1>3, <1>4, <1>5, <1>6 DEF BulkInv

(* What was counted under the lock stays until it is taken: inductive for   *)
(* every instance.                                                          *)
THEOREM BulkInvariant == Spec => []BulkInv
<1> USE PipeAssumption
<1>1. Init => BulkInv
  <2> SUFFICES ASSUME Init PROVE BulkInv
    OBVIOUS
  <2>1. Types
    BY DEF Init, Types, Sem, Places, Proc
  <2>2. OnCpu /\ CountedStillThere
    BY DEF Init, OnCpu, CountedStillThere, Proc
  <2>3. CpuNotBlocked
    BY DEF Init, CpuNotBlocked, Proc
  <2> QED
    BY <2>1, <2>2, <2>3 DEF BulkInv
<1>2. BulkInv /\ [Next]_vars => BulkInv'
  <2> SUFFICES ASSUME BulkInv, [Next]_vars PROVE BulkInv'
    OBVIOUS
  <2>1. Types /\ "lock" \in Sem /\ \A q \in Proc : Own(q) \in Sem /\ Other(q) \in Sem
    BY DEF BulkInv, Own, Other, Sem
  <2>2. UNCHANGED waitq => \A q \in Proc : ~Blocked(q) => ~Blocked(q)'
    BY DEF Blocked
  <2>3. ASSUME NEW r \in Reader, NEW n \in Sizes, Read(r, n) PROVE BulkInv'
    <3>1. r \in Proc /\ n \in Nat /\ 1 \in Nat
      BY DEF Proc
    <3>2. /\ MayRun(r) /\ pc[r] = "user" /\ Acquire(r, "lock", 1, "enter")
          /\ size' \in [Proc -> Nat] /\ todo' = todo
      BY <2>1, <2>3, <3>1 DEF Read, At, Types
    <3> QED
      BY <2>1, <3>1, <3>2, AcquireBulk DEF Places
  <2>4. ASSUME NEW w \in Writer, NEW n \in Sizes, NEW b \in [1..n -> Byte], Write(w, b) PROVE BulkInv'
    <3>1. w \in Proc /\ n \in Nat
      BY DEF Proc
    <3>2. Len(b) \in Nat
      <4>1. b \in Seq(Byte)
        BY <3>1
      <4> QED
        BY <4>1, LenProperties
    <3>3. /\ MayRun(w) /\ pc[w] = "user" /\ Acquire(w, "lock", 1, "enter")
          /\ size' \in [Proc -> Nat] /\ todo' = todo
      BY <2>1, <2>4, <3>1, <3>2 DEF Write, At, Types
    <3> QED
      BY <2>1, <3>1, <3>3, AcquireBulk DEF Places
  <2>5. ASSUME NEW p \in Proc, Enter(p) PROVE BulkInv'
    <3>1. /\ MayRun(p) /\ cpu' = p /\ size' = size /\ todo' = todo
          /\ \/ pc' = [pc EXCEPT ![p] = "unlock"] /\ count' = count /\ waitq' = waitq
             \/ pc' = [pc EXCEPT ![p] = "first"] /\ Release("lock", 1)
      BY <2>5 DEF Enter, At, semVars
    <3>2. /\ count' \in [Sem -> Nat] /\ waitq' \in [Sem -> Seq(Proc)]
          /\ \A q \in Proc : ~Blocked(q) => ~Blocked(q)'
      <4>1. CASE count' = count /\ waitq' = waitq
        BY <4>1, <2>1, <2>2 DEF Types
      <4>2. CASE Release("lock", 1)
        BY <4>2, <2>1, ReleaseWaiters
      <4> QED
        BY <3>1, <4>1, <4>2
    <3>3. size' \in [Proc -> Nat] /\ todo' \in [Proc -> Nat]
      BY <2>1, <3>1 DEF Types
    <3> QED
      BY <3>1, <3>2, <3>3, StepBulk DEF Places
  <2>6. ASSUME NEW p \in Proc, First(p) PROVE BulkInv'
    <3>1. /\ MayRun(p) /\ pc[p] = "first" /\ Acquire(p, Own(p), 1, "relock")
          /\ size' \in [Proc -> Nat] /\ todo' = todo
      BY <2>1, <2>6 DEF First, At, Types
    <3> QED
      BY <2>1, <3>1, AcquireBulk DEF Places
  <2>7. ASSUME NEW p \in Proc, Relock(p) PROVE BulkInv'
    <3>1. /\ MayRun(p) /\ pc[p] = "relock" /\ Acquire(p, "lock", 1, "measure")
          /\ size' \in [Proc -> Nat] /\ todo' = todo
      BY <2>1, <2>7 DEF Relock, At, Types
    <3> QED
      BY <2>1, <3>1, AcquireBulk DEF Places
  <2>8. ASSUME NEW p \in Proc, Measure(p) PROVE BulkInv'
    <3>1. /\ MayRun(p) /\ cpu' = p /\ size' = size /\ count' = count /\ waitq' = waitq
          /\ todo' = [todo EXCEPT ![p] = Todo(p)]
          /\ pc' = [pc EXCEPT ![p] = IF todo'[p] > 1 THEN "bulk" ELSE "copy"]
      BY <2>8 DEF Measure, At, semVars
    <3>2. size[p] \in Nat /\ count[Own(p)] \in Nat
      BY <2>1 DEF Types
    <3>3. Todo(p) \in Nat /\ Todo(p) <= 1 + count[Own(p)]
      BY <3>2 DEF Todo, Available
    <3>4. todo' \in [Proc -> Nat] /\ todo'[p] <= 1 + count'[Own(p)]
      BY <2>1, <3>1, <3>3 DEF Types
    <3>5. count' \in [Sem -> Nat] /\ waitq' \in [Sem -> Seq(Proc)] /\ size' \in [Proc -> Nat]
      BY <2>1, <3>1 DEF Types
    <3> DEFINE next == IF todo'[p] > 1 THEN "bulk" ELSE "copy"
    <3>6. next \in Places /\ pc' = [pc EXCEPT ![p] = next] /\ (next = "bulk" => todo'[p] > 1)
      BY <3>1 DEF Places
    <3> HIDE DEF next
    <3> QED
      BY <2>2, <3>1, <3>4, <3>5, <3>6, StepBulk
  <2>9. ASSUME NEW p \in Proc, Bulk(p) PROVE BulkInv'
    <3>1. /\ MayRun(p) /\ pc[p] = "bulk" /\ Acquire(p, Own(p), todo[p] - 1, "copy")
          /\ size' \in [Proc -> Nat] /\ todo' = todo
      BY <2>1, <2>9 DEF Bulk, At, Types
    <3>2. todo[p] - 1 \in Nat
      <4>1. todo[p] \in Nat /\ todo[p] > 1
        BY <2>1, <3>1 DEF Types, BulkInv, CountedStillThere
      <4> QED
        BY <4>1
    <3> QED
      BY <2>1, <3>1, <3>2, AcquireBulk DEF Places
  <2>10. ASSUME NEW p \in Proc, NEW n \in Nat, MayRun(p), NEW next \in Places \ {"bulk", "copy"},
                pc' = [pc EXCEPT ![p] = next], cpu' \in {p, NULL}, Release(Other(p), n) \/ Release("lock", n),
                size' \in [Proc -> Nat], todo' \in [Proc -> Nat]
         PROVE  BulkInv'
    <3>1. /\ count' \in [Sem -> Nat] /\ waitq' \in [Sem -> Seq(Proc)]
          /\ \A q \in Proc : ~Blocked(q) => ~Blocked(q)'
      BY <2>1, <2>10, ReleaseWaiters
    <3> QED
      BY <2>10, <3>1, StepBulk
  <2>11. ASSUME NEW p \in Proc, CopyOut(p) PROVE BulkInv'
    <3>1. todo[p] \in Nat /\ size' \in [Proc -> Nat] /\ todo' \in [Proc -> Nat]
      BY <2>1, <2>11 DEF CopyOut, Types
    <3>2. MayRun(p) /\ cpu' = p /\ pc' = [pc EXCEPT ![p] = "unlock"] /\ Release(Other(p), todo[p])
      BY <2>11 DEF CopyOut, At
    <3> QED
      BY <2>10, <3>1, <3>2 DEF Places
  <2>12. ASSUME NEW p \in Proc, CopyIn(p) PROVE BulkInv'
    <3>1. todo[p] \in Nat /\ size' \in [Proc -> Nat] /\ todo' \in [Proc -> Nat]
      BY <2>1, <2>12 DEF CopyIn, Types
    <3>2. PICK actual \in 0..todo[p] : Release(Other(p), actual)
      BY <2>12 DEF CopyIn
    <3>3. MayRun(p) /\ cpu' = p /\ pc' = [pc EXCEPT ![p] = "unlock"] /\ actual \in Nat
      BY <2>12, <3>1 DEF CopyIn, At
    <3> QED
      BY <2>10, <3>1, <3>2, <3>3 DEF Places
  <2>13. ASSUME NEW p \in Proc, Unlock(p) PROVE BulkInv'
    <3>1. size' \in [Proc -> Nat] /\ todo' \in [Proc -> Nat]
      BY <2>1, <2>13 DEF Unlock, Types
    <3>2. MayRun(p) /\ cpu' = NULL /\ pc' = [pc EXCEPT ![p] = "user"] /\ Release("lock", 1)
      BY <2>13 DEF Unlock, At
    <3> QED
      BY <2>10, <3>1, <3>2 DEF Places
  <2>14. ASSUME NEW p \in Proc, Close(p) PROVE BulkInv'
    <3>1. /\ MayRun(p) /\ pc[p] = "user" /\ Acquire(p, "lock", 1, "close")
          /\ size' \in [Proc -> Nat] /\ todo' = todo
      BY <2>1, <2>14 DEF Close, At, Types
    <3> QED
      BY <2>1, <3>1, AcquireBulk DEF Places
  <2>15. ASSUME NEW p \in Proc, Closed(p) PROVE BulkInv'
    <3>1. /\ MayRun(p) /\ cpu' = NULL /\ pc' = [pc EXCEPT ![p] = "closed"]
          /\ size' = size /\ todo' = todo /\ count' = count /\ waitq' = waitq
      BY <2>15 DEF Closed, At, semVars
    <3>2. /\ size' \in [Proc -> Nat] /\ todo' \in [Proc -> Nat]
          /\ count' \in [Sem -> Nat] /\ waitq' \in [Sem -> Seq(Proc)]
      BY <2>1, <3>1 DEF Types
    <3> QED
      BY <2>2, <3>1, <3>2, StepBulk DEF Places
  <2>16. CASE UNCHANGED <<procVars, semVars>>
    BY <2>16 DEF procVars, semVars, BulkInv, Types, OnCpu, CpuNotBlocked, CountedStillThere, Blocked
  <2>17. CASE OthersAllocate
    BY <2>16, <2>17 DEF OthersAllocate
  <2>18. CASE UNCHANGED vars
    BY <2>16, <2>18 DEF vars
  <2> QED
    BY <2>3, <2>4, <2>5, <2>6, <2>7, <2>8, <2>9, <2>11, <2>12, <2>13, <2>14, <2>15, <2>17, <2>18
       DEF Next, InCall
<1> QED
  BY <1>1, <1>2, PTL DEF Spec

(* The comment in ramfs_pipe_read, "it is guarantee to be non-block", for   *)
(* every instance: no process sleeps with the node's lock held.             *)
THEOREM BulkAcquireDoesNotBlock == Spec => []BulkNeverBlocks
<1>1. BulkInv => BulkNeverBlocks
  BY DEF BulkInv, OnCpu, CpuNotBlocked, BulkNeverBlocks
<1> QED
  BY <1>1, BulkInvariant, PTL

-----------------------------------------------------------------------------
(* Whoever waits has asked for one unit, waits in one place of one queue    *)
(* and is at the point of its call where that wait belongs.                 *)
Waiter(s, p) ==
    /\ wanted[p] = 1
    /\ s = "lock" => pc[p] \in {"enter", "measure", "close"}
    /\ s # "lock" => s = Own(p) /\ pc[p] = "relock"
WaitInv ==
    /\ wanted \in [Proc -> Nat]
    /\ \A s \in Sem : IsInjective(waitq[s]) /\ \A p \in Range(waitq[s]) : Waiter(s, p)

(* The lock is free or has one holder, or none for ever after a close. *)
LockInv ==
    /\ count["lock"] <= 1
    /\ \A p \in Proc : Holds(p) => count["lock"] = 0
    /\ \A p, q \in Proc : Holds(p) /\ Holds(q) => p = q

(* The sizes of a call at each of its points. *)
CallInv ==
    \A p \in Proc :
        /\ pc[p] \in {"first", "relock", "measure", "bulk", "copy"} => size[p] > 0
        /\ pc[p] \in {"bulk", "copy"} => todo[p] > 0 /\ todo[p] <= size[p]

Outside == {"user", "unlock", "close", "closed"}
BufInv ==
    /\ buf \in [Writer -> Seq(Byte)]
    /\ \A w \in Writer : IF pc[w] \in Outside THEN buf[w] = <<>> ELSE size[w] = Len(buf[w])

(* What a release does: the first waiters leave the queue with one unit each. *)
Releases(s, n, W) ==
    /\ W \subseteq Range(waitq[s])
    /\ IsFiniteSet(W)
    /\ Cardinality(W) <= count[s] + n
    /\ count' = [count EXCEPT ![s] = @ + n - Cardinality(W)]
    /\ waitq' = [waitq EXCEPT ![s] = waitq'[s]]
    /\ waitq'[s] \in Seq(Proc)
    /\ IsInjective(waitq'[s])
    /\ Range(waitq'[s]) = Range(waitq[s]) \ W
    /\ waitq'[s] # <<>> => count'[s] = 0

(* Every waiter of a pipe's semaphores waits for one unit, so a release of n *)
(* serves up to n of them, and units are left over only if nobody waits.    *)
LEMMA ReleaseServes ==
    ASSUME Types, WaitInv, NEW s \in Sem, NEW n \in Nat, Release(s, n)
    PROVE  wanted' = wanted /\ \E W : Releases(s, n, W)
<1> DEFINE q == waitq[s]
<1>1. q \in Seq(Proc) /\ IsInjective(q) /\ Len(q) \in Nat /\ \A i \in 1..Len(q) : wanted[q[i]] = 1
  <2>1. q \in Seq(Proc) /\ IsInjective(q) /\ Len(q) \in Nat /\ DOMAIN q = 1..Len(q)
    BY LenProperties DEF Types, WaitInv
  <2>2. \A p \in Range(q) : wanted[p] = 1
    BY DEF WaitInv, Waiter
  <2> QED
    BY <2>1, <2>2 DEF Range
<1>2. PICK k \in 0..Len(q) :
         /\ UnitsFor(s, k) \in 0..count[s] + n
         /\ k < Len(q) => UnitsFor(s, k + 1) > count[s] + n
         /\ count' = [count EXCEPT ![s] = @ + n - UnitsFor(s, k)]
         /\ waitq' = [waitq EXCEPT ![s] = SubSeq(@, k + 1, Len(@))]
         /\ wanted' = wanted
  BY DEF Release
<1>3. ASSUME NEW m \in 0..Len(q) PROVE UnitsFor(s, m) = m
  <2> DEFINE f == [i \in 1..m |-> wanted[waitq[s][i]]]
  <2>1. m \in Nat /\ \A i \in 1..m : f[i] = 1
    BY <1>1
  <2>2. UnitsFor(s, m) = SumFunctionOnSet(f, 1..m)
    BY DEF UnitsFor, SumFunction
  <2> HIDE DEF f
  <2> QED
    BY <2>1, <2>2, SumOnes
<1> DEFINE a == SubSeq(q, 1, k)
           b == SubSeq(q, k + 1, Len(q))
           W == Range(a)
<1>4. /\ a \in Seq(Proc) /\ Len(a) = k /\ b \in Seq(Proc) /\ Len(b) = Len(q) - k
      /\ IsInjective(a) /\ IsInjective(b)
      /\ Range(a) \cup Range(b) = Range(q) /\ Range(a) \cap Range(b) = {}
  <2>1. k \in 0..Len(q)
    BY <1>2
  <2> HIDE DEF q
  <2> QED
    BY <1>1, <2>1, CutInTwo
<1>5. IsFiniteSet(W) /\ Cardinality(W) = k
  <2> HIDE DEF a
  <2> QED
    BY <1>4, RangeCardinality
<1>6. waitq'[s] = b /\ waitq' = [waitq EXCEPT ![s] = b]
  BY <1>2 DEF Types
<1> HIDE DEF a, b
<1>7. Range(b) = Range(q) \ W
  BY <1>4
<1>8. W \subseteq Range(q) /\ Cardinality(W) <= count[s] + n
  <2>1. k \in Nat /\ k <= count[s] + n
    BY <1>1, <1>2, <1>3 DEF Types
  <2> QED
    BY <1>4, <1>5, <2>1
<1>9. count' = [count EXCEPT ![s] = @ + n - Cardinality(W)]
  BY <1>2, <1>3, <1>5
<1>10. waitq'[s] # <<>> => count'[s] = 0
  <2> SUFFICES ASSUME waitq'[s] # <<>> PROVE count'[s] = 0
    OBVIOUS
  <2>1. k \in Nat /\ Len(q) \in Nat /\ count[s] \in Nat /\ k <= Len(q)
    BY <1>1, <1>2 DEF Types
  <2>2. k < Len(q)
    <3>1. Len(b) # 0
      BY <1>4, <1>6, EmptySeq
    <3> QED
      BY <1>4, <2>1, <3>1
  <2>3. UnitsFor(s, k) = k /\ UnitsFor(s, k + 1) = k + 1
    <3>1. k + 1 \in 0..Len(q)
      BY <2>1, <2>2
    <3> QED
      BY <1>2, <1>3, <3>1
  <2>4. k <= count[s] + n /\ k + 1 > count[s] + n
    BY <1>2, <2>2, <2>3
  <2>5. count'[s] = count[s] + n - k
    BY <1>2, <2>3 DEF Types
  <2> QED
    BY <2>1, <2>4, <2>5
<1>11. Releases(s, n, W)
  <2> HIDE DEF W
  <2> QED
    BY <1>4, <1>5, <1>6, <1>7, <1>8, <1>9, <1>10 DEF Releases
<1> QED
  BY <1>2, <1>11

-----------------------------------------------------------------------------
(* The waiting queues. *)
NoQueue(p) == \A s \in Sem : p \notin Range(waitq[s])

(* Who may run waits nowhere. *)
LEMMA MayRunNoQueue ==
    ASSUME NEW p \in Proc, MayRun(p)
    PROVE  NoQueue(p)
BY DEF MayRun, Blocked, NoQueue

(* The processor's owner moves on in its call; nobody joins a queue. *)
LEMMA MoveWait ==
    ASSUME Types, WaitInv, NEW p \in Proc, MayRun(p), NEW next, pc' = [pc EXCEPT ![p] = next],
           wanted' = wanted,
           \A s \in Sem : IsInjective(waitq'[s]) /\ Range(waitq'[s]) \subseteq Range(waitq[s])
    PROVE  WaitInv'
<1>1. \A s \in Sem : \A q \in Range(waitq[s]) : q # p /\ pc'[q] = pc[q]
  <2>1. \A s \in Sem : \A q \in Range(waitq[s]) : q \in Proc
    BY LenProperties DEF Types, Range
  <2> QED
    BY <2>1, MayRunNoQueue DEF NoQueue, Types
<1>2. \A s \in Sem : \A q \in Range(waitq[s]) : Waiter(s, q)'
  BY <1>1 DEF WaitInv, Waiter, Own
<1> QED
  BY <1>2 DEF WaitInv

(* An acquire that is served at once, or that waits for one unit at one of  *)
(* the three places of a call where that happens.                           *)
LEMMA AcquireWait ==
    ASSUME Types, WaitInv, NEW p \in Proc, MayRun(p), NEW s \in Sem, NEW n \in Nat, NEW next,
           Acquire(p, s, n, next),
           count[s] >= n \/ (n = 1 /\ IF s = "lock" THEN next \in {"enter", "measure", "close"}
                                                  ELSE s = Own(p) /\ next = "relock")
    PROVE  WaitInv'
<1>1. CASE count[s] >= n
  <2>1. pc' = [pc EXCEPT ![p] = next] /\ wanted' = wanted /\ waitq' = waitq
    BY <1>1 DEF Acquire
  <2>2. \A t \in Sem : IsInjective(waitq'[t]) /\ Range(waitq'[t]) \subseteq Range(waitq[t])
    BY <2>1 DEF WaitInv
  <2> QED
    BY <2>1, <2>2, MoveWait
<1>2. CASE ~(count[s] >= n)
  <2>1. /\ pc' = [pc EXCEPT ![p] = next] /\ wanted' = [wanted EXCEPT ![p] = n]
        /\ waitq' = [waitq EXCEPT ![s] = Append(@, p)]
    BY <1>2 DEF Acquire
  <2> DEFINE q == waitq[s]
  <2>2. q \in Seq(Proc) /\ IsInjective(q) /\ p \notin Range(q)
    BY MayRunNoQueue DEF Types, WaitInv, NoQueue
  <2>3. IsInjective(Append(q, p)) /\ Range(Append(q, p)) = Range(q) \cup {p}
    <3> HIDE DEF q
    <3> QED
      BY <2>2, AppendNew
  <2>4. wanted' \in [Proc -> Nat] /\ \A t \in Sem : IsInjective(waitq'[t])
    BY <2>1, <2>3 DEF Types, WaitInv
  <2>5. \A t \in Sem : \A x \in Range(waitq'[t]) : x \in Range(waitq[t]) \/ (x = p /\ t = s)
    BY <2>1, <2>3 DEF Types
  <2>6. ASSUME NEW t \in Sem, NEW x \in Range(waitq[t])
        PROVE  Waiter(t, x)'
    <3>1. x # p /\ x \in Proc
      BY <2>6, MayRunNoQueue, LenProperties DEF NoQueue, Types, Range
    <3>2. wanted'[x] = wanted[x] /\ pc'[x] = pc[x]
      BY <2>1, <3>1 DEF Types, WaitInv
    <3> QED
      BY <2>6, <3>2 DEF WaitInv, Waiter, Own
  <2>7. Waiter(s, p)'
    <3>1. wanted'[p] = n /\ pc'[p] = next
      BY <2>1 DEF Types, WaitInv
    <3> QED
      BY <1>2, <3>1 DEF Waiter, Own
  <2> QED
    BY <2>4, <2>5, <2>6, <2>7 DEF WaitInv
<1> QED
  BY <1>1, <1>2

-----------------------------------------------------------------------------
(* The node's lock. *)
HoldPlaces == {"enter", "measure", "bulk", "copy", "unlock", "close"}

(* p takes the lock, or joins its queue. *)
LEMMA AcquireLock ==
    ASSUME Types, LockInv, NEW p \in Proc, MayRun(p), pc[p] \notin HoldPlaces, NEW next,
           Acquire(p, "lock", 1, next)
    PROVE  LockInv'
<1>1. pc' = [pc EXCEPT ![p] = next] /\ "lock" \in Sem /\ count["lock"] \in Nat
  BY DEF Acquire, Types, Sem
<1>2. \A q \in Proc : q # p => pc'[q] = pc[q]
  BY <1>1 DEF Types
<1>3. CASE count["lock"] >= 1
  <2>1. count' = [count EXCEPT !["lock"] = @ - 1] /\ waitq' = waitq
    BY <1>3 DEF Acquire
  <2>2. count["lock"] = 1 /\ count'["lock"] = 0
    BY <1>1, <1>3, <2>1 DEF LockInv, Types
  <2>3. \A q \in Proc : Holds(q)' => q = p
    BY <1>2, <2>1, <2>2 DEF Holds, LockInv
  <2> QED
    BY <2>2, <2>3 DEF LockInv
<1>4. CASE ~(count["lock"] >= 1)
  <2>1. count' = count /\ waitq' = [waitq EXCEPT !["lock"] = Append(@, p)]
    BY <1>4 DEF Acquire
  <2> DEFINE q == waitq["lock"]
  <2>2. q \in Seq(Proc) /\ waitq'["lock"] = Append(q, p)
    BY <1>1, <2>1 DEF Types
  <2>3. \A x \in Range(q) \cup {p} : x \in Range(Append(q, p))
    <3> HIDE DEF q
    <3>1. /\ Append(q, p) \in Seq(Proc) /\ Len(Append(q, p)) = Len(q) + 1 /\ Len(q) \in Nat
          /\ \A i \in 1..Len(q) : Append(q, p)[i] = q[i]
          /\ Append(q, p)[Len(q) + 1] = p
      BY <2>2, AppendProperties, LenProperties
    <3>2. DOMAIN Append(q, p) = 1..Len(q) + 1 /\ DOMAIN q = 1..Len(q)
      BY <2>2, <3>1, LenProperties
    <3> QED
      BY <3>1, <3>2 DEF Range
  <2>4. \A x \in Proc : Holds(x)' => Holds(x)
    BY <1>2, <2>2, <2>3 DEF Holds
  <2> QED
    BY <2>1, <2>4 DEF LockInv
<1> QED
  BY <1>3, <1>4

(* The holder p gives the lock to the first waiter, or back. *)
LEMMA ReleaseLock ==
    ASSUME Types, WaitInv, LockInv, NEW p \in Proc, MayRun(p), pc[p] \in HoldPlaces,
           NEW next, next \notin HoldPlaces, pc' = [pc EXCEPT ![p] = next], Release("lock", 1)
    PROVE  LockInv'
<1>1. "lock" \in Sem
  BY DEF Sem
<1>2. PICK W : Releases("lock", 1, W)
  BY <1>1, ReleaseServes
<1>3. Holds(p)
  BY <1>1, MayRunNoQueue DEF Holds, HoldPlaces, NoQueue
<1>4. count["lock"] = 0 /\ IsFiniteSet(W) /\ Cardinality(W) \in Nat /\ Cardinality(W) <= 1
  <2>1. count["lock"] = 0 /\ IsFiniteSet(W) /\ Cardinality(W) <= count["lock"] + 1
    BY <1>2, <1>3 DEF LockInv, Releases
  <2>2. Cardinality(W) \in Nat
    BY <2>1, FS_CardinalityType
  <2> QED
    BY <2>1, <2>2
<1>5. count'["lock"] = 1 - Cardinality(W)
  BY <1>1, <1>2, <1>4 DEF Releases, Types
<1>6. \A q \in Proc : Holds(q)' => q \in W
  <2> SUFFICES ASSUME NEW q \in Proc, Holds(q)' PROVE q \in W
    OBVIOUS
  <2>1. q # p /\ pc[q] = pc'[q]
    BY DEF Types, Holds, HoldPlaces
  <2>2. ~Holds(q)
    BY <1>3, <2>1 DEF LockInv
  <2>3. q \in Range(waitq["lock"]) /\ q \notin Range(waitq'["lock"])
    BY <2>1, <2>2 DEF Holds
  <2> QED
    BY <1>2, <2>3 DEF Releases
<1>7. CASE W = {}
  <2>1. Cardinality(W) = 0
    BY <1>7, FS_EmptySet
  <2> QED
    BY <1>5, <1>6, <1>7, <2>1 DEF LockInv
<1>8. CASE W # {}
  <2>1. Cardinality(W) = 1
    BY <1>4, <1>8, FS_EmptySet
  <2>2. PICK x : W = {x}
    BY <1>4, <2>1, FS_Singleton
  <2> QED
    BY <1>5, <1>6, <2>1, <2>2 DEF LockInv
<1> QED
  BY <1>7, <1>8

(* A step of p that leaves the lock alone. *)
LEMMA KeepLock ==
    ASSUME Types, LockInv, NEW p \in Proc, MayRun(p), NEW next, pc' = [pc EXCEPT ![p] = next],
           next \in HoldPlaces => pc[p] \in HoldPlaces,
           count'["lock"] = count["lock"], waitq'["lock"] = waitq["lock"]
    PROVE  LockInv'
<1>1. "lock" \in Sem
  BY DEF Sem
<1>2. ASSUME NEW q \in Proc, Holds(q)' PROVE Holds(q)
  <2>1. CASE q = p
    <3>1. pc'[q] = next
      BY <2>1 DEF Types
    <3> QED
      BY <1>1, <1>2, <2>1, <3>1, MayRunNoQueue DEF Holds, HoldPlaces, NoQueue
  <2>2. CASE q # p
    BY <1>2, <2>2 DEF Types, Holds
  <2> QED
    BY <2>1, <2>2
<1> QED
  BY <1>2 DEF LockInv

-----------------------------------------------------------------------------
(* The sizes of a call and the writer's bytes. *)
CallMove(p, next, s, t, b) ==
    /\ pc' = [pc EXCEPT ![p] = next]
    /\ size' = [size EXCEPT ![p] = s]
    /\ todo' = [todo EXCEPT ![p] = t]
    /\ buf' = IF p \in Writer THEN [buf EXCEPT ![p] = b] ELSE buf
    /\ next \in {"first", "relock", "measure", "bulk", "copy"} => s > 0
    /\ next \in {"bulk", "copy"} => t > 0 /\ t <= s
    /\ p \in Writer => b \in Seq(Byte) /\ IF next \in Outside THEN b = <<>> ELSE s = Len(b)

(* A step of p that leaves its sizes and its bytes as its place requires. *)
LEMMA StepCall ==
    ASSUME Types, CallInv, BufInv, NEW p \in Proc, NEW next, NEW s, NEW t, NEW b,
           CallMove(p, next, s, t, b)
    PROVE  CallInv' /\ BufInv'
<1> USE DEF CallMove
<1>1. pc'[p] = next /\ size'[p] = s /\ todo'[p] = t /\ (p \in Writer => buf'[p] = b)
  BY DEF Types, BufInv
<1>2. \A q \in Proc : q # p => /\ pc'[q] = pc[q] /\ size'[q] = size[q] /\ todo'[q] = todo[q]
                               /\ buf'[q] = buf[q]
  BY DEF Types, BufInv
<1>3. CallInv'
  BY <1>1, <1>2 DEF CallInv
<1>4. buf' \in [Writer -> Seq(Byte)]
  BY DEF BufInv
<1>5. \A w \in Writer : w \in Proc
  BY DEF Proc
<1>6. \A w \in Writer : IF pc'[w] \in Outside THEN buf'[w] = <<>> ELSE size'[w] = Len(buf'[w])
  BY <1>1, <1>2, <1>5 DEF BufInv
<1> QED
  BY <1>3, <1>4, <1>6 DEF BufInv

ControlInv == WaitInv /\ LockInv /\ CallInv /\ BufInv

(* Queues that are not touched. *)
LEMMA SameQueues ==
    ASSUME WaitInv, waitq' = waitq
    PROVE  \A s \in Sem : IsInjective(waitq'[s]) /\ Range(waitq'[s]) \subseteq Range(waitq[s])
BY DEF WaitInv

(* A release lets waiters go and touches no other semaphore. *)
LEMMA ReleaseQueues ==
    ASSUME Types, WaitInv, NEW s \in Sem, NEW n \in Nat, Release(s, n)
    PROVE  /\ wanted' = wanted
           /\ \A t \in Sem : IsInjective(waitq'[t]) /\ Range(waitq'[t]) \subseteq Range(waitq[t])
           /\ \A t \in Sem : t # s => count'[t] = count[t] /\ waitq'[t] = waitq[t]
<1>1. wanted' = wanted
  BY ReleaseServes
<1>2. PICK W : Releases(s, n, W)
  BY ReleaseServes
<1>3. \A t \in Sem : t # s => count'[t] = count[t] /\ waitq'[t] = waitq[t]
  BY <1>2 DEF Releases, Types
<1>4. IsInjective(waitq'[s]) /\ Range(waitq'[s]) \subseteq Range(waitq[s])
  BY <1>2 DEF Releases
<1> QED
  BY <1>1, <1>3, <1>4 DEF WaitInv

(* A new pipe has its lock free and nobody waiting. *)
LEMMA ControlInit == Init => ControlInv
<1> SUFFICES ASSUME Init PROVE ControlInv
  OBVIOUS
<1>1. WaitInv
  <2>1. wanted \in [Proc -> Nat]
    BY DEF Init
  <2>2. IsInjective(<<>>) /\ Range(<<>>) = {}
    BY DEF IsInjective, Range
  <2>3. \A s \in Sem : waitq[s] = <<>>
    BY DEF Init
  <2> QED
    BY <2>1, <2>2, <2>3 DEF WaitInv
<1>2. LockInv
  <2>1. count["lock"] = 1 /\ \A p \in Proc : pc[p] = "user"
    BY DEF Init, Sem
  <2> QED
    BY <2>1 DEF LockInv, Holds
<1>3. CallInv
  BY DEF Init, CallInv
<1>4. BufInv
  <2>1. \A w \in Writer : pc[w] = "user" /\ buf[w] = <<>>
    BY DEF Init, Proc
  <2>2. <<>> \in Seq(Byte)
    OBVIOUS
  <2>3. buf \in [Writer -> Seq(Byte)]
    BY <2>2 DEF Init
  <2> QED
    BY <2>1, <2>3 DEF BufInv, Outside
<1> QED
  BY <1>1, <1>2, <1>3, <1>4 DEF ControlInv

(* The last time a process is looked at before the copy, it has work to do. *)
LEMMA TodoPositive ==
    ASSUME Types, NEW p \in Proc, size[p] > 0
    PROVE  Todo(p) > 0 /\ Todo(p) <= size[p] /\ Todo(p) \in Nat
<1>1. size[p] \in Nat /\ count[Own(p)] \in Nat
  BY DEF Types, Own, Sem
<1> QED
  BY <1>1 DEF Todo, Available

(* Every step keeps the control invariant, given what is known of the bulk  *)
(* acquire.                                                                 *)
LEMMA ControlStep ==
    ASSUME BulkInv, ControlInv, [Next]_vars
    PROVE  ControlInv'
<1> USE PipeAssumption
<1>1. /\ Types /\ WaitInv /\ LockInv /\ CallInv /\ BufInv
      /\ "lock" \in Sem /\ \A q \in Proc : Own(q) \in Sem /\ Other(q) \in Sem
                                          /\ Own(q) # "lock" /\ Other(q) # "lock"
  BY DEF BulkInv, ControlInv, Own, Other, Sem
<1>2. ASSUME NEW p \in Proc, size' = size, todo' = todo, buf' = buf, NEW next, pc' = [pc EXCEPT ![p] = next],
             next \in {"first", "relock", "measure"} => size[p] > 0,
             next \in {"bulk", "copy"} => pc[p] \in {"bulk", "copy"},
             p \in Writer => IF next \in Outside THEN pc[p] \in Outside ELSE pc[p] \notin Outside
      PROVE  CallInv' /\ BufInv'
  <2>1. /\ size' = [size EXCEPT ![p] = size[p]] /\ todo' = [todo EXCEPT ![p] = todo[p]]
        /\ buf' = IF p \in Writer THEN [buf EXCEPT ![p] = buf[p]] ELSE buf
    BY <1>1, <1>2 DEF Types, BufInv
  <2>2. next \in {"bulk", "copy"} => size[p] > 0 /\ todo[p] > 0 /\ todo[p] <= size[p]
    BY <1>1, <1>2 DEF CallInv
  <2>3. p \in Writer => buf[p] \in Seq(Byte) /\ IF next \in Outside THEN buf[p] = <<>> ELSE size[p] = Len(buf[p])
    BY <1>1, <1>2 DEF BufInv
  <2>4. CallMove(p, next, size[p], todo[p], buf[p])
    BY <1>2, <2>1, <2>2, <2>3 DEF CallMove
  <2> QED
    BY <1>1, <2>4, StepCall
<1>3. ASSUME NEW r \in Reader, NEW n \in Sizes, Read(r, n) PROVE ControlInv'
  <2>1. r \in Proc /\ r \notin Writer /\ MayRun(r) /\ pc[r] = "user" /\ Acquire(r, "lock", 1, "enter")
    BY <1>3 DEF Read, At, Proc
  <2>2. WaitInv'
    BY <1>1, <2>1, AcquireWait
  <2>3. LockInv'
    BY <1>1, <2>1, AcquireLock DEF HoldPlaces
  <2>4. CallInv' /\ BufInv'
    <3>1. /\ size' = [size EXCEPT ![r] = n] /\ todo' = [todo EXCEPT ![r] = todo[r]]
          /\ buf' = IF r \in Writer THEN [buf EXCEPT ![r] = <<>>] ELSE buf
          /\ pc' = [pc EXCEPT ![r] = "enter"]
      BY <1>1, <1>3, <2>1 DEF Read, Acquire, Types
    <3>2. CallMove(r, "enter", n, todo[r], <<>>)
      BY <2>1, <3>1 DEF CallMove
    <3> QED
      BY <1>1, <2>1, <3>2, StepCall
  <2> QED
    BY <2>2, <2>3, <2>4 DEF ControlInv
<1>4. ASSUME NEW w \in Writer, NEW n \in Sizes, NEW b \in [1..n -> Byte], Write(w, b) PROVE ControlInv'
  <2>1. w \in Proc /\ MayRun(w) /\ pc[w] = "user" /\ Acquire(w, "lock", 1, "enter")
    BY <1>4 DEF Write, At, Proc
  <2>2. WaitInv'
    BY <1>1, <2>1, AcquireWait
  <2>3. LockInv'
    BY <1>1, <2>1, AcquireLock DEF HoldPlaces
  <2>4. CallInv' /\ BufInv'
    <3>1. /\ size' = [size EXCEPT ![w] = Len(b)] /\ todo' = [todo EXCEPT ![w] = todo[w]]
          /\ buf' = IF w \in Writer THEN [buf EXCEPT ![w] = b] ELSE buf
          /\ pc' = [pc EXCEPT ![w] = "enter"]
      BY <1>1, <1>4, <2>1 DEF Write, Acquire, Types
    <3>2. b \in Seq(Byte)
      <4>1. n \in Nat
        OBVIOUS
      <4> QED
        BY <4>1
    <3>3. CallMove(w, "enter", Len(b), todo[w], b)
      BY <3>1, <3>2 DEF CallMove, Outside
    <3> QED
      BY <1>1, <2>1, <3>3, StepCall
  <2> QED
    BY <2>2, <2>3, <2>4 DEF ControlInv
<1>5. ASSUME NEW p \in Proc, Enter(p) PROVE ControlInv'
  <2>1. /\ MayRun(p) /\ pc[p] = "enter" /\ size' = size /\ todo' = todo /\ buf' = buf /\ size[p] \in Nat
    BY <1>1, <1>5 DEF Enter, At, Types
  <2>2. CASE size[p] = 0
    <3>1. pc' = [pc EXCEPT ![p] = "unlock"] /\ count' = count /\ waitq' = waitq /\ wanted' = wanted
      BY <1>5, <2>2 DEF Enter, semVars
    <3>2. WaitInv'
      BY <1>1, <2>1, <3>1, SameQueues, MoveWait
    <3>3. LockInv'
      BY <1>1, <2>1, <3>1, KeepLock DEF HoldPlaces
    <3>4. CallInv' /\ BufInv'
      <4>1. /\ size' = [size EXCEPT ![p] = size[p]] /\ todo' = [todo EXCEPT ![p] = todo[p]]
            /\ buf' = IF p \in Writer THEN [buf EXCEPT ![p] = buf[p]] ELSE buf
        BY <1>1, <2>1 DEF Types, BufInv
      <4>2. p \in Writer => buf[p] \in Seq(Byte) /\ buf[p] = <<>>
        <5> SUFFICES ASSUME p \in Writer PROVE buf[p] \in Seq(Byte) /\ buf[p] = <<>>
          OBVIOUS
        <5>1. buf[p] \in Seq(Byte) /\ Len(buf[p]) = 0
          BY <1>1, <2>1, <2>2 DEF BufInv, Outside
        <5> QED
          BY <5>1, EmptySeq
      <4>3. CallMove(p, "unlock", size[p], todo[p], buf[p])
        BY <3>1, <4>1, <4>2 DEF CallMove, Outside
      <4> QED
        BY <1>1, <4>3, StepCall
    <3> QED
      BY <3>2, <3>3, <3>4 DEF ControlInv
  <2>3. CASE size[p] # 0
    <3>1. pc' = [pc EXCEPT ![p] = "first"] /\ Release("lock", 1) /\ size[p] > 0
      BY <1>5, <2>1, <2>3 DEF Enter
    <3>2. WaitInv'
      BY <1>1, <2>1, <3>1, ReleaseQueues, MoveWait
    <3>3. LockInv'
      BY <1>1, <2>1, <3>1, ReleaseLock DEF HoldPlaces
    <3>4. CallInv' /\ BufInv'
      BY <1>2, <2>1, <3>1 DEF Outside
    <3> QED
      BY <3>2, <3>3, <3>4 DEF ControlInv
  <2> QED
    BY <2>2, <2>3
<1>6. ASSUME NEW p \in Proc, First(p) PROVE ControlInv'
  <2>1. /\ MayRun(p) /\ pc[p] = "first" /\ size' = size /\ todo' = todo /\ buf' = buf
        /\ Acquire(p, Own(p), 1, "relock") /\ pc' = [pc EXCEPT ![p] = "relock"]
    BY <1>6 DEF First, At, Acquire
  <2>2. WaitInv'
    BY <1>1, <2>1, AcquireWait
  <2>3. LockInv'
    <3>1. count'["lock"] = count["lock"] /\ waitq'["lock"] = waitq["lock"]
      BY <1>1, <2>1 DEF Acquire, Types
    <3> QED
      BY <1>1, <2>1, <3>1, KeepLock DEF HoldPlaces
  <2>4. CallInv' /\ BufInv'
    <3>1. size[p] > 0
      BY <1>1, <2>1 DEF CallInv
    <3> QED
      BY <1>2, <2>1, <3>1 DEF Outside
  <2> QED
    BY <2>2, <2>3, <2>4 DEF ControlInv
<1>7. ASSUME NEW p \in Proc, Relock(p) PROVE ControlInv'
  <2>1. /\ MayRun(p) /\ pc[p] = "relock" /\ size' = size /\ todo' = todo /\ buf' = buf
        /\ Acquire(p, "lock", 1, "measure") /\ pc' = [pc EXCEPT ![p] = "measure"]
    BY <1>7 DEF Relock, At, Acquire
  <2>2. WaitInv'
    BY <1>1, <2>1, AcquireWait
  <2>3. LockInv'
    BY <1>1, <2>1, AcquireLock DEF HoldPlaces
  <2>4. CallInv' /\ BufInv'
    <3>1. size[p] > 0
      BY <1>1, <2>1 DEF CallInv
    <3> QED
      BY <1>2, <2>1, <3>1 DEF Outside
  <2> QED
    BY <2>2, <2>3, <2>4 DEF ControlInv
<1>8. ASSUME NEW p \in Proc, Measure(p) PROVE ControlInv'
  <2> DEFINE next == IF todo'[p] > 1 THEN "bulk" ELSE "copy"
  <2>1. /\ MayRun(p) /\ pc[p] = "measure" /\ size' = size /\ buf' = buf
        /\ todo' = [todo EXCEPT ![p] = Todo(p)] /\ pc' = [pc EXCEPT ![p] = next]
        /\ count' = count /\ waitq' = waitq /\ wanted' = wanted
    BY <1>8 DEF Measure, At, semVars
  <2>2. next \in {"bulk", "copy"}
    OBVIOUS
  <2> HIDE DEF next
  <2>3. WaitInv'
    BY <1>1, <2>1, SameQueues, MoveWait
  <2>4. LockInv'
    BY <1>1, <2>1, KeepLock DEF HoldPlaces
  <2>5. CallInv' /\ BufInv'
    <3>1. size[p] > 0 /\ Todo(p) > 0 /\ Todo(p) <= size[p]
      <4>1. size[p] > 0
        BY <1>1, <2>1 DEF CallInv
      <4> QED
        BY <1>1, <4>1, TodoPositive
    <3>2. /\ size' = [size EXCEPT ![p] = size[p]]
          /\ buf' = IF p \in Writer THEN [buf EXCEPT ![p] = buf[p]] ELSE buf
      BY <1>1, <2>1 DEF Types, BufInv
    <3>3. next \notin Outside /\ (p \in Writer => buf[p] \in Seq(Byte) /\ size[p] = Len(buf[p]))
      BY <1>1, <2>1, <2>2 DEF BufInv, Outside
    <3>4. CallMove(p, next, size[p], Todo(p), buf[p])
      BY <2>1, <3>1, <3>2, <3>3 DEF CallMove
    <3> QED
      BY <1>1, <3>4, StepCall
  <2> QED
    BY <2>3, <2>4, <2>5 DEF ControlInv
<1>9. ASSUME NEW p \in Proc, Bulk(p) PROVE ControlInv'
  <2>1. /\ MayRun(p) /\ pc[p] = "bulk" /\ size' = size /\ todo' = todo /\ buf' = buf
        /\ Acquire(p, Own(p), todo[p] - 1, "copy") /\ pc' = [pc EXCEPT ![p] = "copy"]
    BY <1>9 DEF Bulk, At, Acquire
  <2>2. todo[p] - 1 \in Nat /\ count[Own(p)] >= todo[p] - 1
    <3>1. todo[p] \in Nat /\ count[Own(p)] \in Nat /\ todo[p] > 1 /\ todo[p] <= 1 + count[Own(p)]
      BY <1>1, <2>1 DEF BulkInv, CountedStillThere, Types
    <3> QED
      BY <3>1
  <2>3. WaitInv'
    BY <1>1, <2>1, <2>2, AcquireWait
  <2>4. LockInv'
    <3>1. count'["lock"] = count["lock"] /\ waitq'["lock"] = waitq["lock"]
      BY <1>1, <2>1 DEF Acquire, Types
    <3> QED
      BY <1>1, <2>1, <3>1, KeepLock DEF HoldPlaces
  <2>5. CallInv' /\ BufInv'
    BY <1>2, <2>1 DEF Outside
  <2> QED
    BY <2>3, <2>4, <2>5 DEF ControlInv
<1>10. ASSUME NEW p \in Proc, MayRun(p), pc[p] = "copy", NEW n \in Nat, Release(Other(p), n),
              pc' = [pc EXCEPT ![p] = "unlock"], todo' = [todo EXCEPT ![p] = 0], size' = size,
              buf' = IF p \in Writer THEN [buf EXCEPT ![p] = <<>>] ELSE buf
       PROVE  ControlInv'
  <2>1. WaitInv'
    BY <1>1, <1>10, ReleaseQueues, MoveWait
  <2>2. LockInv'
    <3>1. count'["lock"] = count["lock"] /\ waitq'["lock"] = waitq["lock"]
      BY <1>1, <1>10, ReleaseQueues
    <3> QED
      BY <1>1, <1>10, <3>1, KeepLock DEF HoldPlaces
  <2>3. CallInv' /\ BufInv'
    <3>1. size' = [size EXCEPT ![p] = size[p]] /\ <<>> \in Seq(Byte)
      BY <1>1, <1>10 DEF Types
    <3>2. CallMove(p, "unlock", size[p], 0, <<>>)
      BY <1>10, <3>1 DEF CallMove, Outside
    <3> QED
      BY <1>1, <3>2, StepCall
  <2> QED
    BY <2>1, <2>2, <2>3 DEF ControlInv
<1>11. ASSUME NEW p \in Proc, CopyOut(p) PROVE ControlInv'
  <2>1. /\ p \notin Writer /\ MayRun(p) /\ pc[p] = "copy" /\ Release(Other(p), todo[p])
        /\ pc' = [pc EXCEPT ![p] = "unlock"] /\ todo' = [todo EXCEPT ![p] = 0] /\ size' = size /\ buf' = buf
        /\ todo[p] \in Nat
    BY <1>1, <1>11 DEF CopyOut, At, Types
  <2> QED
    BY <1>10, <2>1
<1>12. ASSUME NEW p \in Proc, CopyIn(p) PROVE ControlInv'
  <2>1. PICK n \in 0..todo[p] : Release(Other(p), n)
    BY <1>12 DEF CopyIn
  <2>2. /\ p \in Writer /\ MayRun(p) /\ pc[p] = "copy" /\ n \in Nat
        /\ pc' = [pc EXCEPT ![p] = "unlock"] /\ todo' = [todo EXCEPT ![p] = 0] /\ size' = size
        /\ buf' = [buf EXCEPT ![p] = <<>>]
    BY <1>1, <1>12 DEF CopyIn, At, Types
  <2> QED
    BY <1>10, <2>1, <2>2
<1>13. ASSUME NEW p \in Proc, Unlock(p) PROVE ControlInv'
  <2>1. /\ MayRun(p) /\ pc[p] = "unlock" /\ Release("lock", 1) /\ pc' = [pc EXCEPT ![p] = "user"]
        /\ size' = [size EXCEPT ![p] = 0] /\ todo' = todo /\ buf' = buf
    BY <1>13 DEF Unlock, At
  <2>2. WaitInv'
    BY <1>1, <2>1, ReleaseQueues, MoveWait
  <2>3. LockInv'
    BY <1>1, <2>1, ReleaseLock DEF HoldPlaces
  <2>4. CallInv' /\ BufInv'
    <3>1. /\ todo' = [todo EXCEPT ![p] = todo[p]]
          /\ buf' = IF p \in Writer THEN [buf EXCEPT ![p] = buf[p]] ELSE buf
      BY <1>1, <2>1 DEF Types, BufInv
    <3>2. p \in Writer => buf[p] \in Seq(Byte) /\ buf[p] = <<>>
      BY <1>1, <2>1 DEF BufInv, Outside
    <3>3. CallMove(p, "user", 0, todo[p], buf[p])
      BY <2>1, <3>1, <3>2 DEF CallMove, Outside
    <3> QED
      BY <1>1, <3>3, StepCall
  <2> QED
    BY <2>2, <2>3, <2>4 DEF ControlInv
<1>14. ASSUME NEW p \in Proc, Close(p) PROVE ControlInv'
  <2>1. /\ MayRun(p) /\ pc[p] = "user" /\ size' = size /\ todo' = todo /\ buf' = buf
        /\ Acquire(p, "lock", 1, "close") /\ pc' = [pc EXCEPT ![p] = "close"]
    BY <1>14 DEF Close, At, Acquire
  <2>2. WaitInv'
    BY <1>1, <2>1, AcquireWait
  <2>3. LockInv'
    BY <1>1, <2>1, AcquireLock DEF HoldPlaces
  <2>4. CallInv' /\ BufInv'
    BY <1>2, <2>1 DEF Outside
  <2> QED
    BY <2>2, <2>3, <2>4 DEF ControlInv
<1>15. ASSUME NEW p \in Proc, Closed(p) PROVE ControlInv'
  <2>1. /\ MayRun(p) /\ pc[p] = "close" /\ size' = size /\ todo' = todo /\ buf' = buf
        /\ pc' = [pc EXCEPT ![p] = "closed"] /\ count' = count /\ waitq' = waitq /\ wanted' = wanted
    BY <1>15 DEF Closed, At, semVars
  <2>2. WaitInv'
    BY <1>1, <2>1, SameQueues, MoveWait
  <2>3. LockInv'
    BY <1>1, <2>1, KeepLock DEF HoldPlaces
  <2>4. CallInv' /\ BufInv'
    BY <1>2, <2>1 DEF Outside
  <2> QED
    BY <2>2, <2>3, <2>4 DEF ControlInv
<1>16. CASE UNCHANGED <<procVars, semVars>>
  BY <1>16 DEF procVars, semVars, ControlInv, WaitInv, Waiter, Own, LockInv, Holds, CallInv, BufInv
<1>17. CASE OthersAllocate
  BY <1>16, <1>17 DEF OthersAllocate
<1>18. CASE UNCHANGED vars
  BY <1>16, <1>18 DEF vars
<1> QED
  BY <1>3, <1>4, <1>5, <1>6, <1>7, <1>8, <1>9, <1>11, <1>12, <1>13, <1>14, <1>15, <1>17, <1>18
     DEF Next, InCall

(* Inductive for every instance: queues, lock, sizes and a writer's bytes are *)
(* as the place of each process in ramfs_pipe_read, ramfs_pipe_write and    *)
(* vfs_close says.                                                          *)
THEOREM ControlInvariant == Spec => []ControlInv
<1>1. ControlInv /\ BulkInv /\ [Next]_vars => ControlInv'
  BY ControlStep
<1> QED
  BY <1>1, ControlInit, BulkInvariant, PTL DEF Spec

(* The node's lock, given up and taken again half way through every call, has *)
(* at most one holder (vfs_read, vfs_write, vfs_close): for every instance. *)
THEOREM LockIsExclusive == Spec => []LockExclusive
<1>1. BulkInv /\ ControlInv => LockExclusive
  <2> SUFFICES ASSUME Types, LockInv PROVE LockExclusive
    BY DEF ControlInv, BulkInv
  <2> DEFINE H == {p \in Proc : Holds(p)}
  <2>1. count["lock"] \in Nat /\ count["lock"] <= 1
    BY DEF Types, LockInv, Sem
  <2>2. CASE H = {}
    <3>1. Cardinality(H) = 0
      BY <2>2, FS_EmptySet
    <3> QED
      BY <2>1, <3>1 DEF LockExclusive
  <2>3. CASE H # {}
    <3>1. PICK p \in Proc : Holds(p)
      BY <2>3
    <3>2. H = {p} /\ count["lock"] = 0
      BY <3>1 DEF LockInv
    <3>3. Cardinality(H) = 1
      BY <3>2, FS_Singleton
    <3> QED
      BY <3>2, <3>3 DEF LockExclusive
  <2> QED
    BY <2>2, <2>3
<1> QED
  BY <1>1, BulkInvariant, ControlInvariant, PTL

-----------------------------------------------------------------------------
(* Units are left over only where nobody waits for them. *)
IdleInv == \A s \in Sem : waitq[s] # <<>> => count[s] = 0

(* An acquire waits only for a unit that is not there. *)
LEMMA AcquireIdle ==
    ASSUME Types, IdleInv, NEW p \in Proc, NEW s \in Sem, NEW n \in Nat, NEW next,
           Acquire(p, s, n, next), n = 1 \/ n <= count[s]
    PROVE  IdleInv'
<1>1. count[s] \in Nat
  BY DEF Types
<1>2. CASE count[s] >= n
  <2>1. count' = [count EXCEPT ![s] = @ - n] /\ waitq' = waitq
    BY <1>2 DEF Acquire
  <2>2. waitq[s] # <<>> => count[s] - n = 0
    BY <1>1, <1>2 DEF IdleInv
  <2> QED
    BY <2>1, <2>2 DEF IdleInv, Types
<1>3. CASE ~(count[s] >= n)
  <2>1. count' = count /\ waitq' = [waitq EXCEPT ![s] = Append(@, p)] /\ count[s] = 0
    BY <1>1, <1>3 DEF Acquire
  <2> QED
    BY <2>1 DEF IdleInv, Types
<1> QED
  BY <1>2, <1>3

(* A release keeps back no unit somebody waits for. *)
LEMMA ReleaseIdle ==
    ASSUME Types, WaitInv, IdleInv, NEW s \in Sem, NEW n \in Nat, Release(s, n)
    PROVE  IdleInv'
<1>1. PICK W : Releases(s, n, W)
  BY ReleaseServes
<1>2. \A t \in Sem : t # s => count'[t] = count[t] /\ waitq'[t] = waitq[t]
  BY ReleaseQueues
<1>3. waitq'[s] # <<>> => count'[s] = 0
  BY <1>1 DEF Releases
<1> QED
  BY <1>2, <1>3 DEF IdleInv

(* Every step keeps it. *)
LEMMA IdleStep ==
    ASSUME BulkInv, ControlInv, IdleInv, [Next]_vars
    PROVE  IdleInv'
<1> USE PipeAssumption
<1>1. /\ Types /\ WaitInv /\ "lock" \in Sem /\ 1 \in Nat
      /\ \A q \in Proc : Own(q) \in Sem /\ Other(q) \in Sem
  BY DEF BulkInv, ControlInv, Own, Other, Sem
<1>2. ASSUME NEW p \in Proc, NEW next, Acquire(p, "lock", 1, next) PROVE IdleInv'
  BY <1>1, <1>2, AcquireIdle
<1>3. ASSUME Release("lock", 1) PROVE IdleInv'
  BY <1>1, <1>3, ReleaseIdle
<1>4. ASSUME NEW r \in Reader, NEW n \in Sizes, Read(r, n) PROVE IdleInv'
  <2>1. r \in Proc /\ Acquire(r, "lock", 1, "enter")
    BY <1>4 DEF Read, Proc
  <2> QED
    BY <1>2, <2>1
<1>5. ASSUME NEW w \in Writer, NEW n \in Sizes, NEW b \in [1..n -> Byte], Write(w, b) PROVE IdleInv'
  <2>1. w \in Proc /\ Acquire(w, "lock", 1, "enter")
    BY <1>5 DEF Write, Proc
  <2> QED
    BY <1>2, <2>1
<1>6. CASE UNCHANGED <<count, waitq>>
  BY <1>6 DEF IdleInv
<1>7. ASSUME NEW p \in Proc, InCall(p) \/ Close(p) PROVE IdleInv'
  <2>1. CASE Enter(p)
    BY <1>3, <1>6, <2>1 DEF Enter, semVars
  <2>2. CASE First(p)
    <3>1. Acquire(p, Own(p), 1, "relock")
      BY <2>2 DEF First
    <3> QED
      BY <1>1, <3>1, AcquireIdle
  <2>3. CASE Relock(p)
    BY <1>2, <2>3 DEF Relock
  <2>4. CASE Bulk(p)
    <3>1. Acquire(p, Own(p), todo[p] - 1, "copy") /\ pc[p] = "bulk"
      BY <2>4 DEF Bulk, At
    <3>2. todo[p] \in Nat /\ count[Own(p)] \in Nat /\ todo[p] > 1 /\ todo[p] <= 1 + count[Own(p)]
      BY <1>1, <3>1 DEF BulkInv, CountedStillThere, Types
    <3>3. todo[p] - 1 \in Nat /\ todo[p] - 1 <= count[Own(p)]
      BY <3>2
    <3> QED
      BY <1>1, <3>1, <3>3, AcquireIdle
  <2>5. CASE CopyOut(p)
    <3>1. Release(Other(p), todo[p]) /\ todo[p] \in Nat
      BY <1>1, <2>5 DEF CopyOut, Types
    <3> QED
      BY <1>1, <3>1, ReleaseIdle
  <2>6. CASE CopyIn(p)
    <3>1. PICK n \in 0..todo[p] : Release(Other(p), n)
      BY <2>6 DEF CopyIn
    <3>2. n \in Nat
      BY <1>1, <3>1 DEF Types
    <3> QED
      BY <1>1, <3>1, <3>2, ReleaseIdle
  <2>7. CASE Unlock(p)
    BY <1>3, <2>7 DEF Unlock
  <2>8. CASE Close(p)
    BY <1>2, <2>8 DEF Close
  <2>9. CASE Measure(p) \/ Closed(p)
    BY <1>6, <2>9 DEF Measure, Closed, semVars
  <2> QED
    BY <1>7, <2>1, <2>2, <2>3, <2>4, <2>5, <2>6, <2>7, <2>8, <2>9 DEF InCall
<1>8. CASE OthersAllocate
  BY <1>6, <1>8 DEF OthersAllocate, semVars
<1>9. CASE UNCHANGED vars
  BY <1>6, <1>9 DEF vars, semVars
<1> QED
  BY <1>4, <1>5, <1>7, <1>8, <1>9 DEF Next

(* No lost wake-up: in a pipe nobody waits for a unit, or for the lock, that *)
(* is there (semaphore_release under ramfs_pipe_read and ramfs_pipe_write). *)
THEOREM NobodyWaitsInVain == Spec => []IdleInv
<1>1. Init => IdleInv
  BY DEF Init, IdleInv
<1>2. IdleInv /\ BulkInv /\ ControlInv /\ [Next]_vars => IdleInv'
  BY IdleStep
<1> QED
  BY <1>1, <1>2, BulkInvariant, ControlInvariant, PTL DEF Spec

-----------------------------------------------------------------------------

D == RAMFS_DATANODE_SIZE
Value == Byte \cup {NULL}
Datanode == [0..D - 1 -> Value]
Chains == Seq(Datanode) \ {<<>>}

(* How many bytes lie between the read and the write offset. *)
Stored(ch, from, to) == (Len(ch) - 1) * D + to - from

(* Offsets lie in their datanodes, and the read offset not behind the write *)
(* offset.                                                                  *)
WellFormed(ch, from, to) ==
    /\ ch \in Chains
    /\ from \in 0..D - 1
    /\ to \in 0..D - 1
    /\ Stored(ch, from, to) \in Nat

(* Moving on by a whole datanode. *)
LEMMA NextQuotient ==
    ASSUME NEW x \in Int, NEW d \in Nat \ {0}
    PROVE  (x + d) \div d = (x \div d) + 1 /\ (x + d) % d = x % d
<1> DEFINE r == x % d
           q == x \div d
<1>1. x = d * q + r /\ r \in 0..d - 1 /\ q \in Int
  BY DivMod
<1> HIDE DEF q, r
<1>2. d * (q + 1) = d * q + d /\ d * q \in Int
  BY <1>1
<1>3. x + d = r + d * (q + 1)
  BY <1>1, <1>2
<1>4. (r + d * (q + 1)) % d = r /\ (r + d * (q + 1)) \div d = q + 1
  <2>1. q + 1 \in Int
    BY <1>1
  <2> QED
    BY <1>1, <2>1, ModUnique
<1>5. (x + d) % d = r /\ (x + d) \div d = q + 1
  BY <1>3, <1>4
<1> QED
  BY <1>5 DEF q, r

(* Byte x of a chain of n datanodes lies in one of them. *)
LEMMA QuotientRange ==
    ASSUME NEW d \in Nat \ {0}, NEW n \in Nat, NEW x \in Nat, x < n * d
    PROVE  x \div d \in 0..n - 1 /\ x % d \in 0..d - 1
<1> DEFINE q == x \div d
<1>1. x = d * q + (x % d) /\ x % d \in 0..d - 1 /\ q \in Int
  BY DivMod
<1> HIDE DEF q
<1>2. CASE q >= n
  <2>1. d * q >= d * n /\ d * n = n * d /\ d * q \in Int
    BY <1>1, <1>2
  <2> QED
    BY <1>1, <2>1
<1>3. CASE q <= -1
  <2>1. d * q <= d * (-1) /\ d * (-1) = -d /\ d * q \in Int
    BY <1>1, <1>3
  <2> QED
    BY <1>1, <2>1
<1>4. q \in 0..n - 1
  BY <1>1, <1>2, <1>3
<1> QED
  BY <1>1, <1>4 DEF q

(* The bytes between the offsets form a sequence, as long as it should be. *)
LEMMA StoredBytes ==
    ASSUME NEW ch, NEW from, NEW to, WellFormed(ch, from, to)
    PROVE  /\ DOMAIN Between(ch, from, to) = 1..Stored(ch, from, to)
           /\ Between(ch, from, to) \in Seq(Value)
           /\ Len(Between(ch, from, to)) = Stored(ch, from, to)
<1>0. D \in Nat \ {0}
  BY PipeAssumption DEF D
<1> DEFINE n == Stored(ch, from, to)
           L == Len(ch)
           b == Between(ch, from, to)
<1>1. n \in Nat /\ L \in Nat /\ from \in Nat /\ to \in Nat /\ to < D /\ ch \in Seq(Datanode)
  BY <1>0, LenProperties DEF WellFormed, Chains
<1>2. b = [i \in 1..n |-> ch[(from + i - 1) \div D + 1][(from + i - 1) % D]]
  BY DEF Between, Stored, D
<1>3. n = (L - 1) * D + to - from
  BY DEF Stored
<1> HIDE DEF n, L, b
<1>4. from + n < L * D
  <2>1. (L - 1) * D = L * D - D /\ L * D \in Int
    BY <1>0, <1>1
  <2> QED
    BY <1>0, <1>1, <1>3, <2>1
<1>5. ASSUME NEW i \in 1..n PROVE ch[(from + i - 1) \div D + 1][(from + i - 1) % D] \in Value
  <2> DEFINE x == from + i - 1
  <2>1. x \in Nat /\ x < L * D
    <3>1. L * D \in Int
      BY <1>0, <1>1
    <3> QED
      BY <1>1, <1>4, <3>1
  <2> HIDE DEF x
  <2>2. x \div D \in 0..L - 1 /\ x % D \in 0..D - 1
    BY <1>0, <1>1, <2>1, QuotientRange
  <2>3. x \div D + 1 \in 1..L
    BY <1>1, <2>2
  <2>4. ch[x \div D + 1] \in Datanode
    BY <1>1, <2>3, ElementOfSeq DEF L
  <2>5. ch[x \div D + 1][x % D] \in Value
    BY <2>2, <2>4 DEF Datanode
  <2> QED
    BY <2>5 DEF x
<1>6. b \in [1..n -> Value]
  BY <1>2, <1>5
<1>7. b \in Seq(Value)
  BY <1>1, <1>6
<1>8. DOMAIN b = 1..n /\ Len(b) = n
  BY <1>1, <1>6, <1>7, LenProperties
<1> QED
  BY <1>7, <1>8 DEF b, n

(* What one turn of ramfs_pipe_read's loop does: the first byte goes out    *)
(* and the others move up, also across the end of a datanode.               *)
LEMMA ReadOne ==
    ASSUME NEW ch, NEW from, NEW to, WellFormed(ch, from, to), Stored(ch, from, to) > 0,
           NEW o \in Seq(Value)
    PROVE  LET st == ReadByte([chain |-> ch, head |-> from, out |-> o]) IN
           /\ WellFormed(st.chain, st.head, to)
           /\ Stored(st.chain, st.head, to) = Stored(ch, from, to) - 1
           /\ \A i \in 1..Stored(ch, from, to) - 1 :
                 Between(st.chain, st.head, to)[i] = Between(ch, from, to)[i + 1]
           /\ st.out = Append(o, Between(ch, from, to)[1])
<1>0. D \in Nat \ {0}
  BY PipeAssumption DEF D
<1> DEFINE st == ReadByte([chain |-> ch, head |-> from, out |-> o])
           n == Stored(ch, from, to)
           L == Len(ch)
<1>1. /\ n \in Nat /\ n > 0 /\ L \in Nat \ {0} /\ from \in Nat /\ from < D
      /\ to \in Nat /\ to < D /\ ch \in Seq(Datanode)
  BY <1>0, EmptySeq, LenProperties DEF WellFormed, Chains
<1>2. n = (L - 1) * D + to - from
  BY DEF Stored
<1>3. \A i \in 1..n : Between(ch, from, to)[i] = ch[(from + i - 1) \div D + 1][(from + i - 1) % D]
  BY DEF Between, Stored, D
<1>4. st = [chain |-> IF from + 1 = D /\ L > 1 THEN Tail(ch) ELSE ch,
            head  |-> IF from + 1 = D THEN 0 ELSE from + 1,
            out   |-> Append(o, ch[1][from])]
  BY DEF ReadByte, D
<1>5. Between(ch, from, to)[1] = ch[1][from]
  <2>1. Between(ch, from, to)[1] = ch[(from + 1 - 1) \div D + 1][(from + 1 - 1) % D]
    BY <1>1, <1>3
  <2>2. from + 1 - 1 = from + D * 0 /\ from \in 0..D - 1 /\ 0 \in Int
    BY <1>0, <1>1
  <2>3. (from + D * 0) % D = from /\ (from + D * 0) \div D = 0
    BY <1>0, <2>2, ModUnique
  <2> QED
    BY <2>1, <2>2, <2>3
<1> HIDE DEF n, L, st
<1>6. CASE from + 1 # D
  <2>1. st.chain = ch /\ st.head = from + 1 /\ st.out = Append(o, ch[1][from])
    BY <1>4, <1>6
  <2>2. from + 1 \in 0..D - 1
    BY <1>0, <1>1, <1>6
  <2>3. Stored(ch, from + 1, to) = n - 1 /\ n - 1 \in Nat
    <3>1. (L - 1) * D \in Int
      BY <1>0, <1>1
    <3> QED
      BY <1>1, <1>2, <3>1 DEF Stored, L
  <2>4. WellFormed(ch, from + 1, to)
    BY <2>2, <2>3 DEF WellFormed
  <2>5. ASSUME NEW i \in 1..n - 1
        PROVE  Between(ch, from + 1, to)[i] = Between(ch, from, to)[i + 1]
    <3>1. i + 1 \in 1..n /\ from + (i + 1) - 1 = from + 1 + i - 1
      BY <1>1
    <3>2. Between(ch, from + 1, to)[i]
            = ch[(from + 1 + i - 1) \div D + 1][(from + 1 + i - 1) % D]
      BY <2>3 DEF Between, Stored, D
    <3> QED
      BY <1>3, <3>1, <3>2
  <2> QED
    BY <1>5, <2>1, <2>3, <2>4, <2>5 DEF st, n
<1>7. CASE from + 1 = D
  <2>1. L > 1
    <3> SUFFICES ASSUME L = 1 PROVE FALSE
      BY <1>1
    <3>1. (L - 1) * D = 0
      BY <1>0
    <3> QED
      BY <1>0, <1>1, <1>2, <1>7, <3>1
  <2>2. st.chain = Tail(ch) /\ st.head = 0 /\ st.out = Append(o, ch[1][from])
    BY <1>4, <1>7, <2>1
  <2> DEFINE T == Tail(ch)
  <2>3. T \in Seq(Datanode) /\ Len(T) = L - 1 /\ \A j \in 1..L - 1 : T[j] = ch[j + 1]
    <3>1. ch # <<>>
      BY DEF WellFormed, Chains
    <3> QED
      BY <1>1, <3>1, HeadTailProperties DEF L
  <2> HIDE DEF T
  <2>4. T # <<>>
    BY <1>1, <2>1, <2>3, EmptySeq
  <2>5. Stored(T, 0, to) = n - 1 /\ n - 1 \in Nat
    <3>1. (L - 1) * D = (L - 1 - 1) * D + D /\ (L - 1 - 1) * D \in Int
      BY <1>0, <1>1
    <3>2. Stored(T, 0, to) = (L - 1 - 1) * D + to - 0
      BY <2>3 DEF Stored
    <3> QED
      BY <1>0, <1>1, <1>2, <1>7, <3>1, <3>2
  <2>6. WellFormed(T, 0, to)
    BY <1>0, <1>1, <2>3, <2>4, <2>5 DEF WellFormed, Chains
  <2>7. ASSUME NEW i \in 1..n - 1
        PROVE  Between(T, 0, to)[i] = Between(ch, from, to)[i + 1]
    <3> DEFINE x == i - 1
    <3>1. i + 1 \in 1..n /\ from + (i + 1) - 1 = x + D /\ 0 + i - 1 = x /\ x \in Nat
      BY <1>0, <1>1, <1>7
    <3>2. Between(T, 0, to)[i] = T[(0 + i - 1) \div D + 1][(0 + i - 1) % D]
      BY <2>5 DEF Between, Stored, D
    <3>3. x < (L - 1) * D
      <4>1. n - 1 = (L - 1 - 1) * D + to - 0
        BY <2>3, <2>5 DEF Stored
      <4>2. (L - 1) * D = (L - 1 - 1) * D + D /\ (L - 1 - 1) * D \in Int
        BY <1>0, <1>1
      <4> QED
        BY <1>0, <1>1, <4>1, <4>2
    <3> HIDE DEF x
    <3>4. x \div D \in 0..(L - 1) - 1
      <4>1. L - 1 \in Nat
        BY <1>1
      <4> QED
        BY <1>0, <3>1, <3>3, <4>1, QuotientRange
    <3>5. (x + D) \div D = (x \div D) + 1 /\ (x + D) % D = x % D
      <4>1. x \in Int
        BY <3>1
      <4> QED
        BY <1>0, <4>1, NextQuotient
    <3>6. (x \div D) + 1 \in 1..L - 1
      BY <1>1, <3>4
    <3>7. T[(x \div D) + 1] = ch[(x \div D) + 1 + 1]
      <4> DEFINE j == (x \div D) + 1
      <4> HIDE DEF j
      <4>1. j \in 1..L - 1 => T[j] = ch[j + 1]
        BY <2>3
      <4> QED
        BY <3>6, <4>1 DEF j
    <3>8. Between(T, 0, to)[i] = T[x \div D + 1][x % D]
      BY <3>1, <3>2
    <3>9. Between(ch, from, to)[i + 1] = ch[(x + D) \div D + 1][(x + D) % D]
      BY <1>3, <3>1
    <3> QED
      BY <3>5, <3>7, <3>8, <3>9
  <2> QED
    BY <1>5, <2>2, <2>5, <2>6, <2>7 DEF st, n, T
<1> QED
  BY <1>6, <1>7

(* What one turn of ramfs_pipe_write's loop does when there is memory: the   *)
(* byte goes behind the others, which stay.                                 *)
LEMMA WriteOne ==
    ASSUME NEW ch, NEW from, NEW to, WellFormed(ch, from, to), NEW byte \in Byte, NEW d \in Nat,
           to + 1 = D => Len(ch) < room
    PROVE  LET st == WriteByte([chain |-> ch, tail |-> to, stop |-> FALSE, done |-> d], byte)
               n  == Stored(ch, from, to)
           IN
           /\ st = [chain |-> st.chain, tail |-> st.tail, stop |-> FALSE, done |-> d + 1]
           /\ WellFormed(st.chain, from, st.tail)
           /\ Stored(st.chain, from, st.tail) = n + 1
           /\ \A i \in 1..n : Between(st.chain, from, st.tail)[i] = Between(ch, from, to)[i]
           /\ Between(st.chain, from, st.tail)[n + 1] = byte
<1>0. D \in Nat \ {0}
  BY PipeAssumption DEF D
<1> DEFINE start == [chain |-> ch, tail |-> to, stop |-> FALSE, done |-> d]
           st == WriteByte(start, byte)
           n == Stored(ch, from, to)
           L == Len(ch)
           c1 == [ch EXCEPT ![L] = [ch[L] EXCEPT ![to] = byte]]
           put == [chain |-> c1, tail |-> to + 1, stop |-> FALSE, done |-> d + 1]
           c2 == IF to + 1 = D THEN Append(c1, NewDatanode) ELSE c1
           t2 == IF to + 1 = D THEN 0 ELSE to + 1
<1>1. /\ n \in Nat /\ L \in Nat \ {0} /\ from \in Nat /\ from < D
      /\ to \in Nat /\ to < D /\ ch \in Seq(Datanode)
  BY <1>0, EmptySeq, LenProperties DEF WellFormed, Chains
<1>2. n = (L - 1) * D + to - from /\ (L - 1) * D \in Nat
  BY <1>0, <1>1 DEF Stored
<1>3. st = NextDatanode(put)
  <2>1. NextDatanode(start) = start
    BY <1>1 DEF NextDatanode, D
  <2>2. /\ start.chain = ch /\ start.tail = to /\ start.stop = FALSE /\ start.done = d
        /\ c1 = [ch EXCEPT ![L][to] = byte]
    OBVIOUS
  <2> HIDE DEF start, c1
  <2> QED
    BY <2>1, <2>2 DEF WriteByte
<1>4. c1 \in Seq(Datanode) /\ Len(c1) = L /\ c1 # <<>>
  <2>1. L \in 1..L /\ ch \in [1..L -> Datanode]
    BY <1>1, LenProperties
  <2>2. ch[L] \in Datanode
    BY <2>1
  <2>3. [ch[L] EXCEPT ![to] = byte] \in Datanode
    BY <2>2 DEF Datanode, Value
  <2>4. c1 \in [1..L -> Datanode]
    BY <2>1, <2>3
  <2> HIDE DEF c1
  <2>5. c1 \in Seq(Datanode)
    BY <1>1, <2>4
  <2>6. Len(c1) = L
    BY <1>1, <2>4, <2>5, LenProperties
  <2> QED
    BY <1>1, <2>5, <2>6, EmptySeq
<1>5. NewDatanode \in Datanode
  BY DEF NewDatanode, Datanode, Value, D
<1>6. /\ \A j \in 1..L : j # L => c1[j] = ch[j]
      /\ c1[L] = [ch[L] EXCEPT ![to] = byte]
      /\ ch[L] \in Datanode
  <2>1. ch \in [1..L -> Datanode] /\ L \in 1..L
    BY <1>1, LenProperties
  <2> QED
    BY <2>1
<1>7. st = [chain |-> c2, tail |-> t2, stop |-> FALSE, done |-> d + 1]
  <2>1. put.tail = to + 1 /\ put.chain = c1
    OBVIOUS
  <2>2. CASE to + 1 = D
    <3>1. NextDatanode(put) = [put EXCEPT !.chain = Append(@, NewDatanode), !.tail = 0]
      <4>1. ~(put.tail < D) /\ Len(put.chain) < room
        BY <1>0, <1>4, <2>1, <2>2
      <4> HIDE DEF put
      <4> QED
        BY <4>1 DEF NextDatanode, D
    <3> HIDE DEF c1
    <3> QED
      BY <1>3, <2>2, <3>1
  <2>3. CASE to + 1 # D
    <3>1. put.tail < D
      BY <1>0, <1>1, <2>1, <2>3
    <3>2. NextDatanode(put) = put
      <4> HIDE DEF put
      <4> QED
        BY <3>1 DEF NextDatanode, D
    <3> QED
      BY <1>3, <2>3, <3>2
  <2> QED
    BY <2>2, <2>3
<1> HIDE DEF c1
<1>8. /\ c2 \in Seq(Datanode) /\ c2 # <<>> /\ \A j \in 1..L : c2[j] = c1[j]
      /\ t2 \in 0..D - 1 /\ (Len(c2) - 1) * D + t2 = (L - 1) * D + to + 1
  <2>1. CASE to + 1 = D
    <3>1. c2 = Append(c1, NewDatanode) /\ t2 = 0
      BY <2>1
    <3>2. /\ c2 \in Seq(Datanode) /\ c2 # <<>> /\ Len(c2) = L + 1
          /\ \A j \in 1..L : c2[j] = c1[j]
      BY <1>4, <1>5, <3>1, AppendProperties
    <3>3. (L + 1 - 1) * D = (L - 1) * D + D
      BY <1>0, <1>1
    <3>4. (Len(c2) - 1) * D + t2 = (L - 1) * D + to + 1
      <4>1. (Len(c2) - 1) * D = (L - 1) * D + D
        BY <3>2, <3>3
      <4> QED
        BY <1>0, <1>1, <1>2, <2>1, <3>1, <4>1
    <3>5. t2 \in 0..D - 1
      BY <1>0, <3>1
    <3> QED
      BY <3>2, <3>4, <3>5
  <2>2. CASE to + 1 # D
    <3>1. c2 = c1 /\ t2 = to + 1
      BY <2>2
    <3> QED
      BY <1>0, <1>1, <1>2, <1>4, <2>2, <3>1
  <2> QED
    BY <2>1, <2>2
<1> HIDE DEF c2, t2
<1>9. Stored(c2, from, t2) = n + 1
  <2>1. Len(c2) \in Nat
    BY <1>8, LenProperties
  <2>2. (Len(c2) - 1) * D \in Int
    BY <1>0, <2>1
  <2> DEFINE y == (Len(c2) - 1) * D
             z == (L - 1) * D
  <2>3. y \in Int /\ z \in Int /\ t2 \in Int /\ y + t2 = z + to + 1 /\ n = z + to - from
    BY <1>1, <1>2, <1>8, <2>2
  <2>4. Stored(c2, from, t2) = y + t2 - from
    BY DEF Stored
  <2> HIDE DEF y, z, n, L
  <2> QED
    BY <1>1, <2>3, <2>4
<1>10. WellFormed(c2, from, t2)
  BY <1>1, <1>8, <1>9 DEF WellFormed, Chains
<1>11. \A i \in 1..n : Between(ch, from, to)[i] = ch[(from + i - 1) \div D + 1][(from + i - 1) % D]
  BY DEF Between, Stored, D
<1>12. \A i \in 1..n + 1 : Between(c2, from, t2)[i] = c2[(from + i - 1) \div D + 1][(from + i - 1) % D]
  BY <1>9 DEF Between, Stored, D
<1> HIDE DEF n, L, st
<1>13. ASSUME NEW i \in 1..n PROVE Between(c2, from, t2)[i] = Between(ch, from, to)[i]
  <2> DEFINE x == from + i - 1
             j == x \div D
             k == x % D
  <2>1. x \in Nat /\ x < (L - 1) * D + to
    BY <1>1, <1>2
  <2>2. x < L * D
    <3>1. L * D = (L - 1) * D + D
      BY <1>0, <1>1
    <3> QED
      BY <1>0, <1>1, <1>2, <2>1, <3>1
  <2>3. /\ Between(ch, from, to)[i] = ch[j + 1][k]
        /\ Between(c2, from, t2)[i] = c2[j + 1][k]
    BY <1>1, <1>11, <1>12
  <2> HIDE DEF x
  <2>4. j \in 0..L - 1 /\ k \in 0..D - 1
    BY <1>0, <1>1, <2>1, <2>2, QuotientRange
  <2>5. x = D * j + k
    <3>1. x \in Int
      BY <2>1
    <3> QED
      BY <1>0, <3>1, DivMod
  <2> HIDE DEF j, k
  <2>6. j = L - 1 => k # to
    <3> SUFFICES ASSUME j = L - 1, k = to PROVE FALSE
      OBVIOUS
    <3>1. D * j = (L - 1) * D
      BY <1>0, <1>1
    <3> QED
      BY <1>1, <1>2, <2>1, <2>5, <3>1
  <2>7. j + 1 \in 1..L /\ c2[j + 1] = c1[j + 1]
    <3>1. j + 1 \in 1..L
      BY <1>1, <2>4
    <3> QED
      BY <1>8, <3>1
  <2>8. c1[j + 1][k] = ch[j + 1][k]
    <3>1. CASE j = L - 1
      <4>1. j + 1 = L /\ k # to
        BY <1>1, <2>6, <3>1
      <4> QED
        BY <1>6, <2>4, <4>1 DEF Datanode
    <3>2. CASE j # L - 1
      <4>1. j + 1 # L
        BY <1>1, <2>4, <3>2
      <4> QED
        BY <1>6, <2>7, <4>1
    <3> QED
      BY <3>1, <3>2
  <2> QED
    BY <2>3, <2>7, <2>8
<1>14. Between(c2, from, t2)[n + 1] = byte
  <2>1. from + (n + 1) - 1 = to + D * (L - 1)
    <3>1. D * (L - 1) = (L - 1) * D
      BY <1>0, <1>1
    <3> QED
      BY <1>1, <1>2, <3>1
  <2>2. (to + D * (L - 1)) % D = to /\ (to + D * (L - 1)) \div D = L - 1
    <3>1. to \in 0..D - 1 /\ L - 1 \in Int
      BY <1>0, <1>1
    <3> QED
      BY <1>0, <3>1, ModUnique
  <2>3. n + 1 \in 1..n + 1 /\ (L - 1) + 1 = L /\ L \in 1..L
    BY <1>1
  <2>4. Between(c2, from, t2)[n + 1] = c2[L][to]
    BY <1>12, <2>1, <2>2, <2>3
  <2>5. c2[L][to] = byte
    <3>1. to \in 0..D - 1
      BY <1>0, <1>1
    <3> QED
      BY <1>6, <1>8, <2>3, <3>1 DEF Datanode
  <2> QED
    BY <2>4, <2>5
<1>15. st.chain = c2 /\ st.tail = t2
  BY <1>7
<1> QED
  BY <1>7, <1>9, <1>10, <1>13, <1>14, <1>15 DEF st, n, start

-----------------------------------------------------------------------------
(* The loops.  First that their recursive definitions define something.     *)
ReadStates == [chain : Chains, head : 0..D - 1, out : Seq(Value)]

(* A turn of the read loop leaves a chain, an offset and bytes read. *)
LEMMA ReadByteType ==
    ASSUME NEW s \in ReadStates
    PROVE  ReadByte(s) \in ReadStates
<1>0. D \in Nat \ {0}
  BY PipeAssumption DEF D
<1>1. s.chain \in Seq(Datanode) /\ s.chain # <<>> /\ s.head \in 0..D - 1 /\ s.out \in Seq(Value)
  BY DEF ReadStates, Chains
<1>2. Len(s.chain) \in Nat \ {0}
  BY <1>1, EmptySeq, LenProperties
<1>3. s.chain[1] \in Datanode
  BY <1>1, <1>2, ElementOfSeq
<1>4. s.chain[1][s.head] \in Value
  BY <1>1, <1>3 DEF Datanode
<1>5. Append(s.out, s.chain[1][s.head]) \in Seq(Value)
  BY <1>1, <1>4, AppendProperties
<1>6. Len(s.chain) > 1 => Tail(s.chain) \in Chains
  <2> SUFFICES ASSUME Len(s.chain) > 1 PROVE Tail(s.chain) \in Chains
    OBVIOUS
  <2>1. Tail(s.chain) \in Seq(Datanode) /\ Len(Tail(s.chain)) = Len(s.chain) - 1
    BY <1>1, HeadTailProperties
  <2> DEFINE t == Tail(s.chain)
             k == Len(s.chain)
  <2>2. t \in Seq(Datanode) /\ Len(t) = k - 1 /\ k \in Nat /\ k > 1
    BY <1>2, <2>1
  <2> HIDE DEF t, k
  <2>3. Len(t) # 0
    BY <2>2
  <2>4. t # <<>>
    BY <2>2, <2>3, EmptySeq
  <2> QED
    BY <2>2, <2>4 DEF Chains, t
<1> DEFINE c == IF s.head + 1 = D /\ Len(s.chain) > 1 THEN Tail(s.chain) ELSE s.chain
           h == IF s.head + 1 = D THEN 0 ELSE s.head + 1
           o == Append(s.out, s.chain[1][s.head])
<1>7. c \in Chains
  BY <1>1, <1>6 DEF Chains
<1>8. h \in 0..D - 1
  BY <1>0, <1>1
<1>9. ReadByte(s) = [chain |-> c, head |-> h, out |-> o]
  BY DEF ReadByte, D
<1> HIDE DEF c, h
<1> QED
  BY <1>5, <1>7, <1>8, <1>9 DEF ReadStates

(* ramfs_pipe_read's loop is a sequence of states, one turn apart. *)
LEMMA ReadBytesUnfold ==
    ASSUME WellFormed(chain, head, tail), NEW n \in Nat
    PROVE  \E f \in [0..n -> ReadStates] :
              /\ f[0] = [chain |-> chain, head |-> head, out |-> <<>>]
              /\ \A i \in 1..n : f[i] = ReadByte(f[i - 1])
              /\ ReadBytes(n) = f[n]
<1> DEFINE x == [chain |-> chain, head |-> head, out |-> <<>>]
           T == [y \in (1..n) \X ReadStates |-> ReadByte(y[2])]
           Is(f) == f = [i \in 0..n |-> IF i = 0 THEN x ELSE ReadByte(f[i - 1])]
           st == CHOOSE f : Is(f)
<1>1. x \in ReadStates
  BY DEF WellFormed, ReadStates
<1>2. \A i \in 1..n : \A s \in ReadStates : T[<<i, s>>] = ReadByte(s)
  OBVIOUS
<1>3. \A i \in 1..n : \A s \in ReadStates : T[<<i, s>>] \in ReadStates
  BY <1>2, ReadByteType
<1>4. PICK g \in [0..n -> ReadStates] : Follows(g, x, T, n)
  <2> HIDE DEF x, T
  <2> QED
    BY <1>1, <1>3, Recursion
<1> HIDE DEF x, T
<1>5. \A i \in 1..n : g[i] = ReadByte(g[i - 1])
  <2> SUFFICES ASSUME NEW i \in 1..n PROVE g[i] = ReadByte(g[i - 1])
    OBVIOUS
  <2>1. i - 1 \in 0..n
    OBVIOUS
  <2> QED
    BY <1>2, <1>4, <2>1 DEF Follows
<1>6. Is(g)
  <2>1. \A i \in 0..n : g[i] = IF i = 0 THEN x ELSE ReadByte(g[i - 1])
    BY <1>4, <1>5 DEF Follows
  <2> QED
    BY <1>4, <2>1
<1>7. Is(st)
  BY <1>6
<1>8. ReadBytes(n) = st[n]
  BY DEF ReadBytes, x
<1> HIDE DEF st
<1>9. \A i \in 0..n : st[i] = IF i = 0 THEN x ELSE ReadByte(st[i - 1])
  BY <1>7
<1> DEFINE Ind == {i \in Nat : i <= n => st[i] \in ReadStates}
<1>10. Nat \subseteq Ind
  <2>1. 0 \in Ind
    BY <1>1, <1>9
  <2>2. ASSUME NEW i \in Nat, i \in Ind PROVE i + 1 \in Ind
    <3> SUFFICES ASSUME i + 1 <= n PROVE st[i + 1] \in ReadStates
      OBVIOUS
    <3>1. i + 1 \in 0..n /\ i + 1 # 0 /\ (i + 1) - 1 = i /\ st[i] \in ReadStates
      BY <2>2
    <3>2. st[i + 1] = ReadByte(st[i])
      BY <1>9, <3>1
    <3> QED
      BY <3>1, <3>2, ReadByteType
  <2> HIDE DEF Ind
  <2> QED
    BY <2>1, <2>2, NatSetInduction
<1>11. st \in [0..n -> ReadStates]
  BY <1>7, <1>10
<1>12. \A i \in 1..n : st[i] = ReadByte(st[i - 1])
  BY <1>9
<1>13. st[0] = x
  BY <1>9
<1> QED
  BY <1>8, <1>11, <1>12, <1>13 DEF x

(* After n turns of the loop the first n bytes are out, in their order, and *)
(* the others are what is left.                                             *)
ReadSoFar(st, n) ==
    /\ st \in ReadStates
    /\ WellFormed(st.chain, st.head, tail)
    /\ Stored(st.chain, st.head, tail) = Stored(chain, head, tail) - n
    /\ \A i \in 1..Stored(chain, head, tail) - n :
          Between(st.chain, st.head, tail)[i] = Contents[n + i]
    /\ Len(st.out) = n
    /\ \A i \in 1..n : st.out[i] = Contents[i]

(* ramfs_pipe_read's loop, for any number of bytes that are there. *)
LEMMA ReadLoop ==
    ASSUME WellFormed(chain, head, tail), NEW n \in Nat, n <= Stored(chain, head, tail)
    PROVE  ReadSoFar(ReadBytes(n), n)
<1>1. PICK f \in [0..n -> ReadStates] :
         /\ f[0] = [chain |-> chain, head |-> head, out |-> <<>>]
         /\ \A i \in 1..n : f[i] = ReadByte(f[i - 1])
         /\ ReadBytes(n) = f[n]
  BY ReadBytesUnfold
<1> DEFINE N == Stored(chain, head, tail)
           Ind == {k \in Nat : k <= n => ReadSoFar(f[k], k)}
<1>2. N \in Nat /\ n <= N
  BY DEF WellFormed
<1>3. 0 \in Ind
  <2>1. /\ f[0] \in ReadStates /\ f[0].chain = chain /\ f[0].head = head
        /\ f[0].out = <<>> /\ Len(f[0].out) = 0
    BY <1>1
  <2>2. N - 0 = N /\ \A i \in 1..N : 0 + i = i
    BY <1>2
  <2> HIDE DEF N
  <2>3. ReadSoFar(f[0], 0)
    BY <2>1, <2>2 DEF ReadSoFar, Contents, N
  <2> QED
    BY <2>3
<1>4. ASSUME NEW k \in Nat, k \in Ind PROVE k + 1 \in Ind
  <2> SUFFICES ASSUME k + 1 <= n PROVE ReadSoFar(f[k + 1], k + 1)
    OBVIOUS
  <2>1. ReadSoFar(f[k], k) /\ k + 1 \in 1..n /\ (k + 1) - 1 = k /\ k \in 0..n /\ k + 1 \in 0..n
    BY <1>4
  <2>2. f[k + 1] = ReadByte(f[k]) /\ f[k] \in ReadStates /\ f[k + 1] \in ReadStates
    BY <1>1, <2>1
  <2> DEFINE a == f[k].chain
             h == f[k].head
             o == f[k].out
             g == f[k + 1]
  <2>3. f[k] = [chain |-> a, head |-> h, out |-> o] /\ o \in Seq(Value)
    BY <2>2 DEF ReadStates
  <2>4. /\ WellFormed(a, h, tail) /\ Stored(a, h, tail) = N - k /\ Len(o) = k
        /\ \A i \in 1..N - k : Between(a, h, tail)[i] = Contents[k + i]
        /\ \A i \in 1..k : o[i] = Contents[i]
    BY <2>1 DEF ReadSoFar
  <2>5. g = ReadByte([chain |-> a, head |-> h, out |-> o])
    BY <2>2, <2>3
  <2> HIDE DEF a, h, o, g, N
  <2>6. Stored(a, h, tail) > 0 /\ 1 \in 1..N - k /\ N - k - 1 = N - (k + 1)
    BY <1>2, <2>4
  <2>7. /\ WellFormed(g.chain, g.head, tail)
        /\ Stored(g.chain, g.head, tail) = Stored(a, h, tail) - 1
        /\ \A i \in 1..Stored(a, h, tail) - 1 :
              Between(g.chain, g.head, tail)[i] = Between(a, h, tail)[i + 1]
        /\ g.out = Append(o, Between(a, h, tail)[1])
    BY <2>3, <2>4, <2>5, <2>6, ReadOne
  <2>8. Stored(g.chain, g.head, tail) = N - (k + 1)
    BY <2>4, <2>6, <2>7
  <2>9. ASSUME NEW i \in 1..N - (k + 1)
        PROVE  Between(g.chain, g.head, tail)[i] = Contents[(k + 1) + i]
    <3>1. i + 1 \in 1..N - k /\ k + (i + 1) = (k + 1) + i /\ i \in 1..N - k - 1
      BY <1>2
    <3>2. Stored(a, h, tail) - 1 = N - k - 1
      BY <2>4
    <3> QED
      BY <2>4, <2>7, <3>1, <3>2
  <2>10. Between(a, h, tail)[1] = Contents[k + 1]
    BY <2>4, <2>6
  <2>11. Between(a, h, tail)[1] \in Value
    <3>1. Between(a, h, tail) \in Seq(Value) /\ Len(Between(a, h, tail)) = Stored(a, h, tail)
      BY <2>4, StoredBytes
    <3> QED
      BY <2>4, <2>6, <3>1, ElementOfSeq
  <2>12. /\ Len(g.out) = k + 1 /\ \A i \in 1..k : g.out[i] = o[i]
         /\ g.out[k + 1] = Contents[k + 1]
    BY <2>3, <2>4, <2>7, <2>10, <2>11, AppendProperties
  <2>13. \A i \in 1..k + 1 : g.out[i] = Contents[i]
    <3> SUFFICES ASSUME NEW i \in 1..k + 1 PROVE g.out[i] = Contents[i]
      OBVIOUS
    <3>1. i \in 1..k \/ i = k + 1
      OBVIOUS
    <3> QED
      BY <2>4, <2>12, <3>1
  <2>14. g \in ReadStates
    BY <2>2 DEF g
  <2>15. ReadSoFar(g, k + 1)
    BY <2>7, <2>8, <2>9, <2>12, <2>13, <2>14 DEF ReadSoFar, N
  <2> QED
    BY <2>15 DEF g
<1>5. n \in Ind
  <2> HIDE DEF Ind
  <2> QED
    BY <1>3, <1>4, NatSetInduction
<1> QED
  BY <1>1, <1>5

WriteStates == [chain : Chains, tail : 0..D, stop : BOOLEAN, done : Nat]

(* Going to the next datanode stops or leaves an offset inside the last one. *)
LEMMA NextDatanodeType ==
    ASSUME NEW s \in WriteStates
    PROVE  /\ NextDatanode(s) \in WriteStates
           /\ ~NextDatanode(s).stop => NextDatanode(s).tail < D
<1>0. D \in Nat \ {0}
  BY PipeAssumption DEF D
<1>1. /\ s = [chain |-> s.chain, tail |-> s.tail, stop |-> s.stop, done |-> s.done]
      /\ s.chain \in Seq(Datanode) /\ s.chain # <<>> /\ s.tail \in 0..D
      /\ s.stop \in BOOLEAN /\ s.done \in Nat
  BY DEF WriteStates, Chains
<1>2. CASE s.tail < D
  <2>1. NextDatanode(s) = s
    BY <1>2 DEF NextDatanode, D
  <2> QED
    BY <1>2, <2>1
<1>3. CASE ~(s.tail < D) /\ Len(s.chain) < room
  <2>1. NextDatanode(s) = [chain |-> Append(s.chain, NewDatanode), tail |-> 0,
                           stop |-> s.stop, done |-> s.done]
    BY <1>1, <1>3 DEF NextDatanode, D
  <2>2. NewDatanode \in Datanode
    BY DEF NewDatanode, Datanode, Value, D
  <2>3. Append(s.chain, NewDatanode) \in Chains
    BY <1>1, <2>2, AppendProperties DEF Chains
  <2> QED
    BY <1>0, <1>1, <2>1, <2>3 DEF WriteStates
<1>4. CASE ~(s.tail < D) /\ ~(Len(s.chain) < room)
  <2>1. NextDatanode(s) = [chain |-> s.chain, tail |-> s.tail, stop |-> TRUE, done |-> s.done]
    BY <1>1, <1>4 DEF NextDatanode, D
  <2> QED
    BY <1>1, <2>1 DEF WriteStates, Chains
<1> QED
  BY <1>2, <1>3, <1>4

(* A turn of the write loop leaves a chain, an offset and a count. *)
LEMMA WriteByteType ==
    ASSUME NEW s \in WriteStates, NEW byte \in Byte
    PROVE  WriteByte(s, byte) \in WriteStates
<1>0. D \in Nat \ {0}
  BY PipeAssumption DEF D
<1> DEFINE now == IF s.stop THEN s ELSE NextDatanode(s)
           L == Len(now.chain)
           c == [now.chain EXCEPT ![L] = [now.chain[L] EXCEPT ![now.tail] = byte]]
           put == [chain |-> c, tail |-> now.tail + 1, stop |-> FALSE, done |-> now.done + 1]
<1>1. now \in WriteStates /\ (~now.stop => now.tail < D)
  BY NextDatanodeType
<1>2. WriteByte(s, byte) = IF now.stop THEN now ELSE NextDatanode(put)
  BY DEF WriteByte
<1> HIDE DEF now
<1>3. CASE now.stop
  BY <1>1, <1>2, <1>3
<1>4. CASE ~now.stop
  <2>1. now.chain \in Seq(Datanode) /\ now.chain # <<>> /\ now.done \in Nat /\ now.tail \in 0..D - 1
    BY <1>0, <1>1, <1>4 DEF WriteStates, Chains
  <2>2. L \in Nat \ {0} /\ now.chain \in [1..L -> Datanode]
    BY <2>1, EmptySeq, LenProperties
  <2>3. L \in 1..L
    BY <2>2
  <2>4. [now.chain[L] EXCEPT ![now.tail] = byte] \in Datanode
    BY <2>1, <2>2, <2>3 DEF Datanode, Value
  <2>5. c \in [1..L -> Datanode]
    BY <2>2, <2>3, <2>4
  <2> HIDE DEF L, c
  <2>6. c \in Seq(Datanode) /\ Len(c) = L
    <3>1. c \in Seq(Datanode)
      BY <2>2, <2>5
    <3> QED
      BY <2>2, <2>5, <3>1, LenProperties
  <2>7. c # <<>>
    BY <2>2, <2>6, EmptySeq
  <2>8. now.tail + 1 \in 0..D /\ now.done + 1 \in Nat
    BY <1>0, <2>1
  <2>9. put \in WriteStates
    BY <2>6, <2>7, <2>8 DEF WriteStates, Chains
  <2> HIDE DEF put
  <2> QED
    BY <1>2, <1>4, <2>9, NextDatanodeType
<1> QED
  BY <1>3, <1>4

(* ramfs_pipe_write's loop is a sequence of states, one turn apart. *)
LEMMA WriteBytesUnfold ==
    ASSUME WellFormed(chain, head, tail), NEW n \in Nat, NEW b, \A i \in 1..n : b[i] \in Byte
    PROVE  \E f \in [0..n -> WriteStates] :
              /\ f[0] = [chain |-> chain, tail |-> tail, stop |-> FALSE, done |-> 0]
              /\ \A i \in 1..n : f[i] = WriteByte(f[i - 1], b[i])
              /\ WriteBytes(b, n) = f[n]
<1> DEFINE x == [chain |-> chain, tail |-> tail, stop |-> FALSE, done |-> 0]
           T == [y \in (1..n) \X WriteStates |-> WriteByte(y[2], b[y[1]])]
           Is(f) == f = [i \in 0..n |-> IF i = 0 THEN x ELSE WriteByte(f[i - 1], b[i])]
           st == CHOOSE f : Is(f)
<1>0. D \in Nat \ {0}
  BY PipeAssumption DEF D
<1>1. x \in WriteStates
  BY <1>0 DEF WellFormed, WriteStates
<1>2. \A i \in 1..n : \A s \in WriteStates : T[<<i, s>>] = WriteByte(s, b[i])
  OBVIOUS
<1>3. \A i \in 1..n : \A s \in WriteStates : T[<<i, s>>] \in WriteStates
  BY <1>2, WriteByteType
<1>4. PICK g \in [0..n -> WriteStates] : Follows(g, x, T, n)
  <2> HIDE DEF x, T
  <2> QED
    BY <1>1, <1>3, Recursion
<1> HIDE DEF x, T
<1>5. \A i \in 1..n : g[i] = WriteByte(g[i - 1], b[i])
  <2> SUFFICES ASSUME NEW i \in 1..n PROVE g[i] = WriteByte(g[i - 1], b[i])
    OBVIOUS
  <2>1. i - 1 \in 0..n
    OBVIOUS
  <2> QED
    BY <1>2, <1>4, <2>1 DEF Follows
<1>6. Is(g)
  <2>1. \A i \in 0..n : g[i] = IF i = 0 THEN x ELSE WriteByte(g[i - 1], b[i])
    BY <1>4, <1>5 DEF Follows
  <2> QED
    BY <1>4, <2>1
<1>7. Is(st)
  BY <1>6
<1>8. WriteBytes(b, n) = st[n]
  BY DEF WriteBytes, x
<1> HIDE DEF st
<1>9. \A i \in 0..n : st[i] = IF i = 0 THEN x ELSE WriteByte(st[i - 1], b[i])
  BY <1>7
<1> DEFINE Ind == {i \in Nat : i <= n => st[i] \in WriteStates}
<1>10. Nat \subseteq Ind
  <2>1. 0 \in Ind
    BY <1>1, <1>9
  <2>2. ASSUME NEW i \in Nat, i \in Ind PROVE i + 1 \in Ind
    <3> SUFFICES ASSUME i + 1 <= n PROVE st[i + 1] \in WriteStates
      OBVIOUS
    <3>1. i + 1 \in 1..n /\ i + 1 \in 0..n /\ i + 1 # 0 /\ (i + 1) - 1 = i /\ st[i] \in WriteStates
      BY <2>2
    <3>2. st[i + 1] = WriteByte(st[i], b[i + 1])
      BY <1>9, <3>1
    <3> QED
      BY <3>1, <3>2, WriteByteType
  <2> HIDE DEF Ind
  <2> QED
    BY <2>1, <2>2, NatSetInduction
<1>11. st \in [0..n -> WriteStates]
  BY <1>7, <1>10
<1>12. \A i \in 1..n : st[i] = WriteByte(st[i - 1], b[i])
  BY <1>9
<1>13. st[0] = x
  BY <1>9
<1> QED
  BY <1>8, <1>11, <1>12, <1>13 DEF x

(* The ramfs heap always has room for the datanodes a full pipe needs. *)
EnoughMemory == \A m \in RoomRange : m * D >= RAMFS_PIPE_SIZE + D

(* After n turns of the loop the pipe holds what it held and n bytes of b. *)
WrittenSoFar(st, b, n) ==
    /\ st \in WriteStates
    /\ st.stop = FALSE
    /\ st.done = n
    /\ WellFormed(st.chain, head, st.tail)
    /\ Stored(st.chain, head, st.tail) = Stored(chain, head, tail) + n
    /\ \A i \in 1..Stored(chain, head, tail) : Between(st.chain, head, st.tail)[i] = Contents[i]
    /\ \A i \in 1..n : Between(st.chain, head, st.tail)[Stored(chain, head, tail) + i] = b[i]

(* While the pipe is not full there is memory for the datanode that is needed. *)
LEMMA RoomLeft ==
    ASSUME EnoughMemory, room \in RoomRange, NEW ch, NEW from, NEW to, WellFormed(ch, from, to),
           Stored(ch, from, to) < RAMFS_PIPE_SIZE, to + 1 = D
    PROVE  Len(ch) < room
<1>0. D \in Nat \ {0} /\ RAMFS_PIPE_SIZE \in Nat /\ room \in Nat
  BY PipeAssumption DEF D
<1> DEFINE L == Len(ch)
           y == L * D
           z == room * D
<1>1. L \in Nat /\ from \in Nat /\ from < D /\ to \in Nat
  BY <1>0, LenProperties DEF WellFormed, Chains
<1>2. (L - 1) * D = y - D /\ y \in Int /\ z \in Int
  BY <1>0, <1>1
<1>3. Stored(ch, from, to) = (y - D) + to - from
  BY <1>2 DEF Stored
<1>4. z >= RAMFS_PIPE_SIZE + D
  BY DEF EnoughMemory
<1> HIDE DEF y, z, L
<1>5. y < z
  BY <1>0, <1>1, <1>2, <1>3, <1>4
<1>6. ~(L >= room)
  <2> SUFFICES ASSUME L >= room PROVE FALSE
    OBVIOUS
  <2>1. L * D >= room * D
    BY <1>0, <1>1
  <2> QED
    BY <1>2, <1>5, <2>1 DEF y, z
<1>7. L < room
  BY <1>0, <1>1, <1>6
<1> QED
  BY <1>7 DEF L

(* ramfs_pipe_write's loop, for any number of bytes there is space for. *)
LEMMA WriteLoop ==
    ASSUME EnoughMemory, room \in RoomRange, WellFormed(chain, head, tail),
           NEW n \in Nat, NEW b, \A i \in 1..n : b[i] \in Byte,
           Stored(chain, head, tail) + n <= RAMFS_PIPE_SIZE
    PROVE  WrittenSoFar(WriteBytes(b, n), b, n)
<1>1. PICK f \in [0..n -> WriteStates] :
         /\ f[0] = [chain |-> chain, tail |-> tail, stop |-> FALSE, done |-> 0]
         /\ \A i \in 1..n : f[i] = WriteByte(f[i - 1], b[i])
         /\ WriteBytes(b, n) = f[n]
  BY WriteBytesUnfold
<1> DEFINE N == Stored(chain, head, tail)
           Ind == {k \in Nat : k <= n => WrittenSoFar(f[k], b, k)}
<1>2. N \in Nat /\ N + n <= RAMFS_PIPE_SIZE /\ RAMFS_PIPE_SIZE \in Nat
  BY PipeAssumption DEF WellFormed
<1>3. 0 \in Ind
  <2>1. /\ f[0] \in WriteStates /\ f[0].chain = chain /\ f[0].tail = tail
        /\ f[0].stop = FALSE /\ f[0].done = 0
    <3>1. 0 \in 0..n
      OBVIOUS
    <3>2. f[0] \in WriteStates
      BY <1>1, <3>1
    <3>3. f[0] = [chain |-> chain, tail |-> tail, stop |-> FALSE, done |-> 0]
      BY <1>1
    <3> QED
      BY <3>2, <3>3
  <2>2. N + 0 = N /\ 1..0 = {}
    BY <1>2
  <2> HIDE DEF N
  <2>3. WrittenSoFar(f[0], b, 0)
    BY <2>1, <2>2 DEF WrittenSoFar, Contents, N
  <2> QED
    BY <2>3
<1>4. ASSUME NEW k \in Nat, k \in Ind PROVE k + 1 \in Ind
  <2> SUFFICES ASSUME k + 1 <= n PROVE WrittenSoFar(f[k + 1], b, k + 1)
    OBVIOUS
  <2>1. WrittenSoFar(f[k], b, k) /\ k + 1 \in 1..n /\ (k + 1) - 1 = k /\ k \in 0..n /\ k + 1 \in 0..n
    BY <1>4
  <2>2. /\ f[k + 1] = WriteByte(f[k], b[k + 1]) /\ b[k + 1] \in Byte
        /\ f[k] \in WriteStates /\ f[k + 1] \in WriteStates
    BY <1>1, <2>1
  <2> DEFINE a == f[k].chain
             t == f[k].tail
             g == f[k + 1]
  <2>3. f[k] = [chain |-> a, tail |-> t, stop |-> FALSE, done |-> k]
    BY <2>1, <2>2 DEF WriteStates, WrittenSoFar
  <2>4. /\ WellFormed(a, head, t) /\ Stored(a, head, t) = N + k
        /\ \A i \in 1..N : Between(a, head, t)[i] = Contents[i]
        /\ \A i \in 1..k : Between(a, head, t)[N + i] = b[i]
    BY <2>1 DEF WrittenSoFar
  <2>5. g = WriteByte([chain |-> a, tail |-> t, stop |-> FALSE, done |-> k], b[k + 1])
    BY <2>2, <2>3
  <2> HIDE DEF a, t, g, N
  <2>6. t + 1 = D => Len(a) < room
    <3>1. Stored(a, head, t) < RAMFS_PIPE_SIZE
      BY <1>2, <2>4
    <3> QED
      BY <2>4, <3>1, RoomLeft
  <2> DEFINE m == Stored(a, head, t)
  <2>7. /\ g = [chain |-> g.chain, tail |-> g.tail, stop |-> FALSE, done |-> k + 1]
        /\ WellFormed(g.chain, head, g.tail)
        /\ Stored(g.chain, head, g.tail) = m + 1
        /\ \A i \in 1..m : Between(g.chain, head, g.tail)[i] = Between(a, head, t)[i]
        /\ Between(g.chain, head, g.tail)[m + 1] = b[k + 1]
    BY <2>2, <2>4, <2>5, <2>6, WriteOne
  <2>8. m = N + k /\ m + 1 = N + (k + 1)
    BY <1>2, <2>4
  <2> HIDE DEF m
  <2>9. \A i \in 1..N : Between(g.chain, head, g.tail)[i] = Contents[i]
    <3>1. \A i \in 1..N : i \in 1..m
      BY <1>2, <2>8
    <3> QED
      BY <2>4, <2>7, <3>1
  <2>10. ASSUME NEW i \in 1..k + 1 PROVE Between(g.chain, head, g.tail)[N + i] = b[i]
    <3>1. CASE i = k + 1
      BY <2>7, <2>8, <3>1
    <3>2. CASE i # k + 1
      <4>1. i \in 1..k /\ N + i \in 1..m
        BY <1>2, <2>8, <3>2
      <4> QED
        BY <2>4, <2>7, <4>1
    <3> QED
      BY <3>1, <3>2
  <2>11. g \in WriteStates
    BY <2>2 DEF g
  <2>12. g.stop = FALSE /\ g.done = k + 1
    BY <2>7
  <2>13. WrittenSoFar(g, b, k + 1)
    BY <2>7, <2>8, <2>9, <2>10, <2>11, <2>12 DEF WrittenSoFar, N
  <2> QED
    BY <2>13 DEF g
<1>5. n \in Ind
  <2> HIDE DEF Ind
  <2> QED
    BY <1>3, <1>4, NatSetInduction
<1> QED
  BY <1>1, <1>5

-----------------------------------------------------------------------------
(* The units a process has taken, place by place. *)
Counted(p, s) ==
    IF s # Own(p) THEN 0
    ELSE IF pc[p] = "relock" THEN IF p \in Range(waitq[s]) THEN 0 ELSE 1
    ELSE IF pc[p] \in {"measure", "bulk"} THEN 1
    ELSE IF pc[p] = "copy" THEN todo[p] ELSE 0

TakenOK ==
    \A p \in Proc : \A s \in {"bytes", "space"} :
        Taken(p, s) = Counted(p, s) /\ Counted(p, s) \in Nat

(* What Taken says, when nobody waits between counting and copying. *)
LEMMA TakenCounted == BulkInv /\ ControlInv => TakenOK
<1> SUFFICES ASSUME BulkInv, ControlInv, NEW p \in Proc, NEW s \in {"bytes", "space"}
             PROVE  Taken(p, s) = Counted(p, s) /\ Counted(p, s) \in Nat
  BY DEF TakenOK
<1>1. todo[p] \in Nat /\ s \in Sem /\ s # "lock"
  BY DEF BulkInv, Types, Sem
<1>2. p \in Range(waitq[s]) => pc[p] = "relock"
  BY <1>1 DEF ControlInv, WaitInv, Waiter
<1> QED
  BY <1>1, <1>2 DEF Taken, Counted

(* The same of the next state. *)
LEMMA TakenCountedNext == BulkInv' /\ ControlInv' => TakenOK'
BY TakenCounted, PTL

(* Only p's units change. *)
LEMMA TakenUpdate ==
    ASSUME TakenOK, TakenOK', NEW s \in {"bytes", "space"}, NEW p \in Proc,
           \A q \in Proc : q # p => Counted(q, s)' = Counted(q, s)
    PROVE  /\ TakenOf(s) \in Nat /\ TakenOf(s)' \in Nat
           /\ Counted(p, s) \in Nat /\ Counted(p, s)' \in Nat
           /\ Counted(p, s) <= TakenOf(s)
           /\ TakenOf(s)' = TakenOf(s) - Counted(p, s) + Counted(p, s)'
<1> DEFINE f == [q \in Proc |-> Taken(q, s)]
           h == [q \in Proc |-> Taken(q, s)']
<1>1. /\ TakenOf(s) = SumFunctionOnSet(f, Proc) /\ TakenOf(s)' = SumFunctionOnSet(h, Proc)
  BY DEF TakenOf, SumFunction
<1>2. /\ \A q \in Proc : f[q] \in Nat /\ h[q] \in Nat
      /\ \A q \in Proc \ {p} : h[q] = f[q]
      /\ f[p] = Counted(p, s) /\ h[p] = Counted(p, s)'
  BY DEF TakenOK
<1> HIDE DEF f, h
<1>3. IsFiniteSet(Proc)
  BY FiniteAssumption DEF Proc
<1>4. SumFunctionOnSet(h, Proc) = SumFunctionOnSet(f, Proc) - f[p] + h[p]
  BY <1>2, <1>3, SumUpdate
<1>5. SumFunctionOnSet(f, Proc) \in Nat /\ f[p] <= SumFunctionOnSet(f, Proc)
  BY <1>2, <1>3, SumNat
<1>6. SumFunctionOnSet(h, Proc) \in Nat
  BY <1>2, <1>3, SumNat
<1> QED
  BY <1>1, <1>2, <1>4, <1>5, <1>6

(* The waiters in W have got one unit each. *)
LEMMA TakenServed ==
    ASSUME TakenOK, TakenOK', NEW s \in {"bytes", "space"}, NEW W \in SUBSET Proc,
           \A q \in Proc : Counted(q, s)' = Counted(q, s) + (IF q \in W THEN 1 ELSE 0)
    PROVE  TakenOf(s)' = TakenOf(s) + Cardinality(W) /\ TakenOf(s) \in Nat
<1> DEFINE f == [q \in Proc |-> Taken(q, s)]
           h == [q \in Proc |-> Taken(q, s)']
<1>1. /\ TakenOf(s) = SumFunctionOnSet(f, Proc) /\ TakenOf(s)' = SumFunctionOnSet(h, Proc)
  BY DEF TakenOf, SumFunction
<1>2. \A q \in Proc : f[q] \in Nat /\ h[q] = f[q] + (IF q \in W THEN 1 ELSE 0)
  BY DEF TakenOK
<1> HIDE DEF f, h
<1>3. IsFiniteSet(Proc)
  BY FiniteAssumption DEF Proc
<1>4. SumFunctionOnSet(h, Proc) = SumFunctionOnSet(f, Proc) + Cardinality(W)
  BY <1>2, <1>3, SumOneMore
<1>5. SumFunctionOnSet(f, Proc) \in Nat
  BY <1>2, <1>3, SumNat
<1> QED
  BY <1>1, <1>4, <1>5

-----------------------------------------------------------------------------
InPipe == Stored(chain, head, tail)

ChainInv == WellFormed(chain, head, tail) /\ room \in RoomRange

UnitsInv ==
    /\ count["bytes"] + TakenOf("bytes") = InPipe
    /\ count["space"] + TakenOf("space") = RAMFS_PIPE_SIZE - InPipe

FifoInv == EnoughMemory /\ ChainInv /\ UnitsInv

(* A new pipe is empty and all of its capacity is free. *)
LEMMA FifoInit == Init /\ EnoughMemory => FifoInv
<1> SUFFICES ASSUME Init, EnoughMemory PROVE FifoInv
  OBVIOUS
<1> USE PipeAssumption
<1>1. WellFormed(chain, head, tail) /\ InPipe = 0
  <2>1. NewDatanode \in Datanode /\ Len(<<NewDatanode>>) = 1
    BY DEF NewDatanode, Datanode, D, Value
  <2>2. chain = <<NewDatanode>> /\ head = 0 /\ tail = 0
    BY DEF Init
  <2>3. chain \in Seq(Datanode) /\ chain # <<>> /\ Len(chain) = 1
    BY <2>1, <2>2
  <2>4. D \in Nat \ {0}
    BY DEF D
  <2>5. InPipe = 0
    <3>1. (Len(chain) - 1) * D = 0
      BY <2>3, <2>4
    <3> QED
      BY <2>2, <3>1 DEF InPipe, Stored
  <2> QED
    BY <2>2, <2>3, <2>4, <2>5 DEF WellFormed, InPipe, Chains
<1>2. ASSUME NEW s \in {"bytes", "space"} PROVE TakenOf(s) = 0
  <2> DEFINE f == [q \in Proc |-> Taken(q, s)]
  <2>1. TakenOf(s) = SumFunctionOnSet(f, Proc)
    BY DEF TakenOf, SumFunction
  <2>2. \A q \in Proc : pc[q] = "user"
    BY DEF Init
  <2>3. \A q \in Proc : f[q] = 0
    BY <2>2 DEF Taken
  <2> HIDE DEF f
  <2> QED
    BY <2>1, <2>3, FiniteAssumption, SumZero DEF Proc
<1>3. count["bytes"] = 0 /\ count["space"] = RAMFS_PIPE_SIZE
  BY DEF Init, Sem
<1>4. UnitsInv
  BY <1>1, <1>2, <1>3 DEF UnitsInv
<1> QED
  BY <1>1, <1>4 DEF FifoInv, ChainInv, Init

(* A step of p that leaves the chain and the two semaphores alone and keeps *)
(* what p has taken.                                                        *)
LEMMA KeepUnits ==
    ASSUME FifoInv, TakenOK, TakenOK', chain' = chain, head' = head, tail' = tail, room' \in RoomRange,
           NEW p \in Proc,
           \A s \in {"bytes", "space"} :
              /\ count'[s] = count[s]
              /\ \A q \in Proc : Counted(q, s)' = Counted(q, s)
    PROVE  FifoInv'
<1>1. ChainInv' /\ InPipe' = InPipe
  BY DEF FifoInv, ChainInv, InPipe
<1>2. \A s \in {"bytes", "space"} : TakenOf(s)' = TakenOf(s)
  <2> SUFFICES ASSUME NEW s \in {"bytes", "space"} PROVE TakenOf(s)' = TakenOf(s)
    OBVIOUS
  <2> QED
    BY TakenUpdate
<1> QED
  BY <1>1, <1>2 DEF FifoInv, UnitsInv

(* p takes n more units of its own side. *)
LEMMA TakeUnits ==
    ASSUME Types, FifoInv, TakenOK, TakenOK', UNCHANGED dataVars, NEW p \in Proc, NEW n \in Nat,
           n <= count[Own(p)], count' = [count EXCEPT ![Own(p)] = @ - n],
           Counted(p, Own(p))' = Counted(p, Own(p)) + n,
           \A s \in {"bytes", "space"} : \A q \in Proc : q # p => Counted(q, s)' = Counted(q, s)
    PROVE  FifoInv'
<1>1. ChainInv' /\ InPipe' = InPipe
  BY DEF FifoInv, ChainInv, InPipe, dataVars
<1>2. Own(p) \in {"bytes", "space"} /\ Own(p) \in Sem
  BY DEF Own, Sem
<1>3. ASSUME NEW s \in {"bytes", "space"}
      PROVE  count'[s] + TakenOf(s)' = count[s] + TakenOf(s)
  <2>1. /\ TakenOf(s) \in Nat /\ TakenOf(s)' \in Nat /\ Counted(p, s) \in Nat /\ Counted(p, s)' \in Nat
        /\ TakenOf(s)' = TakenOf(s) - Counted(p, s) + Counted(p, s)'
    BY TakenUpdate
  <2>2. count[s] \in Nat /\ s \in Sem
    BY DEF Types, Sem
  <2>3. CASE s = Own(p)
    <3>1. count'[s] = count[s] - n
      BY <2>2, <2>3 DEF Types
    <3>2. Counted(p, s)' = Counted(p, s) + n
      BY <2>3
    <3> QED
      BY <2>1, <2>2, <3>1, <3>2
  <2>4. CASE s # Own(p)
    <3>1. count'[s] = count[s]
      BY <2>2, <2>4 DEF Types
    <3>2. Counted(p, s)' = Counted(p, s)
      BY <2>4 DEF Counted, Own
    <3> QED
      BY <2>1, <2>2, <3>1, <3>2
  <2> QED
    BY <2>3, <2>4
<1>4. UnitsInv'
  <2>1. UnitsInv /\ "bytes" \in {"bytes", "space"} /\ "space" \in {"bytes", "space"}
    BY DEF FifoInv
  <2> QED
    BY <1>1, <1>3, <2>1 DEF UnitsInv
<1> QED
  BY <1>1, <1>4 DEF FifoInv

(* p hands n units to the other side: the served waiters have theirs, the   *)
(* rest is there to be taken.                                               *)
LEMMA PassUnits ==
    ASSUME Types, WaitInv, TakenOK, TakenOK', NEW p \in Proc, MayRun(p), pc[p] = "copy",
           pc' = [pc EXCEPT ![p] = "unlock"], todo' = [todo EXCEPT ![p] = 0],
           NEW n \in Nat, Release(Other(p), n)
    PROVE  /\ count'[Own(p)] + TakenOf(Own(p))' = count[Own(p)] + TakenOf(Own(p)) - todo[p]
           /\ count'[Other(p)] + TakenOf(Other(p))' = count[Other(p)] + TakenOf(Other(p)) + n
           /\ todo[p] <= TakenOf(Own(p))
<1>1. /\ Own(p) \in {"bytes", "space"} /\ Other(p) \in {"bytes", "space"} /\ Own(p) # Other(p)
      /\ Own(p) \in Sem /\ Other(p) \in Sem
  BY DEF Own, Other, Sem
<1>2. PICK W : Releases(Other(p), n, W)
  BY <1>1, ReleaseServes
<1>3. /\ count'[Own(p)] = count[Own(p)] /\ waitq'[Own(p)] = waitq[Own(p)]
      /\ count'[Other(p)] = count[Other(p)] + n - Cardinality(W)
      /\ Range(waitq'[Other(p)]) = Range(waitq[Other(p)]) \ W
      /\ W \subseteq Range(waitq[Other(p)])
  BY <1>1, <1>2 DEF Releases, Types
<1>4. \A q \in Proc : q # p => pc'[q] = pc[q] /\ todo'[q] = todo[q]
  BY DEF Types
<1>5. pc'[p] = "unlock" /\ todo[p] \in Nat /\ count[Own(p)] \in Nat /\ count[Other(p)] \in Nat
  BY <1>1 DEF Types
<1>6. Counted(p, Own(p)) = todo[p] /\ Counted(p, Own(p))' = 0
  BY <1>5 DEF Counted, Own
<1>7. \A q \in Proc : q # p => Counted(q, Own(p))' = Counted(q, Own(p))
  <2> SUFFICES ASSUME NEW q \in Proc, q # p PROVE Counted(q, Own(p))' = Counted(q, Own(p))
    OBVIOUS
  <2>1. pc'[q] = pc[q] /\ todo'[q] = todo[q] /\ Own(q)' = Own(q) /\ Own(p)' = Own(p)
    BY <1>4 DEF Own
  <2> QED
    BY <1>3, <2>1 DEF Counted
<1>8. /\ TakenOf(Own(p)) \in Nat /\ TakenOf(Own(p))' \in Nat /\ todo[p] <= TakenOf(Own(p))
      /\ TakenOf(Own(p))' = TakenOf(Own(p)) - todo[p]
  <2> DEFINE s == Own(p)
  <2>1. s \in {"bytes", "space"} /\ s' = s /\ TakenOf(Own(p))' = TakenOf(s)'
    BY <1>1 DEF Own
  <2>2. /\ \A q \in Proc : q # p => Counted(q, s)' = Counted(q, s)
        /\ Counted(p, s) = todo[p] /\ Counted(p, s)' = 0
    BY <1>6, <1>7
  <2> QED
    BY <1>5, <2>1, <2>2, TakenUpdate
<1>9. \A x \in W : x \in Proc /\ Waiter(Other(p), x)
  BY <1>1, <1>3, LenProperties, SMTT(30) DEF WaitInv, Types, Range
<1>10. \A q \in Proc : Counted(q, Other(p))' = Counted(q, Other(p)) + (IF q \in W THEN 1 ELSE 0)
  <2> SUFFICES ASSUME NEW q \in Proc
               PROVE  Counted(q, Other(p))' = Counted(q, Other(p)) + (IF q \in W THEN 1 ELSE 0)
    OBVIOUS
  <2>1. Own(q)' = Own(q) /\ Other(p)' = Other(p)
    BY DEF Own, Other
  <2>2. CASE q \in W
    <3>1. Other(p) = Own(q) /\ pc[q] = "relock" /\ q # p
      BY <1>1, <1>9, <2>2 DEF Waiter, Own, Other
    <3>2. pc'[q] = "relock" /\ q \in Range(waitq[Other(p)]) /\ q \notin Range(waitq'[Other(p)])
      BY <1>3, <1>4, <2>2, <3>1
    <3> QED
      BY <2>1, <2>2, <3>1, <3>2 DEF Counted
  <2>3. CASE q \notin W /\ q # p
    <3>1. pc'[q] = pc[q] /\ todo'[q] = todo[q] /\ (q \in Range(waitq'[Other(p)]) <=> q \in Range(waitq[Other(p)]))
      BY <1>3, <1>4, <2>3
    <3>2. Counted(q, Other(p))' = Counted(q, Other(p)) /\ Counted(q, Other(p)) \in Nat
      BY <1>1, <2>1, <3>1 DEF Counted, TakenOK
    <3> QED
      BY <2>3, <3>2
  <2>4. CASE q \notin W /\ q = p
    BY <1>1, <2>1, <2>4 DEF Counted
  <2> QED
    BY <2>2, <2>3, <2>4
<1>11. TakenOf(Other(p))' = TakenOf(Other(p)) + Cardinality(W) /\ TakenOf(Other(p)) \in Nat
  <2> DEFINE s == Other(p)
  <2>1. s \in {"bytes", "space"} /\ s' = s /\ TakenOf(Other(p))' = TakenOf(s)' /\ W \in SUBSET Proc
    BY <1>1, <1>9 DEF Other
  <2>2. \A q \in Proc : Counted(q, s)' = Counted(q, s) + (IF q \in W THEN 1 ELSE 0)
    BY <1>10
  <2> QED
    BY <2>1, <2>2, TakenServed
<1>12. Cardinality(W) \in Nat
  BY <1>2, FS_CardinalityType DEF Releases
<1> QED
  BY <1>3, <1>5, <1>8, <1>11, <1>12

-----------------------------------------------------------------------------
(* What a read call copies: the first bytes, in order, and the rest stays.  *)
LEMMA CopyOutFifo ==
    ASSUME BulkInv, ControlInv, FifoInv, BulkInv', ControlInv', NEW r \in Reader, CopyOut(r)
    PROVE  /\ FifoInv'
           /\ todo[r] \in 1..Len(Contents)
           /\ out' = [out EXCEPT ![r] = SubSeq(Contents, 1, todo[r])]
           /\ Contents' = SubSeq(Contents, todo[r] + 1, Len(Contents))
<1> USE PipeAssumption
<1>1. TakenOK /\ TakenOK' /\ Types /\ WaitInv /\ CallInv /\ WellFormed(chain, head, tail) /\ r \in Proc
  BY TakenCounted, TakenCountedNext DEF BulkInv, ControlInv, FifoInv, ChainInv, Proc
<1> DEFINE n == todo[r]
           st == ReadBytes(n)
<1>2. /\ MayRun(r) /\ pc[r] = "copy" /\ Release(Other(r), n) /\ n \in Nat
      /\ pc' = [pc EXCEPT ![r] = "unlock"] /\ todo' = [todo EXCEPT ![r] = 0]
      /\ chain' = st.chain /\ head' = st.head /\ tail' = tail /\ room' = room
      /\ out' = [out EXCEPT ![r] = st.out]
  BY <1>1 DEF CopyOut, At, Types
<1>3. Own(r) = "bytes" /\ Other(r) = "space" /\ n > 0
  BY <1>1, <1>2 DEF Own, Other, CallInv
<1>4. /\ count'["bytes"] + TakenOf("bytes")' = count["bytes"] + TakenOf("bytes") - n
      /\ count'["space"] + TakenOf("space")' = count["space"] + TakenOf("space") + n
      /\ n <= TakenOf("bytes")
  BY <1>1, <1>2, <1>3, PassUnits
<1>5. count["bytes"] \in Nat /\ count["space"] \in Nat /\ InPipe \in Nat /\ RAMFS_PIPE_SIZE \in Nat
  BY <1>1 DEF Types, Sem, WellFormed, InPipe
<1>6. \A s \in {"bytes", "space"} : TakenOf(s) \in Int
  <2> SUFFICES ASSUME NEW s \in {"bytes", "space"} PROVE TakenOf(s) \in Int
    OBVIOUS
  <2>1. \A p \in Proc : [q \in Proc |-> Taken(q, s)][p] \in Int
    BY <1>1 DEF TakenOK
  <2> QED
    BY <2>1, FiniteAssumption, SumType DEF TakenOf, SumFunction, Proc
<1>7. n <= InPipe
  <2>1. TakenOf("bytes") \in Int
    BY <1>6
  <2> QED
    BY <1>2, <1>4, <1>5, <2>1 DEF FifoInv, UnitsInv
<1> HIDE DEF st, n
<1>8. ReadSoFar(st, n)
  BY <1>1, <1>2, <1>7, ReadLoop DEF st, InPipe
<1>9. /\ WellFormed(chain, head, tail)' /\ InPipe' = InPipe - n
  BY <1>2, <1>8 DEF ReadSoFar, InPipe, WellFormed
<1>10. FifoInv'
  <2>1. count["bytes"] + TakenOf("bytes") = InPipe /\ count["space"] + TakenOf("space") = RAMFS_PIPE_SIZE - InPipe
    BY DEF FifoInv, UnitsInv
  <2>2. /\ count'["bytes"] + TakenOf("bytes")' = InPipe - n
        /\ count'["space"] + TakenOf("space")' = RAMFS_PIPE_SIZE - InPipe + n
    <3>1. TakenOf("bytes") \in Int /\ TakenOf("space") \in Int /\ n \in Nat
      BY <1>2, <1>6
    <3>2. count["bytes"] + TakenOf("bytes") - n = (count["bytes"] + TakenOf("bytes")) - n
      BY <1>5, <3>1
    <3> QED
      BY <1>4, <2>1, <3>2, Zenon
  <2>3. RAMFS_PIPE_SIZE - InPipe + n = RAMFS_PIPE_SIZE - (InPipe - n)
    BY <1>2, <1>5
  <2>4. UnitsInv'
    BY <1>9, <2>2, <2>3 DEF UnitsInv
  <2> QED
    BY <1>2, <1>9, <2>4 DEF FifoInv, ChainInv
<1>11. /\ Contents \in Seq(Value) /\ Len(Contents) = InPipe
       /\ Contents' \in Seq(Value) /\ Len(Contents') = InPipe - n
  <2>1. Contents \in Seq(Value) /\ Len(Contents) = InPipe
    BY <1>1, StoredBytes DEF Contents, InPipe
  <2>2. /\ Between(chain', head', tail') \in Seq(Value)
        /\ Len(Between(chain', head', tail')) = Stored(chain', head', tail')
    BY <1>9, StoredBytes DEF WellFormed, Stored
  <2> QED
    BY <1>9, <2>1, <2>2 DEF Contents, Between, InPipe, Stored
<1>12. st.out = SubSeq(Contents, 1, n)
  <2>1. st.out \in Seq(Value) /\ Len(st.out) = n /\ \A i \in 1..n : st.out[i] = Contents[i]
    BY <1>8 DEF ReadSoFar, ReadStates
  <2> DEFINE c == Contents
             m == InPipe
             a == SubSeq(c, 1, n)
  <2>2. c \in Seq(Value) /\ Len(c) = m /\ m \in Nat /\ n \in Nat /\ n <= m
    BY <1>2, <1>5, <1>7, <1>11
  <2> HIDE DEF c, m
  <2>3. a \in Seq(Value) /\ Len(a) = n /\ \A i \in 1..n : a[i] = c[i]
    BY <2>2
  <2> HIDE DEF a
  <2>4. st.out = a
    BY <1>2, <2>1, <2>3, SeqEqual DEF c
  <2> QED
    BY <2>4 DEF a, c
<1>13. Contents' = SubSeq(Contents, n + 1, Len(Contents))
  <2> DEFINE c == Contents
             d == Contents'
             m == InPipe
             a == SubSeq(c, n + 1, Len(c))
  <2>1. /\ c \in Seq(Value) /\ Len(c) = m /\ m \in Nat /\ n \in Nat /\ n <= m
        /\ d \in Seq(Value) /\ Len(d) = m - n
    BY <1>2, <1>5, <1>7, <1>11
  <2>2. \A i \in 1..m - n : d[i] = c[n + i]
    BY <1>2, <1>8 DEF ReadSoFar, Contents, InPipe, Between
  <2> HIDE DEF c, d, m
  <2>3. a \in Seq(Value) /\ Len(a) = m - n /\ \A i \in 1..m - n : a[i] = c[n + i]
    BY <2>1
  <2> HIDE DEF a
  <2>4. d = a
    BY <2>1, <2>2, <2>3, SeqEqual
  <2> QED
    BY <2>4 DEF a, c, d
<1>14. n \in 1..Len(Contents)
  BY <1>2, <1>3, <1>5, <1>7, <1>11
<1>15. out' = [out EXCEPT ![r] = SubSeq(Contents, 1, n)]
  BY <1>2, <1>12
<1> QED
  BY <1>10, <1>13, <1>14, <1>15 DEF n

(* What a write call copies: its first bytes, behind those in the pipe. *)
LEMMA CopyInFifo ==
    ASSUME BulkInv, ControlInv, FifoInv, BulkInv', ControlInv', NEW w \in Writer, CopyIn(w)
    PROVE  /\ FifoInv'
           /\ todo[w] \in 0..Len(buf[w])
           /\ Contents' = Contents \o SubSeq(buf[w], 1, todo[w])
           /\ Len(Contents') <= RAMFS_PIPE_SIZE
<1> USE PipeAssumption
<1>1. /\ TakenOK /\ TakenOK' /\ Types /\ WaitInv /\ CallInv /\ BufInv /\ WellFormed(chain, head, tail)
      /\ w \in Proc
  BY TakenCounted, TakenCountedNext DEF BulkInv, ControlInv, FifoInv, ChainInv, Proc
<1> DEFINE n == todo[w]
           b == buf[w]
           st == WriteBytes(b, n)
<1>2. /\ MayRun(w) /\ pc[w] = "copy" /\ n \in Nat
      /\ \E actual \in 0..n : actual = st.done /\ Release(Other(w), actual)
      /\ pc' = [pc EXCEPT ![w] = "unlock"] /\ todo' = [todo EXCEPT ![w] = 0]
      /\ chain' = st.chain /\ tail' = st.tail /\ head' = head /\ room' = room
  BY <1>1 DEF CopyIn, At, Types
<1>3. Own(w) = "space" /\ Other(w) = "bytes" /\ n > 0
  BY <1>1, <1>2 DEF Own, Other, CallInv
<1>4. b \in Seq(Byte) /\ n <= Len(b) /\ Len(b) \in Nat
  BY <1>1, <1>2, LenProperties DEF BufInv, CallInv, Outside
<1>5. /\ count["bytes"] \in Nat /\ count["space"] \in Nat /\ InPipe \in Nat /\ RAMFS_PIPE_SIZE \in Nat
      /\ room \in RoomRange /\ EnoughMemory
  BY <1>1 DEF Types, Sem, WellFormed, InPipe, FifoInv, ChainInv
<1>6. \A s \in {"bytes", "space"} : TakenOf(s) \in Int
  <2> SUFFICES ASSUME NEW s \in {"bytes", "space"} PROVE TakenOf(s) \in Int
    OBVIOUS
  <2>1. \A p \in Proc : [q \in Proc |-> Taken(q, s)][p] \in Int
    BY <1>1 DEF TakenOK
  <2> QED
    BY <2>1, FiniteAssumption, SumType DEF TakenOf, SumFunction, Proc
<1> HIDE DEF st, n, b
<1>7. InPipe + n <= RAMFS_PIPE_SIZE
  <2>1. n <= TakenOf("space")
    <3>1. PICK actual \in 0..n : Release(Other(w), actual)
      BY <1>2
    <3>2. actual \in Nat
      BY <1>2
    <3> QED
      BY <1>1, <1>2, <1>3, <3>1, <3>2, PassUnits DEF n
  <2>2. TakenOf("space") \in Int
    BY <1>6
  <2> QED
    BY <1>2, <1>5, <2>1, <2>2 DEF FifoInv, UnitsInv
<1>8. WrittenSoFar(st, b, n)
  <2>1. \A i \in 1..n : b[i] \in Byte
    BY <1>2, <1>4
  <2> QED
    BY <1>1, <1>2, <1>5, <1>7, <2>1, WriteLoop DEF st, InPipe
<1>9. Release(Other(w), n)
  BY <1>2, <1>8 DEF WrittenSoFar
<1>10. /\ count'["bytes"] + TakenOf("bytes")' = count["bytes"] + TakenOf("bytes") + n
       /\ count'["space"] + TakenOf("space")' = count["space"] + TakenOf("space") - n
  BY <1>1, <1>2, <1>3, <1>9, PassUnits DEF n
<1>11. WellFormed(chain, head, tail)' /\ InPipe' = InPipe + n
  BY <1>2, <1>8 DEF WrittenSoFar, InPipe, WellFormed
<1>12. FifoInv'
  <2>1. count["bytes"] + TakenOf("bytes") = InPipe /\ count["space"] + TakenOf("space") = RAMFS_PIPE_SIZE - InPipe
    BY DEF FifoInv, UnitsInv
  <2>2. /\ count'["bytes"] + TakenOf("bytes")' = InPipe + n
        /\ count'["space"] + TakenOf("space")' = RAMFS_PIPE_SIZE - InPipe - n
    BY <1>2, <1>5, <1>6, <1>10, <2>1
  <2>3. RAMFS_PIPE_SIZE - InPipe - n = RAMFS_PIPE_SIZE - (InPipe + n)
    BY <1>2, <1>5
  <2>4. UnitsInv'
    BY <1>11, <2>2, <2>3 DEF UnitsInv
  <2> QED
    BY <1>2, <1>5, <1>11, <2>4 DEF FifoInv, ChainInv
<1>13. /\ Contents \in Seq(Value) /\ Len(Contents) = InPipe
       /\ Contents' \in Seq(Value) /\ Len(Contents') = InPipe + n
  <2>1. Contents \in Seq(Value) /\ Len(Contents) = InPipe
    BY <1>1, StoredBytes DEF Contents, InPipe
  <2>2. /\ Between(chain', head', tail') \in Seq(Value)
        /\ Len(Between(chain', head', tail')) = Stored(chain', head', tail')
    BY <1>11, StoredBytes DEF WellFormed, Stored
  <2> QED
    BY <1>11, <2>1, <2>2 DEF Contents, Between, InPipe, Stored
<1>14. Contents' = Contents \o SubSeq(b, 1, n)
  <2> DEFINE c == Contents
             d == Contents'
             m == InPipe
             a == SubSeq(b, 1, n)
             e == c \o a
  <2>1. /\ c \in Seq(Value) /\ Len(c) = m /\ m \in Nat /\ n \in Nat /\ n <= Len(b) /\ b \in Seq(Byte)
        /\ d \in Seq(Value) /\ Len(d) = m + n
    BY <1>2, <1>4, <1>5, <1>13
  <2>2. /\ \A i \in 1..m : d[i] = c[i]
        /\ \A i \in 1..n : d[m + i] = b[i]
    <3>1. d = Between(st.chain, head, st.tail)
      BY <1>2 DEF Contents, Between
    <3> HIDE DEF d
    <3> QED
      BY <1>8, <3>1 DEF WrittenSoFar, InPipe
  <2> HIDE DEF c, d, m
  <2>3. a \in Seq(Byte) /\ Len(a) = n /\ \A i \in 1..n : a[i] = b[i]
    BY <1>4, <2>1
  <2>4. a \in Seq(Value)
    BY <2>3 DEF Value
  <2> HIDE DEF a
  <2>5. /\ e \in Seq(Value) /\ Len(e) = m + n
        /\ \A i \in 1..m + n : e[i] = IF i <= m THEN c[i] ELSE a[i - m]
    <3>1. c \in Seq(Value) /\ a \in Seq(Value)
      BY <2>1, <2>4
    <3>2. /\ e \in Seq(Value) /\ Len(e) = Len(c) + Len(a)
          /\ \A i \in 1..Len(c) + Len(a) : e[i] = IF i <= Len(c) THEN c[i] ELSE a[i - Len(c)]
      BY <3>1, ConcatProperties, Zenon
    <3> QED
      BY <2>1, <2>3, <3>2
  <2> HIDE DEF e
  <2>6. ASSUME NEW i \in 1..m + n PROVE d[i] = e[i]
    <3>1. CASE i <= m
      BY <2>1, <2>2, <2>5, <3>1
    <3>2. CASE i > m
      <4>1. i - m \in 1..n /\ i = m + (i - m)
        BY <2>1, <3>2
      <4>2. d[m + (i - m)] = b[i - m]
        BY <2>2, <4>1
      <4> QED
        BY <2>1, <2>3, <2>5, <3>2, <4>1, <4>2
    <3> QED
      BY <2>1, <3>1, <3>2
  <2>7. d = e
    BY <2>1, <2>5, <2>6, SeqEqual
  <2> QED
    BY <2>7 DEF a, c, d, e
<1>15. Len(Contents') <= RAMFS_PIPE_SIZE /\ n \in 0..Len(b)
  BY <1>2, <1>4, <1>7, <1>13
<1> QED
  BY <1>12, <1>14, <1>15 DEF n, b

-----------------------------------------------------------------------------
(* A step that does not touch the pipe's bytes, nor a call's. *)
LEMMA NothingCopied ==
    ASSUME UNCHANGED <<chain, head, tail>>, UNCHANGED <<buf, out>>
    PROVE  [Abstract!Next]_(Abstract!vars)
<1>1. Contents' = Contents
  BY DEF Contents, Between
<1> QED
  BY <1>1 DEF Abstract!vars

(* A step of p in its call, other than First, Bulk and the copy. *)
LEMMA MoveUnits ==
    ASSUME BulkInv, ControlInv, FifoInv, BulkInv', ControlInv', UNCHANGED dataVars,
           NEW p \in Proc, NEW next, pc' = [pc EXCEPT ![p] = next],
           \A q \in Proc : q # p => todo'[q] = todo[q],
           \A s \in {"bytes", "space"} : count'[s] = count[s] /\ waitq'[s] = waitq[s],
           \/ pc[p] \notin {"relock", "measure", "bulk", "copy"} /\ next \notin {"relock", "measure", "bulk", "copy"}
           \/ pc[p] = "relock" /\ ~Blocked(p) /\ next = "measure"
           \/ pc[p] = "measure" /\ (next = "bulk" \/ (next = "copy" /\ todo'[p] = 1))
    PROVE  FifoInv'
<1>1. TakenOK /\ TakenOK' /\ Types
  BY TakenCounted, TakenCountedNext DEF BulkInv
<1>2. chain' = chain /\ head' = head /\ tail' = tail /\ room' \in RoomRange
  BY DEF dataVars, FifoInv, ChainInv
<1>3. ASSUME NEW s \in {"bytes", "space"}, NEW q \in Proc PROVE Counted(q, s)' = Counted(q, s)
  <2>1. Own(q)' = Own(q) /\ waitq'[s] = waitq[s] /\ s \in Sem
    BY DEF Own, Sem
  <2>2. CASE q # p
    <3>1. pc'[q] = pc[q] /\ todo'[q] = todo[q]
      BY <1>1, <2>2 DEF Types
    <3> QED
      BY <2>1, <3>1 DEF Counted
  <2>3. CASE q = p
    <3>1. pc'[q] = next /\ (~Blocked(p) => q \notin Range(waitq[s]))
      BY <1>1, <2>1, <2>3 DEF Types, Blocked
    <3> QED
      BY <2>1, <2>3, <3>1 DEF Counted
  <2> QED
    BY <2>2, <2>3
<1> QED
  BY <1>1, <1>2, <1>3, KeepUnits

(* Taking the lock touches neither byte nor space units. *)
LEMMA OtherSems ==
    ASSUME Types, NEW p \in Proc, NEW next, Acquire(p, "lock", 1, next)
    PROVE  \A s \in {"bytes", "space"} : count'[s] = count[s] /\ waitq'[s] = waitq[s]
BY DEF Types, Acquire, Sem

(* Nor does giving it back. *)
LEMMA OtherSemsReleased ==
    ASSUME Types, WaitInv, Release("lock", 1)
    PROVE  \A s \in {"bytes", "space"} : count'[s] = count[s] /\ waitq'[s] = waitq[s]
<1>1. "lock" \in Sem /\ \A s \in {"bytes", "space"} : s \in Sem /\ s # "lock"
  BY DEF Sem
<1> QED
  BY <1>1, ReleaseQueues

(* The first unit is taken, or the process waits for it. *)
LEMMA FirstUnits ==
    ASSUME BulkInv, ControlInv, FifoInv, BulkInv', ControlInv', NEW p \in Proc, First(p)
    PROVE  FifoInv'
<1>1. TakenOK /\ TakenOK' /\ Types /\ Own(p) \in Sem /\ count[Own(p)] \in Nat
  BY TakenCounted, TakenCountedNext DEF BulkInv, Own, Sem, Types
<1>2. /\ MayRun(p) /\ pc[p] = "first" /\ Acquire(p, Own(p), 1, "relock") /\ todo' = todo
      /\ UNCHANGED dataVars /\ pc' = [pc EXCEPT ![p] = "relock"]
  BY DEF First, At, Acquire
<1>3. pc'[p] = "relock" /\ \A q \in Proc : q # p => pc'[q] = pc[q]
  BY <1>1, <1>2 DEF Types
<1>4. CASE count[Own(p)] >= 1
  <2>1. count' = [count EXCEPT ![Own(p)] = @ - 1] /\ waitq' = waitq
    BY <1>2, <1>4 DEF Acquire
  <2>2. \A s \in {"bytes", "space"} : \A q \in Proc : q # p => Counted(q, s)' = Counted(q, s)
    BY <1>2, <1>3, <2>1 DEF Counted, Own
  <2>3. Counted(p, Own(p))' = Counted(p, Own(p)) + 1
    <3>1. p \notin Range(waitq'[Own(p)])
      BY <1>1, <1>2, <2>1, MayRunNoQueue DEF NoQueue
    <3> QED
      BY <1>2, <1>3, <3>1 DEF Counted, Own
  <2> QED
    BY <1>1, <1>2, <1>4, <2>1, <2>2, <2>3, TakeUnits
<1>5. CASE ~(count[Own(p)] >= 1)
  <2>1. count' = count /\ waitq' = [waitq EXCEPT ![Own(p)] = Append(@, p)]
    BY <1>2, <1>5 DEF Acquire
  <2> DEFINE w == waitq[Own(p)]
  <2>2. IsInjective(w) /\ w \in Seq(Proc) /\ p \notin Range(w)
    BY <1>1, <1>2, MayRunNoQueue DEF NoQueue, ControlInv, WaitInv, Types
  <2>3. Range(Append(w, p)) = Range(w) \cup {p}
    <3> HIDE DEF w
    <3> QED
      BY <2>2, AppendNew
  <2>4. ASSUME NEW s \in {"bytes", "space"}, NEW q \in Proc PROVE Counted(q, s)' = Counted(q, s)
    <3>1. Own(q)' = Own(q) /\ s \in Sem
      BY DEF Own, Sem
    <3>2. CASE q # p
      <4>1. pc'[q] = pc[q] /\ todo'[q] = todo[q]
        BY <1>2, <1>3, <3>2
      <4>2. q \in Range(waitq'[s]) <=> q \in Range(waitq[s])
        BY <1>1, <2>1, <2>3, <3>1, <3>2 DEF Types
      <4> QED
        BY <3>1, <4>1, <4>2 DEF Counted
    <3>3. CASE q = p
      <4>1. p \in Range(waitq'[Own(p)])
        BY <1>1, <2>1, <2>3 DEF Types
      <4> QED
        BY <1>2, <1>3, <3>1, <3>3, <4>1 DEF Counted
    <3> QED
      BY <3>2, <3>3
  <2>5. chain' = chain /\ head' = head /\ tail' = tail /\ room' \in RoomRange
    BY <1>2 DEF dataVars, FifoInv, ChainInv
  <2>6. \A s \in {"bytes", "space"} : count'[s] = count[s] /\ \A q \in Proc : Counted(q, s)' = Counted(q, s)
    BY <2>1, <2>4
  <2> QED
    BY <1>1, <2>5, <2>6, KeepUnits
<1> QED
  BY <1>4, <1>5

(* The further units are taken: those that were counted are there. *)
LEMMA BulkUnits ==
    ASSUME BulkInv, ControlInv, FifoInv, BulkInv', ControlInv', NEW p \in Proc, Bulk(p)
    PROVE  FifoInv'
<1>1. TakenOK /\ TakenOK' /\ Types /\ Own(p) \in Sem /\ count[Own(p)] \in Nat /\ todo[p] \in Nat
  BY TakenCounted, TakenCountedNext DEF BulkInv, Own, Sem, Types
<1>2. /\ MayRun(p) /\ pc[p] = "bulk" /\ Acquire(p, Own(p), todo[p] - 1, "copy") /\ todo' = todo
      /\ UNCHANGED dataVars /\ pc' = [pc EXCEPT ![p] = "copy"]
  BY DEF Bulk, At, Acquire
<1>3. pc'[p] = "copy" /\ \A q \in Proc : q # p => pc'[q] = pc[q]
  BY <1>1, <1>2 DEF Types
<1> DEFINE n == todo[p] - 1
<1>4. n \in Nat /\ n <= count[Own(p)] /\ 1 + n = todo[p]
  <2>1. todo[p] > 1 /\ todo[p] <= 1 + count[Own(p)]
    BY <1>2 DEF BulkInv, CountedStillThere
  <2> QED
    BY <1>1, <2>1
<1>5. count' = [count EXCEPT ![Own(p)] = @ - n] /\ waitq' = waitq
  BY <1>1, <1>2, <1>4 DEF Acquire
<1>6. \A s \in {"bytes", "space"} : \A q \in Proc : q # p => Counted(q, s)' = Counted(q, s)
  BY <1>2, <1>3, <1>5 DEF Counted, Own
<1>7. Counted(p, Own(p))' = Counted(p, Own(p)) + n
  <2>1. Counted(p, Own(p))' = todo[p] /\ Counted(p, Own(p)) = 1
    BY <1>2, <1>3 DEF Counted, Own
  <2> QED
    BY <1>4, <2>1
<1> HIDE DEF n
<1> QED
  BY <1>1, <1>2, <1>4, <1>5, <1>6, <1>7, TakeUnits

(* Every step keeps the units and the chain in step, and is a step of the   *)
(* bounded queue or leaves it alone.                                        *)
LEMMA FifoStep ==
    ASSUME BulkInv, ControlInv, FifoInv, [Next]_vars, BulkInv', ControlInv'
    PROVE  FifoInv' /\ [Abstract!Next]_(Abstract!vars)
<1> USE PipeAssumption
<1>1. /\ Types /\ WaitInv /\ LockInv /\ CallInv /\ BufInv
      /\ \A q \in Proc : Own(q) \in Sem
  BY DEF BulkInv, ControlInv, Own, Sem
<1>2. ASSUME NEW r \in Reader, NEW n \in Sizes, Read(r, n)
      PROVE  FifoInv' /\ [Abstract!Next]_(Abstract!vars)
  <2>1. /\ r \in Proc /\ pc[r] = "user" /\ Acquire(r, "lock", 1, "enter") /\ todo' = todo
        /\ UNCHANGED dataVars /\ UNCHANGED <<buf, out>> /\ pc' = [pc EXCEPT ![r] = "enter"]
    BY <1>2 DEF Read, At, Proc, Acquire
  <2>2. FifoInv'
    BY <1>1, <2>1, OtherSems, MoveUnits
  <2> QED
    BY <2>1, <2>2, NothingCopied DEF dataVars
<1>3. ASSUME NEW w \in Writer, NEW n \in Sizes, NEW b \in [1..n -> Byte], Write(w, b)
      PROVE  FifoInv' /\ [Abstract!Next]_(Abstract!vars)
  <2>1. /\ w \in Proc /\ pc[w] = "user" /\ Acquire(w, "lock", 1, "enter") /\ todo' = todo
        /\ UNCHANGED dataVars /\ out' = out /\ pc' = [pc EXCEPT ![w] = "enter"]
        /\ buf' = [buf EXCEPT ![w] = b]
    BY <1>3 DEF Write, At, Proc, Acquire
  <2>2. FifoInv'
    BY <1>1, <2>1, OtherSems, MoveUnits
  <2>3. Contents' = Contents
    BY <2>1 DEF Contents, Between, dataVars
  <2>4. buf[w] = <<>> /\ buf'[w] = b /\ buf' = [buf EXCEPT ![w] = buf'[w]]
    BY <1>1, <2>1 DEF BufInv, Outside
  <2>5. b \in Seq(Byte)
    <3>1. n \in Nat
      OBVIOUS
    <3> QED
      BY <3>1
  <2>6. Abstract!CallWrite(w)
    BY <2>1, <2>3, <2>4, <2>5 DEF Abstract!CallWrite
  <2> QED
    BY <2>2, <2>6 DEF Abstract!Next
<1>4. ASSUME NEW p \in Proc, Enter(p)
      PROVE  FifoInv' /\ [Abstract!Next]_(Abstract!vars)
  <2>1. /\ pc[p] = "enter" /\ todo' = todo /\ UNCHANGED dataVars /\ UNCHANGED <<buf, out>>
        /\ \/ pc' = [pc EXCEPT ![p] = "unlock"] /\ UNCHANGED semVars
           \/ pc' = [pc EXCEPT ![p] = "first"] /\ Release("lock", 1)
    BY <1>4 DEF Enter, At
  <2>2. \A s \in {"bytes", "space"} : count'[s] = count[s] /\ waitq'[s] = waitq[s]
    <3>1. CASE UNCHANGED semVars
      BY <3>1 DEF semVars
    <3>2. CASE Release("lock", 1)
      BY <1>1, <3>2, OtherSemsReleased
    <3> QED
      BY <2>1, <3>1, <3>2
  <2>3. FifoInv'
    BY <2>1, <2>2, MoveUnits
  <2> QED
    BY <2>1, <2>3, NothingCopied DEF dataVars
<1>5. ASSUME NEW p \in Proc, First(p)
      PROVE  FifoInv' /\ [Abstract!Next]_(Abstract!vars)
  <2>1. UNCHANGED dataVars /\ UNCHANGED <<buf, out>>
    BY <1>5 DEF First
  <2> QED
    BY <1>5, <2>1, FirstUnits, NothingCopied DEF dataVars
<1>6. ASSUME NEW p \in Proc, Relock(p)
      PROVE  FifoInv' /\ [Abstract!Next]_(Abstract!vars)
  <2>1. /\ pc[p] = "relock" /\ ~Blocked(p) /\ Acquire(p, "lock", 1, "measure") /\ todo' = todo
        /\ UNCHANGED dataVars /\ UNCHANGED <<buf, out>> /\ pc' = [pc EXCEPT ![p] = "measure"]
    BY <1>6 DEF Relock, At, MayRun, Acquire
  <2>2. FifoInv'
    BY <1>1, <2>1, OtherSems, MoveUnits
  <2> QED
    BY <2>1, <2>2, NothingCopied DEF dataVars
<1>7. ASSUME NEW p \in Proc, Measure(p)
      PROVE  FifoInv' /\ [Abstract!Next]_(Abstract!vars)
  <2> DEFINE next == IF todo'[p] > 1 THEN "bulk" ELSE "copy"
  <2>1. /\ pc[p] = "measure" /\ todo' = [todo EXCEPT ![p] = Todo(p)]
        /\ pc' = [pc EXCEPT ![p] = next] /\ count' = count /\ waitq' = waitq
        /\ UNCHANGED dataVars /\ UNCHANGED <<buf, out>>
    BY <1>7 DEF Measure, At, semVars
  <2>2. next = "bulk" \/ (next = "copy" /\ todo'[p] = 1)
    <3>1. size[p] > 0
      BY <1>1, <2>1 DEF CallInv
    <3>2. Todo(p) > 0 /\ Todo(p) \in Nat
      BY <1>1, <3>1, TodoPositive
    <3>3. todo'[p] = Todo(p)
      BY <1>1, <2>1 DEF Types
    <3>4. CASE todo'[p] > 1
      <4>1. next = "bulk"
        BY <3>4
      <4> HIDE DEF next
      <4> QED
        BY <4>1
    <3>5. CASE ~(todo'[p] > 1)
      <4>1. todo'[p] = 1
        BY <3>2, <3>3, <3>5
      <4>2. next = "copy"
        BY <3>5
      <4> HIDE DEF next
      <4> QED
        BY <4>1, <4>2
    <3> QED
      BY <3>4, <3>5
  <2> HIDE DEF next
  <2>3. \A q \in Proc : q # p => todo'[q] = todo[q]
    BY <1>1, <2>1 DEF Types
  <2>4. FifoInv'
    BY <2>1, <2>2, <2>3, MoveUnits
  <2> QED
    BY <2>1, <2>4, NothingCopied DEF dataVars
<1>8. ASSUME NEW p \in Proc, Bulk(p)
      PROVE  FifoInv' /\ [Abstract!Next]_(Abstract!vars)
  <2>1. UNCHANGED dataVars /\ UNCHANGED <<buf, out>>
    BY <1>8 DEF Bulk
  <2> QED
    BY <1>8, <2>1, BulkUnits, NothingCopied DEF dataVars
<1>9. ASSUME NEW p \in Proc, CopyOut(p)
      PROVE  FifoInv' /\ [Abstract!Next]_(Abstract!vars)
  <2>1. p \in Reader /\ buf' = buf
    BY <1>9 DEF CopyOut
  <2>2. /\ FifoInv'
        /\ todo[p] \in 1..Len(Contents)
        /\ out' = [out EXCEPT ![p] = SubSeq(Contents, 1, todo[p])]
        /\ Contents' = SubSeq(Contents, todo[p] + 1, Len(Contents))
    BY <1>9, <2>1, CopyOutFifo
  <2>3. Abstract!Read(p)
    BY <2>1, <2>2 DEF Abstract!Read
  <2> QED
    BY <2>1, <2>2, <2>3 DEF Abstract!Next
<1>10. ASSUME NEW p \in Proc, CopyIn(p)
       PROVE  FifoInv' /\ [Abstract!Next]_(Abstract!vars)
  <2>1. p \in Writer /\ out' = out /\ buf' = [buf EXCEPT ![p] = <<>>]
    BY <1>10 DEF CopyIn
  <2>2. /\ FifoInv'
        /\ todo[p] \in 0..Len(buf[p])
        /\ Contents' = Contents \o SubSeq(buf[p], 1, todo[p])
        /\ Len(Contents') <= RAMFS_PIPE_SIZE
    BY <1>10, <2>1, CopyInFifo
  <2>3. Abstract!Write(p)
    BY <2>1, <2>2 DEF Abstract!Write
  <2> QED
    BY <2>1, <2>2, <2>3 DEF Abstract!Next
<1>11. ASSUME NEW p \in Proc, Unlock(p)
       PROVE  FifoInv' /\ [Abstract!Next]_(Abstract!vars)
  <2>1. /\ pc[p] = "unlock" /\ todo' = todo /\ UNCHANGED dataVars /\ buf' = buf
        /\ pc' = [pc EXCEPT ![p] = "user"] /\ Release("lock", 1)
        /\ out' = IF p \in Reader THEN [out EXCEPT ![p] = <<>>] ELSE out
    BY <1>11 DEF Unlock, At
  <2>2. \A s \in {"bytes", "space"} : count'[s] = count[s] /\ waitq'[s] = waitq[s]
    BY <1>1, <2>1, OtherSemsReleased
  <2>3. FifoInv'
    BY <2>1, <2>2, MoveUnits
  <2>4. CASE p \in Reader
    <3>1. Contents' = Contents
      BY <2>1 DEF Contents, Between, dataVars
    <3>2. Abstract!ReturnRead(p)
      BY <2>1, <2>4, <3>1 DEF Abstract!ReturnRead
    <3> QED
      BY <2>3, <2>4, <3>2 DEF Abstract!Next
  <2>5. CASE p \notin Reader
    BY <2>1, <2>3, <2>5, NothingCopied DEF dataVars
  <2> QED
    BY <2>4, <2>5
<1>12. ASSUME NEW p \in Proc, Close(p)
       PROVE  FifoInv' /\ [Abstract!Next]_(Abstract!vars)
  <2>1. /\ pc[p] = "user" /\ Acquire(p, "lock", 1, "close") /\ todo' = todo
        /\ UNCHANGED dataVars /\ UNCHANGED <<buf, out>> /\ pc' = [pc EXCEPT ![p] = "close"]
    BY <1>12 DEF Close, At, Acquire
  <2>2. FifoInv'
    BY <1>1, <2>1, OtherSems, MoveUnits
  <2> QED
    BY <2>1, <2>2, NothingCopied DEF dataVars
<1>13. ASSUME NEW p \in Proc, Closed(p)
       PROVE  FifoInv' /\ [Abstract!Next]_(Abstract!vars)
  <2>1. /\ pc[p] = "close" /\ count' = count /\ waitq' = waitq /\ todo' = todo
        /\ UNCHANGED dataVars /\ UNCHANGED <<buf, out>> /\ pc' = [pc EXCEPT ![p] = "closed"]
    BY <1>13 DEF Closed, At, semVars
  <2>2. FifoInv'
    BY <2>1, MoveUnits
  <2> QED
    BY <2>1, <2>2, NothingCopied DEF dataVars
<1>14. ASSUME UNCHANGED <<procVars, semVars, chain, head, tail>>, room' \in RoomRange
       PROVE  FifoInv' /\ [Abstract!Next]_(Abstract!vars)
  <2>1. /\ pc' = pc /\ todo' = todo /\ count' = count /\ waitq' = waitq
        /\ chain' = chain /\ head' = head /\ tail' = tail /\ UNCHANGED <<buf, out>>
    BY <1>14 DEF procVars, semVars
  <2>2. FifoInv'
    BY <1>14, <2>1 DEF FifoInv, ChainInv, UnitsInv, InPipe, Stored, TakenOf, Taken, Own
  <2> QED
    BY <2>1, <2>2, NothingCopied
<1>15. CASE OthersAllocate
  BY <1>14, <1>15 DEF OthersAllocate
<1>16. CASE UNCHANGED vars
  BY <1>14, <1>16 DEF vars, dataVars, FifoInv, ChainInv
<1> QED
  BY <1>2, <1>3, <1>4, <1>5, <1>6, <1>7, <1>8, <1>9, <1>10, <1>11, <1>12, <1>13, <1>15, <1>16
     DEF Next, InCall

(* Inductive for every instance with memory for a full pipe: the chain is well *)
(* formed and both semaphores agree with what it holds.                     *)
THEOREM FifoInvariant == Spec /\ EnoughMemory => []FifoInv
<1>1. FifoInv /\ [Next]_vars /\ BulkInv /\ BulkInv' /\ ControlInv /\ ControlInv' => FifoInv'
  BY FifoStep
<1> QED
  BY <1>1, FifoInit, BulkInvariant, ControlInvariant, PTL DEF Spec

(* Neither semaphore drifts away from what the chain holds, whatever reads and *)
(* writes interleave where (ramfs_pipe_read, ramfs_pipe_write): for every   *)
(* instance with memory for a full pipe.                                    *)
THEOREM UnitsMatch == Spec /\ EnoughMemory => []UnitsMatchContents
<1>1. FifoInv => UnitsMatchContents
  <2> SUFFICES ASSUME FifoInv PROVE UnitsMatchContents
    OBVIOUS
  <2>1. Len(Contents) = InPipe
    BY StoredBytes DEF FifoInv, ChainInv, Contents, InPipe
  <2> QED
    BY <2>1 DEF FifoInv, UnitsInv, UnitsMatchContents
<1> QED
  BY <1>1, FifoInvariant, PTL

(* A multiple of d that is less than one multiple away is not beyond it. *)
LEMMA MultipleBelow ==
    ASSUME NEW d \in Nat \ {0}, NEW a \in Int, NEW k \in Int, a * d < d * k + d
    PROVE  a * d <= d * k
<1>1. CASE a <= k
  <2> DEFINE u == k - a
  <2>1. u \in Nat /\ k = a + u
    BY <1>1
  <2> HIDE DEF u
  <2>2. d * u \in Nat /\ d * (a + u) = a * d + d * u
    BY <2>1
  <2> QED
    BY <2>1, <2>2
<1>2. CASE a > k
  <2> DEFINE u == a - k - 1
  <2>1. u \in Nat /\ a = k + 1 + u
    BY <1>2
  <2> HIDE DEF u
  <2>2. d * u \in Nat /\ (k + 1 + u) * d = d * k + d + d * u
    BY <2>1
  <2> QED
    BY <2>1, <2>2
<1> QED
  BY <1>1, <1>2

(* Readers free what writers allocate: the chain never grows past what the  *)
(* capacity needs and one datanode, for every instance whose capacity is a  *)
(* multiple of the datanode size, as filesystem.h asks.                     *)
THEOREM FewDatanodes == Spec /\ EnoughMemory => []DatanodesBounded
<1>1. FifoInv /\ BulkInv /\ ControlInv => DatanodesBounded
  <2> SUFFICES ASSUME FifoInv, TakenOK, Types PROVE DatanodesBounded
    BY TakenCounted DEF BulkInv
  <2> DEFINE P == RAMFS_PIPE_SIZE
             L == Len(chain) - 1
             k == P \div D
             x == L * D
             y == D * k
             z == Len(chain) * D
  <2>1. P \in Nat /\ D \in Nat \ {0} /\ P % D = 0
    BY PipeAssumption DEF D
  <2>2. /\ L \in Nat /\ head \in 0..D - 1 /\ tail \in Nat /\ InPipe \in Nat /\ InPipe = x + tail - head
        /\ Len(chain) \in Nat
    <3>1. chain \in Seq(Datanode) /\ chain # <<>> /\ head \in 0..D - 1 /\ tail \in 0..D - 1 /\ InPipe \in Nat
      BY DEF FifoInv, ChainInv, WellFormed, Chains, InPipe
    <3>2. Len(chain) \in Nat \ {0}
      BY <3>1, EmptySeq, LenProperties
    <3> QED
      BY <2>1, <3>1, <3>2 DEF InPipe, Stored
  <2>3. InPipe <= P
    <3>1. count["space"] \in Nat
      BY DEF Types, Sem
    <3>2. TakenOf("space") \in Nat
      <4> DEFINE f == [q \in Proc |-> Taken(q, "space")]
      <4>1. \A q \in Proc : f[q] \in Nat
        BY DEF TakenOK
      <4>2. TakenOf("space") = SumFunctionOnSet(f, Proc)
        BY DEF TakenOf, SumFunction
      <4> HIDE DEF f
      <4> QED
        BY <4>1, <4>2, FiniteAssumption, SumNat DEF Proc
    <3> QED
      BY <2>1, <2>2, <3>1, <3>2 DEF FifoInv, UnitsInv
  <2>4. P = y /\ k \in Int
    <3>1. P = D * (P \div D) + (P % D) /\ P \div D \in Int
      BY <2>1, DivMod
    <3> QED
      BY <2>1, <3>1
  <2>5. x \in Int /\ y \in Int /\ z = x + D /\ z \in Int
    BY <2>1, <2>2, <2>4
  <2>6. x < y + D
    <3> HIDE DEF x, y, L
    <3> QED
      BY <2>1, <2>2, <2>3, <2>4, <2>5
  <2>7. x <= y
    <3> HIDE DEF k, L
    <3> QED
      BY <2>1, <2>2, <2>4, <2>6, MultipleBelow
  <2>8. z <= P + D
    <3> HIDE DEF x, y, z
    <3> QED
      BY <2>1, <2>4, <2>5, <2>7
  <2> QED
    BY <2>8 DEF DatanodesBounded, D
<1> QED
  BY <1>1, FifoInvariant, BulkInvariant, ControlInvariant, PTL

(* The chain of datanodes under two semaphores and a lock implements a      *)
(* bounded first-in first-out queue of bytes: for every number of readers and *)
(* writers, all sizes of calls, every capacity and datanode size, given memory *)
(* for a full pipe.                                                         *)
THEOREM ImplementsFifo == Spec /\ EnoughMemory => IsFifo
<1>1. Init => Abstract!Init
  <2> SUFFICES ASSUME Init PROVE Abstract!Init
    OBVIOUS
  <2>1. /\ Len(chain) = 1 /\ head = 0 /\ tail = 0 /\ RAMFS_DATANODE_SIZE \in Nat
        /\ buf = [w \in Writer |-> <<>>] /\ out = [r \in Reader |-> <<>>]
    BY PipeAssumption DEF Init
  <2>2. (Len(chain) - 1) * RAMFS_DATANODE_SIZE + tail - head = 0
    BY <2>1
  <2>3. Contents = <<>>
    BY <2>2 DEF Contents, Between
  <2> QED
    BY <2>1, <2>3 DEF Abstract!Init
<1>2. FifoInv /\ [Next]_vars /\ BulkInv /\ BulkInv' /\ ControlInv /\ ControlInv'
         => [Abstract!Next]_(Abstract!vars)
  BY FifoStep
<1> QED
  BY <1>1, <1>2, FifoInvariant, BulkInvariant, ControlInvariant, PTL DEF Spec, IsFifo, Abstract!Spec

(* With memory for a full pipe, a write waits only while the pipe is full or *)
(* other writers have taken what is left (ramfs_pipe_write).                *)
THEOREM WaitsForSpace == Spec /\ EnoughMemory => []WaitsOnlyIfFull
<1>1. IdleInv /\ FifoInv /\ BulkInv /\ ControlInv => WaitsOnlyIfFull
  <2> SUFFICES ASSUME IdleInv, FifoInv, TakenOK, waitq["space"] # <<>>
               PROVE  Len(Contents) + TakenOf("space") = RAMFS_PIPE_SIZE
    BY TakenCounted DEF WaitsOnlyIfFull
  <2>1. Len(Contents) = InPipe /\ InPipe \in Nat /\ RAMFS_PIPE_SIZE \in Nat
    BY StoredBytes, PipeAssumption DEF FifoInv, ChainInv, Contents, InPipe, WellFormed
  <2>2. count["space"] = 0
    BY DEF IdleInv, Sem
  <2>3. TakenOf("space") \in Int
    <3> DEFINE f == [q \in Proc |-> Taken(q, "space")]
    <3>1. \A q \in Proc : f[q] \in Int
      BY DEF TakenOK
    <3>2. TakenOf("space") = SumFunctionOnSet(f, Proc)
      BY DEF TakenOf, SumFunction
    <3> HIDE DEF f
    <3> QED
      BY <3>1, <3>2, FiniteAssumption, SumType DEF Proc
  <2>4. count["space"] + TakenOf("space") = RAMFS_PIPE_SIZE - InPipe
    BY DEF FifoInv, UnitsInv
  <2> QED
    BY <2>1, <2>2, <2>3, <2>4
<1> QED
  BY <1>1, NobodyWaitsInVain, FifoInvariant, BulkInvariant, ControlInvariant, PTL
=============================================================================
