------------------------------ MODULE Semaphore ------------------------------
(***************************************************************************)
(* The counting semaphores of kernel/src/semaphore.c composed with the     *)
(* scheduler: a process that cannot have the units it asks for leaves the  *)
(* ready rotation for the semaphore's waiting queue, and a release hands   *)
(* units to the waiters at the front of that queue.                        *)
(***************************************************************************)
EXTENDS Scheduler, FiniteSets

CONSTANTS
    Sem,          \* semaphores
    InitialCount, \* initial count of each of them
    Requests,     \* numbers of units asked for or released at once
    COUNT_MOD,    \* semaphore_t.count is a uint32_t: 2^32 in the code
    HoldBound     \* bound: a process's balance stays within -HoldBound..HoldBound

ASSUME FiniteAssumption == IsFiniteSet(Proc)
ASSUME SemAssumption == /\ COUNT_MOD \in Nat \ {0}
                        /\ InitialCount \in [Sem -> 0..COUNT_MOD-1]
                        /\ Requests \subseteq 0..COUNT_MOD-1
                        /\ HoldBound \in Nat

VARIABLES
    count,      \* semaphore_t.count
    waitq,      \* semaphore_t.waiting_queue
    wanted,     \* process_t.waiting_for_resource_count
    holds       \* history: units granted to a process minus units it released

semVars == <<count, waitq, wanted, holds>>
vars == <<schedVars, semVars>>

Init ==
    /\ SchedInit
    /\ count = InitialCount
    /\ waitq = [s \in Sem |-> <<>>]
    /\ wanted = [p \in Proc |-> 0]
    /\ holds = [p \in Proc |-> [s \in Sem |-> 0]]

(* semaphore_acquire: take the units, or block and run another process *)
Acquire(s, n) ==
    /\ \E c \in Proc : Running(c)
    /\ holds[current][s] + n <= HoldBound
    /\ IF count[s] >= n
       THEN /\ count' = [count EXCEPT ![s] = @ - n]
            /\ holds' = [holds EXCEPT ![current][s] = @ + n]
            /\ UNCHANGED <<schedVars, waitq, wanted>>
       ELSE /\ wanted' = [wanted EXCEPT ![current] = n]
            /\ waitq' = [waitq EXCEPT ![s] = Append(@, current)]
            /\ ToNextProcess(ready, [pstate EXCEPT ![current] = "BLOCK"])
            /\ UNCHANGED <<alive, sleepq, deleteq, attachedFrom, sleepTicks,
                           aliveTicks, globalSleep, remaining, dropped,
                           count, holds>>

(* The units the first k waiters of s ask for. *)
UnitsFor_oneEach(s, k) == k      \* mutant: a served waiter costs one unit

UnitsFor(s, k) == SumFunction([i \in 1..k |-> wanted[waitq[s][i]]])

(* With this many units available, semaphore_release's loop serves the     *)
(* first k waiters of s and stops at the next.                             *)
Serves_ifNotWhile(s, available, k) ==    \* mutant: one waiter per release
    /\ k <= 1
    /\ UnitsFor(s, k) \in 0..available
    /\ k = 0 /\ Len(waitq[s]) > 0 => available < wanted[waitq[s][1]]

Serves(s, available, k) ==
    /\ UnitsFor(s, k) \in 0..available
    /\ k < Len(waitq[s]) => ~(available - UnitsFor(s, k) >= wanted[waitq[s][k+1]])

(* semaphore_release: add the units (modulo the width of count), then      *)
(* serve waiters from the front until one asks for more than is left.      *)
Release(s, n) ==
    /\ \E c \in Proc : Running(c)
    /\ holds[current][s] - n >= -HoldBound
    /\ \E k \in 0..Len(waitq[s]) :
          LET available == (count[s] + n) % COUNT_MOD
              served    == SubSeq(waitq[s], 1, k)
          IN /\ Serves(s, available, k)
             /\ count' = [count EXCEPT ![s] = available - UnitsFor(s, k)]
             /\ waitq' = [waitq EXCEPT ![s] = SubSeq(@, k + 1, Len(@))]
             /\ ready' = ready \o served
             /\ pstate' = [p \in Proc |-> IF p \in Range(served) THEN "READY" ELSE pstate[p]]
             /\ holds' = [p \in Proc |-> [holds[p] EXCEPT ![s] =
                             @ + (IF p \in Range(served) THEN wanted[p] ELSE 0)
                               - (IF p = current THEN n ELSE 0)]]
    /\ UNCHANGED <<alive, current, sleepq, deleteq, attachedFrom, sleepTicks,
                   aliveTicks, globalSleep, remaining, dropped, wanted>>

Next ==
    \/ SchedNext /\ UNCHANGED semVars
    \/ \E s \in Sem, n \in Requests : Acquire(s, n)
    \/ \E s \in Sem, n \in Requests : Release(s, n)

Spec == Init /\ [][Next]_vars

(* The timer keeps interrupting; nothing else is promised. *)
FairSpec == Spec /\ WF_vars(Tick /\ UNCHANGED semVars)

-----------------------------------------------------------------------------
(* Every variable has the type of the field or queue it stands for. *)
TypeOK ==
    /\ alive \subseteq Proc
    /\ current \in Proc \cup {NULL}
    /\ ready \in Seq(Proc)
    /\ sleepq \in Seq(Proc)
    /\ deleteq \in Seq(Proc)
    /\ pstate \in [Proc -> States]
    /\ attachedFrom \in [Proc -> Proc \cup {NULL}]
    /\ sleepTicks \in [Proc -> Nat]
    /\ aliveTicks \in [Proc -> 0..PROCESS_ALIVE_TICKS - 1]
    /\ globalSleep \in Nat
    /\ remaining \in [Proc -> Nat]
    /\ dropped \subseteq Proc
    /\ count \in [Sem -> 0..COUNT_MOD - 1]
    /\ waitq \in [Sem -> Seq(Proc)]
    /\ wanted \in [Proc -> 0..COUNT_MOD - 1]
    /\ holds \in [Proc -> [Sem -> Int]]

(* Processes whose death somebody may be waiting for. *)
Children == (alive \ Range(deleteq)) \ {Idle}

(* Where process p is: running, in which slot of which queue, waiting for   *)
(* which child, or dropped by a yield.                                      *)
SlotsIn(name, q, p) == {<<name, i>> : i \in {j \in 1..Len(q) : q[j] = p}}

Slots(p) ==
    {<<"run", 0>> : x \in {current} \cap {p}}
      \cup SlotsIn("ready", ready, p)
      \cup SlotsIn("sleep", sleepq, p)
      \cup SlotsIn("delete", deleteq, p)
      \cup {<<"attached", c>> : c \in {d \in Children : attachedFrom[d] = p}}
      \cup {<<"dropped", 0>> : x \in dropped \cap {p}}
      \cup UNION {SlotsIn(s, waitq[s], p) : s \in Sem}

(* A live process is in exactly one place and a freed control block in      *)
(* none, whatever order ticks, sleeps, kills, attaches and semaphore calls  *)
(* come in.  All queues share the link field queue_next, so a process in    *)
(* two of them would splice them together; a freed block in one is a use    *)
(* after free (scheduler.c, semaphore.c, process_queue.c).                  *)
EveryProcessInOnePlace ==
    \A p \in Proc : Cardinality(Slots(p)) = IF p \in alive THEN 1 ELSE 0

(* Popping the ready queue never yields NULL, which                         *)
(* scheduler_to_next_process would dereference: the idle process is always  *)
(* running or ready because it never blocks and is never killed.            *)
AlwaysSomethingToRun == current # NULL

(* The state field agrees with the queue a process is in, although it is    *)
(* written by some of the functions that move a process and not by others.  *)
StateMatchesQueue ==
    \A p \in alive :
        /\ pstate[p] = "READY" <=> p \in Range(ready)
        /\ pstate[p] = "SLEEP" <=> p \in Range(sleepq)
        /\ pstate[p] = "BLOCK" <=> \E s \in Sem : p \in Range(waitq[s])

(* Sleeping t ticks takes exactly t ticks (one for t = 0): nobody wakes     *)
(* early or late, although the sleep clock starts again from 0 whenever the *)
(* sleep queue empties and only the front of the queue is looked at.        *)
SleepIsExact == \A p \in alive : p \in Range(sleepq) <=> remaining[p] > 0

(* A process never waits for units that are there: the first waiter of a    *)
(* semaphore asks for more than the count (semaphore_release's loop).       *)
NoLostWakeup ==
    \A s \in Sem : waitq[s] # <<>> => count[s] < wanted[Head(waitq[s])]

(* Units are neither lost nor made: the count and what the processes hold   *)
(* add up to the initial count (modulo the width of the counter), also when *)
(* a release hands units to processes that blocked long ago.                *)
UnitsConserved ==
    \A s \in Sem :
        (count[s] + SumFunction([p \in Proc |-> holds[p][s]])) % COUNT_MOD
            = InitialCount[s]

(* A process that yields stays in the rotation: it is somewhere else than   *)
(* in no queue at all (the yield system call of docs/features.md).          *)
NoProcessStranded == \A p \in alive : Slots(p) # {<<"dropped", 0>>}

(* Round robin: whoever is ready or sleeps runs eventually, whatever the    *)
(* others do.                                                               *)
EveryoneRuns == \A p \in Proc : p \in Range(ready) \cup Range(sleepq) ~> current = p
=============================================================================
