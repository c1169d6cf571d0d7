------------------------------ MODULE Scheduler ------------------------------
(***************************************************************************)
(* The round-robin scheduler of kernel/src/process/scheduler.c, driven by  *)
(* the timer interrupt (driver/timer.c) and by the system calls of the     *)
(* running process (system/syscall.c).                                     *)
(*                                                                         *)
(* Interrupt and system-call handlers run with interrupts disabled on one  *)
(* processor, so a handler is one action.  A process is its control block: *)
(* an element of Proc is a process_t that kmalloc may hand out, live from  *)
(* scheduler_add_process until the tick after its death, when process_delete *)
(* frees it and the same block may be used for a new process.              *)
(***************************************************************************)
EXTENDS Integers, Sequences, SequencesExt, Functions

CONSTANTS
    Proc,                 \* process control blocks
    Idle,                 \* the process of id 1, made by process_make_idle
    Kmain,                \* the kernel main process, added before interrupts start
    NULL,
    PROCESS_ALIVE_TICKS,  \* time slice, in ticks
    SleepRequests,        \* arguments of the sleep system call
    SleepBound            \* bound: wake-up times above it are not explored

ASSUME ProcAssumption == /\ Idle \in Proc
                         /\ Kmain \in Proc
                         /\ Idle # Kmain
                         /\ NULL \notin Proc
ASSUME SliceAssumption == PROCESS_ALIVE_TICKS \in Nat \ {0}
ASSUME SleepAssumption == SleepRequests \subseteq Nat /\ SleepBound \in Nat

VARIABLES
    alive,          \* the global process list, as a set
    current,        \* current_process
    ready,          \* ready_queue
    sleepq,         \* sleep_queue
    deleteq,        \* delete_queue
    pstate,         \* process_t.state
    attachedFrom,   \* process_t.attached_from: who waits for this process to die
    sleepTicks,     \* process_t.sleep_ticks: wake-up time of a sleeper
    aliveTicks,     \* process_t.alive_ticks modulo PROCESS_ALIVE_TICKS
    globalSleep,    \* global_sleep_ticks
    remaining,      \* history: ticks a sleeper still has to sleep
    dropped         \* history: processes a yield left out of every queue

schedVars == <<alive, current, ready, sleepq, deleteq, pstate, attachedFrom,
               sleepTicks, aliveTicks, globalSleep, remaining, dropped>>

States == {"READY", "ACTIVE", "SLEEP", "BLOCK"}

-----------------------------------------------------------------------------
(***************************************************************************)
(* The state when kinit executes its last sti: the boot code has become    *)
(* the idle process and kmain is in the ready queue.  process_make_idle    *)
(* leaves the idle process's attached_from as kmalloc returned it.         *)
(***************************************************************************)
SchedInit ==
    /\ alive = {Idle, Kmain}
    /\ current = Idle
    /\ ready = <<Kmain>>
    /\ sleepq = <<>>
    /\ deleteq = <<>>
    /\ pstate = [p \in Proc |-> IF p = Idle THEN "ACTIVE" ELSE "READY"]
    /\ \E garbage \in {NULL, Kmain} :
          attachedFrom = [p \in Proc |-> IF p = Idle THEN garbage ELSE NULL]
    /\ sleepTicks = [p \in Proc |-> 0]
    /\ aliveTicks = [p \in Proc |-> 0]
    /\ globalSleep = 0
    /\ remaining = [p \in Proc |-> 0]
    /\ dropped = {}

(***************************************************************************)
(* The tail of scheduler_to_next_process: pop the ready queue rq and run   *)
(* what was popped.  Popping an empty queue returns NULL, which the code   *)
(* dereferences.  st is the state field of every process before the pop.   *)
(***************************************************************************)
ToNextProcess_headStays(rq, st) ==   \* mutant: process_queue_pop forgets to advance top
    IF rq = <<>>
    THEN current' = NULL /\ ready' = <<>> /\ pstate' = st
    ELSE current' = Head(rq) /\ ready' = rq /\ pstate' = [st EXCEPT ![Head(rq)] = "ACTIVE"]

ToNextProcess_noState(rq, st) ==     \* mutant: the state of the next process is not set
    IF rq = <<>>
    THEN current' = NULL /\ ready' = <<>> /\ pstate' = st
    ELSE current' = Head(rq) /\ ready' = Tail(rq) /\ pstate' = st

ToNextProcess(rq, st) ==
    IF rq = <<>>
    THEN /\ current' = NULL
         /\ ready' = <<>>
         /\ pstate' = st
    ELSE /\ current' = Head(rq)
         /\ ready' = Tail(rq)
         /\ pstate' = [st EXCEPT ![Head(rq)] = "ACTIVE"]

(***************************************************************************)
(* process_queue_sorted_push with process_sort_by_sleep_ticks: skip the    *)
(* elements that wake strictly earlier and insert before the next one.     *)
(* r is the queue afterwards.                                              *)
(***************************************************************************)
SortedPush(q, p, ticks, r) ==
    \E i \in 1..Len(q) + 1 :
        /\ \A j \in 1..i-1 : ticks[q[j]] < ticks[p]
        /\ i <= Len(q) => ~(ticks[q[i]] < ticks[p])
        /\ r = SubSeq(q, 1, i-1) \o <<p>> \o SubSeq(q, i, Len(q))

-----------------------------------------------------------------------------
(* Only a process other than the idle one, which executes nothing but      *)
(* "sti; hlt", makes system calls.                                         *)
Running(p) == current = p /\ p # NULL /\ p # Idle

(* The fields process_new fills in. *)
NewProcess(p) ==
    /\ p \in Proc \ alive
    /\ alive' = alive \cup {p}
    /\ aliveTicks' = [aliveTicks EXCEPT ![p] = 0]
    /\ sleepTicks' = [sleepTicks EXCEPT ![p] = 0]

(* scheduler_spawn without attach (and a kernel thread that calls          *)
(* process_new and scheduler_add_process): the new process becomes ready.  *)
Spawn(p) ==
    /\ \E c \in Proc : Running(c)
    /\ NewProcess(p)
    /\ attachedFrom' = [attachedFrom EXCEPT ![p] = NULL]
    /\ pstate' = [pstate EXCEPT ![p] = "READY"]
    /\ ready' = Append(ready, p)
    /\ UNCHANGED <<current, sleepq, deleteq, globalSleep, remaining, dropped>>

(* scheduler_spawn with attach: scheduler_attach parks the caller in the   *)
(* new process; nothing is written to the caller's state field.            *)
SpawnAttached(p) ==
    /\ \E c \in Proc : Running(c)
    /\ NewProcess(p)
    /\ attachedFrom' = [attachedFrom EXCEPT ![p] = current]
    /\ ToNextProcess(Append(ready, p), [pstate EXCEPT ![p] = "READY"])
    /\ UNCHANGED <<sleepq, deleteq, globalSleep, remaining, dropped>>

(* scheduler_to_next_process as the yield system call.  The libc stub      *)
(* passes no argument, so add_back is whatever the caller left in ebx.     *)
Yield(addBack) ==
    /\ \E c \in Proc : Running(c)
    /\ IF addBack
       THEN /\ ToNextProcess(Append(ready, current),
                             [pstate EXCEPT ![current] = "READY"])
            /\ UNCHANGED dropped
       ELSE /\ ToNextProcess(ready, pstate)
            /\ dropped' = dropped \cup {current}
    /\ UNCHANGED <<alive, sleepq, deleteq, attachedFrom, sleepTicks,
                   aliveTicks, globalSleep, remaining>>

(* scheduler_set_sleep *)
SetSleep(ticks) ==
    /\ \E c \in Proc : Running(c)
    /\ ticks + globalSleep <= SleepBound
    /\ sleepTicks' = [sleepTicks EXCEPT ![current] = ticks + globalSleep]
    /\ SortedPush(sleepq, current, sleepTicks', sleepq')
    /\ remaining' = [remaining EXCEPT ![current] = IF ticks = 0 THEN 1 ELSE ticks]
    /\ ToNextProcess(ready, [pstate EXCEPT ![current] = "SLEEP"])
    /\ UNCHANGED <<alive, deleteq, attachedFrom, aliveTicks, globalSleep, dropped>>

(* scheduler_kill_process: also the end of every process that takes an     *)
(* exception, and of a ring 3 caller of attach or kacquire.                *)
KillCurrent ==
    LET parent == attachedFrom[current] IN
    /\ deleteq' = Append(deleteq, current)
    /\ IF parent # NULL
       THEN ToNextProcess(Append(ready, parent), [pstate EXCEPT ![parent] = "READY"])
       ELSE ToNextProcess(ready, pstate)
    /\ UNCHANGED <<alive, sleepq, attachedFrom, sleepTicks, aliveTicks,
                   globalSleep, remaining, dropped>>

Kill_idleToo == current # NULL /\ KillCurrent   \* mutant: the idle process can be killed

Kill ==
    /\ current # NULL
    /\ IF current = Idle THEN UNCHANGED schedVars ELSE KillCurrent

(***************************************************************************)
(* tick_handler -> scheduler_switch: free the dead, wake the sleepers      *)
(* whose time has come (n of them, from the front), and end the time slice *)
(* of the running process when its tick count is a multiple of the slice.  *)
(***************************************************************************)
WakeSleepers_resetOnWake(n) ==   \* mutant: the sleep clock restarts at every wake-up
    IF sleepq = <<>>
    THEN n = 0 /\ UNCHANGED <<sleepq, globalSleep>>
    ELSE /\ \A i \in 1..n : sleepTicks[sleepq[i]] <= globalSleep + 1
         /\ n < Len(sleepq) => ~(sleepTicks[sleepq[n+1]] <= globalSleep + 1)
         /\ sleepq' = SubSeq(sleepq, n + 1, Len(sleepq))
         /\ globalSleep' = IF n > 0 THEN 0 ELSE globalSleep + 1

WakeSleepers(n) ==
    IF sleepq = <<>>
    THEN n = 0 /\ UNCHANGED <<sleepq, globalSleep>>
    ELSE /\ \A i \in 1..n : sleepTicks[sleepq[i]] <= globalSleep + 1
         /\ n < Len(sleepq) => ~(sleepTicks[sleepq[n+1]] <= globalSleep + 1)
         /\ sleepq' = SubSeq(sleepq, n + 1, Len(sleepq))
         /\ globalSleep' = IF n = Len(sleepq) THEN 0 ELSE globalSleep + 1

AfterTick_noModulo(t) == t + 1   \* mutant: the tick count is not taken modulo the slice

AfterTick(t) == (t + 1) % PROCESS_ALIVE_TICKS

SliceOver_never(t) == t = PROCESS_ALIVE_TICKS   \* mutant: compared with the slice itself

SliceOver(t) == t = 0

Tick ==
    /\ current # NULL
    /\ deleteq' = <<>>
    /\ alive' = alive \ Range(deleteq)
    /\ aliveTicks' = [aliveTicks EXCEPT ![current] = AfterTick(@)]
    /\ remaining' = [p \in Proc |-> IF remaining[p] > 0 THEN remaining[p] - 1 ELSE 0]
    /\ \E n \in 0..Len(sleepq) :
          LET woken == SubSeq(sleepq, 1, n)
              rq    == ready \o woken
              st    == [p \in Proc |-> IF p \in Range(woken) THEN "READY" ELSE pstate[p]]
          IN /\ WakeSleepers(n)
             /\ IF SliceOver(aliveTicks'[current])
                THEN ToNextProcess(Append(rq, current), [st EXCEPT ![current] = "READY"])
                ELSE /\ ready' = rq
                     /\ pstate' = st
                     /\ UNCHANGED current
    /\ UNCHANGED <<attachedFrom, sleepTicks, dropped>>

SchedNext ==
    \/ \E p \in Proc : Spawn(p)
    \/ \E p \in Proc : SpawnAttached(p)
    \/ \E addBack \in BOOLEAN : Yield(addBack)
    \/ \E ticks \in SleepRequests : SetSleep(ticks)
    \/ Kill
    \/ Tick
=============================================================================
