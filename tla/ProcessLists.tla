---------------------------- MODULE ProcessLists ----------------------------
(***************************************************************************)
(* The lists that are threaded through the control blocks: the queues of   *)
(* kernel/src/process/process_queue.c, all of which use the one field      *)
(* queue_next, and the global process list of scheduler.c.  Module         *)
(* Scheduler takes the queues for sequences and the global list for a set; *)
(* here the scheduler's operations are their stores to these fields.       *)
(*                                                                         *)
(* A block that leaves a queue keeps its queue_next, an emptied queue its  *)
(* bottom, and a block that kmalloc returns holds anything.                *)
(*                                                                         *)
(* Attaching is in Scheduler only: a process that attaches to another is   *)
(* in no queue until the other ends, when it is pushed like any process    *)
(* that becomes ready.                                                     *)
(***************************************************************************)
EXTENDS Integers, Sequences, FiniteSets, SequencesExt

CONSTANTS
    Proc,             \* control blocks
    Idle,             \* the one scheduler_init puts first in the global list
    Kmain,            \* the one kinit adds to it
    Nil,
    SleepRequests,    \* arguments of the sleep system call
    SLEEP_BOUND,      \* bound: wake-up times above it are not explored
    AnyPreempt        \* TRUE: a tick may come in the middle of kmain's push

ListsAssumption ==
    /\ IsFiniteSet(Proc) /\ Idle \in Proc /\ Kmain \in Proc \ {Idle} /\ Nil \notin Proc
    /\ SleepRequests \subseteq Nat /\ AnyPreempt \in BOOLEAN

VARIABLES
    lists,            \* the links, the heads of the queues and of the global list
    cur,              \* current_process
    sleep_ticks, global_sleep_ticks,
    adding,           \* the process kmain is pushing
    queued, everyone  \* history: what is in each queue and in the global list

vars == <<lists, cur, sleep_ticks, global_sleep_ticks, adding, queued, everyone>>

Queue == {"ready", "sleep", "delete", "wait"}     \* wait: of a semaphore
Processes == Range(everyone)

(* The blocks from x along the links nx; more than there are blocks if the *)
(* links have a cycle.                                                     *)
Walk(nx, x) ==
    LET at[i \in 0..Cardinality(Proc) + 1] ==
            IF i = 0 THEN x ELSE IF at[i - 1] = Nil THEN Nil ELSE nx[at[i - 1]]
    IN [i \in 1..Cardinality({i \in DOMAIN at : at[i] # Nil}) |-> at[i - 1]]

-----------------------------------------------------------------------------
(* process_queue_push *)
Push_keepsLink(l, k, p) ==     \* mutant: queue_next of the last one is not cleared
    LET h == l.q[k]
        nx == IF h.top = Nil THEN l.next ELSE [l.next EXCEPT ![h.bottom] = p]
    IN [l EXCEPT !.next = nx,
                 !.q[k] = [top |-> IF h.top = Nil THEN p ELSE h.top, bottom |-> p, size |-> h.size + 1]]

Push(l, k, p) ==
    LET h   == l.q[k]
        end == [l.next EXCEPT ![p] = Nil]
        nx  == IF h.top = Nil THEN end ELSE [end EXCEPT ![h.bottom] = p]
    IN [l EXCEPT !.next = nx,
                 !.q[k] = [top |-> IF h.top = Nil THEN p ELSE h.top, bottom |-> p, size |-> h.size + 1]]

(* process_queue_sorted_push with process_sort_by_sleep_ticks.  prev is the *)
(* last block of those in front that wake up earlier.                       *)
SortedPush(l, k, p, ticks) ==
    LET h     == l.q[k]
        chain == Walk(l.next, h.top)
        ahead == {i \in DOMAIN chain : \A j \in 1..i : ticks[chain[j]] < ticks[p]}
        prev  == chain[Max(ahead)]
        grown == h.size + 1
    IN CASE chain = << >> ->
              [l EXCEPT !.next[p] = Nil, !.q[k] = [top |-> p, bottom |-> p, size |-> grown]]
         [] chain # << >> /\ ahead = {} ->
              [l EXCEPT !.next[p] = h.top, !.q[k] = [h EXCEPT !.top = p, !.size = grown]]
         [] OTHER ->
              [l EXCEPT !.next = [@ EXCEPT ![p] = l.next[prev], ![prev] = p],
                        !.q[k] = [h EXCEPT !.bottom = IF l.next[prev] = Nil THEN p ELSE @,
                                           !.size = grown]]

(* process_queue_pop of a queue that is not empty. *)
Pop(l, k) ==
    LET h == l.q[k]
    IN [l EXCEPT !.q[k] = [h EXCEPT !.top = IF @ = h.bottom THEN Nil ELSE l.next[@],
                                    !.size = @ - 1]]

(* global_list_push, global_list_pop *)
GlobalPush(l, p) ==
    [l EXCEPT !.gnext = [@ EXCEPT ![l.gbottom] = p, ![p] = Nil],
              !.gprev[p] = l.gbottom,
              !.gbottom = p,
              !.gsize = @ + 1]

GlobalPop(l, p) ==
    LET before == l.gprev[p]
        after  == l.gnext[p]
    IN [l EXCEPT !.gnext[before] = after,
                 !.gprev = IF after = Nil THEN @ ELSE [@ EXCEPT ![after] = before],
                 !.gbottom = IF p = @ THEN before ELSE @,
                 !.gsize = @ - 1]

(* process_delete: the fields of a freed block hold anything, here pointers *)
(* to the idle process.                                                     *)
Freed(l, p) == [l EXCEPT !.next[p] = Idle, !.gnext[p] = Idle, !.gprev[p] = Idle]

-----------------------------------------------------------------------------
(* scheduler_to_next_process, after the running process has been put into   *)
(* a queue: l are the lists and qs what the queues are to hold.             *)
ToNextProcess(l, qs) ==
    /\ cur' = l.q["ready"].top
    /\ lists' = Pop(l, "ready")
    /\ queued' = [qs EXCEPT !["ready"] = Tail(@)]

Quiet == adding = Nil \/ AnyPreempt
Calls == cur # Idle /\ Quiet /\ (adding # Nil => cur # Kmain)

(* scheduler_add_process, in a system call. *)
AddProcess(p) ==
    /\ Calls /\ p \in Proc \ Processes
    /\ lists' = Push(GlobalPush(lists, p), "ready", p)
    /\ queued' = [queued EXCEPT !["ready"] = Append(@, p)]
    /\ everyone' = Append(everyone, p)
    /\ UNCHANGED <<cur, sleep_ticks, global_sleep_ticks, adding>>

(* ... and in kmain, where interrupts are enabled: the new process has been *)
(* linked, and then becomes the bottom of the queue.                        *)
KmainLinks(p) ==
    /\ adding = Nil /\ cur = Kmain /\ p \in Proc \ Processes
    /\ adding' = p
    /\ LET l == Push(GlobalPush(lists, p), "ready", p)
       IN lists' = [l EXCEPT !.q["ready"].bottom = lists.q["ready"].bottom,
                             !.q["ready"].size = @ - 1]
    /\ everyone' = Append(everyone, p)
    /\ UNCHANGED <<cur, sleep_ticks, global_sleep_ticks, queued>>

KmainSetsBottom ==
    /\ adding # Nil /\ cur = Kmain
    /\ lists' = [lists EXCEPT !.q["ready"].bottom = adding, !.q["ready"].size = @ + 1]
    /\ queued' = [queued EXCEPT !["ready"] = Append(@, adding)]
    /\ adding' = Nil
    /\ UNCHANGED <<cur, sleep_ticks, global_sleep_ticks, everyone>>

(* The running process gives the processor up: to the back of the ready     *)
(* queue, into a semaphore's queue, or to be deleted.                       *)
Leave(k) ==
    /\ Calls
    /\ ToNextProcess(Push(lists, k, cur), [queued EXCEPT ![k] = Append(@, cur)])
    /\ UNCHANGED <<sleep_ticks, global_sleep_ticks, adding, everyone>>

(* scheduler_set_sleep *)
SetSleep(ticks) ==
    LET at == ticks + global_sleep_ticks
        q  == queued["sleep"]
        t  == [sleep_ticks EXCEPT ![cur] = at]
        n  == Cardinality({i \in DOMAIN q : t[q[i]] < at})
    IN /\ Calls
       /\ at <= SLEEP_BOUND
       /\ sleep_ticks' = t
       /\ ToNextProcess(SortedPush(lists, "sleep", cur, t),
                        [queued EXCEPT !["sleep"] = SubSeq(q, 1, n) \o <<cur>> \o SubSeq(q, n + 1, Len(q))])
       /\ UNCHANGED <<global_sleep_ticks, adding, everyone>>

(* semaphore_release serves the first waiter. *)
Release ==
    /\ Calls
    /\ lists.q["wait"].size > 0
    /\ LET p == lists.q["wait"].top
       IN /\ lists' = Push(Pop(lists, "wait"), "ready", p)
          /\ queued' = [queued EXCEPT !["wait"] = Tail(@), !["ready"] = Append(@, Head(queued["wait"]))]
    /\ UNCHANGED <<cur, sleep_ticks, global_sleep_ticks, adding, everyone>>

(* scheduler_switch: the loops over the delete queue, by its size, and over *)
(* the sleepers, by the time of the first.  Nobody looks at the sleep_ticks *)
(* of a process that is awake.                                              *)
ReapOne(l) ==
    LET p == l.q["delete"].top
    IN Freed(GlobalPop(Pop(l, "delete"), p), p)

Reap(l) ==
    LET turn[i \in 0..l.q["delete"].size] == IF i = 0 THEN l ELSE ReapOne(turn[i - 1])
    IN turn[l.q["delete"].size]

WakeUpOne(l, now) ==
    LET p == l.q["sleep"].top
    IN IF p = Nil \/ sleep_ticks[p] > now THEN l ELSE Push(Pop(l, "sleep"), "ready", p)

WakeUp(l, now) ==
    LET turn[i \in 0..Cardinality(Proc)] == IF i = 0 THEN l ELSE WakeUpOne(turn[i - 1], now)
    IN turn[Cardinality(Proc)]

(* A sequence without the elements of gone. *)
Remaining(q, gone) ==
    LET upto[i \in 0..Len(q)] ==
            IF i = 0 THEN << >>
            ELSE IF q[i] \in gone THEN upto[i - 1] ELSE Append(upto[i - 1], q[i])
    IN upto[Len(q)]

Tick(over) ==
    LET reaped == Reap(lists)
        sleepers == queued["sleep"]
        now   == global_sleep_ticks + 1
        n     == Cardinality({i \in DOMAIN sleepers : sleep_ticks[sleepers[i]] <= now})
        woken == SubSeq(sleepers, 1, n)
        asleep == reaped.q["sleep"].size > 0
        l     == IF asleep THEN WakeUp(reaped, now) ELSE reaped
        qs    == [queued EXCEPT !["delete"] = << >>,
                                !["sleep"] = SubSeq(sleepers, n + 1, Len(sleepers)),
                                !["ready"] = @ \o woken]
    IN /\ Quiet
       /\ global_sleep_ticks' =
             IF asleep /\ l.q["sleep"].size > 0 THEN now ELSE IF asleep THEN 0 ELSE global_sleep_ticks
       /\ everyone' = Remaining(everyone, Range(queued["delete"]))
       /\ IF over THEN ToNextProcess(Push(l, "ready", cur), [qs EXCEPT !["ready"] = Append(@, cur)])
          ELSE lists' = l /\ queued' = qs /\ UNCHANGED cur
       /\ sleep_ticks' = [p \in Proc |-> IF p \in Range(woken) THEN 0 ELSE sleep_ticks[p]]
       /\ UNCHANGED adding

(* scheduler_init *)
SchedulerInit ==
    [next  |-> [p \in Proc |-> Idle],
     q     |-> [k \in Queue |-> [top |-> Nil, bottom |-> Nil, size |-> 0]],
     gnext |-> [p \in Proc |-> IF p = Idle THEN Nil ELSE Idle],
     gprev |-> [p \in Proc |-> IF p = Idle THEN Nil ELSE Idle],
     gbottom |-> Idle,
     gsize |-> 1]

(* kinit adds kmain before interrupts are enabled. *)
Init ==
    /\ cur = Idle
    /\ lists = Push(GlobalPush(SchedulerInit, Kmain), "ready", Kmain)
    /\ sleep_ticks = [p \in Proc |-> 0] /\ global_sleep_ticks = 0
    /\ adding = Nil
    /\ queued = [k \in Queue |-> IF k = "ready" THEN <<Kmain>> ELSE << >>]
    /\ everyone = <<Idle, Kmain>>

Next ==
    \/ \E p \in Proc : AddProcess(p) \/ KmainLinks(p)
    \/ KmainSetsBottom
    \/ \E k \in {"ready", "wait", "delete"} : Leave(k)
    \/ \E ticks \in SleepRequests : SetSleep(ticks)
    \/ Release
    \/ \E over \in BOOLEAN : Tick(over)

Spec == Init /\ [][Next]_vars

-----------------------------------------------------------------------------
(* Between operations every queue, followed from its top, is the sequence   *)
(* of processes that were put into it, with the right bottom and the right  *)
(* size: the links that earlier queues have left in the blocks do not show  *)
(* (process_queue_push, process_queue_sorted_push, process_queue_pop).      *)
QueuesAgree ==
    adding = Nil =>
        \A k \in Queue :
            LET h == lists.q[k]
            IN /\ Walk(lists.next, h.top) = queued[k]
               /\ h.size = Len(queued[k])
               /\ queued[k] # << >> => h.bottom = Last(queued[k])

(* The global list has every live process once, forwards and backwards, in  *)
(* the order in which they were made, whichever of them die                 *)
(* (global_list_push, global_list_pop).                                     *)
GlobalListAgrees ==
    /\ Walk(lists.gnext, Idle) = everyone
    /\ Walk(lists.gprev, lists.gbottom) = Reverse(everyone)
    /\ lists.gsize = Len(everyone)
=============================================================================
