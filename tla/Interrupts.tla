----------------------------- MODULE Interrupts -----------------------------
(***************************************************************************)
(* Into the kernel and back: the stubs of system/isr.asm, isr_handler, the *)
(* descriptor tables (idt.c, gdt.c, tss.c), the interrupt controllers      *)
(* (driver/pic.c) and the frame that process_new puts on a new stack.      *)
(*                                                                         *)
(* A kernel stack is the sequence of the words on it, the registers that   *)
(* pusha and the four pushes of segment registers save being one word.     *)
(* Which process runs next is the scheduler's business (module Scheduler): *)
(* here it is any that is ready.                                           *)
(***************************************************************************)
EXTENDS Integers, Sequences, FiniteSets

CONSTANTS
    Users, Threads,    \* user processes, kernel threads
    Boot, Kmain,       \* two kernel threads: the idle process and kmain
    EVENTS             \* bound on interrupts, faults and system calls

(* The first two processes are threads of the kernel. *)
ProcessAssumption ==
    /\ Users \cap Threads = {}
    /\ {Boot, Kmain} \subseteq Threads /\ Boot # Kmain

VARIABLES
    cpu,        \* what the processor executes
    cur,        \* the process it executes for
    kstack,     \* the kernel stack of each process
    saved_esp,  \* how much of it is in use while the process does not run
    esp0,       \* tss.esp0: the process whose stack an interrupt from ring 3 starts
    ready,      \* processes that can run; the others do not exist or wait
    dead,       \* processes that await process_delete
    raised,     \* lines whose interrupt has not been delivered
    service,    \* the in-service bits of the two controllers
    events,     \* interrupts, faults and calls so far
    want        \* history: for each process what it is to go on with, the
                \* innermost last

vars == <<cpu, cur, kstack, saved_esp, esp0, ready, dead, raised, service, events, want>>

Proc == Users \cup Threads
None == "none"
Lines == {0, 1, 14}              \* timer, keyboard, and the drive, which has no handler
Last(s) == s[Len(s)]
Cut(s, n) == SubSeq(s, 1, n)

(* The code of a process, at its start. *)
Code(p) == [at |-> "code", ring |-> IF p \in Users THEN 3 ELSE 0, if |-> TRUE, eax |-> 0,
            vec |-> -1, pos |-> 0]

-----------------------------------------------------------------------------
(* Vectors: a page fault, the one exception that is survived, 32 + line for *)
(* interrupts, 0x80 for system calls.                                       *)
PAGE_FAULT == 14
SYSCALL == 128
Vector(line) == 32 + line

(* The exceptions for which the processor pushes an error code, and those   *)
(* whose stub counts on it.                                                 *)
CpuPushesError == {8, 10, 11, 12, 13, 14, 17, 21, 29, 30}

ErrStubs_noPageFault == {8, 10, 11, 12, 13, 17, 21, 29, 30}   \* mutant: 14 has the other stub

ErrStubs == {8, 10, 11, 12, 13, 14, 17, 21, 29, 30}

(* The gates: 0x8f for exceptions leaves interrupts enabled, 0x8e and 0xee  *)
(* do not.                                                                  *)
TrapGate(vec) == vec < 32

(* What the processor pushes. *)
CpuFrame(vec) ==
    (IF cpu.ring = 3 THEN <<<<"ss", 3>>, <<"useresp", cur>>>> ELSE << >>)
    \o <<<<"eflags", cpu.if>>, <<"cs", cpu.ring>>, <<"eip", <<cpu.at, cpu.vec, cpu.pos>>>>>>
    \o (IF vec \in CpuPushesError THEN <<<<"err_code", vec>>>> ELSE << >>)

(* From ring 3 onto the stack the TSS names, from its top; in ring 0 onto   *)
(* the stack in use.                                                        *)
Enter(vec) ==
    LET s == IF cpu.ring = 3 THEN esp0 ELSE cur
        under == IF cpu.ring = 3 THEN << >> ELSE kstack[cur]
    IN /\ kstack' = [kstack EXCEPT ![s] = under \o CpuFrame(vec)]
       /\ want' = [want EXCEPT ![cur] = Append(@, cpu)]
       /\ cpu' = [cpu EXCEPT !.at = "stub", !.ring = 0, !.if = @ /\ TrapGate(vec), !.vec = vec,
                             !.pos = 0]

Happens == events < EVENTS /\ events' = events + 1

-----------------------------------------------------------------------------
(* The two 8259: a line is delivered when no line of its priority or above *)
(* is in service; those of the second come in over line 2.                 *)
Priority(line) == IF line >= 8 THEN 2 ELSE line

Raise(line) ==
    /\ Happens
    /\ line \notin raised
    /\ raised' = raised \cup {line}
    /\ UNCHANGED <<cpu, cur, kstack, saved_esp, esp0, ready, dead, service, want>>

Deliver(line) ==
    /\ cpu.if
    /\ line \in raised
    /\ \A l \in service : Priority(l) > Priority(line)
    /\ raised' = raised \ {line}
    /\ service' = service \cup (IF line >= 8 THEN {2, line} ELSE {line})
    /\ Enter(Vector(line))
    /\ UNCHANGED <<cur, saved_esp, esp0, ready, dead, events>>

(* An end-of-interrupt command ends the service of the line of highest      *)
(* priority.                                                                *)
Ended(s) == {l \in s : \E k \in s : k < l}

pic_send_eoi_first(irq, s) == Ended({l \in s : l < 8}) \cup {l \in s : l >= 8}   \* mutant: only to the first

pic_send_eoi(irq, s) ==
    Ended({l \in s : l < 8})
    \cup (IF irq >= 8 THEN Ended({l \in s : l >= 8}) ELSE {l \in s : l >= 8})

-----------------------------------------------------------------------------
(* A fault of the running code, and a system call.  A system call may make *)
(* another one (attach, kacquire), in ring 0 and with interrupts off.      *)
Fault ==
    /\ Happens
    /\ cpu.at \in {"code", "handler"}
    /\ Enter(PAGE_FAULT)
    /\ UNCHANGED <<cur, saved_esp, esp0, ready, dead, raised, service>>

Int80 ==
    /\ Happens
    /\ cur # Boot
    /\ cpu.at = "code" \/ (cpu.at = "handler" /\ cpu.vec = SYSCALL)
    /\ Enter(SYSCALL)
    /\ UNCHANGED <<cur, saved_esp, esp0, ready, dead, raised, service>>

(* The stub and isr_common_stub up to the call of isr_handler. *)
Stub ==
    /\ cpu.at = "stub"
    /\ LET s == kstack[cur] \o (IF cpu.vec \in ErrStubs THEN << >> ELSE <<<<"err_code", 0>>>>)
                            \o <<<<"int_no", cpu.vec>>, <<"regs", cpu.eax>>>>
       IN /\ kstack' = [kstack EXCEPT ![cur] = s]
          /\ cpu' = [cpu EXCEPT !.at = "handler", !.if = FALSE, !.pos = Len(s)]
    /\ UNCHANGED <<cur, saved_esp, esp0, ready, dead, raised, service, events, want>>

-----------------------------------------------------------------------------
(* isr_handler returns an esp: of the frame it was called with, or of the   *)
(* process the scheduler has switched to.  Its caller goes on there.        *)
Acknowledge == service' = IF cpu.vec \in 32..47 THEN pic_send_eoi(cpu.vec - 32, service) ELSE service

(* mov esp, eax, the pops, and iret, which takes esp and ss from the stack  *)
(* only on the way to ring 3.                                               *)
Popped(s, p) ==
    LET n    == Len(s)
        eip  == s[n - 3]
        cs   == s[n - 4]
        good == n >= 6 /\ s[n][1] = "regs" /\ eip[1] = "eip" /\ cs[1] = "cs"
        words == IF cs[2] = 3 THEN 8 ELSE 6
    IN IF ~good THEN [lost |-> TRUE]
       ELSE [lost |-> FALSE,
             cpu  |-> [at |-> eip[2][1], vec |-> eip[2][2], pos |-> eip[2][3],
                       ring |-> cs[2], if |-> s[n - 5][2], eax |-> s[n][2]],
             rest |-> IF words <= n THEN Cut(s, n - words) ELSE <<"underflow">>]

(* The stub's second half, for process p whose stack is s. *)
ReturnTo(p, s) ==
    LET r == Popped(s, p)
    IN /\ cur' = p
       /\ cpu' = IF r.lost THEN [cpu EXCEPT !.at = "lost"] ELSE r.cpu
       /\ kstack' = [kstack EXCEPT ![cur] = Cut(@, cpu.pos), ![p] = IF r.lost THEN s ELSE r.rest]

(* The handler of an interrupt, a page fault whose entry could be copied,   *)
(* or a system call that does not switch.  Its result goes to regs->eax.    *)
Stay ==
    /\ cpu.at = "handler"
    /\ LET result == IF cpu.vec = SYSCALL THEN 1 ELSE kstack[cur][cpu.pos][2]
           s == [Cut(kstack[cur], cpu.pos) EXCEPT ![cpu.pos] = <<"regs", result>>]
       IN /\ ReturnTo(cur, s)
          /\ want' = [want EXCEPT ![cur] = Cut(@, Len(@) - 1)]
    /\ Acknowledge
    /\ dead' = IF cpu.vec = Vector(0) THEN {} ELSE dead
    /\ UNCHANGED <<saved_esp, esp0, ready, raised, events>>

(* scheduler_to_next_process: the frame is left where it is, and the stack  *)
(* of the next process becomes the one for interrupts from ring 3.          *)
TssInstall == None             \* tss_install(5, 0x10, 0)

SetStack(p) == esp0' = IF p \in Users THEN p ELSE None

Switch(p, stays) ==
    /\ cpu.at = "handler"
    /\ cpu.vec \in {Vector(0), SYSCALL}
    /\ p \in (IF stays THEN ready \cup {cur} ELSE ready)
    /\ cpu.vec = Vector(0) => stays
    /\ ready' = (IF stays THEN ready \cup {cur} ELSE ready) \ {p}
    /\ saved_esp' = [saved_esp EXCEPT ![cur] = cpu.pos]
    /\ ReturnTo(p, IF p = cur THEN Cut(kstack[p], cpu.pos) ELSE Cut(kstack[p], saved_esp[p]))
    /\ SetStack(p)
    /\ want' = [want EXCEPT ![p] = Cut(@, Len(@) - 1)]
    /\ Acknowledge
    /\ dead' = IF cpu.vec = Vector(0) THEN {} ELSE dead
    /\ UNCHANGED <<raised, events>>

(* scheduler_kill_process *)
Kill(p) ==
    /\ cpu.at = "handler" /\ cpu.vec = SYSCALL
    /\ cur # Boot
    /\ p \in ready
    /\ ready' = ready \ {p}
    /\ dead' = dead \cup {cur}
    /\ ReturnTo(p, Cut(kstack[p], saved_esp[p]))
    /\ SetStack(p)
    /\ want' = [want EXCEPT ![p] = Cut(@, Len(@) - 1), ![cur] = << >>]
    /\ Acknowledge
    /\ UNCHANGED <<saved_esp, raised, events>>

(* A process that waits is made ready by the one that runs. *)
Wake(p) ==
    /\ cpu.at = "handler"
    /\ p \in Proc \ (ready \cup dead \cup {cur})
    /\ want[p] # << >>
    /\ ready' = ready \cup {p}
    /\ UNCHANGED <<cpu, cur, kstack, saved_esp, esp0, dead, raised, service, events, want>>

-----------------------------------------------------------------------------
(* process_new: the frame of a process that has not run yet.  That of a     *)
(* kernel thread ends with eflags: it lies 8 bytes higher than one that     *)
(* leads to ring 3.                                                         *)
NewFrame(p) ==
    (IF p \in Users THEN <<<<"ss", 3>>, <<"useresp", p>>>> ELSE << >>)
    \o <<<<"eflags", TRUE>>, <<"cs", Code(p).ring>>, <<"eip", <<"code", -1, 0>>>>,
         <<"err_code", 0>>, <<"int_no", 0>>, <<"regs", 0>>>>

(* Made by a thread of the kernel, or in a system call. *)
ProcessNew(p) ==
    /\ Happens
    /\ cpu.at = "handler" \/ cur = Kmain
    /\ p \in Proc \ (ready \cup dead \cup {cur})
    /\ want[p] = << >>
    /\ kstack' = [kstack EXCEPT ![p] = NewFrame(p)]
    /\ saved_esp' = [saved_esp EXCEPT ![p] = Len(NewFrame(p))]
    /\ want' = [want EXCEPT ![p] = <<Code(p)>>]
    /\ ready' = ready \cup {p}
    /\ UNCHANGED <<cpu, cur, esp0, dead, raised, service>>

-----------------------------------------------------------------------------
(* kinit has made the tables and the first two processes, and executes sti. *)
Init ==
    /\ cur = Boot /\ cpu = Code(Boot)
    /\ kstack = [p \in Proc |-> IF p = Kmain THEN NewFrame(p) ELSE << >>]
    /\ saved_esp = [p \in Proc |-> IF p = Kmain THEN Len(NewFrame(p)) ELSE 0]
    /\ want = [p \in Proc |-> IF p = Kmain THEN <<Code(p)>> ELSE << >>]
    /\ esp0 = TssInstall
    /\ ready = {Kmain} /\ dead = {}
    /\ raised = {} /\ service = {}
    /\ events = 0

Handler ==
    \/ Stub \/ Stay
    \/ \E p \in Proc : Switch(p, TRUE) \/ Switch(p, FALSE) \/ Kill(p)

Next ==
    \/ \E line \in Lines : Raise(line) \/ Deliver(line)
    \/ Fault \/ Int80 \/ Handler
    \/ \E p \in Proc : Wake(p) \/ ProcessNew(p)

-----------------------------------------------------------------------------
(* A process goes on exactly where it was interrupted, in its ring, with    *)
(* its interrupt flag and its registers; only a system call's caller finds  *)
(* a result in eax.  Frames of interrupts from either ring, of faults with  *)
(* an error code, of calls within calls and of new processes are mixed on   *)
(* the stacks.                                                              *)
ContextRestored ==
    [][Len(want'[cur']) < Len(want[cur']) =>
          LET old == Last(want[cur'])
          IN \/ cpu' = old
             \/ cpu' = [old EXCEPT !.eax = 1] /\ cpu.vec = SYSCALL /\ cur' = cur]_vars

(* While a process runs its own code nothing is left on its kernel stack,   *)
(* and in ring 3 the processor would find the way to that stack.            *)
StackUnwound ==
    cpu.at = "code" /\ want[cur] = << >> =>
        /\ kstack[cur] = << >>
        /\ cpu = [Code(cur) EXCEPT !.eax = cpu.eax]
        /\ cpu.ring = 3 => esp0 = cur

(* Every interrupt that is raised is delivered. *)
LinesServed == \A line \in Lines : line \in raised ~> line \notin raised
=============================================================================
