---------------------------- MODULE AddressSpace ----------------------------
(***************************************************************************)
(* Virtual memory: the page directories and page tables of                 *)
(* kernel/src/mem/vmmngr.c, the program loader kernel/src/misc/elf.c, and  *)
(* what scheduler_spawn, process_new and process_delete do to frames.      *)
(*                                                                         *)
(* A frame holds ENTRIES entries, each the number of a frame or 0; the     *)
(* kernel's page directory is frame 0.  A directory's first USER_TABLES    *)
(* entries are the user half, the next ones the tables of the kernel heap; *)
(* the other entries of the kernel half, the recursive one included, never *)
(* change after boot and are left out.  Page v is entry v % ENTRIES of the *)
(* table at entry v \div ENTRIES.                                          *)
(*                                                                         *)
(* A user process is named by its page directory, which no other process   *)
(* has.  What the heap's blocks hold is Heap's business: here the heap is  *)
(* its number of pages, which any kmalloc may raise and any kfree lower.   *)
(***************************************************************************)
EXTENDS Integers, FiniteSets, FiniteSetsExt

CONSTANTS
    FRAMES,          \* frames of memory behind the kernel's
    ENTRIES,         \* entries of a page table: 1024 in the code
    USER_TABLES,     \* entries of a directory below KERNEL_START
    HEAP_TABLES,     \* entries of a directory the heap may use
    HEAP_MIN,        \* pages of KHEAP_INITIAL_SIZE
    USER_STACK,      \* pages of USER_STACK_SIZE
    PAGE,            \* bytes of a page: 4096 in the code
    Images,          \* programs: the loadable segments of an ELF file, in order
    SPAWNS           \* bound on the number of calls of scheduler_spawn

ASSUME AddressSpaceAssumption ==
    /\ FRAMES \in Nat /\ ENTRIES \in Nat \ {0} /\ PAGE \in Nat \ {0}
    /\ USER_TABLES \in Nat \ {0} /\ HEAP_TABLES \in Nat \ {0}
    /\ HEAP_MIN \in 1..HEAP_TABLES * ENTRIES /\ HEAP_MIN <= FRAMES
    /\ USER_STACK \in 1..USER_TABLES * ENTRIES
    /\ SPAWNS \in Nat

VARIABLES
    used,       \* frames pmmngr has given out
    mem,        \* what each frame holds, read as a table or as a directory
    cr3,        \* the running process's page directory
    live,       \* live[d]: the image of the process whose directory is d
    dead,       \* delete_queue
    spawning,   \* spawning[c]: the spawn call that c is in the middle of
    spawns,     \* calls of scheduler_spawn so far
    heapEnd,    \* pages of the kernel heap
    lost,       \* history: frames allocated for a program that was not loaded
    halted,     \* the kernel has panicked
    amiss       \* history: whether the heap has grown or shrunk without its table

vars == <<used, mem, cr3, live, dead, spawning, spawns, heapEnd, lost, halted, amiss>>

Frame == 1..FRAMES
KERNEL == 0                                    \* KERNEL_PAGE_DIRECTORY
UserPages == 0..USER_TABLES * ENTRIES - 1
Tables == 0..USER_TABLES + HEAP_TABLES - 1     \* PAGE_DIRECTORY_INDEX
HeapPage(i) == USER_TABLES * ENTRIES + i
HEAP_MAX == HEAP_TABLES * ENTRIES              \* KHEAP_MAX_SIZE
StackPages == {v \in UserPages : v >= USER_TABLES * ENTRIES - USER_STACK}

PDI(v) == v \div ENTRIES       \* PAGE_DIRECTORY_INDEX
PTI(v) == v % ENTRIES          \* PAGE_TABLE_INDEX
NoEntries == [i \in Tables \cup 0..ENTRIES - 1 |-> 0]
Garbage == [i \in DOMAIN NoEntries |-> 1]

-----------------------------------------------------------------------------
(* Memory in the middle of a call: w.used, w.mem, and w.err when a call     *)
(* made on the way has failed.                                              *)
Machine == [used |-> used, mem |-> mem, err |-> FALSE]

(* pmmngr_alloc_multi_block: the first run of cnt free frames, 0 if none.   *)
FirstFree(w, cnt) ==
    LET runs == {f \in Frame : f + cnt - 1 \in Frame /\ f..f + cnt - 1 \cap w.used = {}}
    IN IF runs = {} \/ cnt = 0 THEN 0 ELSE Min(runs)

(* vmmngr_map: the page table is made if there is none. *)
Map(w, dir, phys, v) ==
    LET table == w.mem[dir][PDI(v)]
        new   == FirstFree(w, 1)
    IN IF table # 0 THEN [w EXCEPT !.mem[table][PTI(v)] = phys]
       ELSE IF new = 0 THEN [w EXCEPT !.err = TRUE]
       ELSE [w EXCEPT !.used = @ \cup {new},
                      !.mem[dir][PDI(v)] = new,
                      !.mem[new] = [NoEntries EXCEPT ![PTI(v)] = phys]]

(* The loops over vmmngr_map that put cnt frames from phys on at page v:    *)
(* elf_load stops at the first failure, process_new does not look.          *)
MapPages(w, dir, phys, v, cnt, stop) ==
    LET Step[i \in 0..cnt] ==
            IF i = 0 THEN w
            ELSE IF stop /\ Step[i - 1].err THEN Step[i - 1]
            ELSE Map(Step[i - 1], dir, phys + i - 1, v + i - 1)
    IN Step[cnt]

(* vmmngr_to_physical_addr, 0 for a page that is not mapped *)
ToPhysical(w, dir, v) ==
    LET table == w.mem[dir][PDI(v)] IN IF table = 0 THEN 0 ELSE w.mem[table][PTI(v)]

(* vmmngr_unmap *)
Unmap(w, dir, v) ==
    LET table == w.mem[dir][PDI(v)]
    IN IF table = 0 THEN w ELSE [w EXCEPT !.mem[table][PTI(v)] = 0]

(* vmmngr_alloc_page_directory once its frame is found: the kernel's        *)
(* directory is copied into it.                                             *)
AllocPageDirectory(w, pd) == [w EXCEPT !.used = @ \cup {pd}, !.mem[pd] = w.mem[KERNEL]]

(* vmmngr_free_page_directory: every frame the user half maps, its tables,  *)
(* and the directory.  Nothing is cleared.                                  *)
Freed_all(w, dir) ==     \* mutant: the shared tables are freed as well
    LET tables == {w.mem[dir][t] : t \in Tables} \ {0}
        pages  == (UNION {{w.mem[t][i] : i \in 0..ENTRIES - 1} : t \in tables}) \ {0}
    IN tables \cup pages \cup {dir}

Freed(w, dir) ==
    LET tables == {w.mem[dir][t] : t \in 0..USER_TABLES - 1} \ {0}
        pages  == (UNION {{w.mem[t][i] : i \in 0..ENTRIES - 1} : t \in tables}) \ {0}
    IN tables \cup pages \cup {dir}

FreePageDirectory(w, dir) == [w EXCEPT !.used = @ \ Freed(w, dir)]

(* heap_expand by a page, in directory dir; what vmmngr_map returns is not  *)
(* looked at.  heap_expand fails when there is no frame for the page.       *)
CanGrow(w, end) == end < HEAP_MAX /\ FirstFree(w, 1) # 0

Grow(w, dir, end) ==
    LET phys == FirstFree(w, 1)
    IN Map([w EXCEPT !.used = @ \cup {phys}], dir, phys, HeapPage(end))

(* Whether the page's table is there, or is made in the kernel's directory  *)
(* with a frame to spare.  heap_expand does not look: otherwise the table   *)
(* is the directory's own, or there is none.                                *)
GrowsWell(w, dir, end) ==
    \/ w.mem[dir][PDI(HeapPage(end))] # 0
    \/ dir = KERNEL /\ Cardinality(Frame \ w.used) > 1

(* heap_contract by a page.  Without its table the page has address 0 and   *)
(* it is block 0 that is freed; the page's frame is not.                    *)
Shrink(w, dir, end) ==
    Unmap([w EXCEPT !.used = @ \ {ToPhysical(w, dir, HeapPage(end - 1))}], dir, HeapPage(end - 1))

-----------------------------------------------------------------------------
(* _elf_load: the pages from the first segment's to the end of the last one *)
MinAddr(img) == Min({s.vaddr : s \in img})
MaxAddr(img) == Max({s.vaddr : s \in img})
LastSize(img) == (CHOOSE s \in img : s.vaddr = MaxAddr(img)).memsz
FirstPage(img) == MinAddr(img) \div PAGE

(* A program as the linker makes it: its segments do not overlap and lie    *)
(* below the stack.  elf_validate does not look.                            *)
Precedes(r, s) == r.vaddr + r.memsz <= s.vaddr /\ r.vaddr < s.vaddr

WellLinked(img) ==
    /\ img # {} /\ IsFiniteSet(img) /\ img \subseteq [vaddr : Nat, memsz : Nat]
    /\ \A r, s \in img : r = s \/ Precedes(r, s) \/ Precedes(s, r)
    /\ \A s \in img : s.vaddr + s.memsz <= (USER_TABLES * ENTRIES - USER_STACK) * PAGE

ASSUME ImagesAssumption == \A img \in Images : WellLinked(img)

RequiredPages(img) ==
    LET prog_size == MaxAddr(img) + LastSize(img) - FirstPage(img) * PAGE
    IN (prog_size \div PAGE) + (IF prog_size % PAGE > 0 THEN 1 ELSE 0)

(* _elf_load of img into pd; on failure the frames it has taken and not yet *)
(* mapped are nobody's.                                                     *)
ElfLoad(w, pd, img) ==
    LET cnt  == RequiredPages(img)
        phys == FirstFree(w, cnt)
    IN IF phys = 0 THEN [w EXCEPT !.err = TRUE]
       ELSE MapPages([w EXCEPT !.used = @ \cup phys..phys + cnt - 1],
                     pd, phys, FirstPage(img), cnt, TRUE)

Mapped(w, pd) == {ToPhysical(w, pd, v) : v \in UserPages} \ {0}

(* Frames taken since the call began that vmmngr_free_page_directory will   *)
(* not find.                                                                *)
Unreached(w, pd) == w.used \ (used \cup Mapped(w, pd) \cup {w.mem[pd][t] : t \in Tables})

-----------------------------------------------------------------------------
(* kernel_entry.asm, then heap_new in kheap_init, whose first store faults  *)
(* unless there is memory for the heap's tables.                            *)
Init ==
    /\ LET boot == [used |-> 1..HEAP_MIN, mem |-> [f \in {KERNEL} \cup Frame |-> IF f = KERNEL THEN NoEntries ELSE Garbage], err |-> FALSE]
       IN \E w \in {MapPages(boot, KERNEL, 1, HeapPage(0), HEAP_MIN, FALSE)} :
              ~w.err /\ used = w.used /\ mem = w.mem
    /\ cr3 = KERNEL
    /\ live = << >>
    /\ dead = {}
    /\ spawning = << >>
    /\ spawns = 0
    /\ heapEnd = HEAP_MIN
    /\ lost = {}
    /\ halted = FALSE
    /\ amiss = "nothing"

Without(f, c) == [x \in DOMAIN f \ {c} |-> f[x]]
With(f, c, val) == [x \in DOMAIN f \cup {c} |-> IF x = c THEN val ELSE f[x]]

(* Memory after a call.  What is left in a frame that has been freed, or    *)
(* that holds data, is arbitrary: it is taken to look like a table that     *)
(* maps the kernel heap's first frame everywhere.                           *)
Becomes(w) ==
    /\ used' = w.used
    /\ mem' = [f \in DOMAIN w.mem |-> IF f \in w.used \cup {KERNEL} THEN w.mem[f] ELSE Garbage]

(* The scheduler goes on to a process p: vmmngr_switch_page_directory. *)
Switch(p) ==
    /\ p # cr3
    /\ cr3' = p
    /\ UNCHANGED <<used, mem, live, dead, spawning, spawns, heapEnd, lost, halted, amiss>>

(* kmalloc that has to expand the heap, kfree that contracts it. *)
KmallocGrows ==
    /\ CanGrow(Machine, heapEnd)
    /\ \E w \in {Grow(Machine, cr3, heapEnd)} : Becomes(w)
    /\ amiss' = IF GrowsWell(Machine, cr3, heapEnd) THEN amiss ELSE "grown"
    /\ heapEnd' = heapEnd + 1
    /\ UNCHANGED <<cr3, live, dead, spawning, spawns, lost, halted>>

KfreeShrinks ==
    /\ heapEnd > HEAP_MIN
    /\ \E w \in {Shrink(Machine, cr3, heapEnd)} : Becomes(w)
    /\ amiss' = IF mem[cr3][PDI(HeapPage(heapEnd - 1))] # 0 THEN amiss ELSE "shrunk"
    /\ heapEnd' = heapEnd - 1
    /\ UNCHANGED <<cr3, live, dead, spawning, spawns, lost, halted>>

(* The running process touches heap page i that its directory does not      *)
(* have: page_fault_handler copies the kernel's entry or gives up.          *)
Touch_maps(i) ==     \* mutant: the page is mapped in the process's directory
    /\ ToPhysical(Machine, cr3, HeapPage(i)) = 0
    /\ \E w \in {Map(Machine, cr3, 1, HeapPage(i))} : Becomes(w)
    /\ UNCHANGED <<cr3, live, dead, spawning, spawns, heapEnd, lost, halted, amiss>>

Touch(i) ==
    LET t == PDI(HeapPage(i))
    IN /\ ToPhysical(Machine, cr3, HeapPage(i)) = 0
       /\ IF mem[cr3][t] = 0 /\ mem[KERNEL][t] # 0
          THEN mem' = [mem EXCEPT ![cr3][t] = mem[KERNEL][t]] /\ UNCHANGED halted
          ELSE halted' = TRUE /\ UNCHANGED mem
       /\ UNCHANGED <<used, cr3, live, dead, spawning, spawns, heapEnd, lost, amiss>>

-----------------------------------------------------------------------------
(* scheduler_spawn of a user process, in three parts: reading the program's *)
(* file can block between the first two, and kmain can be preempted between *)
(* any two.                                                                 *)
SpawnBegin ==
    LET pd == FirstFree(Machine, 1)
    IN /\ cr3 \notin DOMAIN spawning
       /\ spawns < SPAWNS
       /\ pd # 0
       /\ spawns' = spawns + 1
       /\ \E w \in {AllocPageDirectory(Machine, pd)} : Becomes(w)
       /\ spawning' = With(spawning, cr3, [pd |-> pd, img |-> {}])
       /\ UNCHANGED <<cr3, live, dead, heapEnd, lost, halted, amiss>>

SpawnLoad(img) ==
    /\ cr3 \in DOMAIN spawning
    /\ spawning[cr3].img = {}
    /\ LET pd == spawning[cr3].pd IN
       \E w \in {ElfLoad(Machine, pd, img)} :
          IF w.err
          THEN /\ \E u \in {FreePageDirectory(w, pd)} : Becomes(u)
               /\ lost' = lost \cup Unreached(w, pd)
               /\ spawning' = Without(spawning, cr3)
          ELSE /\ Becomes(w)
               /\ spawning' = [spawning EXCEPT ![cr3].img = img]
               /\ UNCHANGED lost
    /\ UNCHANGED <<cr3, live, dead, spawns, heapEnd, halted, amiss>>

(* The program's file cannot be read, is not a program, or there is no      *)
(* memory for the buffer.                                                   *)
SpawnLoadFails ==
    /\ cr3 \in DOMAIN spawning
    /\ spawning[cr3].img = {}
    /\ \E w \in {FreePageDirectory(Machine, spawning[cr3].pd)} : Becomes(w)
    /\ spawning' = Without(spawning, cr3)
    /\ UNCHANGED <<cr3, live, dead, spawns, heapEnd, lost, halted, amiss>>

(* process_new in the new directory: the stack's frames; then a kernel      *)
(* stack, for which the heap may have to grow; then the first word of the   *)
(* user stack is written.                                                   *)
StackMade(pd) ==
    LET phys == FirstFree(Machine, USER_STACK)
    IN IF phys = 0 THEN [Machine EXCEPT !.err = TRUE]
       ELSE MapPages([Machine EXCEPT !.used = @ \cup phys..phys + USER_STACK - 1],
                     pd, phys, Min(StackPages), USER_STACK, FALSE)

InProcessNew == cr3 \in DOMAIN spawning /\ spawning[cr3].img # {}

(* No run of frames for the stack, or no memory for the process, its        *)
(* descriptors or its kernel stack: scheduler_spawn frees the directory.    *)
ProcessNewFails ==
    /\ InProcessNew
    /\ LET pd == spawning[cr3].pd
       IN \E w \in {StackMade(pd)} :
             /\ FirstFree(Machine, USER_STACK) = 0 \/ ~CanGrow(w, heapEnd)
             /\ \E u \in {FreePageDirectory(w, pd)} : Becomes(u)
             /\ lost' = lost \cup Unreached(w, pd)
    /\ spawning' = Without(spawning, cr3)
    /\ UNCHANGED <<cr3, live, dead, spawns, heapEnd, halted, amiss>>

(* The process is ready; the kernel stack fits in the heap or makes it grow *)
(* while the new directory is the current one.                              *)
ProcessNew(grows) ==
    /\ InProcessNew
    /\ LET pd == spawning[cr3].pd
       IN /\ \E w \in {StackMade(pd)} :
                /\ ~w.err
                /\ IF grows
                   THEN /\ CanGrow(w, heapEnd)
                        /\ \E u \in {Grow(w, pd, heapEnd)} : Becomes(u)
                        /\ amiss' = IF GrowsWell(w, pd, heapEnd) THEN amiss ELSE "grown"
                        /\ heapEnd' = heapEnd + 1
                   ELSE Becomes(w) /\ UNCHANGED <<heapEnd, amiss>>
          /\ live' = With(live, pd, spawning[cr3].img)
    /\ spawning' = Without(spawning, cr3)
    /\ UNCHANGED <<cr3, dead, spawns, lost, halted>>

(* There were frames for the stack and none for its page table: nobody      *)
(* looks, and the first word written to the stack faults.                   *)
ProcessNewFaults ==
    /\ InProcessNew
    /\ FirstFree(Machine, USER_STACK) # 0
    /\ \E w \in {StackMade(spawning[cr3].pd)} : w.err /\ Becomes(w)
    /\ halted' = TRUE
    /\ UNCHANGED <<cr3, live, dead, spawning, spawns, heapEnd, lost, amiss>>

(* The process is made and its directory under /proc is not: process_delete *)
(* frees the page directory and scheduler_spawn frees it again.             *)
ProcessNewUndone ==
    /\ InProcessNew
    /\ LET pd == spawning[cr3].pd
       IN \E w \in {StackMade(pd)} :
             /\ ~w.err
             /\ \E u \in {FreePageDirectory(FreePageDirectory(w, pd), pd)} : Becomes(u)
    /\ spawning' = Without(spawning, cr3)
    /\ UNCHANGED <<cr3, live, dead, spawns, heapEnd, lost, halted, amiss>>

(* scheduler_kill_process: the process is put in the delete queue, since    *)
(* its stack and its directory are in use, and another one runs.            *)
Kill_now(p) ==     \* mutant: it is deleted at once
    /\ cr3 # KERNEL /\ p # cr3
    /\ cr3 \notin DOMAIN spawning
    /\ \E w \in {FreePageDirectory(Machine, cr3)} : Becomes(w)
    /\ live' = Without(live, cr3)
    /\ UNCHANGED <<cr3, dead, spawning, spawns, heapEnd, lost, halted, amiss>>

Kill(p) ==
    /\ cr3 # KERNEL /\ p # cr3
    /\ cr3 \notin DOMAIN spawning
    /\ dead' = dead \cup {cr3}
    /\ cr3' = p
    /\ UNCHANGED <<used, mem, live, spawning, spawns, heapEnd, lost, halted, amiss>>

(* The tick's loop over delete_queue: process_delete.  Freeing a directory  *)
(* changes no table, so the order does not matter.                          *)
Tick ==
    /\ dead # {}
    /\ \E w \in {[Machine EXCEPT !.used = @ \ UNION {Freed(Machine, d) : d \in dead}]} : Becomes(w)
    /\ live' = [d \in DOMAIN live \ dead |-> live[d]]
    /\ dead' = {}
    /\ UNCHANGED <<cr3, spawning, spawns, heapEnd, lost, halted, amiss>>

Runnable == {KERNEL} \cup (DOMAIN live \ dead)

(* A run is followed up to the first step after which the heap is amiss. *)
Next ==
    /\ ~halted /\ amiss = "nothing"
    /\ \/ \E p \in Runnable : Switch(p) \/ Kill(p)
       \/ KmallocGrows \/ KfreeShrinks
       \/ \E i \in 0..heapEnd - 1 : Touch(i)
       \/ SpawnBegin \/ SpawnLoadFails
       \/ \E img \in Images : SpawnLoad(img)
       \/ \E grows \in BOOLEAN : ProcessNew(grows)
       \/ ProcessNewFails \/ ProcessNewFaults \/ ProcessNewUndone
       \/ Tick

Spec == Init /\ [][Next]_vars

-----------------------------------------------------------------------------
(* Who owns the frames: a directory its own, its user tables and the pages  *)
(* they map; the kernel its heap tables and the heap's pages.               *)
UserTables(d) == {mem[d][t] : t \in 0..USER_TABLES - 1} \ {0}
HeapTables == {mem[KERNEL][t] : t \in Tables} \ {0}
Directories == DOMAIN live \cup {spawning[c].pd : c \in DOMAIN spawning}
OwnedBy(d) ==
    IF d = KERNEL
    THEN HeapTables \cup {ToPhysical(Machine, KERNEL, HeapPage(i)) : i \in 0..heapEnd - 1}
    ELSE {d} \cup UserTables(d) \cup Mapped(Machine, d)
Mappings(d) ==
    IF d = KERNEL
    THEN Cardinality(HeapTables) + heapEnd
    ELSE 1 + Cardinality({t \in 0..USER_TABLES - 1 : mem[d][t] # 0})
           + Cardinality({v \in UserPages : ToPhysical(Machine, d, v) # 0})

(* A frame in use has one owner and one use by it, and a frame that is not  *)
(* in use has none: nothing the allocator may give out is still mapped, no  *)
(* two processes share memory, and nothing is forgotten but the frames of   *)
(* a program that could not be loaded for lack of memory, as long as the    *)
(* heap grows and shrinks where its tables are.                             *)
FramesAccounted ==
    ~halted /\ amiss = "nothing" =>
        /\ \A d, e \in {KERNEL} \cup Directories : d # e => OwnedBy(d) \cap OwnedBy(e) = {}
        /\ \A d \in {KERNEL} \cup Directories : Cardinality(OwnedBy(d)) = Mappings(d)
        /\ used = lost \cup UNION {OwnedBy(d) : d \in {KERNEL} \cup Directories}
        /\ \A d \in {KERNEL} \cup Directories : OwnedBy(d) \cap lost = {}

(* The kernel heap is mapped by the kernel's directory, and every other one *)
(* has the same tables or can copy the entry when it first touches one.     *)
OneKernelHalf ==
    /\ \A i \in 0..heapEnd - 1 : ToPhysical(Machine, KERNEL, HeapPage(i)) # 0
    /\ \A d \in Directories : \A t \in Tables :
          t >= USER_TABLES => mem[d][t] \in {0, mem[KERNEL][t]}

(* page_fault_handler finds the entry to copy, however the heap grows and   *)
(* shrinks under whichever directory, until heap_expand meets a table of    *)
(* the heap that the running process's directory does not have, or no frame *)
(* for one in the kernel's: from that step on the kernel halves differ.     *)
KernelHalfShared == OneKernelHalf <=> amiss # "grown"

(* The processor never runs on a page directory that has been freed: a      *)
(* killed process is deleted by a tick that runs on another one's.  And a   *)
(* process that can run has all of its program and all of its stack.        *)
RunnableComplete ==
    /\ cr3 \in Runnable
    /\ \A d \in DOMAIN live :
        /\ \A s \in live[d] : \A b \in s.vaddr..s.vaddr + s.memsz - 1 :
              ToPhysical(Machine, d, b \div PAGE) # 0
        /\ \A v \in StackPages : ToPhysical(Machine, d, v) # 0
=============================================================================
