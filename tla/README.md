# A TLA+ model of the kerosene kernel

kerosene is a small monolithic x86 kernel: one processor, paging, a round-robin
scheduler driven by a timer interrupt, counting semaphores, a virtual file
system over a memory file system (ramfs, with pipes) and FAT32, a keyboard and
a screen that user programs reach through two pipes, and a shell. This
directory holds specifications of its parts, from the interrupt stubs to the
arguments of a command, the TLC runs that check them on small instances, and
proofs that hold for every instance.

## 1. Execution model

Everything below rests on how the kernel is entered.

* Interrupts and system calls (`int 0x80`) go through interrupt gates and
  `isr_common_stub` runs `cli`: **a handler runs with interrupts disabled on the
  only processor and is atomic**, except where it makes a nested blocking
  `int 0x80` itself (`syscall_lock`, `syscall_semaphore_kacquire`,
  `syscall_attach`). There it may lose the processor and go on later.
* The processor changes hands in `scheduler_to_next_process` only: at a blocking
  call, a sleep, a yield, a kill, or a tick that ends a time slice.
* Kernel threads (`kmain`, `kproc_stdin`, `kproc_stdout`) run in ring 0 with
  interrupts enabled. The two `kproc_*` use system calls like everybody else;
  `kmain` calls `process_new`, `scheduler_add_process`, `vfs_mount` and
  `scheduler_spawn` directly. Those calls are not atomic in the code; the model
  takes them to be, and the hazards list says where that matters.
* The idle process (id 1) executes `sti; hlt` only.

## 2. Inventory

| component | state | operations | interacts with | what makes it correct |
|---|---|---|---|---|
| scheduler (`process/scheduler.c`) | current process, ready, sleep and delete queues, global list, sleep clock; state, ticks and `attached_from` of a process | spawn, attach, yield, sleep, kill, tick | timer calls it; semaphores move processes in and out; deletion calls memory and vfs | a live process is in exactly one place, a freed one in none; something can always run; sleeping is exact; nobody starves |
| process queues (`process/process_queue.c`) | `top`, `bottom`, `size`; one `queue_next` per process | push, sorted push, pop | all of the above | order; no sharing of links |
| semaphores (`semaphore.c`, `spinlock.c`) | count, waiting queue; units a waiter asks for | acquire, release, kacquire, create | scheduler; file locks and pipes are built on it | no lost wake-up, units conserved, first come first served |
| pipes (`filesystem/ramfs.c`, lock from `vfs_op.c`) | datanode chain, head and tail offset, two semaphores, node lock | read, write, close | semaphores, ramfs heap | a bounded FIFO; no deadlock; bounded memory |
| physical memory (`mem/pmmngr.c`) | bitmap, `used_block`, `total_block` | alloc and free of one and of several frames; init from the memory map | heap, vmm, process creation | a frame has one owner; a request fails only if there is no run |
| kernel and ramfs heap (`mem/heap.c`) | list of regions in the heap's pages | alloc, aligned alloc, free, expand, contract | physical and virtual memory | regions tile the heap, blocks do not overlap |
| virtual memory, processes, ELF (`mem/vmmngr.c`, `process/process.c`, `misc/elf.c`) | page directories and tables, control block, stacks, descriptors | map, unmap, translate; make, free, switch directories; load, new, delete, page fault | physical memory, heap, scheduler, vfs | a frame has one owner and is freed once, on every failure path; the kernel half is the same everywhere |
| vfs (`filesystem/vfs_op.c`, `vfs.c`, `node_op.c`) | node tree, reference counts, mounts, descriptors | find/create, open, close, read, write, seek, lock, mount, clean-up | file systems, processes | a node in use is not freed; locks are given back |
| files (`file_op.c`, `ramfs.c`, `fat32.c`) | position, current block, chains, size in node and entry | open, seek, read, write, copy | vfs, heap, disk | a file is an array of bytes |
| directories (`ramfs.c`, `fat32.c`) | slots with deleted and end marks, allocation table, free count | iterate, add, remove, create, mkdir, move, copy | vfs, heap, disk | a tree of names; names survive their encoding; clusters have one owner |
| keyboard (`driver/kbd.c`, `locale.c`, `kproc/stdin.c`) | bytes to skip, pressed keys, locks, one key slot | interrupt, wait | stdin pipe | keys are decoded in order; a waiting reader gets the next one |
| video (`driver/video/*`, `kutils.c`, `kproc/stdout.c`) | cells, cursor, what the cursor covers, boot buffer | print, scroll, choose a driver | stdout pipe, kernel messages | the screen shows the text, with one cursor |
| shell, libc (`shell/src/main.c`, `libc`) | line buffer, argument and environment blocks | edit, split, spawn, print, scan | the two pipes, spawn | the words typed arrive; what is printed can be scanned |
| interrupts (`system/*`, `driver/pic.c`) | kernel stacks, TSS, controllers | enter, dispatch, switch, leave, acknowledge | everything | every context comes back; no line stays masked |
| disk (`driver/ata/ata_pio.c`, `filesystem/mbr.c`) | registers, lock | read, write, identify, mount | FAT32 | the right words or an error, and always an end |
| clock (`driver/timer.c`, `rtc.c`, libc `mktime`, `gmtime`) | ticks, seconds, registers | tick, read, convert | scheduler, FAT32 stamps | a date that was shown; conversions are inverse |
| device set-up, image and font data | | | | not the subject of a model |

Hard behaviours: processes that lose the processor in the middle of a call and
go on after others have run; wake-ups and hand-overs between queues; control
blocks freed one tick after death and used again; locks given up and retaken in
mid-operation; allocation failing after something was already acquired; a
device that goes on while its registers are read one by one; marks and links
left behind by earlier calls; boundaries (datanodes, clusters, slots, bitmap
words, wrapping counters, the sleep clock that starts again from 0).
PROJECT.json lists each at its line.

## 3. Modules

| module | models | remarks |
|---|---|---|
| `Scheduler` | `scheduler.c`, `process_queue.c`, tick | one action per handler; `Proc` is the set of control blocks `kmalloc` may hand out, so a freed block is used again |
| `Semaphore` | `semaphore.c`, composed with `Scheduler` by EXTENDS | a blocked process leaves the ready rotation; `holds` is a history variable |
| `PipeSpec`, `Pipe` | what a pipe promises; `ramfs_pipe_read`, `ramfs_pipe_write` under `vfs_read`, `vfs_write`, `vfs_close` | one action between two points where the processor may be lost; INSTANCE of `PipeSpec` as refinement |
| `FrameAllocator`, `Pmm` | what the physical memory manager promises; `pmmngr.c`, `mem_init` | refinement |
| `Heap` | `heap.c` under `kmalloc` and `kfree` | header arithmetic modulo the word size |
| `ProcessLists` | the links behind the queues and the global list | the sequences of `Scheduler` are here what the links should spell |
| `KernelData` | `Pmm`, a full and a growing `Heap`, `ProcessLists` | one of them per behaviour |
| `AddressSpace` | `vmmngr.c`, `elf.c`, the memory side of `process.c`, `page_fault_handler`, heap growth | tables are frames of the memory they map; a freed frame holds garbage |
| `Vfs` | node tree, reference counts, descriptors, mounts (`vfs_op.c`), process deletion and spawn as far as they touch descriptors, named semaphores | paths are sequences of names |
| `FatTable` | allocation table, hint and free count of FAT32 | functions on tables, used by the next two |
| `Directory`, `Directories`, `Fat32Dir`, `RamfsDir` | what a tree of directories promises; `node_op.c` over either driver | refinement: `IsDirectory` |
| `ByteFile`, `Files`, `Fat32File`, `RamfsFile` | what an open file promises; `file_op.c` over either driver, copies between them | refinement: `IsByteFile` |
| `FatNames` | short and long names in slots | |
| `Storage` | `Files`, `Directories`, `FatNames` | one of them per behaviour |
| `Keyboard`, `Screen`, `CommandLine`, `Format` | scancodes to stdin; stdout and kernel messages to the screen; the shell and what its programs get; `printf` and `scanf` | |
| `Console` | the four of them | one per behaviour; the pipes between them are `Pipe` |
| `Interrupts`, `Disk`, `Clock` | stubs, dispatch, controllers, first frames; the drive and its polled driver; the real-time clock and the calendar | processor and device, drive and driver, clock and reader take turns |
| `Machine` | the three of them | one per behaviour |
| `MC*` | instances for TLC | |
| `SemaphoreProofs`, `PipeProofs`, `KernelDataProofs`, `AddressSpaceProofs`, `VfsProofs`, `KeyboardProofs`, `MachineProofs` | theorems about `Semaphore`, `Pipe`, `KernelData`, `AddressSpace`, `Vfs`, `Keyboard`, `Machine` | see 6 |
| `DataLemmas` | lemmas on induction, counting, sums and sequences that the proofs share | see 6 |

`KernelData`, `Storage`, `Console` and `Machine` put parts side by side that
share no state in the code; their first variable says which one a behaviour
exercises. Parts that do interact are composed for good: scheduler and
semaphores, pipes with lock, semaphores and heap, heap with page directories,
open files and directories with the allocation table, keyboard interrupt with
the thread that waits for it, drive with driver.

Correspondence that is not one to one:

* `Scheduler!alive` is the doubly linked global list as a set; queues are
  sequences. `aliveTicks` is kept modulo the time slice, which is all the code
  looks at. `remaining` and `dropped` are history variables.
* `SchedInit` is the state at the last `sti` of `kinit`. `process_make_idle`
  does not write `attached_from`, so its value for the idle process is a choice.
* `Yield(addBack)`: the stub passes no argument, so `addBack` is a choice.
* `Kill` stands for every way a process ends: the system call, an exception,
  and the ring check of `attach` and `kacquire`.
* In `ProcessLists` the scheduler's operations are their stores to the links;
  what `kmain` does with interrupts on is split between two of its stores, and
  a tick may come there only if `AnyPreempt`. Attaching, in which a process is in
  no queue until it is pushed like any other, is in `Scheduler` only.
* In `Pipe` the scheduler appears as `cpu`: the process inside a call that has
  not blocked. Between calls, and after a process has blocked, any process that
  is not waiting may run. The byte loop is folded over the bytes of the call;
  memory is `room`, the datanodes the ramfs heap can hold for this pipe, which
  other files change at will.
* `Pmm!bitmap` is the set of 1 bits including those of the last word that lie
  past the end of memory; `mem_init` takes the sum of the region lengths for
  the size of memory, so these bits may be 0. Callers free what they own, the
  failure value 0, or what is free already; a caller that frees somebody else's
  frame is outside the contract.
* In `Heap` addresses are relative to the heap. No caller asks for page
  alignment, so that branch is left out, as is the spinlock: calls are atomic.
  `block` is a history variable: what each caller was given.
* In `AddressSpace` a spawn is three actions, because reading the program's file
  can block. `lost` collects the frames a failed load leaks, `halted` is a panic
  on a fault the handler does not resolve, `amiss` says that the heap has grown
  or shrunk below a directory that lacks its table (see 5).
* In `Fat32Dir` and `RamfsDir` a driver call is one step. Names are values with
  a number of slots (`Lfn`); how they are encoded is `FatNames`. A cluster that
  is freed keeps what it held, slots or the bytes of a file (`DATA`). The words
  behind the table of the partition read as free clusters (`BEHIND`), and a
  search that finds none in the partition takes them. The directories are the
  root and those made in it. `call` is a history variable, against which
  `Directory` judges the change; `amiss` is another (see 5).
* In `Fat32File` and `RamfsFile` the node's lock makes calls atomic. At a
  position that is a multiple of the block size a descriptor's current block is
  the one before. Fresh memory holds `Junk`; `room` is how many datanodes the
  heap can still give to this call. Truncation is left out: `file_open` resets
  the node of a descriptor that has none yet. `amiss` is a history variable
  (see 5).
* In `Vfs` a name is compared as `node_find` does, without regard to case
  (`Fold`) below the partitions of `Fat32`, and exactly in the tree before that;
  a node remembers how it was asked for (`asked`, a history variable). Calls are atomic, entries of the file systems are named by absolute
  paths, every process has the root for its working directory, a new
  descriptor table is taken to be cleared, and `MAX_ALLOCATION`, the nodes one
  search may make, is a constant. `mounts` is a history variable.
* `Keyboard!decoded`, `typed`, `since`, `taken` and `astray` are history
  variables; the last one says that a byte of a key was read as an answer of the
  keyboard or an answer as a key that is held. Bytes of the keyboard are those of
  scancode set 1 for the keys in `Keys`. The tables `keycode`,
  `keycode_extended_byte` and the layout are there in full, because which codes
  an acknowledgement or a second byte is taken for depends on all of them. The
  copy of a key is two stores, between which another one may come (`Torn`).
* `Screen` has characters for pixels: a cell may hold the block drawn as the
  cursor. Colours, fonts and the flush of rows are left out. `text`, what a
  terminal would show, is a history variable; `text.plain` says whether all of
  it fitted (see 5).
* In `CommandLine` one character stands for a file name, one for the word
  `exit`; an attached program runs between two keys of the shell.
* In `Interrupts` the registers that `pusha` and the segment pushes save are one
  word; which ready process runs next is a choice. `want` is a history variable:
  what each process was doing when it was interrupted.
* In `Disk` the status register lags behind a command until it has been read
  as often as `wait_400ns` does.
* In `Clock` a minute has `MINUTE` seconds and an hour `HOUR` minutes; days,
  months, years and leap years are the real ones, over 130 years.

## 4. Runs

| run | instance | what it shows |
|---|---|---|
| `semaphore_safety` | idle, kmain and two more control blocks, slice of one tick, one semaphore, requests of 1 and 2 units, count modulo 4, balances within 2; nobody sleeps | no sequence of handlers loses or doubles a process, stops the processor or leaves a stale state field; no lost wake-up; units conserved, over the wrap too |
| `scheduler_liveness` | three control blocks, slice of two ticks, sleeps of 0 and 2 ticks, wake-up times up to 3, one semaphore | sleepers wake at their tick; ready and sleeping processes run eventually |
| `pipe_safety` | two readers, who may close, two writers, two byte values, calls of 0, 1, 3 bytes, datanodes of 2 bytes, capacity 4 | refinement of the FIFO; semaphores agree with contents, the bulk acquire does not block, datanodes bounded, one lock holder |
| `pipe_liveness` | two readers, one writer, capacity 2, memory for 2 or 3 datanodes, no close | calls return; no deadlock |
| `pipe_close` | | violated: see 5 |
| `kernel_data` | all memory maps of 8 frames in words of 3 bits, requests of 0 to 3; a heap of four pages of 10 with five sizes and one of two to four pages of 20 with sizes 13 and 29, four owners; four control blocks, sleeps of 0 to 2 | usage exact, first fit, refinement of the frame allocator; regions tile the heap, blocks disjoint and mapped, free neighbours merged; links spell the queues and the global list |
| `heap_used_last` | | violated: see 5 |
| `storage` | two descriptors that read and write or append, two datanodes or three clusters of 2 bytes, texts of 1, 2 and 3 bytes, seeks to 0, to 3, back by one and to the end; files with names of one and of two slots and a directory, a root directory with three slots left in its first cluster, eight clusters, six calls (five in the ramfs); names of up to four characters, with dots and of both cases | refinements of the byte array and of the tree of names by both drivers, with exactly the bytes spoiled that 5 names; nothing lost, copies whole; free count exact, a free cluster found, chains disjoint, empty directories recognised; names come back exactly if kept, and are distinct |
| `vfs` | two processes of two descriptors, five paths of two and three names, one of them in another case than on its FAT32 partition, creation, a bind mount, one name for semaphores and memory for two of them, failing creations, searches that may make two nodes, memory for six nodes | pointers live, reference counts exact, one node per entry as it is spelt, nothing left behind by a close |
| `address_space` | ten frames, tables of two entries, two programs, three spawns, a heap of one to four pages | every frame accounted for until the heap goes amiss, kernel half shared exactly until it grows amiss, the current directory alive, a process complete |
| `console` | seven keys of all kinds, three events; either screen of three rows of two; five characters to a line, seven keys; ints of 4 bits in 17 calls of `printf` | keys decoded in order until a byte is dropped, taken once and taken at all; plain text and one cursor; words arrive as typed; numbers come back |
| `machine` | two processes and two threads, two lines, six events; three sectors of two words, three accesses; seven starting dates, 62 days | contexts restored, lines served; accesses right and finite, lock given back, the right partition mounted; dates shown and converted right |

Bounds. With two control blocks besides idle and kmain a parent, a child and a
third party exist at once, blocks are freed and used again, and queues hold two
waiters with different requests. `SleepBound` (`SLEEP_BOUND`) only cuts off runs
in which the sleep clock never comes back to 0; 3 lets it advance past every
request before it does. A capacity of two datanodes makes calls start, end and
cross at every boundary and makes three bytes not fit; three datanodes are what
the capacity can need (`DatanodesBounded`), and `pipe_safety` has memory for one
more. Two and two thirds words put a word boundary inside every request of two
or more frames and leave padding. In the full heap some sizes leave a remainder
too small to split and some leave a region of the least size; the sizes of the
growing one (with their header multiples of 16, in pages of 20) always leave a
free last region, which is what the code gets right (see 5).

In `storage` a block of two bytes is left unfilled, filled and crossed by texts
of one, two and three, from each offset; two datanodes and three clusters are
less than two descriptors can ask for, so memory runs out and the partition
does. Position 3 is inside, at the end of and behind files of these sizes, and
forwards from a boundary. The root directory starts with three free slots:
with names of one and of two slots an entry fits, ends with its cluster or
straddles two, one or several deleted slots are left at a boundary, clusters
are added, given back and used again. Six calls (`FatCalls`; five, `RamCalls`,
for the ramfs) are enough to fill a directory, empty it and fill it again, to
make each of the ways to go amiss in 5 happen, and to run out of the eight
clusters; TLC was made to show each of them. Four words behind the table
(`BEHIND`) are as many as a call can take. Widths of 3 and 1 for a short name and 3 for a piece of a long one put
names of four characters on both sides of each limit. Two nodes per search
in `vfs` make the depth limit a common case: `d/E/f` can be opened only while
somebody has `d/e` open, and closing it walks up two parents. It also spells the directory
`e` in another case. Ten frames let two processes live while a third one fails at each of its
steps. Three key events with up to six bytes each put a
key between any two steps of the reader. Screens of six cells scroll after a
few characters and strings wrap. Six events in `machine` nest an interrupt in a
system call in a switch. Starting dates are ends of months, of years, of a
leap February and of hours, 12 o'clock among them, in both modes of the clock.

Properties of the composed modules are conjunctions of named parts, which are
stated where the component is: `FramesSound` of `UsageIsExact` and `FirstFit`
(`Pmm`), `HeapSound` of `Tiled`, `Coalesced`, `BlocksDisjoint`, `BlocksMapped`
(`Heap`), `ListsAgree` of `QueuesAgree`, `GlobalListAgrees` (`ProcessLists`);
`FileInPlace` of `NothingLost`, `CurrentHoldsPosition`, `CopiedWhole` (`Files`),
`DirectoriesSound` of `FreeCountExact`, `FreeIsFound`, `ChainsDisjoint`,
`EntriesLive`, `EmptyIsSeen` (`Directories`), `NamesFaithful` of `NamesKept`, `NamesDistinct`
(`FatNames`); `KeysDecoded` of `DecodedInOrder`, `InStep` and `KeyHandedOver` of
`NewKey`, `KeyIsTaken` (`Keyboard`), `ScreenShows` of `ShowsText`, `OneCursor`
(`Screen`), `CommandArrives` of `LineShown`, `WordsArrive`, `EchoPrints`
(`CommandLine`); `ContextsKept` of `ContextRestored`, `StackUnwound`
(`Interrupts`), `AccessSound` of `Transferred`, `LockFollowsCall`, `MountedRight`
(`Disk`), `DatesRight` of `ReadWasShown`, `CalendarAgrees`, `StampKept` (`Clock`).

Symmetry is used in runs without liveness only, over interchangeable control
blocks, readers, writers, bytes, owners, descriptors and file names.

Fairness. `Semaphore!FairSpec` assumes that the timer keeps ticking and nothing
else: no process is assumed to do anything. `Pipe!FairSpec` assumes strong
fairness of each process inside a call, which is what `EveryoneRuns` gives: a
process that is ready again and again runs. It also assumes that readers keep
calling read, as `kproc_stdout` does (`while(true) syscall_read`). Nothing is
assumed about writers; for reads `CallsReturn` has their activity as its premise.
`ConsoleSpec` assumes that a byte of the keyboard is delivered, that the timer
ticks, and that the stdin thread goes on when it is neither halted nor done;
nothing about typing. `MachineSpec` assumes that a handler goes on, that an
interrupt which can be delivered again and again is, and that driver and drive
each go on: the driver polls in a loop, and a drive that never answers is
outside what the driver handles.

Deadlock is checked except in `pipe_safety`, where everybody may end up waiting
for the lock that a close has kept (`pipe_liveness` checks it without closes),
in `storage` and `machine`, whose calls, events and accesses are bounded or end
with a call that goes amiss, and in `address_space`, where the kernel may panic.

## 5. Where the code does not do what it says

Two disagreements have a run:

* `pipe_close`: `vfs_close` clears the descriptor before `syscall_unlock` looks
  it up; the lock of a shared node stays taken.
* `heap_used_last`: a heap whose last region is in use is expanded behind it,
  and the used region is handed out again.

Others were met on the way. Most are steps of the runs: the call does all that
the code does, and what went wrong is kept in a history variable or seen in the
state. In the file systems, in `AddressSpace` and in `Screen` the behaviour is
followed up to there; elsewhere it goes on. The properties say of these steps
what still holds, or that the damage is always done:

| step | where | what the code does | what the property says |
|---|---|---|---|
| `RamfsFile`, `Fat32File`: `cut` | `ramfs.c:313`, `fat32.c:613` | a write of a whole block or more adds blocks behind the current one and cuts off those that were there, which leak | only bytes behind the write are lost (`IsByteFile`); blocks are lost exactly then (`NothingLost`) |
| `Fat32File`: `split` | `fat32.c:613` | a write that crosses the end of a cluster from inside it goes on at the beginning of the same cluster | bytes from the beginning of that cluster to the end of the write are spoiled, no others |
| both: `ahead` | `ramfs.c:902`, `fat32.c:1475` | a seek forwards from a multiple of the block size ends one block short | the descriptor's block is then always wrong, and not otherwise (`CurrentHoldsPosition`) |
| both: `past`, `behind` | `ramfs.c:916`, `fat32.c:1494` | a seek behind the last block keeps its position; a read from behind the end returns bytes of a block | only then are bytes read that are not the file's |
| both: `spare`, `stale` | `ramfs.c:1003`, `fat32.c:1540` | an appending descriptor keeps the last block it found at open, though others append, or one behind the end after a failed write | as `ahead` |
| `RamfsFile`: `failed` | `ramfs.c:307` | a write that runs out of memory has moved its datanode on and not its position | nothing is written past it; as `ahead` |
| both: `outside` (`Fat32Dir` too) | `fat32.c:697` | the search for free clusters knows no end of the partition and takes words behind its table | only when no free cluster is at or above the hint; the count is off by those (`FreeIsFound`, `FreeCountExact`, `NothingLost`) |
| `Fat32Dir`: `hidden` | `fat32.c:256` | freeing a chain moves the hint to its first cluster, though it has one with a lower number | a free cluster is below the hint exactly then |
| `Fat32Dir`: `stale` | `fat32.c:713` | a new directory cluster is read instead of cleared and shows what it held | every other call leaves a tree of names (`IsDirectory`) |
| `Fat32Dir`: `clobber` | `fat32.c:356` | where a single deleted slot is the last of its cluster, the cluster read after it is written over that one | as `stale` |
| `FatNames`: not `Kept` | `fat32.c:75` | a short name that ends in a dot loses it, one of a directory that contains a dot comes back without | a name comes back as it was given exactly if it is `Kept` |
| `FatNames`: not `Terminated` | `fat32.c:954` | a long name that fills its last piece has no terminator, and a second one is accepted | among the others no name is accepted twice |
| `Vfs`: not `AsSpelt` | `node_op.c:66` | names on FAT32 are found whatever their case, and looked for in the tree by their case: opened by two spellings an entry has two nodes, so two sizes and two locks | nodes of one entry are otherwise the same (`OneNodePerEntry`) |
| `AddressSpace`: `grown` | `heap.c:38` | a heap that grows into a new page table below a process's directory gets a table of that process only; without a frame for the table the page is not mapped | the kernel halves differ from that step on, and agree until then (`KernelHalfShared`) |
| `AddressSpace`: `shrunk` | `heap.c:68` | below a directory without the table the page's address is 0: block 0 is freed and the page's frame is not | frames are accounted for until then; processes stay complete |
| `Keyboard`: `astray` | `kbd.c:374` | a byte that comes while the lights are set is read, and dropped, as an answer | keys are decoded in order until then (`KeysDecoded`) |
| `Keyboard`: `astray` | `kbd.c:322` | the keyboard acknowledges the two bytes of the lights and the driver reads one answer; the other, 0xfa, is taken for a release and looked up past the end of `keycode[]`, and if the code of a key that is held lies there it is forgotten | as above; the run has such a code (`Strays`) |
| `Keyboard`: `Torn` | `kbd.c:415` | a key that comes inside the copy of another gives the caller a mixture | nothing older than the wait is mixed in but that (`NewKey`) |
| `Screen`: not `plain` | `framebuffer.c:455` | a backspace in the first cell leaves the screen, a string that needs more rows than there are above the cursor is cut | the screen shows the text as long as it is plain |
| `Disk`: a flush that fails | `ata_pio.c:164` | the failure is not reported | a write that succeeds is on the drive unless its flush failed (`Transferred`) |
| `Clock`: `TakenFor` | `rtc.c:105` | midnight on a 12-hour clock is read as 12 and noon as 0 | the date read is exactly twelve hours off then, and right otherwise (`ReadWasShown`) |
| `Files`: a full last datanode | `ramfs.c:714` | a file of the ramfs that ends with a full datanode is copied without it | a copy is whole exactly if the last datanode is not full (`CopiedWhole`) |

The rest are definitions that TLC refutes under the change named here (with one
worker: behind the violation lie states the model does not describe), and the
runs stay clear of them:

| definition | where | change to make | what TLC shows |
|---|---|---|---|
| `NoProcessStranded` | `scheduler.c:63` | none, in `semaphore_safety` | yield takes `add_back` from a register its stub does not set; the caller may be in no queue |
| `ListsAgree` | `process_queue.c:11` | `AnyPreempt = TRUE` in `kernel_data` | a tick between two stores of `kmain`'s push: the new process is lost from the ready queue |
| `WaitsOnlyIfFull` | `ramfs.c:867` | `RoomRange = {1}` in `pipe_safety` | a write that runs out of memory keeps the units of space it did not use (with memory for a full pipe it is a theorem, see 6) |
| `SkippedIsSmaller` | `heap.c:131` | `Sizes = {3}` in `heap_used_last` | the region the search skips may be as large as the request; the size to add wraps |
| `HeapSound` | `heap.c:256` | `GrowPage = 16`, `GrowPages = 1`, `GrowLimit = 6` in `kernel_data` | the difference that decides on contracting wraps; pages of a block are unmapped |
| `TreeSound` | `vfs_op.c:236` | a path `h/../d/x`, `MAX_ALLOCATION = 4` in `vfs` | a failed search frees a node that stays linked |
| `SemaphoresNamed` | `vfs_op.c:137` | none, in `vfs` | creating a semaphore of a name that is open replaces it |
| `DescriptorsLive` | `semaphore.c:111` | `TakenNames = TRUE` in `vfs` | a process without a free descriptor that creates a semaphore whose name is open removes and frees the node that others use |
| `SemaphoresLive` | `vfs_op.c:25` | `<<"s">>` among the paths of `vfs` | the entry of a semaphore keeps a pointer to freed memory |
| `AccessReturns` | `ata_pio.c:41` | `MAX_COUNT = 2` in `machine` | behind the first sector the driver waits for data or an error of a drive that may have neither |

Further ones are in the actions as they are, without a property of their own. A
search that ends by creating a file leaks the node it made for the look-up, and
one that meets the depth limit leaves the nodes it linked; this is why
`NothingLeftUnused` is about nodes that were in use. When a program does not fit
in memory its frames are lost (`elf.c:89`), when the directory under `/proc`
cannot be made the page directory is freed twice (`process.c:293`), harmless as
long as nothing is allocated in between, and a stack without a page table is a
panic (`process.c:213`). The shell ends a line with one zero byte where
`process.h:25` asks for two, so that a line shorter than the one before hands on
words of older lines behind its own (`main.c:71`); `WordsArrive` says in which
cases exactly its own words arrive. A partition's file system always gets the
number 0 (`kernel.c:166`).

## 6. Proofs

All are checked by TLAPS, for any number of processes, semaphores, readers,
writers, owners and sectors and any sizes. They assume only the named
assumptions on the constants, which TLC evaluates on its instances, and the
hypotheses stated below. Sets of processes are assumed finite where units are
summed over them (`FiniteAssumption`) and where links are followed to the end
(`LinksAssumption`). Each listed theorem about a property is about a property of
a run.

**`SemaphoreProofs`**: `TypeCorrect`, `SomethingToRun`, `StateAgrees`,
`OnePlace`. Being in one place is not inductive by itself: a wake-up is safe
only because the waiter's state is right, a kill only because a parked parent is
in no queue. `PlaceInv` says all of it: queues without repetitions and disjoint
from each other (`Distinct`), a state field for each place (`ReadyInv`,
`SleepingInv`, `BlockedInv`, `RunningInv`), the dead in the delete queue only
(`DeadInv`), a parent in no queue and parked in one child only (`ParkedInv`), the
idle process running or ready (`IdleInv`). One lemma per action shows that it is
preserved; the theorems follow from it. `EveryProcessInOnePlace` counts slots, and
is derived by showing the set of slots to be a singleton.

Waking up, in the second half: `WakeupsNotLost` by induction on `NoLostWakeup` itself with
types; `SleepExact` from `SleepInv`: the sleep queue is sorted, a sleeper's
remaining ticks are its wake-up time minus the clock (one if they are equal),
and nobody else has ticks left. Sortedness is why looking at the front suffices,
and an empty queue is why setting the clock back changes nobody's remaining time.
`UnitsAreConserved`: a semaphore's count, and what its users hold, sum up to its
initial count modulo the width of the counter; a release that wakes several
waiters at once is a sum over the set of those it wakes.

**`PipeProofs`**: `BulkAcquireDoesNotBlock` from `BulkInv`: a process past
`measure` and before the end of its copy has the processor, a process that has the
processor is in no waiting queue, and the units counted are still there. This is
where interrupts being disabled matters: if system calls could be preempted,
another process could take the units between the count and the acquire, and the
first would sleep with the node's lock held. `LockIsExclusive` from `ControlInv`:
who waits in a queue is at the place of the call where it asked for that
semaphore, a holder of the lock means that its count is 0, and a call's sizes and
bytes fit its place. `NobodyWaitsInVain`: with a waiter in a queue its count is 0.

The bytes, in the second half: `UnitsMatch`, `FewDatanodes`, `ImplementsFifo`, `WaitsForSpace`,
from `FifoInv`: the chain is well formed (offsets inside their datanodes, the
read offset not behind the write offset), and each semaphore's count together with
the units taken by calls in progress is what the chain holds, or what it has left.
That the byte loops append and remove exactly the call's bytes, across datanodes,
is an induction on the number of turns; the refinement's step is then append or
drop of a sequence. They have the hypothesis `EnoughMemory`, memory for a full
pipe and one datanode, because without it `ramfs_pipe_write` keeps units of space
it has not used (see 5); `pipe_liveness` is an instance that satisfies it. The capacity is a
multiple of the datanode size, as `filesystem.h` asks.

**`KernelDataProofs`**, frames: `FramesAreSound`, `ImplementsAllocator`, for all memory
sizes, word widths and memory maps. `FrameInv`: frame 0 is used, the count is the
cardinality of the bits below the end of memory (the last word has bits past it),
what callers own is used. The work is in `find_first_free` and the loops over
regions and words, which are recursive functions: what each turn has found out is
a set of turns that contains 0 and is closed under successor.

**`KernelDataProofs`**, heap: `HeapIsSound`, for a heap that has reached its limit.
`HeapInv`: headers form a chain in which next (address plus size) and `prev` are
inverse to each other and which ends at the end of the heap (`Chain`), free
regions are not neighbours (`Apart`), each used region belongs to exactly one
caller and is as large as asked for. `heap_alloc` taking or splitting a region and
`heap_free` merging on one side, on both or on neither keep the chain; the
arithmetic modulo the word size is shown not to wrap. It leaves out the growing
heap, for which `HeapSound` does not hold for all sizes (`heap.c:131`,
`heap.c:256` and `heap_used_last`, see 5).

**`KernelDataProofs`**, lists: `ListsStayTrue`, for any finite set of control blocks,
any sleep times and any order of calls and ticks, with the hypothesis
`~AnyPreempt`: a tick between two stores of `kmain`'s push loses a process (see
5). All queues use one link per block, and stale links and bottoms stay behind in
blocks and heads, so what one queue spells depends on what the others hold.
`ListsInv`: a queue's head and links spell its contents (`Threaded`) and no block
is at two places of the queues, so that a store to the link of one block disturbs
at most one queue (`ThreadsUpdate`); everybody alive is in a queue or runs, and
the idle process never sleeps, waits or is deleted, so the ready queue is not empty when
it is popped (`NextOk`); the sleepers are in the order of their wake-up times, so
that `process_queue_sorted_push` finds the place (`InsertSorted`) and those due
are the first ones (`SortedPrefix`); the global list is linked both ways and
begins with the idle process (`Global`), so that `global_list_pop` always has a
predecessor to link. The loops of `scheduler_switch` are followed turn by turn by
induction (`ReapOk`, `WakeUpOk`), and so is the walk along the links that the
property is stated with (`WalkReads`). In the middle of `kmain`'s push the
invariant is about the lists as its last two stores will leave them (`Finished`).

**`AddressSpaceProofs`**: `MemoryInOrder`, and from it `FramesAreAccounted`,
`KernelHalfIsShared` and `RunnableIsComplete`, for all sizes of memory, page
tables, heap and stack, all programs and any number of processes. That every
frame has one owner is not inductive by itself: freeing a directory is right only
if no other directory reaches one of its tables, and the page fault handler
makes directories share tables on purpose. `MemoryInv` therefore says from where
a frame is in use: a place is a directory, a table in the half of a directory that
is its own (the heap's tables for the kernel, the user tables for the others), or
a page of such a table. No frame is at two places and a frame at a place is in use
(`Placed`), other directories have the kernel's entry or none (`Shared`), the heap
is mapped up to its end and no further (`HeapMapped`), live processes have the
pages of their program and stack (`Programs`), one that is being loaded has
exactly those of its program (`Loading`), so that its stack goes to empty pages,
and `lost` is what is in use without a place. Each call is shown to fill, clear,
drop or add places; the loops over `vmmngr_map` by induction on the number of
pages, failures on the way included. Since free frames may hold anything,
everything that is read must be reached through a place. All this holds until the
heap grows or shrinks below a directory that lacks its table (see 5). The
inductive invariant is therefore `AddressInv`: `MemoryInv`, or `Astray`, which
says of the states after such a step, which are not followed further, what it has
left: the programs of live processes and the processor's directory as they were
and, if the heap has grown, a page of it that the kernel's directory does not
map. That such a growth parts the halves at once, and that no other step does, is
what `KernelHalfIsShared` adds to the sharing itself. The theorems rest on two
assumptions on input:
`AddressSpaceAssumption`, in which memory holds the heap's first pages, without
which `kheap_init` faults, and `ImagesAssumption`, that the segments of a program
do not overlap and end below the stack. The linker sees to that; `elf_validate`
does not look, and `_elf_load` takes the end of the segment with the highest
address for the end of the program.

**`MachineProofs`**: `ContextsAreKept` from `ContextInv`: a kernel stack is a
sequence of frames, one for each context that was interrupted and is still to be
resumed, in the order of nesting (`Frames`, `Nest`); what the processor executes
fits the top of its stack (`Runs`), and the saved stack pointer of everybody else
points at a whole frame (`Parked`). The case that needs care is a page fault
whose stub, its gate leaving interrupts on, is itself interrupted before it has
pushed the registers: its frame is two words short (`Gap`, `Half`).
`AccessIsSound` from `DiskInv`: in each
place of the driver the state of the drive's command, the words moved so far on
both sides (`Moved`), whether it is the flush behind a write that is under way
(`Flushing`) and how far `disk_init` has come (`Booted`). Any command may fail,
the flush too; `Moved` claims the words of a write only while it has not.
`Phases` contains that an access of more than one sector never gets past its
first.

**`VfsProofs`**: `Invariant`, and from it `TreeStaysSound`, `DescriptorsStayLive`,
`RefcountStaysExact` and the action property `NothingStaysUnused`, for all file
systems, paths, modes, processes, sizes of descriptor tables, depths of search
and mounts. None of them is inductive alone: a close may free a node only because
its count is right and it has no children, a parent goes with it only because the
tree has no other way to it, and the next search finds the node an entry already
has only because the lists of children are complete. `VfsInv` has both halves:
`TreeInv`, that nodes with a parent form a tree in which the path grows by one name
from parent to child, what was asked for differs from the entry on FAT32 only,
entries of nodes for which it does not differ are distinct, and mount points
lead into the tree, while a
node without one has no children (the search that made it has left it behind); and
`UseInv`, that descriptors and mounts are on nodes of the tree and each count is
the number of them. Both are stated for any tree, since a search and the loop of
`process_delete` go through trees that no state has. A search is shown, token by
token, to add nodes only (`Extends`), and those on its stack to lead to each other
only (`StackInv`), so that freeing the stack after unlinking its first node is
right; the clean-up takes away a part of one way up (`UnusedIsFree`) and all of it
that is unused (`UnusedIsAll`). The theorems have two hypotheses, `PlainPaths`, that
no path has `..`, and `~TakenNames`; without either TLC refutes them (see 5).

**`KeyboardProofs`**: `KeysAreDecoded`, for any number of presses and releases
of the nine keys of `Code` in any order, each at any point of the handler's work on the ones
before. That the keys decoded so far are right says nothing about the bytes that
are still to come, and the case of a key depends on modifiers that the driver has
not seen when it is struck. `KeyboardInv` therefore follows every event of the
history (`Tracked`): where its bytes begin in the queue of the controller,
and which keys are down and whether caps lock is on behind it. The bytes in the
controller are those of the events not decoded yet, the first perhaps without the
prefix `extended_byte` stands for, behind what the trash handler has yet to
discard and an acknowledgement; the driver's own modifiers are those behind the
last decoded event. `BytesTell` says why nothing is taken for something else: the
first byte of an event tells plain, extended and pause keys apart and the second
arrows and print screen. A key may come while the lights are set, and anything may
lie past the end of `keycode[]`; the induction is over `astray \/ KeyboardInv`, in
which `astray` stays once it is set. `KeysAreNew` is `NewKey` from `WaitInv`, for
the loop of `kbd_wait_key` with interrupts between its steps and inside the copy
of `current_key`. Behaviours of `Console` are behaviours
of `KeyboardSpec`, because its other parts leave the keyboard alone.

**`DataLemmas`**: induction over naturals and over finite sets, stated for a set
instead of a predicate; the existence of recursive functions; sums over finite
sets of processes as the models write them, their value after one change, after
adding or removing one; injective sequences under append, tail and cutting; least
elements; quotients and remainders.

Only model-checked:

* liveness, which is out of the prover's reach: `EveryoneRuns`,
  `CallsReturn`, `KeyIsTaken`, `LinesServed`, `AccessReturns`;
* `HeapSound` of a growing heap, as above;
* `IsByteFile`, `IsDirectory` and the other properties of `Storage`, whose chains
  of clusters and datanodes are followed by recursive functions;
* `DatesRight`, a calendar of 130 years;
* the rest of `Console`: `CommandLine` and `Format` are written with RECURSIVE
  operators, and `ScreenShows` compares two folds over the characters of a string.

## 7. What is left

Modelled and proved, in order of how much of the rest depends on it: `Scheduler`,
`Semaphore`, `Pipe`, `Pmm`, `Heap`, `RamfsFile`, `Vfs`; then both file systems with
directories and names, address spaces, the process lists, console and machine;
then proofs for the first four, the full heap, the process lists, address spaces,
interrupts, disk access, the node tree and the keyboard. Possible next steps:

1. Queues as links implementing the sequences of `Scheduler` step by step.
2. The heap's spinlock with a preempted owner.
3. What becomes of a file or a directory after a call that went amiss.
