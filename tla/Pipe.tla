-------------------------------- MODULE Pipe --------------------------------
(***************************************************************************)
(* A ramfs pipe (filesystem/ramfs.c: ramfs_pipe_read, ramfs_pipe_write)    *)
(* under the read, write and close system calls of filesystem/vfs_op.c.    *)
(*                                                                         *)
(* A call takes the node's lock, gives it back to wait for a first byte    *)
(* (or a first byte of space), takes it again, takes as many further units *)
(* as there are, copies, and hands as many units to the other side.        *)
(*                                                                         *)
(* A system call runs with interrupts disabled: it loses the processor     *)
(* only where a nested semaphore call blocks.  cpu is the process inside a *)
(* call that has not blocked; when there is none any process that is not   *)
(* waiting may run, which is what the scheduler of module Scheduler does.  *)
(***************************************************************************)
EXTENDS Integers, Sequences, FiniteSets, Functions

CONSTANTS
    Reader, Writer,       \* processes with the pipe open for reading, for writing
    Closer,               \* those of them that may close it
    Byte,
    Sizes,                \* sizes of read and write calls
    RAMFS_DATANODE_SIZE,
    RAMFS_PIPE_SIZE,
    RoomRange,            \* datanodes the ramfs heap may have room for
    NULL

ASSUME PipeAssumption ==
    /\ Reader \cap Writer = {}
    /\ NULL \notin Reader \cup Writer \cup Byte
    /\ Closer \subseteq Reader \cup Writer
    /\ Closer # Reader \cup Writer      \* the node stays in use
    /\ Sizes \subseteq Nat
    /\ RAMFS_DATANODE_SIZE \in Nat \ {0}
    /\ RAMFS_PIPE_SIZE \in Nat \ {0}
    /\ RAMFS_PIPE_SIZE % RAMFS_DATANODE_SIZE = 0    \* "should be a multiple of"
    /\ RoomRange \subseteq Nat \ {0}

ASSUME FiniteAssumption == IsFiniteSet(Reader \cup Writer)

Proc == Reader \cup Writer
Sem == {"lock", "bytes", "space"}
Places == {"user", "enter", "first", "relock", "measure", "bulk", "copy", "unlock",
           "close", "closed"}

VARIABLES
    cpu,      \* the process inside a system call, or NULL
    pc,       \* where each process is
    size,     \* the size its call asks for
    todo,     \* to_read_total, to_write_total
    buf,      \* bytes a writer was given and has not written
    out,      \* bytes a reader's call has copied to the caller
    count,    \* semaphore_t.count
    waitq,    \* semaphore_t.waiting_queue
    wanted,   \* process_t.waiting_for_resource_count
    chain,    \* datanodes, first_datanode .. last_datanode
    head,     \* pipe.head: read offset in the first datanode
    tail,     \* pipe.tail: write offset in the last datanode
    room      \* datanodes the ramfs heap has room for in this pipe now

procVars == <<cpu, pc, size, todo, buf, out>>
semVars == <<count, waitq, wanted>>
dataVars == <<chain, head, tail, room>>
vars == <<procVars, semVars, dataVars>>

(* ramfs_allocate_datanodes(1, false): what the bytes hold is not known. *)
NewDatanode == [i \in 0..RAMFS_DATANODE_SIZE - 1 |-> NULL]

(* create_new_node for FS_NODE_TYPE_PIPE *)
Init ==
    /\ cpu = NULL
    /\ pc = [p \in Proc |-> "user"]
    /\ size = [p \in Proc |-> 0]
    /\ todo = [p \in Proc |-> 0]
    /\ buf = [w \in Writer |-> <<>>]
    /\ out = [r \in Reader |-> <<>>]
    /\ count = [s \in Sem |-> CASE s = "lock" -> 1
                                [] s = "bytes" -> 0
                                [] s = "space" -> RAMFS_PIPE_SIZE]
    /\ waitq = [s \in Sem |-> <<>>]
    /\ wanted = [p \in Proc |-> 0]
    /\ chain = <<NewDatanode>>
    /\ head = 0
    /\ tail = 0
    /\ room \in RoomRange

-----------------------------------------------------------------------------
Blocked(p) == \E s \in Sem : p \in Range(waitq[s])

MayRun(p) == ~Blocked(p) /\ cpu \in {p, NULL}

(* syscall_semaphore_kacquire and syscall_lock: p goes on with next, at     *)
(* once or when a release has served it.                                    *)
Acquire_front(p, s, n, next) ==     \* mutant: a waiter goes to the front of the queue
    /\ pc' = [pc EXCEPT ![p] = next]
    /\ IF count[s] >= n
       THEN /\ count' = [count EXCEPT ![s] = @ - n]
            /\ cpu' = p
            /\ UNCHANGED <<waitq, wanted>>
       ELSE /\ wanted' = [wanted EXCEPT ![p] = n]
            /\ waitq' = [waitq EXCEPT ![s] = <<p>> \o @]
            /\ cpu' = NULL
            /\ UNCHANGED count

Acquire(p, s, n, next) ==
    /\ pc' = [pc EXCEPT ![p] = next]
    /\ IF count[s] >= n
       THEN /\ count' = [count EXCEPT ![s] = @ - n]
            /\ cpu' = p
            /\ UNCHANGED <<waitq, wanted>>
       ELSE /\ wanted' = [wanted EXCEPT ![p] = n]
            /\ waitq' = [waitq EXCEPT ![s] = Append(@, p)]
            /\ cpu' = NULL
            /\ UNCHANGED count

UnitsFor(s, k) == SumFunction([i \in 1..k |-> wanted[waitq[s][i]]])

(* semaphore_release, see Semaphore *)
Release(s, n) ==
    \E k \in 0..Len(waitq[s]) :
        /\ UnitsFor(s, k) \in 0..count[s] + n
        /\ k < Len(waitq[s]) => UnitsFor(s, k + 1) > count[s] + n
        /\ count' = [count EXCEPT ![s] = @ + n - UnitsFor(s, k)]
        /\ waitq' = [waitq EXCEPT ![s] = SubSeq(@, k + 1, Len(@))]
        /\ UNCHANGED wanted

(* The semaphore a process takes its units from, and the one of the other side. *)
Own(p) == IF p \in Reader THEN "bytes" ELSE "space"
Other_own(p) == Own(p)     \* mutant: the units go back to the side they came from

Other(p) == IF p \in Reader THEN "space" ELSE "bytes"

At(p, where) == pc[p] = where /\ MayRun(p)

-----------------------------------------------------------------------------
(* vfs_read, vfs_write: syscall_lock *)
Read(r, n) ==
    /\ At(r, "user")
    /\ size' = [size EXCEPT ![r] = n]
    /\ Acquire(r, "lock", 1, "enter")
    /\ UNCHANGED <<todo, buf, out, dataVars>>

Write(w, b) ==
    /\ At(w, "user")
    /\ size' = [size EXCEPT ![w] = Len(b)]
    /\ buf' = [buf EXCEPT ![w] = b]
    /\ Acquire(w, "lock", 1, "enter")
    /\ UNCHANGED <<todo, out, dataVars>>

(* Nothing to do for size 0; otherwise give the lock back ... *)
Enter(p) ==
    /\ At(p, "enter")
    /\ cpu' = p
    /\ IF size[p] = 0
       THEN /\ pc' = [pc EXCEPT ![p] = "unlock"]
            /\ UNCHANGED semVars
       ELSE /\ pc' = [pc EXCEPT ![p] = "first"]
            /\ Release("lock", 1)
    /\ UNCHANGED <<size, todo, buf, out, dataVars>>

(* ... wait for one unit ... *)
First(p) ==
    /\ At(p, "first")
    /\ Acquire(p, Own(p), 1, "relock")
    /\ UNCHANGED <<size, todo, buf, out, dataVars>>

(* ... and take the lock again. *)
Relock_skipped(p) ==     \* mutant: the lock is not taken again
    /\ At(p, "relock")
    /\ cpu' = p
    /\ pc' = [pc EXCEPT ![p] = "measure"]
    /\ UNCHANGED <<size, todo, buf, out, semVars, dataVars>>

Relock(p) ==
    /\ At(p, "relock")
    /\ Acquire(p, "lock", 1, "measure")
    /\ UNCHANGED <<size, todo, buf, out, dataVars>>

Available(p) == 1 + count[Own(p)]

Todo_whole(p) == size[p]     \* mutant: not cut to what is available

Todo(p) == IF size[p] < Available(p) THEN size[p] ELSE Available(p)

(* How many units there are is read here, outside the semaphore's lock ... *)
Measure(p) ==
    /\ At(p, "measure")
    /\ cpu' = p
    /\ todo' = [todo EXCEPT ![p] = Todo(p)]
    /\ pc' = [pc EXCEPT ![p] = IF todo'[p] > 1 THEN "bulk" ELSE "copy"]
    /\ UNCHANGED <<size, buf, out, semVars, dataVars>>

(* ... and relied on here. *)
Bulk(p) ==
    /\ At(p, "bulk")
    /\ Acquire(p, Own(p), todo[p] - 1, "copy")
    /\ UNCHANGED <<size, todo, buf, out, dataVars>>

(* One byte of ramfs_pipe_read's loop on st = [chain, head, out]: a datanode  *)
(* that has been read to its end is freed, unless it is the last one.         *)
ReadByte_keep(st) ==      \* mutant: a datanode that has been read is kept
    LET byte == st.chain[1][st.head]
        full == st.head + 1 = RAMFS_DATANODE_SIZE
    IN [chain |-> st.chain,
        head  |-> IF full THEN 0 ELSE st.head + 1,
        out   |-> Append(st.out, byte)]

ReadByte(st) ==
    LET byte == st.chain[1][st.head]
        full == st.head + 1 = RAMFS_DATANODE_SIZE
    IN [chain |-> IF full /\ Len(st.chain) > 1 THEN Tail(st.chain) ELSE st.chain,
        head  |-> IF full THEN 0 ELSE st.head + 1,
        out   |-> Append(st.out, byte)]

(* The loop, for n bytes. *)
ReadBytes(n) ==
    LET st[i \in 0..n] == IF i = 0 THEN [chain |-> chain, head |-> head, out |-> <<>>]
                          ELSE ReadByte(st[i - 1])
    IN st[n]

(* The rest of ramfs_pipe_read. *)
CopyOut(r) ==
    /\ At(r, "copy")
    /\ r \in Reader
    /\ cpu' = r
    /\ LET st == ReadBytes(todo[r])
       IN /\ chain' = st.chain
          /\ head' = st.head
          /\ out' = [out EXCEPT ![r] = st.out]
    /\ Release(Other(r), todo[r])
    /\ pc' = [pc EXCEPT ![r] = "unlock"]
    /\ todo' = [todo EXCEPT ![r] = 0]
    /\ UNCHANGED <<size, buf, tail, room>>

(* Go to a fresh datanode when the last one is full; st.stop is the break  *)
(* of ramfs_pipe_write's loop when there is no memory for one.             *)
NextDatanode(st) ==
    IF st.tail < RAMFS_DATANODE_SIZE THEN st
    ELSE IF Len(st.chain) < room
         THEN [st EXCEPT !.chain = Append(@, NewDatanode), !.tail = 0]
         ELSE [st EXCEPT !.stop = TRUE]

(* One byte of the loop; a full last datanode is what an earlier failure to *)
(* allocate left behind.                                                    *)
WriteByte(st, byte) ==
    LET now == IF st.stop THEN st ELSE NextDatanode(st)
        put == [chain |-> [now.chain EXCEPT ![Len(now.chain)][now.tail] = byte],
                tail  |-> now.tail + 1, stop |-> FALSE, done |-> now.done + 1]
    IN IF now.stop THEN now ELSE NextDatanode(put)

(* The loop, for the first n bytes of b. *)
WriteBytes(b, n) ==
    LET st[i \in 0..n] == IF i = 0 THEN [chain |-> chain, tail |-> tail, stop |-> FALSE, done |-> 0]
                          ELSE WriteByte(st[i - 1], b[i])
    IN st[n]

(* The rest of ramfs_pipe_write. *)
CopyIn(w) ==
    /\ At(w, "copy")
    /\ w \in Writer
    /\ cpu' = w
    /\ LET st == WriteBytes(buf[w], todo[w])
       IN /\ chain' = st.chain
          /\ tail' = st.tail
          /\ \E actual \in 0..todo[w] : actual = st.done /\ Release(Other(w), actual)
    /\ buf' = [buf EXCEPT ![w] = <<>>]
    /\ pc' = [pc EXCEPT ![w] = "unlock"]
    /\ todo' = [todo EXCEPT ![w] = 0]
    /\ UNCHANGED <<size, out, head, room>>

(* syscall_unlock, and back to the caller *)
Unlock(p) ==
    /\ At(p, "unlock")
    /\ Release("lock", 1)
    /\ pc' = [pc EXCEPT ![p] = "user"]
    /\ cpu' = NULL
    /\ size' = [size EXCEPT ![p] = 0]
    /\ out' = IF p \in Reader THEN [out EXCEPT ![p] = <<>>] ELSE out
    /\ UNCHANGED <<todo, buf, dataVars>>

(* vfs_close: syscall_lock ... *)
Close(p) ==
    /\ p \in Closer
    /\ At(p, "user")
    /\ Acquire(p, "lock", 1, "close")
    /\ UNCHANGED <<size, todo, buf, out, dataVars>>

(* ... and the rest: refcount stays above 0, so vfs_cleanup_node_tree       *)
(* leaves the node, but the descriptor's node is NULL when syscall_unlock   *)
(* looks at it, so the lock stays taken.                                    *)
Closed(p) ==
    /\ At(p, "close")
    /\ cpu' = NULL
    /\ pc' = [pc EXCEPT ![p] = "closed"]
    /\ UNCHANGED <<size, todo, buf, out, semVars, dataVars>>

(* Other files of the ramfs grow and shrink. *)
OthersAllocate ==
    /\ cpu = NULL
    /\ room' \in RoomRange \ {room}
    /\ UNCHANGED <<procVars, semVars, chain, head, tail>>

InCall(p) ==
    Enter(p) \/ First(p) \/ Relock(p) \/ Measure(p) \/ Bulk(p)
      \/ CopyOut(p) \/ CopyIn(p) \/ Unlock(p) \/ Closed(p)

Next ==
    \/ \E r \in Reader, n \in Sizes : Read(r, n)
    \/ \E w \in Writer, n \in Sizes : \E b \in [1..n -> Byte] : Write(w, b)
    \/ \E p \in Proc : InCall(p) \/ Close(p)
    \/ OthersAllocate

Spec == Init /\ [][Next]_vars

(* A ready process gets the processor eventually, whoever else is ready      *)
(* (EveryoneRuns of module Semaphore); kproc_stdout reads for ever.             *)
FairSpec ==
    /\ Spec
    /\ \A p \in Proc : SF_vars(InCall(p))
    /\ \A r \in Reader : SF_vars(\E n \in Sizes \ {0} : Read(r, n))

-----------------------------------------------------------------------------
(* Every variable has the type of the field it stands for. *)
TypeOK ==
    /\ cpu \in Proc \cup {NULL}
    /\ pc \in [Proc -> Places]
    /\ size \in [Proc -> Sizes \cup {0}]
    /\ todo \in [Proc -> 0..RAMFS_PIPE_SIZE]
    /\ \A w \in Writer : buf[w] \in Seq(Byte)
    /\ \A r \in Reader : out[r] \in Seq(Byte)
    /\ count \in [Sem -> 0..RAMFS_PIPE_SIZE]
    /\ \A s \in Sem : waitq[s] \in Seq(Proc)
    /\ wanted \in [Proc -> 0..RAMFS_PIPE_SIZE]
    /\ chain # <<>>
    /\ head \in 0..RAMFS_DATANODE_SIZE - 1
    /\ tail \in 0..RAMFS_DATANODE_SIZE - 1
    /\ room \in RoomRange

(* The bytes between the read and the write offset. *)
Between(ch, from, to) ==
    [i \in 1..(Len(ch) - 1) * RAMFS_DATANODE_SIZE + to - from |->
        ch[(from + i - 1) \div RAMFS_DATANODE_SIZE + 1][(from + i - 1) % RAMFS_DATANODE_SIZE]]

Contents == Between(chain, head, tail)

(* The pipe implements a bounded FIFO of bytes, whatever the sizes of the   *)
(* calls and wherever datanode boundaries fall (ramfs_pipe_read,            *)
(* ramfs_pipe_write): nothing is lost, doubled, reordered or read before it *)
(* was written, and a read that is not empty returns at least one byte.     *)
Abstract == INSTANCE PipeSpec WITH PIPE_SIZE <- RAMFS_PIPE_SIZE, pipe <- Contents
IsFifo == Abstract!Spec

(* Units of s that p has taken and not yet used. *)
Taken(p, s) ==
    IF s # Own(p) \/ (p \in Range(waitq[s]) /\ pc[p] = "relock") THEN 0
    ELSE CASE pc[p] \in {"relock", "measure", "bulk"} -> 1
           [] pc[p] = "copy" -> IF p \in Range(waitq[s]) THEN 1 ELSE todo[p]
           [] OTHER -> 0

TakenOf(s) == SumFunction([p \in Proc |-> Taken(p, s)])

(* Each byte in the pipe is free to be taken or taken by one reader, each   *)
(* other byte of its capacity is free or taken by one writer: neither       *)
(* semaphore drifts away from what the chain holds.                         *)
UnitsMatchContents ==
    /\ count["bytes"] + TakenOf("bytes") = Len(Contents)
    /\ count["space"] + TakenOf("space") = RAMFS_PIPE_SIZE - Len(Contents)

(* "it is guarantee to be non-block": taking the units that were counted    *)
(* never blocks, or the process would sleep with the node's lock held.      *)
BulkNeverBlocks == \A p \in Proc : pc[p] = "copy" => ~Blocked(p)

(* A process waits for space only while the pipe is full, or other writers  *)
(* have taken what is left of it.                                           *)
WaitsOnlyIfFull ==
    waitq["space"] # <<>> =>
        Len(Contents) + TakenOf("space") = RAMFS_PIPE_SIZE

(* The pipe never holds more datanodes than its capacity needs and one:     *)
(* readers free what writers allocate.                                      *)
DatanodesBounded == Len(chain) * RAMFS_DATANODE_SIZE <= RAMFS_PIPE_SIZE + RAMFS_DATANODE_SIZE

Holds(p) ==
    /\ pc[p] \in {"enter", "measure", "bulk", "copy", "unlock", "close"}
    /\ p \notin Range(waitq["lock"])

(* The node's lock is held by at most one process, and is free only if     *)
(* nobody holds it, although every call gives it up and takes it again      *)
(* half way (vfs_read, vfs_write, vfs_close).                               *)
LockExclusive == count["lock"] + Cardinality({p \in Proc : Holds(p)}) <= 1

(* "use semaphore to lock a file": a lock that is taken has a holder, who   *)
(* gives it back.                                                           *)
LockHasHolder == count["lock"] = 0 => \E p \in Proc : Holds(p)

(* A write returns, however full the pipe, since somebody reads for ever; a *)
(* read returns if bytes keep being written, also when there are several    *)
(* readers (ramfs_pipe_write, ramfs_pipe_read).                             *)
CallsReturn ==
    /\ \A w \in Writer : pc[w] # "user" ~> pc[w] = "user"
    /\ (\E w \in Writer : []<>(pc[w] = "copy"))
          => \A r \in Reader : pc[r] # "user" ~> pc[r] = "user"
=============================================================================
