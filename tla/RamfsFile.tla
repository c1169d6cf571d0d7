----------------------------- MODULE RamfsFile ------------------------------
(***************************************************************************)
(* One file of the ramfs and the descriptors open on it: read_file,        *)
(* write_file and ramfs_file_seek_absolute of kernel/src/filesystem/       *)
(* ramfs.c, under file_open, file_seek, file_read and file_write of        *)
(* file_op.c.  The node's lock makes each call atomic.                     *)
(*                                                                         *)
(* A file is a chain of datanodes.  At a position that is a multiple of    *)
(* their size a descriptor's current datanode is the one before; the next  *)
(* call steps over.  Truncation is left out: file_open resets the node of  *)
(* the descriptor before it has one.                                       *)
(*                                                                         *)
(* Some calls do what their caller does not expect.  Each is a step with   *)
(* all that the code does in it; amiss names what went wrong, and the      *)
(* behaviour is not followed any further:                                  *)
(*   spare   a descriptor takes a datanode behind the end for the last one *)
(*   stale   the last datanode of an appending descriptor is no longer it  *)
(*   ahead   a seek forwards from a multiple of the size is one short      *)
(*   past    a seek keeps a position behind the last datanode              *)
(*   behind  a read from behind the end returns bytes                      *)
(*   cut     a write loses the datanodes behind it                         *)
(*   failed  a write that runs out of memory has moved its datanode on     *)
(***************************************************************************)
EXTENDS Integers, Sequences, FiniteSets, FiniteSetsExt

CONSTANTS
    Fd,          \* descriptors
    Modes,       \* how callers open it: subsets of {"read", "write", "append"}
    Junk,        \* what fresh memory holds
    Datanode,    \* memory for datanodes: addresses 1..n, and 0 for NULL
    RAMFS_DATANODE_SIZE,
    ReadSizes,
    Texts,       \* what callers write
    Seeks,       \* <<whence, offset>> that callers use
    WORD         \* size_t is modulo WORD: 2^32 in the code

D == RAMFS_DATANODE_SIZE
NULL == 0

VARIABLES
    next,      \* next field of each datanode
    data,      \* bytes of each datanode
    used,      \* datanodes that are allocated
    entry,     \* size in the ramnode
    size,      \* size of the node
    desc,      \* descriptors: open, mode, position, current and last datanode
    got,       \* what the last call returned, if it was a read
    amiss      \* history: what went wrong in it

vars == <<next, data, used, entry, size, desc, got, amiss>>

First == 1     \* the datanode ramfs_node_create gives the file

NoDesc == [open |-> FALSE, mode |-> {}, pos |-> 0, cur |-> NULL, last |-> NULL]

Init ==
    /\ next = [d \in Datanode |-> NULL]
    /\ data = [d \in Datanode |-> [i \in 0..D - 1 |-> Junk]]
    /\ used = {First}
    /\ entry = 0
    /\ size = 0
    /\ desc = [f \in Fd |-> NoDesc]
    /\ got = << >>
    /\ amiss = {}

(* The datanodes from d on, for links nx. *)
Chain(nx, d) ==
    LET from[e \in Datanode \cup {NULL}] == IF e = NULL THEN << >> ELSE <<e>> \o from[nx[e]]
    IN from[d]

Last(s) == s[Len(s)]

FileChain == Chain(next, First)

(* The number of datanodes that hold n bytes. *)
Blocks(n) == IF n = 0 THEN 1 ELSE (n - 1) \div D + 1

Kinds(k, happens) == IF happens THEN {k} ELSE {}

-----------------------------------------------------------------------------
(* ramfs_file_open: the datanodes a descriptor starts with. *)
Opened(mode) ==
    [open |-> TRUE, mode |-> mode, pos |-> 0,
     cur  |-> IF mode \cap {"read", "write"} # {} THEN First ELSE NULL,
     last |-> IF "append" \in mode THEN Last(Chain(next, First)) ELSE NULL]

(* vfs_open: the node is made from the ramnode if nobody has it. *)
Open(f, mode) ==
    /\ ~desc[f].open
    /\ desc' = [desc EXCEPT ![f] = Opened(mode)]
    /\ size' = IF \E g \in Fd : desc[g].open THEN size ELSE entry
    /\ amiss' = Kinds("spare", "append" \in mode /\ Len(FileChain) > Blocks(size'))
    /\ got' = << >>
    /\ UNCHANGED <<next, data, used, entry>>

(* ramfs_update_entry *)
Sync == size

(* vfs_close: the node is written back, and freed with its last descriptor. *)
Close(f) ==
    /\ desc[f].open
    /\ desc' = [desc EXCEPT ![f] = NoDesc]
    /\ entry' = Sync
    /\ got' = << >>
    /\ UNCHANGED <<next, data, used, size, amiss>>

(* file_seek: the position asked for. *)
SeekTarget(f, whence, offset) ==
    LET q == CASE whence = "absolute" -> offset
               [] whence = "relative" -> desc[f].pos + offset
               [] whence = "bottom"   -> size
    IN IF q < 0 THEN 0 ELSE q

(* ramfs_file_seek_absolute: forwards from the current datanode, otherwise  *)
(* from the first one, until the datanode that ends at or behind q.         *)
Walk_strict(f, q) ==     \* mutant: > for >=
    LET c == Chain(next, First)
    IN [chain |-> c, base |-> 0, steps |-> q \div D]

Walk(f, q) ==
    LET forward == desc[f].pos < q
        base    == IF forward THEN desc[f].pos - (desc[f].pos % D) ELSE 0
        c       == Chain(next, IF forward THEN desc[f].cur ELSE First)
    IN [chain |-> c,
        base  |-> base,
        steps |-> IF q <= base + D THEN 0 ELSE (q - base - 1) \div D]

Seek(f, whence, offset) ==
    LET q    == SeekTarget(f, whence, offset)
        p    == desc[f].pos
        w    == Walk(f, q)
        n    == Len(w.chain)
        past == w.steps >= n                  \* the chain ends before q
        kept == ~(past /\ w.base + (n + 1) * D < q)
        room == Len(FileChain) * D
    IN /\ desc[f].open
       /\ "append" \notin desc[f].mode
       /\ desc' = [desc EXCEPT
             ![f].pos = IF kept THEN q ELSE size,
             ![f].cur = w.chain[IF past THEN n ELSE w.steps + 1]]
       /\ amiss' = Kinds("ahead", q > p /\ p > 0 /\ p % D = 0 /\ q <= room)
                   \cup Kinds("past", q > room /\ kept)
                   \cup Kinds("spare", ~kept /\ Len(FileChain) > Blocks(size))
       /\ got' = << >>
       /\ UNCHANGED <<next, data, used, entry, size>>

-----------------------------------------------------------------------------
(* Where a call at position p starts in its datanode: at the end of it, not *)
(* at the beginning of the next, if p is a multiple of the size.            *)
Offset(p) == IF p # 0 /\ p % D = 0 THEN D ELSE p % D

(* The bytes of chain c, from offset off of its first datanode. *)
BytesFrom(c, off) ==
    [i \in 1..Len(c) * D - off |->
        data[c[(off + i - 1) \div D + 1]][(off + i - 1) % D]]

(* read_file: at most n bytes; the datanode it ends in is that of the last  *)
(* byte.                                                                    *)
ReadFile(cur, off, n) ==
    LET c    == Chain(next, cur)
        eof  == off = D /\ Len(c) = 1
        from == IF off = D THEN Tail(c) ELSE c
        o    == off % D
        s    == BytesFrom(from, o)
        t    == SubSeq(s, 1, Min({n, Len(s)}))
    IN IF eof THEN [bytes |-> << >>, cur |-> cur]
       ELSE [bytes |-> t, cur |-> from[IF t = << >> THEN 1 ELSE (o + Len(t) - 1) \div D + 1]]

(* file_read, ramfs_file_read; the size left wraps if the position is past  *)
(* the end.                                                                 *)
Read(f, n) ==
    LET p     == desc[f].pos
        avail == IF p + n > size THEN (size - p) % WORD ELSE n
        r     == ReadFile(desc[f].cur, Offset(p), avail)
    IN /\ desc[f].open
       /\ "read" \in desc[f].mode
       /\ IF p = size
          THEN got' = << >> /\ UNCHANGED desc
          ELSE /\ got' = r.bytes
               /\ desc' = [desc EXCEPT ![f].pos = p + Len(r.bytes), ![f].cur = r.cur]
       /\ amiss' = Kinds("behind", p > size /\ p < Len(FileChain) * D)
       /\ UNCHANGED <<next, data, used, entry, size>>

-----------------------------------------------------------------------------
(* A write in progress: the links and bytes, the memory left and the        *)
(* datanode it has come to.                                                 *)
Begin(cur, room) ==
    [next |-> next, data |-> data, used |-> used, room |-> room, at |-> cur, ok |-> TRUE, cut |-> FALSE]

(* ramfs_allocate_datanodes(k), the result stored as the next of the        *)
(* datanode the write is at.                                                *)
Attach(w, k) ==
    LET free == Datanode \ w.used
        new  == CHOOSE s \in [1..k -> free] : \A i \in 1..k : \A d \in free :
                    d < s[i] => \E j \in 1..i - 1 : s[j] = d
        link == [d \in Datanode |->
                    IF d = w.at THEN new[1]
                    ELSE IF \E i \in 1..k : d = new[i]
                    THEN LET i == CHOOSE i \in 1..k : d = new[i]
                         IN IF i < k THEN new[i + 1] ELSE NULL
                    ELSE w.next[d]]
        over == [w EXCEPT !.cut = w.next[w.at] # NULL]
    IN IF k > w.room
       THEN [over EXCEPT !.ok = FALSE, !.next[w.at] = NULL]
       ELSE [over EXCEPT !.next = link, !.used = @ \cup {new[i] : i \in 1..k}, !.room = @ - k]

(* To the next datanode, which is allocated if there is none. *)
Advance(w) == IF w.ok THEN [w EXCEPT !.at = w.next[w.at]] ELSE w

StepOver(w) == Advance(IF w.next[w.at] = NULL THEN Attach(w, 1) ELSE w)

(* d with bytes t stored from offset off of the first datanode of c on. *)
Put(d, c, off, t) ==
    [e \in Datanode |->
        IF \E j \in 1..Len(c) : c[j] = e
        THEN LET j == CHOOSE j \in 1..Len(c) : c[j] = e
             IN [i \in 0..D - 1 |->
                    LET p == (j - 1) * D + i - off + 1
                    IN IF p \in 1..Len(t) THEN t[p] ELSE d[e][i]]
        ELSE d[e]]

(* The part of a text that fills the datanode the write starts in ... *)
HeadPart(off, t) == IF off = D THEN << >> ELSE SubSeq(t, 1, Min({Len(t), (D - off) % D}))

PutHead(w, off, t) ==
    IF w.ok /\ t # << >> THEN [w EXCEPT !.data = Put(@, <<w.at>>, off, t)] ELSE w

(* ... and the rest: as many datanodes as it fills are allocated behind the *)
(* one the write is at, whatever is there.                                  *)
MakeRoom(w, t) == IF w.ok /\ Len(t) >= D THEN Attach(w, Len(t) \div D) ELSE w

PutRest(w, t) ==
    IF w.ok /\ t # << >>
    THEN [w EXCEPT !.data = Put(@, Chain(w.next, w.at), 0, t),
                   !.at   = Chain(w.next, @)[(Len(t) - 1) \div D + 1]]
    ELSE w

(* write_file: head and rest from offset off of datanode cur on, with       *)
(* memory for room more.                                                    *)
WriteFile(cur, off, head, rest, room) ==
    LET start == IF off = D THEN StepOver(Begin(cur, room)) ELSE Begin(cur, room)
        go(w) == IF w.ok /\ head # << >> /\ rest # << >> THEN StepOver(w) ELSE w
    IN PutRest(MakeRoom(go(PutHead(start, off, head)), rest), rest)

(* ramfs_file_write: where a write starts *)
Target(f) ==
    IF "append" \in desc[f].mode
    THEN [pos |-> size, datanode |-> desc[f].last]
    ELSE [pos |-> desc[f].pos, datanode |-> desc[f].cur]

(* file_write *)
Write(f, t, room) ==
    LET append == "append" \in desc[f].mode
        p      == Target(f).pos
        cur    == Target(f).datanode
        head   == HeadPart(Offset(p), t)
        rest   == SubSeq(t, Len(head) + 1, Len(t))
    IN /\ desc[f].open
       /\ "write" \in desc[f].mode
       /\ \E w \in {WriteFile(cur, Offset(p), head, rest, room)} :
             /\ next' = w.next
             /\ data' = w.data
             /\ used' = w.used
             /\ size' = IF w.ok /\ p + Len(t) > size THEN p + Len(t) ELSE size
             /\ desc' = [desc EXCEPT
                   ![f].cur  = IF append THEN @ ELSE w.at,
                   ![f].last = IF append THEN w.at ELSE @,
                   ![f].pos  = IF w.ok THEN p + Len(t) ELSE @]
             /\ amiss' = Kinds("cut", w.cut)
                         \cup Kinds("failed", ~w.ok /\ w.at # cur)
                         \cup Kinds("stale", /\ Blocks(size') # Blocks(size)
                                            /\ \E g \in Fd \ {f} : "append" \in desc[g].mode)
       /\ got' = << >>
       /\ UNCHANGED entry

Next ==
    /\ amiss = {}
    /\ \/ \E f \in Fd, mode \in Modes : Open(f, mode)
       \/ \E f \in Fd : Close(f)
       \/ \E f \in Fd, s \in Seeks : Seek(f, s[1], s[2])
       \/ \E f \in Fd, n \in ReadSizes : Read(f, n)
       \/ \E f \in Fd, t \in Texts, room \in 0..Cardinality(Datanode \ used) : Write(f, t, room)

-----------------------------------------------------------------------------
(* Every datanode that is allocated for the file can be reached from its    *)
(* node.                                                                    *)
NoDatanodeLost == used = {FileChain[i] : i \in 1..Len(FileChain)}

(* The current datanode of a descriptor is the one that holds the byte      *)
(* before its position, and the last datanode of an appending one is where  *)
(* the file ends (file->ramfs.current_datanode, last_datanode).             *)
Holder(p) == IF Blocks(p) <= Len(FileChain) THEN FileChain[Blocks(p)] ELSE NULL

InPlace ==
    \A f \in Fd : desc[f].open =>
        IF "append" \in desc[f].mode THEN desc[f].last = Holder(size)
        ELSE desc[f].cur = Holder(desc[f].pos)

(* The size the next one who looks at the file sees. *)
Length == IF \E f \in Fd : desc[f].open THEN size ELSE entry

(* The file as an array of bytes. *)
Content ==
    LET c == FileChain
    IN [i \in 1..Length |-> IF (i - 1) \div D < Len(c) THEN data[c[(i - 1) \div D + 1]][(i - 1) % D]
                            ELSE Junk]

=============================================================================
