----------------------------- MODULE Fat32File ------------------------------
(***************************************************************************)
(* One file of a FAT32 partition and the descriptors open on it:           *)
(* read_file, write_file, fat32_file_seek_absolute, fat32_file_open and    *)
(* fat32_update_entry of kernel/src/filesystem/fat32.c, under file_open,   *)
(* file_seek, file_read and file_write of file_op.c and vfs_close.  The    *)
(* node's lock makes each call atomic.                                     *)
(*                                                                         *)
(* A file is a chain of clusters.  The node holds its size while somebody  *)
(* has it open; the directory entry holds it for the next one who opens    *)
(* it.  As in RamfsFile, amiss names what goes wrong in a call that does   *)
(* not do what its caller expects, and the behaviour ends with it; here    *)
(* are also                                                                *)
(*   split    a write from inside a cluster past its end puts the rest at  *)
(*            the beginning of the same cluster                            *)
(*   outside  a write takes a cluster that is not in the partition         *)
(***************************************************************************)
EXTENDS FatTable

CONSTANTS
    Fd,             \* descriptors
    Modes,          \* how callers open it: subsets of {"read", "write", "append"}
    Junk,           \* what a cluster holds that nobody wrote
    CLUSTER_SIZE,   \* bytes_per_sector * sectors_per_cluster
    ReadSizes,
    Texts,          \* what callers write
    Seeks           \* <<whence, offset>> that callers use

VARIABLES
    tab,       \* allocation table
    bytes,     \* bytes of each cluster
    entry,     \* size in the directory entry
    size,      \* size of the node
    desc,      \* descriptors: open, mode, position, current and last cluster
    got,       \* what the last call returned, if it was a read
    amiss      \* history: what went wrong in it

vars == <<tab, bytes, entry, size, desc, got, amiss>>

C == CLUSTER_SIZE
First == 2     \* the cluster fat32_node_create gives the file
NULL == 0

NoDesc == [open |-> FALSE, mode |-> {}, pos |-> 0, cur |-> NULL, last |-> NULL]

Init ==
    /\ tab = [fat  |-> [c \in Word |-> IF c = First THEN EOC ELSE FREE],
              hint |-> First, free |-> CLUSTERS - 1]
    /\ bytes = [c \in Word |-> [i \in 0..C - 1 |-> Junk]]
    /\ entry = 0
    /\ size = 0
    /\ desc = [f \in Fd |-> NoDesc]
    /\ got = << >>
    /\ amiss = {}

FileChain == ChainOf(tab.fat, First)

(* The number of clusters that hold n bytes. *)
Blocks(n) == IF n = 0 THEN 1 ELSE (n - 1) \div C + 1

Kinds(k, happens) == IF happens THEN {k} ELSE {}

-----------------------------------------------------------------------------
(* fat32_file_open *)
Opened(mode) ==
    [open |-> TRUE, mode |-> mode, pos |-> 0,
     cur  |-> IF mode \cap {"read", "write"} # {} THEN First ELSE NULL,
     last |-> IF "append" \in mode THEN LastOf(tab.fat, First) ELSE NULL]

(* vfs_open: the node is read from the directory if nobody has it. *)
Open(f, mode) ==
    /\ ~desc[f].open
    /\ desc' = [desc EXCEPT ![f] = Opened(mode)]
    /\ size' = IF \E g \in Fd : desc[g].open THEN size ELSE entry
    /\ amiss' = Kinds("spare", "append" \in mode /\ Len(FileChain) > Blocks(size'))
    /\ got' = << >>
    /\ UNCHANGED <<tab, bytes, entry>>

(* fat32_update_entry *)
Sync_never == entry     \* mutant: the directory entry is not written

Sync == size

(* vfs_close: the node is written back, and freed with its last descriptor. *)
Close(f) ==
    /\ desc[f].open
    /\ desc' = [desc EXCEPT ![f] = NoDesc]
    /\ entry' = Sync
    /\ got' = << >>
    /\ UNCHANGED <<tab, bytes, size, amiss>>

(* file_seek: the position asked for. *)
SeekTarget(f, whence, offset) ==
    LET q == CASE whence = "absolute" -> offset
               [] whence = "relative" -> desc[f].pos + offset
               [] whence = "bottom"   -> size
    IN IF q < 0 THEN 0 ELSE q

(* fat32_file_seek_absolute: forwards from the current cluster, which it    *)
(* takes to begin at the position rounded down, otherwise from the first    *)
(* one, until the cluster that ends at or behind q.                         *)
Walk(f, q) ==
    LET forward == desc[f].pos <= q
        base    == IF forward THEN desc[f].pos - (desc[f].pos % C) ELSE 0
    IN [chain |-> ChainOf(tab.fat, IF forward THEN desc[f].cur ELSE First),
        base  |-> base,
        steps |-> IF q <= base + C THEN 0 ELSE (q - base - 1) \div C]

Seek(f, whence, offset) ==
    LET q    == SeekTarget(f, whence, offset)
        p    == desc[f].pos
        w    == Walk(f, q)
        n    == Len(w.chain)
        past == w.steps >= n                  \* the chain ends before q
        kept == ~(past /\ w.base + (n + 1) * C < q)
        room == Len(FileChain) * C
    IN /\ desc[f].open
       /\ "append" \notin desc[f].mode
       /\ IF q = p THEN UNCHANGED <<desc, amiss>>
          ELSE /\ desc' = [desc EXCEPT
                     ![f].pos = IF kept THEN q ELSE size,
                     ![f].cur = w.chain[IF past THEN n ELSE w.steps + 1]]
               /\ amiss' = Kinds("ahead", q > p /\ p > 0 /\ p % C = 0 /\ q <= room)
                           \cup Kinds("past", q > room /\ kept)
                           \cup Kinds("spare", ~kept /\ Len(FileChain) > Blocks(size))
       /\ got' = << >>
       /\ UNCHANGED <<tab, bytes, entry, size>>

-----------------------------------------------------------------------------
(* Where a call at position p starts in its cluster: at the end of it, not  *)
(* at the beginning of the next, if p is a multiple of the size.            *)
Offset(p) == IF p # 0 /\ p % C = 0 THEN C ELSE p % C

BytesFrom(c, off) ==
    [i \in 1..Len(c) * C - off |->
        bytes[c[(off + i - 1) \div C + 1]][(off + i - 1) % C]]

(* read_file: at most n bytes; the cluster it ends in is that of the last   *)
(* byte.                                                                    *)
ReadFile(cur, off, n) ==
    LET c    == ChainOf(tab.fat, cur)
        from == IF off = C THEN Tail(c) ELSE c
        o    == off % C
        s    == BytesFrom(from, o)
        t    == SubSeq(s, 1, Min({n, Len(s)}))
    IN IF off = C /\ Len(c) = 1 THEN [bytes |-> << >>, cur |-> cur]        \* ERR_FS_EOF
       ELSE [bytes |-> t, cur |-> from[IF t = << >> THEN 1 ELSE (o + Len(t) - 1) \div C + 1]]

(* file_read, fat32_file_read; the size left wraps if the position is past  *)
(* the end.                                                                 *)
Read(f, n) ==
    LET p     == desc[f].pos
        avail == IF p + n > size THEN (size - p) % WORD ELSE n
        r     == ReadFile(desc[f].cur, Offset(p), avail)
    IN /\ desc[f].open
       /\ "read" \in desc[f].mode
       /\ IF p = size
          THEN got' = << >> /\ UNCHANGED desc
          ELSE /\ got' = r.bytes
               /\ desc' = [desc EXCEPT ![f].pos = p + Len(r.bytes), ![f].cur = r.cur]
       /\ amiss' = Kinds("behind", p > size /\ p < Len(FileChain) * C)
       /\ UNCHANGED <<tab, bytes, entry, size>>

-----------------------------------------------------------------------------
(* The first loop of write_file: over the end of a cluster, which is given  *)
(* a next one if it has none.                                               *)
StepOver(t, cur) ==
    [tab |-> IF t.fat[cur] = EOC THEN Expand(t, cur, 1) ELSE t,
     at  |-> IF t.fat[cur] = EOC THEN Found(t, 1)[1] ELSE t.fat[cur]]

(* The part of a text that goes into the cluster the write starts in ...    *)
HeadPart(off, t) == IF off % C = 0 THEN << >> ELSE SubSeq(t, 1, Min({Len(t), C - off}))

(* ... and the rest, which is written from the beginning of the same        *)
(* cluster on.  As many clusters as it fills are added behind that one,     *)
(* whatever is there.                                                       *)
MakeRoom(t, cur, n) == IF n \div C > 0 THEN Expand(t, cur, n \div C) ELSE t

PutHead(b, cur, off, t) ==
    [b EXCEPT ![cur] = [i \in 0..C - 1 |-> IF i - off + 1 \in 1..Len(t) THEN t[i - off + 1] ELSE @[i]]]

(* The last cluster is filled up with zeroes if the file ends in it. *)
PutRest(b, c, t, ends) ==
    [e \in Word |->
        IF \E j \in 1..(Len(t) + C - 1) \div C : c[j] = e
        THEN LET j == CHOOSE j \in 1..(Len(t) + C - 1) \div C : c[j] = e
             IN [i \in 0..C - 1 |->
                    LET p == (j - 1) * C + i + 1
                    IN IF p <= Len(t) THEN t[p] ELSE IF ends THEN 0 ELSE b[e][i]]
        ELSE b[e]]

(* write_file: where it starts, and what it leaves. *)
Started(cur, off) == IF off = C THEN StepOver(tab, cur) ELSE [tab |-> tab, at |-> cur]

Written(s, off, head, rest, ends) ==
    LET t == IF rest # << >> THEN MakeRoom(s.tab, s.at, Len(rest)) ELSE s.tab
        c == ChainOf(t.fat, s.at)
        b == IF head # << >> THEN PutHead(bytes, s.at, off, head) ELSE bytes
    IN [tab   |-> t,
        bytes |-> IF rest # << >> THEN PutRest(b, c, rest, ends) ELSE b,
        at    |-> IF rest # << >> THEN c[(Len(rest) - 1) \div C + 1] ELSE s.at]

(* file_write, fat32_file_write *)
Write(f, t) ==
    LET append == "append" \in desc[f].mode
        p      == IF append THEN size ELSE desc[f].pos
        cur    == IF append THEN desc[f].last ELSE desc[f].cur
        off    == Offset(p)
        head   == HeadPart(off, t)
        rest   == SubSeq(t, Len(head) + 1, Len(t))
    IN /\ desc[f].open
       /\ "write" \in desc[f].mode
       /\ \E s \in {Started(cur, off)} :
          \E w \in {Written(s, off % C, head, rest, p + Len(t) > size)} :
             /\ tab' = w.tab
             /\ bytes' = w.bytes
             /\ size' = IF p + Len(t) > size THEN p + Len(t) ELSE size
             /\ desc' = [desc EXCEPT
                   ![f].cur  = IF append THEN @ ELSE w.at,
                   ![f].last = IF append THEN w.at ELSE @,
                   ![f].pos  = p + Len(t)]
             /\ amiss' = Kinds("split", head # << >> /\ rest # << >>)
                         \cup Kinds("cut", Len(rest) >= C /\ s.tab.fat[s.at] # EOC)
                         \cup Kinds("outside", \E c \in Word \ Cluster : w.tab.fat[c] # FREE)
                         \cup Kinds("stale", /\ Blocks(size') # Blocks(size)
                                            /\ \E g \in Fd \ {f} : "append" \in desc[g].mode)
       /\ got' = << >>
       /\ UNCHANGED entry

Next ==
    /\ amiss = {}
    /\ \/ \E f \in Fd, mode \in Modes : Open(f, mode)
       \/ \E f \in Fd : Close(f)
       \/ \E f \in Fd, s \in Seeks : Seek(f, s[1], s[2])
       \/ \E f \in Fd, n \in ReadSizes : Read(f, n)
       \/ \E f \in Fd, t \in Texts : Write(f, t)

-----------------------------------------------------------------------------
(* Every cluster that is taken from the table belongs to the file.          *)
NoneLost == {c \in Word : tab.fat[c] # FREE} = ClustersOf(tab.fat, First)

Holder(p) == IF Blocks(p) <= Len(FileChain) THEN FileChain[Blocks(p)] ELSE NULL

InPlace ==
    \A f \in Fd : desc[f].open =>
        IF "append" \in desc[f].mode THEN desc[f].last = Holder(size)
        ELSE desc[f].cur = Holder(desc[f].pos)

(* The size the next one who looks at the file sees. *)
Length == IF \E f \in Fd : desc[f].open THEN size ELSE entry

Content ==
    LET c == FileChain
    IN [i \in 1..Length |-> IF (i - 1) \div C < Len(c) THEN bytes[c[(i - 1) \div C + 1]][(i - 1) % C]
                            ELSE Junk]

=============================================================================
