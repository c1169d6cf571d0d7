------------------------------- MODULE Files --------------------------------
(***************************************************************************)
(* An open file as kernel/src/filesystem/file_op.c offers it, whichever    *)
(* driver the fs_t of its node names, and the copies node_op.c makes of a  *)
(* file of one file system in another.  A behaviour uses one file; the     *)
(* other driver's variables keep their initial value.                      *)
(***************************************************************************)
EXTENDS Integers, Sequences, FiniteSets

CONSTANTS
    Fd, Modes, Junk, ReadSizes, Seeks,
    RamTexts, Datanode, RAMFS_DATANODE_SIZE, WORD,
    FatTexts, CLUSTERS, BEHIND, CLUSTER_SIZE,
    UNIVERSAL_COPY_SIZE

ASSUME FilesAssumption ==
    /\ RAMFS_DATANODE_SIZE \in Nat \ {0} /\ CLUSTER_SIZE \in Nat \ {0} /\ CLUSTERS \in Nat \ {0}
    /\ UNIVERSAL_COPY_SIZE \in Nat \ {0}
    /\ IsFiniteSet(Datanode) /\ Datanode \subseteq Nat \ {0} /\ 1 \in Datanode
    /\ Modes \subseteq SUBSET {"read", "write", "append"}
    /\ ReadSizes \subseteq Nat \ {0}
    /\ BEHIND \in Nat /\ BEHIND >= 4        \* no call takes more clusters
    /\ Seeks \subseteq {"absolute", "relative", "bottom"} \X Int
    /\ WORD \in Nat \ {0} /\ WORD > RAMFS_DATANODE_SIZE * Cardinality(Datanode)

VARIABLES
    driver,                   \* node->fs->type
    next, data, used,         \* the datanodes of the ramfs
    tab, bytes,               \* the clusters of the partition
    entry, size, desc, got, amiss

ram == <<next, data, used>>
disk == <<tab, bytes>>
vars == <<driver, ram, disk, entry, size, desc, got, amiss>>

R == INSTANCE RamfsFile WITH Texts <- RamTexts

C == INSTANCE Fat32File WITH Texts <- FatTexts

Init ==
    \/ driver = "ramfs" /\ R!Init /\ tab = << >> /\ bytes = << >>
    \/ driver = "fat32" /\ C!Init /\ next = << >> /\ data = << >> /\ used = {}

Next ==
    \/ driver = "ramfs" /\ R!Next /\ UNCHANGED <<driver, disk>>
    \/ driver = "fat32" /\ C!Next /\ UNCHANGED <<driver, ram>>

Spec == Init /\ [][Next]_vars

-----------------------------------------------------------------------------
Content == IF driver = "ramfs" THEN R!Content ELSE C!Content

Texts == IF driver = "ramfs" THEN RamTexts ELSE FatTexts

Block == IF driver = "ramfs" THEN RAMFS_DATANODE_SIZE ELSE CLUSTER_SIZE

F == INSTANCE ByteFile WITH
        content <- Content,
        pos     <- [f \in Fd |-> desc[f].pos],
        Byte    <- Nat

WritesAt(f) == IF "append" \in desc[f].mode THEN size ELSE desc[f].pos

LostBehind(p) == IF "cut" \in amiss' THEN p + 1..size' ELSE {}

(* The bytes that a write of t at p may spoil: from the beginning of the    *)
(* cluster it starts in if it runs over the end of that cluster, and those  *)
(* behind it if it loses the rest of the chain.                             *)
Spoiled(t, p) ==
    (IF "split" \in amiss' THEN p - (p % Block) + 1..p + Len(t) ELSE {})
    \cup LostBehind(p + Len(t))

(* Descriptors on one file share an array of bytes: what is read is what    *)
(* was last written there, whichever descriptor wrote it, also after all    *)
(* have closed the file and opened it again, and a call that fails moves    *)
(* nothing.  A write that goes amiss spoils the bytes of Spoiled and no     *)
(* others, and only a position behind the end that a seek has kept reads    *)
(* bytes that are not the file's (file_open, file_read, file_write,         *)
(* file_seek, vfs_close, over the ramfs or FAT32).                          *)
IsByteFile ==
    F!Init /\ [][\/ \E f \in Fd : F!Open(f)
                 \/ \E f \in Fd, s \in Seeks : F!Seek(f, R!SeekTarget(f, s[1], s[2]))
                 \/ \E f \in Fd, n \in ReadSizes : F!Read(f, n)
                 \/ \E f \in Fd : "behind" \in amiss' /\ F!ReadBehind(f)
                 \/ \E f \in Fd, t \in Texts :
                       \/ F!Write(f, t, WritesAt(f), Spoiled(t, WritesAt(f)))
                       \/ driver = "ramfs" /\ F!Fail(f, t, WritesAt(f), LostBehind(WritesAt(f)))]_F!vars

(* Every datanode or cluster taken for the file can be reached from its     *)
(* node exactly as long as no write has made room behind a block that had   *)
(* a next one; and a cluster behind the partition is taken only when the    *)
(* partition is full (write_file).                                          *)
NothingLost ==
    /\ (IF driver = "ramfs" THEN R!NoDatanodeLost ELSE C!NoneLost) <=> "cut" \notin amiss
    /\ "outside" \in amiss => C!CountFree(tab.fat) = 0

(* The current datanode or cluster of a descriptor is the one that holds    *)
(* the byte before its position, and the last one of an appending           *)
(* descriptor is where the file ends, whoever has read, written, sought or  *)
(* failed to since -- except after the six kinds of calls of Astray, after  *)
(* which it never is (file->ramfs, file->fat32).                            *)
Astray == {"spare", "stale", "ahead", "past", "split", "failed"}

CurrentHoldsPosition ==
    LET right == IF driver = "ramfs" THEN R!InPlace ELSE C!InPlace
    IN /\ amiss \cap Astray # {} => ~right
       /\ amiss \cap Astray = {} /\ "cut" \notin amiss => right

-----------------------------------------------------------------------------
(* ramfs_universal_copy: what the new file gets of one in the ramfs, whose  *)
(* datanodes are written one after the other, the last one as far as the    *)
(* size says.                                                               *)
D == RAMFS_DATANODE_SIZE

Part(i) == LET n == Len(R!FileChain) IN IF i < n THEN D ELSE entry % D

RamfsUniversalCopy ==
    LET c == R!FileChain
        upto[i \in 0..Len(c)] ==
            IF i = 0 THEN << >> ELSE upto[i - 1] \o [k \in 1..Part(i) |-> data[c[i]][k - 1]]
    IN upto[Len(c)]

(* universal_copy: a file of the partition is read in pieces, by the calls  *)
(* any descriptor makes.                                                    *)
CopyLoop(total) ==
    LET n == (total + UNIVERSAL_COPY_SIZE - 1) \div UNIVERSAL_COPY_SIZE
        after[i \in 0..n] ==
            IF i = 0 THEN [cur |-> C!First, out |-> << >>]
            ELSE LET p == Len(after[i - 1].out)
                     r == C!ReadFile(after[i - 1].cur, C!Offset(p), F!Least(UNIVERSAL_COPY_SIZE, total - p))
                 IN [cur |-> r.cur, out |-> after[i - 1].out \o r.bytes]
    IN after[n]

UniversalCopy == CopyLoop(entry).out

(* A file of the partition that nobody has open is copied whole into        *)
(* another file system.  One of the ramfs is exactly if its last datanode   *)
(* is not full: one that ends with a full datanode has to have a spare one  *)
(* (universal_copy, ramfs_universal_copy).                                  *)
CopiedWhole ==
    (\A f \in Fd : ~desc[f].open) =>
        IF driver = "fat32" THEN UniversalCopy = Content
        ELSE RamfsUniversalCopy = Content <=> entry = 0 \/ Len(R!FileChain) = (entry \div D) + 1

=============================================================================
