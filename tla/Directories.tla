----------------------------- MODULE Directories ----------------------------
(***************************************************************************)
(* The directory operations of kernel/src/filesystem/node_op.c, whichever  *)
(* driver the fs_t of a node names.  A behaviour uses one file system: the *)
(* other driver's variables keep their initial value.                      *)
(***************************************************************************)
EXTENDS Integers, Sequences, FiniteSets, TLC

CONSTANTS
    Name,                    \* names that callers use for files
    DirName,                 \* ... and for directories
    CLUSTERS,                \* clusters of the FAT32 partition
    BEHIND, WORD, Residents, Lfn, FatCalls,
    DIRECTORY_ENTRY_COUNT, CHAINS, ROOM, RamCalls

VARIABLES
    driver,                  \* node->fs->type
    tab, slots,              \* the FAT32 partition
    body, room,              \* the ramfs
    call, err, amiss, calls, tree

vars == <<driver, tab, slots, body, room, call, err, amiss, calls, tree>>

F == INSTANCE Fat32Dir WITH MAX_CALLS <- FatCalls

R == INSTANCE RamfsDir WITH MAX_CALLS <- RamCalls

NoTable == [fat |-> << >>, hint |-> 0, free |-> 0]

Init ==
    \/ driver = "fat32" /\ F!Init /\ body = << >> /\ room = 0
    \/ driver = "ramfs" /\ R!Init /\ tab = NoTable /\ slots = << >> /\ amiss = {}

Next ==
    \/ driver = "fat32" /\ F!Next /\ UNCHANGED <<driver, body, room>>
    \/ driver = "ramfs" /\ R!Next /\ UNCHANGED <<driver, tab, slots, amiss>>

Spec == Init /\ [][Next]_vars

(* What the callers of node_op.c see of a directory. *)
Seen ==
    [d \in DOMAIN tree |-> {[name |-> e.name, id |-> e.id, dir |-> e.dir] : e \in tree[d]}]

D == INSTANCE Directory WITH Root <- F!Root, tree <- Seen, damaged <- amiss \cap {"stale", "clobber"} # {}

-----------------------------------------------------------------------------
(* With either driver, create, mkdir, copy, move and remove act on a tree   *)
(* of names: the entry named in the call appears, moves or disappears where *)
(* the call says, no other one is lost or changed, and a call is refused    *)
(* for the reason it gives and changes nothing -- across clusters and       *)
(* datanodes that fill up, are added, given back and reused.  A call that   *)
(* is given a reused cluster, or leaves one deleted slot at the end of a    *)
(* cluster, spoils the directory it is about and no other                   *)
(* (fat32_add_entry, fat32_remove_entry, ramfs_add_entry,                   *)
(* ramfs_remove_entry and their fix_empty_entries).                         *)
IsDirectory == D!Spec

(* free_cluster_count is the number of free clusters of the partition less  *)
(* those taken behind it, after any sequence of calls.                      *)
FreeCountExact == driver = "fat32" => F!FreeCountExact

(* A search finds a free cluster of the partition as long as there is one,  *)
(* unless a chain was freed that runs downwards.                            *)
FreeIsFound == driver = "fat32" => F!FreeIsFound

(* No cluster is in two chains and no chain runs through a free cluster,    *)
(* unless a reused cluster brings old entries back.                         *)
ChainsDisjoint == driver = "fat32" => F!ChainsDisjoint

(* Every entry of a ramfs directory leads to memory still allocated, no two *)
(* to the same, and no entry hides behind an END_ENTRY.                     *)
EntriesLive == driver = "ramfs" => R!EntriesLive

(* Removing a directory is refused exactly when something is left in it,    *)
(* whatever was created, moved and removed in it before, unless its cluster *)
(* was reused.                                                              *)
EmptyIsSeen == IF driver = "fat32" THEN F!EmptyIsSeen ELSE R!EmptyIsSeen

=============================================================================
