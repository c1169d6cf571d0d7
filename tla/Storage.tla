------------------------------- MODULE Storage -------------------------------
(***************************************************************************)
(* The file systems as node_op.c and file_op.c offer them: the bytes of an *)
(* open file (Files) and the entries of directories (Directories), over    *)
(* the ramfs or over FAT32, and the names of FAT32 entries (FatNames).  A  *)
(* call works on one of them, under the lock of its node, so a behaviour   *)
(* exercises one of them.                                                  *)
(***************************************************************************)
EXTENDS Files, TLC

CONSTANTS
    Name, DirName, DIR_CLUSTERS, Residents, Lfn, FatCalls,                \* see Directories
    DIRECTORY_ENTRY_COUNT, CHAINS, ROOM, RamCalls,
    Char, LEN, Others, BASE, EXT, PIECE, FILENAME_LIMIT                   \* see FatNames

VARIABLES
    part,                       \* the part that this behaviour exercises
    table, slots, body, room, err, call, calls, tree, astray,
    name_slots, given

Entries == INSTANCE Directories WITH CLUSTERS <- DIR_CLUSTERS, tab <- table, amiss <- astray
Names == INSTANCE FatNames WITH slots <- name_slots

directoryVars == <<table, slots, body, room, err, call, calls, tree, astray>>
nameVars == <<name_slots, given>>
fileVars == <<ram, disk, entry, size, desc, got, amiss>>
storageVars == <<part, driver, fileVars, directoryVars, nameVars>>

(* An empty root directory, in behaviours of the other parts. *)
NoEntries ==
    /\ table = Entries!NoTable /\ slots = << >> /\ body = << >> /\ room = 0
    /\ call = Entries!F!Asked("none", Entries!F!Root, "", Entries!F!Root, "")
    /\ err = "ok" /\ astray = {} /\ calls = 0
    /\ tree = (Entries!F!Root :> {})

StorageInit ==
    /\ part \in {"files", "directories", "names"}
    /\ Init /\ Names!Init
    /\ IF part = "directories" THEN Entries!Init ELSE NoEntries
    /\ part = "names" => driver = "fat32"

FilesStep(A) == part = "files" /\ A /\ UNCHANGED <<part, directoryVars, nameVars>>
DirectoriesStep(A) == part = "directories" /\ A /\ UNCHANGED <<part, fileVars, nameVars>>
NamesStep(A) == part = "names" /\ A /\ UNCHANGED <<part, driver, fileVars, directoryVars>>

StorageNext == FilesStep(Next) \/ DirectoriesStep(Entries!Next) \/ NamesStep(Names!Next)

StorageSpec == StorageInit /\ [][StorageNext]_storageVars

-----------------------------------------------------------------------------
(* With either driver the calls act on a tree of names: see Directories. *)
IsDirectory == Entries!IsDirectory

(* The space of directories is accounted for, clusters taken behind the     *)
(* partition and reused ones included: the count of free clusters is exact, *)
(* a free cluster is found, no cluster is in two chains, entries of the     *)
(* ramfs lead to memory that is allocated, and a directory is removed       *)
(* exactly when it is empty: see Directories.                               *)
DirectoriesSound ==
    part = "directories" =>
        /\ Entries!FreeCountExact
        /\ Entries!FreeIsFound
        /\ Entries!ChainsDisjoint
        /\ Entries!EntriesLive
        /\ Entries!EmptyIsSeen

(* The datanodes or clusters of a file are all reached from its node, each  *)
(* descriptor is at the one that its position says, and a copy gets all of  *)
(* them, except where a call went amiss: see Files.                         *)
FileInPlace == part = "files" => NothingLost /\ CurrentHoldsPosition /\ CopiedWhole

(* Names and flags are read back as they were given exactly if they are     *)
(* Kept, and a name is refused exactly if it is listed, as long as the long *)
(* ones are Terminated: see FatNames.                                       *)
NamesFaithful == part = "names" => Names!NamesKept /\ Names!NamesDistinct
=============================================================================
