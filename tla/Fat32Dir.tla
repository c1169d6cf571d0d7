------------------------------ MODULE Fat32Dir ------------------------------
(***************************************************************************)
(* The directories of a FAT32 partition: fat32_iterate_directory,          *)
(* fat32_add_entry, fat32_remove_entry and what calls them, in             *)
(* kernel/src/filesystem/fat32.c.  One driver call is one step: the        *)
(* callers hold the kernel (system calls run with interrupts off).         *)
(*                                                                         *)
(* A directory is a chain of clusters of 16 slots of 32 bytes.  An entry   *)
(* is a short-name slot behind the slots that hold its long name.  The     *)
(* first byte of a slot says that nothing follows (0x00) or that it is     *)
(* deleted (0xe5); only that byte is ever cleared.  A cluster that is      *)
(* freed keeps what it holds, entries or the bytes of a file.              *)
(*                                                                         *)
(* Some calls do what their caller does not expect.  Each is a step with   *)
(* all that the code does in it; amiss names what went wrong, and the      *)
(* behaviour is not followed any further:                                  *)
(*   stale    a directory shows what the cluster it was given held before  *)
(*   clobber  a cluster of a directory is written over another one         *)
(*   hidden   a free cluster is left below the hint                        *)
(*   outside  a cluster is taken that is not in the partition              *)
(***************************************************************************)
EXTENDS FatTable, TLC

CONSTANTS
    Name,        \* names that callers use for files
    DirName,     \* ... and for directories
    Residents,   \* names of the files that are there already, in order
    Lfn,         \* number of long-name slots of each name
    MAX_CALLS    \* bound on the length of a behaviour

VARIABLES
    tab,         \* allocation table
    slots,       \* slots of each cluster
    call,        \* history: the last call and its arguments
    err,         \* what it returned
    amiss,       \* history: what went wrong in it
    calls,       \* number of calls so far
    tree         \* the directories and their entries, as they are listed

vars == <<tab, slots, call, err, amiss, calls, tree>>

(* cluster_size / sizeof(fat_directory_entry_t), for clusters of one sector *)
ENTRIES == 16
Root == 2                        \* rootdir_cluster
Dots == {".", ".."}

END == [k |-> "end"]             \* 0x00
DEL == [k |-> "del"]             \* 0xe5
LongSlot(n, i) == [k |-> "lfn", name |-> n, order |-> i]
ShortSlot(n, c, dir) == [k |-> "sfn", name |-> n, start |-> c, dir |-> dir]

(* What the bytes of a file are when they are read as a slot. *)
DATA == ShortSlot("data", FREE, FALSE)

(* A driver call in progress. *)
Disk(t, s) == [tab |-> t, slots |-> s, err |-> "ok", amiss |-> {}]

Amiss(w, kind, happens) == IF happens THEN [w EXCEPT !.amiss = @ \cup {kind}] ELSE w

Fail(w, e) == IF w.err = "ok" THEN [w EXCEPT !.err = e] ELSE w

-----------------------------------------------------------------------------
(* The slots of the directory that starts at cluster d, from 0 on.          *)
SlotsAlong(s, ch) == [p \in 0..Len(ch) * ENTRIES - 1 |-> s[ch[p \div ENTRIES + 1]][p % ENTRIES]]

DirSlots(w, d) == SlotsAlong(w.slots, ChainOf(w.tab.fat, d))

(* The first slot with nothing behind it. *)
EndOf(s) == Min({p \in DOMAIN s : s[p] = END} \cup {Cardinality(DOMAIN s)})

(* An entry has its long name if all its pieces are in front of it.         *)
(* (process_lfn_entry, process_sfn_entry)                                   *)
NameAt(s, p) ==
    IF \A i \in 1..Lfn[s[p].name] : p - i \in DOMAIN s /\ s[p - i] = LongSlot(s[p].name, i)
    THEN s[p].name ELSE "short name"

(* fat32_iterate_directory until ERR_FS_EOF. *)
ListSlots(s) ==
    {[name |-> NameAt(s, p), id |-> s[p].start, dir |-> s[p].dir, at |-> p] :
        p \in {q \in 0..EndOf(s) - 1 : s[q].k = "sfn"}}

Listing(w, d) == ListSlots(DirSlots(w, d))

-----------------------------------------------------------------------------
Zero == [i \in 0..ENTRIES - 1 |-> END]
Filled == [i \in 0..ENTRIES - 1 |-> DATA]

(* fat32_allocate_clusters and expand_cluster_chain for a call. *)
Leaves(w, n) == \E i \in 1..n : Found(w.tab, n)[i] \notin Cluster

Take(w, n) == Amiss([w EXCEPT !.tab = Allocate(@, n)], "outside", Leaves(w, n))

Grow(w, c, n) == Amiss([w EXCEPT !.tab = Expand(@, c, n)], "outside", Leaves(w, n))

(* free_cluster_chain for a call. *)
Release(w, c) == Amiss([w EXCEPT !.tab = FreeChain(@, c)], "hidden", Hides(w.tab, c))

(* fat32_add_entry finds no slot with 0x00 in the last cluster. *)
NewCluster(w, d, p) ==
    IF p = Len(ChainOf(w.tab.fat, d)) * ENTRIES THEN Grow(w, LastOf(w.tab.fat, d), 1) ELSE w

(* The clusters fat32_add_entry adds in advance for an entry at slot p: one *)
(* too many if the entry fills the cluster.  With 16 entries the unsigned   *)
(* difference does not wrap.                                                *)
Estimated(n, p) == (Lfn[n] - (ENTRIES - (p % ENTRIES)) + 17) \div ENTRIES

Reserve_none(w, d, p, n) == w     \* mutant: the entry has to fit

(* The clusters are to be cleared, and are not: the one the entry does not  *)
(* reach shows what it held.                                                *)
Reserve(w, d, p, n) ==
    LET k     == Estimated(n, p)
        extra == (p % ENTRIES) + Lfn[n] + 1 = k * ENTRIES
    IN IF k = 0 THEN w
       ELSE Amiss(Grow(w, ChainOf(w.tab.fat, d)[p \div ENTRIES + 1], k),
                  "stale", extra /\ w.slots[Found(w.tab, k)[k]][0] # END)

(* The slots of an entry from slot p on; what is behind them in the last    *)
(* cluster they reach is cleared.                                           *)
PutEntry(w, d, p, n, start, dir) ==
    LET last == p + Lfn[n]
        ch   == ChainOf(w.tab.fat, d)
        Put(j) == [i \in 0..ENTRIES - 1 |->
                     LET q == (j - 1) * ENTRIES + i
                     IN CASE q < p    -> w.slots[ch[j]][i]
                          [] q > last -> END
                          [] q = last -> ShortSlot(n, start, dir)
                          [] OTHER    -> LongSlot(n, last - q)]
        Touched == {j \in 1..Len(ch) : j - 1 \in (p \div ENTRIES)..(last \div ENTRIES)}
    IN [w EXCEPT !.slots = [c \in Word |->
          IF \E j \in Touched : ch[j] = c
          THEN Put(CHOOSE j \in Touched : ch[j] = c) ELSE @[c]]]

(* fat32_add_entry *)
AddEntry(w, d, n, start, dir) ==
    IF w.err # "ok" THEN w
    ELSE IF \E e \in Listing(w, d) : e.name = n THEN Fail(w, "existed")
    ELSE LET p == EndOf(DirSlots(w, d))
         IN PutEntry(Reserve(NewCluster(w, d, p), d, p, n), d, p, n, start, dir)

-----------------------------------------------------------------------------
(* A cluster of slots with the 0x00 and 0xe5 at its end all 0x00. *)
Trimmed(s) ==
    [i \in 0..ENTRIES - 1 |->
        IF \A j \in i..ENTRIES - 1 : s[j] \in {END, DEL} THEN END ELSE s[i]]

(* fix_empty_entries: the deleted slots in front of the first 0x00 are      *)
(* turned into 0x00, and the clusters behind them freed.  What it calls     *)
(* cluster_count is the number of those slots.  If there is only one, the   *)
(* cluster it writes back is the one it read last.                          *)
FixEmptyEntries(w, d, end) ==
    LET ch   == ChainOf(w.tab.fat, d)
        s    == DirSlots(w, d)
        q    == EndOf(s)
        run  == {p \in 0..q - 1 : \A r \in p..q - 1 : s[r] = DEL}
        c    == ch[Min(run) \div ENTRIES + 1]       \* trash_start_cluster
        last == ch[q \div ENTRIES + 1]              \* current_cluster
        many == Cardinality(run) > 1                \* cluster_count > 1
        passed == \E i \in 1..Len(ch) : ch[i] = end /\ i < q \div ENTRIES + 1
    IN IF passed \/ q = Cardinality(DOMAIN s) \/ run = {} THEN w
       ELSE IF many
       THEN Amiss([w EXCEPT !.tab = CutChain(@, c), !.slots[c] = Trimmed(@)],
                  "hidden", Hides(w.tab, w.tab.fat[c]))
       ELSE Amiss([w EXCEPT !.slots[c] = Trimmed(w.slots[last])], "clobber", last # c)

(* The check of fat32_remove_entry that a directory is empty looks at its   *)
(* first cluster.                                                           *)
LooksEmpty(w, c) ==
    \A i \in 0..ENTRIES - 1 :
        (\A j \in 0..i : w.slots[c][j] # END) =>
            w.slots[c][i].k = "sfn" /\ w.slots[c][i].name \in Dots

(* The value the slots of a removed entry get: 0x00 if nothing follows. *)
ClearVal(w, d, p) ==
    LET s == DirSlots(w, d)
    IN IF p + 1 \notin DOMAIN s \/ s[p + 1] = END THEN END ELSE DEL

(* The directory slots of entry e of d are cleared; the long-name slots may *)
(* begin in the cluster before, and the cluster that then has nothing left  *)
(* is freed instead of written.                                             *)
ClearSlots(w, d, e, val) ==
    LET ch    == ChainOf(w.tab.fat, d)
        j     == e.at \div ENTRIES + 1
        first == e.at - Lfn[e.name]
        back  == first < (j - 1) * ENTRIES
        Cleared(x) == [i \in 0..ENTRIES - 1 |->
                         IF (x - 1) * ENTRIES + i \in first..e.at THEN val ELSE w.slots[ch[x]][i]]
        cur   == IF val = DEL \/ ~back THEN [w.slots EXCEPT ![ch[j]] = Cleared(j)] ELSE w.slots
    IN IF ~back THEN [w EXCEPT !.slots = cur]
       ELSE [(IF val = END THEN [Release(w, ch[j]) EXCEPT !.tab.fat[ch[j - 1]] = EOC] ELSE w)
               EXCEPT !.slots = [cur EXCEPT ![ch[j - 1]] = Cleared(j - 1)]]

(* fat32_remove_entry *)
RemoveEntry(w, d, e, content) ==
    LET val   == ClearVal(w, d, e.at)
        at    == ChainOf(w.tab.fat, d)[e.at \div ENTRIES + 1]
        freed == IF content THEN Release(w, e.id) ELSE w
        clear == ClearSlots(freed, d, e, val)
    IN IF w.err # "ok" THEN w
       ELSE IF e.dir /\ content /\ ~LooksEmpty(w, e.id) THEN Fail(w, "not empty")
       ELSE IF val = END THEN FixEmptyEntries(clear, d, at) ELSE clear

-----------------------------------------------------------------------------
(* The cluster a new entry gets. *)
Fresh(w) == Found(w.tab, 1)[1]

(* fat32_node_create *)
CreateCall(w, d, n) == AddEntry(Take(w, 1), d, n, Fresh(w), FALSE)

(* fat32_mkdir: the cluster is to be cleared, and is not. *)
MkdirCall(w, d, n) ==
    LET made == AddEntry(Take(w, 1), d, n, Fresh(w), TRUE)
        seen == Amiss(made, "stale", made.err = "ok" /\ w.slots[Fresh(w)][0] # END)
    IN AddEntry(AddEntry(seen, Fresh(w), ".", Fresh(w), TRUE), Fresh(w), "..", d, TRUE)

(* fat32_node_copy, with what the clusters hold. *)
CopyCall(w, e, d, n) ==
    LET from == ChainOf(w.tab.fat, e.id)
        t    == CopyChain(w.tab, Len(from))
        to   == ChainOf(t.fat, Fresh(w))
        copied == [w EXCEPT
                     !.tab   = t,
                     !.slots = [c \in Word |->
                        IF \E i \in 1..Len(to) : to[i] = c
                        THEN w.slots[from[CHOOSE i \in 1..Len(to) : to[i] = c]] ELSE @[c]]]
    IN AddEntry(Amiss(copied, "outside", Leaves(w, Len(from))), d, n, Fresh(w), FALSE)

(* write_file, of a whole cluster: another one is added (see Fat32File). *)
WriteCall(w, e) == [Grow(w, e.id, 1) EXCEPT !.slots[e.id] = Filled]

MoveCall_frees(w, d, e, d2, n) ==     \* mutant: the contents go with the old entry
    RemoveEntry(AddEntry(w, d2, n, e.id, e.dir), d, e, TRUE)

(* fat32_node_move *)
MoveCall(w, d, e, d2, n) ==
    RemoveEntry(AddEntry(w, d2, n, e.id, e.dir), d, e, FALSE)

-----------------------------------------------------------------------------
Now == Disk(tab, slots)

(* What a walk through the directories shows, "." and ".." left out: the    *)
(* root directory and those in it, where all are made.                      *)
Visible(w, d) == {e \in Listing(w, d) : e.name \notin Dots}

Walked(w) ==
    LET sub == {e.id : e \in {x \in Visible(w, Root) : x.dir}}
    IN [d \in {Root} \cup sub |-> Visible(w, d)]

Dirs == DOMAIN tree

Asked(op, d, n, d2, n2) == [op |-> op, dir |-> d, name |-> n, to |-> d2, new |-> n2]

Call(asked, w) ==
    /\ calls' = calls + 1
    /\ call' = asked
    /\ tab' = w.tab
    /\ slots' = w.slots
    /\ err' = w.err
    /\ amiss' = w.amiss
    /\ tree' = Walked(w)

Create(d, n) ==
    \E w \in {CreateCall(Now, d, n)} : Call(Asked("create", d, n, d, n), w)

Mkdir(n) ==
    \E w \in {MkdirCall(Now, Root, n)} : Call(Asked("mkdir", Root, n, Root, n), w)

Remove(d, e) ==
    \E w \in {RemoveEntry(Now, d, e, TRUE)} : Call(Asked("remove", d, e.name, d, e.name), w)

(* Nothing keeps a caller from moving a directory into itself; callers here *)
(* move files.                                                              *)
Move(d, e, d2, n) ==
    ~e.dir /\ \E w \in {MoveCall(Now, d, e, d2, n)} : Call(Asked("move", d, e.name, d2, n), w)

(* node_copy *)
Copy(d, e, d2, n) ==
    ~e.dir /\ \E w \in {CopyCall(Now, e, d2, n)} : Call(Asked("copy", d, e.name, d2, n), w)

(* fat32_file_write, the first one to a file *)
Write(d, e) ==
    /\ ~e.dir
    /\ tab.fat[e.id] = EOC
    /\ \E w \in {WriteCall(Now, e)} : Call(Asked("write", d, e.name, d, e.name), w)

(* A partition as it is left by whoever made it, and the residents. *)
Blank ==
    Disk([fat  |-> [c \in Word |-> IF c = Root THEN EOC ELSE FREE],
          hint |-> Root, free |-> CLUSTERS - 1],
         [c \in Word |-> IF c \in Cluster THEN Zero ELSE Filled])

Populated ==
    LET with[k \in 0..Len(Residents)] ==
            IF k = 0 THEN Blank
            ELSE CHOOSE w \in {CreateCall(v, Root, Residents[k]) : v \in {with[k - 1]}} : TRUE
    IN with[Len(Residents)]

Init ==
    \E w \in {Populated} :
        /\ tab = w.tab
        /\ slots = w.slots
        /\ call = Asked("none", Root, "", Root, "")
        /\ err = "ok"
        /\ amiss = {}
        /\ calls = 0
        /\ tree = Walked(w)

Next ==
    /\ amiss = {}
    /\ calls < MAX_CALLS
    /\ \/ \E n \in DirName : Mkdir(n)
       \/ \E d \in Dirs, n \in Name : Create(d, n)
       \/ \E d \in Dirs : \E e \in {x \in tree[d] : x.name \in Name \cup DirName} :
             \/ Remove(d, e)
             \/ Write(d, e)
             \/ \E d2 \in Dirs, n \in Name : Move(d, e, d2, n) \/ Copy(d, e, d2, n)

-----------------------------------------------------------------------------
Owned(d) == ClustersOf(tab.fat, d)

Files == UNION {{e.id : e \in tree[d]} : d \in Dirs}

(* free_cluster_count is the number of free clusters less those taken       *)
(* behind the partition, after any sequence of calls.                       *)
Outside == {c \in Word \ Cluster : tab.fat[c] # FREE}

FreeCountExact == tab.free = (CountFree(tab.fat) - Cardinality(Outside)) % WORD

(* The search finds a free cluster of the partition as long as there is     *)
(* one: none is below the hint, unless a chain was freed that runs          *)
(* downwards, and none is taken behind the partition before it is full.     *)
FreeIsFound ==
    /\ (\A c \in Cluster : tab.fat[c] = FREE => c >= tab.hint) <=> "hidden" \notin amiss
    /\ Outside # {} <=> "outside" \in amiss
    /\ tab.hint \notin Cluster => CountFree(tab.fat) = 0 \/ "hidden" \in amiss

(* No cluster is in two chains, and no chain runs through a free cluster:   *)
(* what one entry names is never given to another, unless it is an entry    *)
(* that a reused cluster brought back.                                      *)
ChainsDisjoint ==
    "stale" \notin amiss =>
        /\ MapThenSumSet(LAMBDA x : Cardinality(Owned(x)), Dirs \cup Files) =
              Cardinality(UNION {Owned(x) : x \in Dirs \cup Files})
        /\ \A x \in Dirs \cup Files : \A c \in Owned(x) : tab.fat[c] \in Word \cup {EOC}

(* fat32_remove_entry takes a directory for empty exactly when it is,       *)
(* whatever was created, moved and removed in it before, unless its cluster *)
(* was reused.                                                              *)
EmptyIsSeen ==
    "stale" \notin amiss =>
        \A d \in Dirs \ {Root} : LooksEmpty(Now, d) <=> tree[d] = {}

=============================================================================
