------------------------------ MODULE RamfsDir ------------------------------
(***************************************************************************)
(* The directories of the ramfs: ramfs_iterate_directory, ramfs_add_entry, *)
(* ramfs_remove_entry and what calls them, in kernel/src/filesystem/       *)
(* ramfs.c.  One driver call is one step: the callers hold the kernel.     *)
(*                                                                         *)
(* A directory is a chain of datanodes of DIRECTORY_ENTRY_COUNT entries.   *)
(* An entry is the address of a ramnode, END_ENTRY or EMPTY_ENTRY; here it *)
(* is the ramnode itself.  A chain is known by its first datanode.  All of *)
(* it comes from one heap, whose free blocks are counted; a block nobody   *)
(* frees (the datanode of a call that finds its name taken, the ramnodes   *)
(* of "." and ".." of a removed directory) stays taken.                    *)
(***************************************************************************)
EXTENDS Integers, Sequences, FiniteSets, FiniteSetsExt, TLC

CONSTANTS
    Name,                    \* names that callers use for files
    DirName,                 \* ... and for directories
    DIRECTORY_ENTRY_COUNT,
    CHAINS,                  \* number of chains the model can name
    ROOM,                    \* blocks the heap has
    MAX_CALLS                \* bound on the length of a behaviour

VARIABLES
    body,      \* body[c]: the datanodes of chain c, of entries if it is a directory
    room,      \* free blocks of the heap
    call,      \* history: the last call and its arguments
    err,       \* what it returned
    calls,     \* number of calls so far
    tree       \* the directories and their entries, as they are listed

vars == <<body, room, call, err, calls, tree>>

E == DIRECTORY_ENTRY_COUNT
Root == 2                    \* rootnode's chain, with the number it has on a partition
Dots == {".", ".."}

END == [k |-> "end"]         \* END_ENTRY
EMPTY == [k |-> "empty"]     \* EMPTY_ENTRY
Ramnode(n, kind, c) == [k |-> "node", name |-> n, kind |-> kind, chain |-> c]

Blank == [i \in 1..E |-> END]       \* a datanode after memset
FileBody == << << >> >>             \* one datanode; its bytes are RamfsFile's

(* A driver call in progress. *)
Heap(b, r) == [body |-> b, room |-> r, err |-> "ok"]

Fail(w, e) == IF w.err = "ok" THEN [w EXCEPT !.err = e] ELSE w

-----------------------------------------------------------------------------
(* The entries of a datanode a loop over it sees: those in front of the     *)
(* first END_ENTRY.                                                         *)
Seen(s) == {i \in 1..E : \A j \in 1..i : s[j] # END}

(* to_fs_node, for the ramnode of the entry at p *)
ToFsNode(r, p) ==
    [name |-> r.name, id |-> r.chain, dir |-> r.kind = "dir", kind |-> r.kind, at |-> p]

(* ramfs_iterate_directory until ERR_FS_EOF: it stops at the first          *)
(* END_ENTRY of the chain.                                                  *)
Listing(w, d) ==
    LET b == w.body[d]
        reached == {<<j, i>> \in (1..Len(b)) \X (1..E) :
                       i \in Seen(b[j]) /\ \A h \in 1..j - 1 : Seen(b[h]) = 1..E}
    IN {ToFsNode(b[p[1]][p[2]], p) : p \in {q \in reached : b[q[1]][q[2]] # EMPTY}}

(* Where ramfs_add_entry puts an entry: the first END_ENTRY or EMPTY_ENTRY. *)
Precedes(p, q) == p[1] < q[1] \/ (p[1] = q[1] /\ p[2] < q[2])

Spot(b) ==
    LET vacant == {<<j, i>> \in (1..Len(b)) \X (1..E) : b[j][i] \in {END, EMPTY}}
    IN CHOOSE p \in vacant : \A q \in vacant \ {p} : Precedes(p, q)

(* The entry stored; the END_ENTRY it replaces moves on, into a new datanode *)
(* if it was the last entry of one.                                          *)
PutEntry(w, d, p, r) ==
    LET b   == w.body[d]
        put == [w EXCEPT !.body[d][p[1]][p[2]] = r]
    IN IF b[p[1]][p[2]] = EMPTY THEN put
       ELSE IF p[2] < E THEN [put EXCEPT !.body[d][p[1]][p[2] + 1] = END]
       ELSE IF w.room = 0 THEN Fail([w EXCEPT !.room = @ + 1], "no space")
       ELSE [put EXCEPT !.body[d] = Append(@, Blank), !.room = @ - 1]

(* ramfs_add_entry *)
AddEntry(w, d, n, kind, c) ==
    IF w.err # "ok" THEN w
    ELSE IF \E j \in 1..Len(w.body[d]) : \E i \in Seen(w.body[d][j]) :
               w.body[d][j][i] # EMPTY /\ w.body[d][j][i].name = n
         THEN Fail(w, "existed")
    ELSE IF w.room = 0 THEN Fail(w, "no space")      \* create_new_node
    ELSE PutEntry([w EXCEPT !.room = @ - 1], d, Spot(w.body[d]), Ramnode(n, kind, c))

-----------------------------------------------------------------------------
(* fix_empty_entries: the EMPTY_ENTRYs in front of the first END_ENTRY      *)
(* become END_ENTRYs, and the datanodes behind them are freed.              *)
FixEmptyEntries(w, d) ==
    LET b    == w.body[d]
        At(q) == b[((q - 1) \div E) + 1][((q - 1) % E) + 1]
        ends == {q \in 1..Len(b) * E : At(q) = END}
        stop == IF ends = {} THEN Len(b) * E + 1 ELSE Min(ends)
        run  == {q \in 1..stop - 1 : \A r \in q..stop - 1 : At(r) = EMPTY}
        j    == ((Min(run) - 1) \div E) + 1                     \* start_node
        i    == ((Min(run) - 1) % E) + 1                        \* first_empty_entry_id
    IN IF run = {} THEN w
       ELSE [w EXCEPT
               !.body[d] = [h \in 1..j |-> IF h < j THEN @[h]
                                           ELSE [x \in 1..E |-> IF x < i THEN @[j][x] ELSE END]],
               !.room    = @ + (Len(b) - j)]

(* The entry at p is taken out of directory d. *)
ClearEntry(w, d, p) ==
    LET s    == w.body[d][p[1]]
        Set(v) == [w EXCEPT !.body[d][p[1]][p[2]] = v]
    IN IF p[2] = E THEN FixEmptyEntries(Set(EMPTY), d)
       ELSE IF s[p[2] + 1] # END THEN Set(EMPTY)
       ELSE IF p[2] = 1 THEN FixEmptyEntries(Set(END), d)
       ELSE IF s[p[2] - 1] = EMPTY THEN FixEmptyEntries(Set(END), d)
       ELSE Set(END)

(* The check of ramfs_remove_entry that a directory is empty. *)
LooksEmpty(w, d) ==
    \A j \in 1..Len(w.body[d]) : \A i \in Seen(w.body[d][j]) :
        w.body[d][j][i] # EMPTY /\ w.body[d][j][i].name \in Dots

(* remove_datanode_chain *)
FreeChain(w, c) ==
    [w EXCEPT !.room = @ + Len(w.body[c]),
              !.body = [x \in DOMAIN @ \ {c} |-> @[x]]]

(* ramfs_remove_entry *)
RemoveEntry(w, d, e, content) ==
    IF w.err # "ok" THEN w
    ELSE IF e.dir /\ content /\ ~LooksEmpty(w, e.id) THEN Fail(w, "not empty")
    ELSE LET v == IF content /\ e.kind # "memory" THEN FreeChain(w, e.id) ELSE w
         IN ClearEntry([v EXCEPT !.room = @ + 1], d, e.at)

-----------------------------------------------------------------------------
(* ramfs_allocate_datanodes(1), and the chain it gives. *)
Fresh(w) == Min((Root..Root + CHAINS) \ DOMAIN w.body)

Got(w, contents) ==
    IF w.room = 0 THEN Fail(w, "no space")
    ELSE [w EXCEPT !.room = @ - 1, !.body = @ @@ (Fresh(w) :> contents)]

(* ramfs_node_create, ramfs_create_special_node: a file or a pipe *)
CreateCall(w, d, n, kind) == AddEntry(Got(w, FileBody), d, n, kind, Fresh(w))

(* ramfs_add_memory_entry: the memory, at address a, is the caller's. *)
MemoryCall(w, d, n, a) == AddEntry(w, d, n, "memory", a)

(* ramfs_mkdir *)
MkdirCall(w, d, n) ==
    AddEntry(AddEntry(AddEntry(Got(w, <<Blank>>), d, n, "dir", Fresh(w)),
                      Fresh(w), ".", "dir", Fresh(w)),
             Fresh(w), "..", "dir", d)

(* ramfs_node_copy, copy_datanode_chain *)
CopyCall(w, d, n) == AddEntry(Got(w, FileBody), d, n, "file", Fresh(w))

(* ramfs_node_move *)
MoveCall(w, d, e, d2, n) ==
    RemoveEntry(AddEntry(w, d2, n, e.kind, e.id), d, e, FALSE)

-----------------------------------------------------------------------------
Now == Heap(body, room)

Visible(w, d) == {e \in Listing(w, d) : e.name \notin Dots}

SubDirs(w, S) == S \cup {e.id : e \in UNION {{x \in Visible(w, d) : x.dir} : d \in S}}

Walked(w) == [d \in SubDirs(w, SubDirs(w, {Root})) |-> Visible(w, d)]

Dirs == DOMAIN tree

Asked(op, d, n, d2, n2) == [op |-> op, dir |-> d, name |-> n, to |-> d2, new |-> n2]

Call(asked, w) ==
    /\ calls < MAX_CALLS
    /\ calls' = calls + 1
    /\ call' = asked
    /\ body' = w.body
    /\ room' = w.room
    /\ err' = w.err
    /\ tree' = Walked(w)

Create(d, n, kind) ==
    \E w \in {CreateCall(Now, d, n, kind)} : Call(Asked("create", d, n, d, n), w)

(* Every caller has memory of its own. *)
Attach(d, n) ==
    \E w \in {MemoryCall(Now, d, n, -(calls + 1))} : Call(Asked("create", d, n, d, n), w)

Mkdir(n) ==
    \E w \in {MkdirCall(Now, Root, n)} : Call(Asked("mkdir", Root, n, Root, n), w)

Remove(d, e) ==
    \E w \in {RemoveEntry(Now, d, e, TRUE)} : Call(Asked("remove", d, e.name, d, e.name), w)

(* Callers move files: nothing would keep a directory out of itself. *)
Move(d, e, d2, n) ==
    ~e.dir /\ \E w \in {MoveCall(Now, d, e, d2, n)} : Call(Asked("move", d, e.name, d2, n), w)

Copy(d, e, d2, n) ==
    /\ e.kind = "file"
    /\ \E w \in {CopyCall(Now, d2, n)} : Call(Asked("copy", d, e.name, d2, n), w)

Init ==
    /\ body = (Root :> <<Blank>>)
    /\ room = ROOM
    /\ call = Asked("none", Root, "", Root, "")
    /\ err = "ok"
    /\ calls = 0
    /\ tree = (Root :> {})

Next ==
    \/ \E n \in DirName : Mkdir(n)
    \/ \E d \in Dirs, n \in Name : Attach(d, n) \/ \E kind \in {"file", "pipe"} : Create(d, n, kind)
    \/ \E d \in Dirs : \E e \in tree[d] :
          \/ Remove(d, e)
          \/ \E d2 \in Dirs, n \in Name : Move(d, e, d2, n) \/ Copy(d, e, d2, n)

-----------------------------------------------------------------------------
Kept == {e.id : e \in UNION {{x \in tree[d] : x.kind # "memory"} : d \in Dirs}}

(* Every entry leads to memory that is still allocated, no two to the same, *)
(* and no datanode of a directory hides behind an END_ENTRY.                *)
EntriesLive ==
    /\ Kept \subseteq DOMAIN body
    /\ \A d, d2 \in Dirs : \A x \in tree[d], y \in tree[d2] :
          x.id = y.id => x = y /\ d = d2
    /\ \A d \in Dirs : \A j \in 1..Len(body[d]) - 1 : Seen(body[d][j]) = 1..E

EmptyIsSeen == \A d \in Dirs \ {Root} : LooksEmpty(Now, d) <=> tree[d] = {}

=============================================================================
