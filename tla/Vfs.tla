-------------------------------- MODULE Vfs ---------------------------------
(***************************************************************************)
(* The tree of nodes of the virtual file system and the descriptors that   *)
(* point into it: kernel/src/filesystem/vfs_op.c with process_delete of    *)
(* process/process.c, scheduler_syscall_spawn's redirection and the        *)
(* creation of named semaphores in semaphore.c.                            *)
(*                                                                         *)
(* A node (fs_node_t) stands for an entry of a file system while somebody  *)
(* uses it; it is made when a path leads to it and freed when its last     *)
(* descriptor is closed.  It has the name the directory has, which on a    *)
(* FAT32 partition may be spelt otherwise than the path.  Each call is     *)
(* atomic: the handlers run with interrupts disabled.  Every process has   *)
(* the root for its working directory.  Locks are in module Pipe.          *)
(***************************************************************************)
EXTENDS Integers, Sequences, FiniteSets, SequencesExt

CONSTANTS
    Process,
    Slot,            \* descriptor numbers: 1..MAX_FILE
    Node,            \* addresses kmalloc may give to a node
    Sem,             \* addresses kmalloc may give to a semaphore
    Name,            \* names of entries, and names in paths
    Fold(_),         \* a name in lower case
    Fat32,           \* names of the FAT32 partitions in the root directory
    Paths,           \* paths callers use: sequences of names, ".." among them
    Modes,           \* modes they open with: sets of flags
    SemPaths,        \* names of semaphores
    MountPairs,      \* <<target path, mount path>>
    MaxMounts,       \* bound on the mounts
    Entries,         \* entries of the file systems at first: absolute path -> kind
    MaxEntries,      \* bound on the entries created
    MAX_ALLOCATION,  \* nodes one search may make
    TakenNames       \* whether a process without a free descriptor creates semaphores
                     \* under names whose node is in the tree

NULL == 0
Root == 1

Kinds == {"file", "dir", "semaphore"}

ASSUME VfsAssumption ==
    /\ IsFiniteSet(Process) /\ IsFiniteSet(Slot) /\ Slot = 1..Cardinality(Slot) /\ 1 \in Slot
    /\ Root \in Node /\ Node \subseteq Nat \ {NULL} /\ IsFiniteSet(Node)
    /\ Sem \subseteq Nat \ {NULL}
    /\ \A m \in Modes : m \subseteq {"create", "exclusive", "onlydir"}
    /\ << >> \in DOMAIN Entries /\ Entries[<< >>] = "dir"
    /\ \A e \in DOMAIN Entries : Entries[e] \in Kinds
    /\ Paths \cup SemPaths \cup UNION {{m[1], m[2]} : m \in MountPairs} \subseteq Seq(Name)
    /\ MAX_ALLOCATION \in Nat /\ TakenNames \in BOOLEAN

VARIABLES
    disk,     \* entries of the file systems: absolute path -> kind, semaphore
    tree,     \* alloc: nodes in memory; node: their fields; kids: children in order
    sems,     \* semaphores in memory
    fd,       \* node of each descriptor, NULL if it is free
    mounts    \* history: target and mount point of each mount

vars == <<disk, tree, sems, fd, mounts>>

(* asked is a history: the names by which the searches reached the node. *)
NoNode ==
    [entry |-> << >>, asked |-> << >>, parent |-> NULL, refcount |-> 0, mount |-> NULL, sem |-> NULL]

(* The root is pinned by a reference count of its own. *)
Init ==
    /\ disk = [e \in DOMAIN Entries |-> [kind |-> Entries[e], sem |-> NULL]]
    /\ tree = [alloc |-> {Root},
               node  |-> [n \in Node |-> IF n = Root THEN [NoNode EXCEPT !.refcount = 1] ELSE NoNode],
               kids  |-> [n \in Node |-> << >>]]
    /\ sems = {}
    /\ fd = [p \in Process |-> [i \in Slot |-> NULL]]
    /\ mounts = << >>

IsDir(d, t, n) == d[t.node[n].entry].kind = "dir"

Lowest(S) == CHOOSE x \in S : \A y \in S : x <= y

-----------------------------------------------------------------------------
(* One search: s has the tree t, the node cur it has come to and its parent *)
(* par, the stack of nodes it made, and how it ended.                       *)

Link(t, n, e, asked, par, sem) ==
    [t EXCEPT !.node[n] = [NoNode EXCEPT !.entry = e, !.asked = asked, !.parent = par, !.sem = sem],
              !.kids[n] = << >>,
              !.kids[par] = Append(@, n)]

(* parent->fs->type == FS_FAT32 *)
OnFat32(dir) == dir # << >> /\ dir[1] \in Fat32

(* How node_find compares names: strcmp, or strcmp_case_insensitive. *)
Same(dir, a, b) == IF OnFat32(dir) THEN Fold(a) = Fold(b) ELSE a = b

Spellings(dir, name) == {a \in Name : Append(dir, a) \in DOMAIN disk /\ Same(dir, a, name)}

(* The node is not in the tree: look for it in the file system (node_find). *)
(* No two names of a directory are the same there: see FatNames.            *)
Discover(s, name, isLast, flags) ==
    LET free  == Node \ s.t.alloc
        n     == Lowest(free)
        dir   == s.t.node[s.par].entry
        spelt == Spellings(dir, name)
        e     == Append(dir, CHOOSE a \in spelt : TRUE)
        asked == Append(s.t.node[s.par].asked, name)
        made  == [s EXCEPT !.t.alloc = @ \cup {n}, !.stack = Append(@, n),
                          !.t.node[n] = NoNode, !.t.kids[n] = << >>]
    IN IF Len(s.stack) >= MAX_ALLOCATION THEN [s EXCEPT !.end = "depth"]
       ELSE IF free = {} THEN [s EXCEPT !.end = "error"]
       ELSE IF ~IsDir(disk, s.t, s.par) THEN [made EXCEPT !.end = "error"]
       ELSE IF spelt = {}
       THEN [made EXCEPT !.end = IF isLast /\ "create" \in flags /\ "onlydir" \notin flags
                                 THEN "create" ELSE "error"]
       ELSE IF "exclusive" \in flags /\ isLast THEN [made EXCEPT !.end = "error"]
       ELSE [made EXCEPT !.t = Link(made.t, n, e, asked, s.par, disk[e].sem), !.cur = n]

(* A mount point leads to its target. *)
Redirect(s) ==
    IF s.end = "no" /\ s.t.node[s.cur].mount # NULL
    THEN [s EXCEPT !.cur = s.t.node[s.cur].mount] ELSE s

(* The places in the list of n's children that have the name, spelt as it   *)
(* is asked for.                                                            *)
Cached(t, n, name) == {i \in 1..Len(t.kids[n]) : Last(t.node[t.kids[n][i]].entry) = name}

(* One token of the path. *)
Step(s, name, isLast, flags) ==
    LET up    == s.t.node[s.cur].parent
        above == s.t.node[up].parent
        named == Cached(s.t, s.cur, name)
        down  == [s EXCEPT !.par = s.cur]
    IN IF s.end # "no" THEN s
       ELSE Redirect(
            IF name = ".."
            THEN IF up = NULL THEN s
                 ELSE [s EXCEPT !.cur = up, !.par = IF above = NULL THEN up ELSE above]
            ELSE IF named # {} THEN [down EXCEPT !.cur = s.t.kids[s.cur][Lowest(named)]]
            ELSE Discover(down, name, isLast, flags))

Search(t, path, flags) ==
    LET upto[i \in 0..Len(path)] ==
            IF i = 0 THEN [t |-> t, cur |-> Root, par |-> Root, stack |-> << >>, end |-> "no"]
            ELSE Step(upto[i - 1], path[i], i = Len(path), flags)
    IN upto[Len(path)]

(* A list of children without those in gone. *)
Unlinked(q, gone) ==
    LET upto[i \in 0..Len(q)] ==
            IF i = 0 THEN << >>
            ELSE IF q[i] \in gone THEN upto[i - 1] ELSE Append(upto[i - 1], q[i])
    IN upto[Len(q)]

(* nuke_search_stack_and_ret: the first node the search made is unlinked    *)
(* and all of them are freed.                                               *)
Nuke_noUnlink(s) ==     \* mutant: nothing is unlinked
    [s.t EXCEPT !.alloc = @ \ {s.stack[i] : i \in 1..Len(s.stack)}]

Nuke(s) ==
    LET first == s.stack[1]
        par   == s.t.node[first].parent
        t     == IF par = NULL THEN s.t ELSE [s.t EXCEPT !.kids[par] = Unlinked(@, {first})]
    IN IF s.stack = << >> THEN s.t
       ELSE [t EXCEPT !.alloc = @ \ {s.stack[i] : i \in 1..Len(s.stack)}]

(* The tail of vfs_find_and_create_node: the file system makes the entry    *)
(* (made says whether it could) and its node.  Only the ramfs has           *)
(* semaphores.                                                              *)
Create(s, name, kind, made) ==
    LET free == Node \ s.t.alloc
        n    == Lowest(free)
        dir  == s.t.node[s.par].entry
        e    == Append(dir, name)
    IN IF free = {} \/ ~made \/ (kind = "semaphore" /\ OnFat32(dir))
       THEN [t |-> Nuke(s), disk |-> disk, ret |-> NULL]
       ELSE [t    |-> Link([s.t EXCEPT !.alloc = @ \cup {n}], n, e,
                          Append(s.t.node[s.par].asked, name), s.par, NULL),
             disk |-> [x \in DOMAIN disk \cup {e} |->
                          IF x = e THEN [kind |-> kind, sem |-> NULL] ELSE disk[x]],
             ret  |-> n]

(* How a search ends; ret is NULL if it fails. *)
Ended(s, name, kind, made) ==
    IF s.end = "create" THEN Create(s, name, kind, made)
    ELSE [t    |-> IF s.end = "error" THEN Nuke(s) ELSE s.t,
          disk |-> disk,
          ret  |-> IF s.end = "no" THEN s.cur ELSE NULL]

OnlyDir(s, f, flags) ==
    IF f.ret # NULL /\ "onlydir" \in flags /\ ~IsDir(f.disk, f.t, f.ret)
    THEN [f EXCEPT !.t = Nuke(s), !.ret = NULL] ELSE f

(* vfs_find_and_create_node *)
FindAndCreateNode(t, path, flags, kind, made) ==
    LET conclude(s) == OnlyDir(s, Ended(s, Last(path), kind, made), flags)
    IN conclude(Search(t, path, flags))

(* Only when the entry is new does made matter. *)
Outcomes == IF Cardinality(DOMAIN disk) < MaxEntries THEN BOOLEAN ELSE {FALSE}

-----------------------------------------------------------------------------
(* vfs_cleanup_node_tree: node n goes if nobody uses it, then its parent if *)
(* that has no other child, and so on.                                      *)
Unused_keepParents(t, n) ==     \* mutant: parents stay
    IF t.node[n].refcount = 0 /\ t.kids[n] = << >> THEN {n} ELSE {}

(* n, its parent, the parent of that: no more than its path has names. *)
Upwards(t, n) ==
    LET at[k \in 0..Len(t.node[n].entry)] ==
            IF k = 0 THEN n ELSE IF at[k - 1] = NULL THEN NULL ELSE t.node[at[k - 1]].parent
    IN at

Unused_siblings(t, n) ==     \* mutant: the other children of a parent are not looked at
    LET at == Upwards(t, n)
        goes(i) == at[i] # NULL /\ t.node[at[i]].refcount = 0
    IN {at[k] : k \in {k \in DOMAIN at : \A i \in 0..k : goes(i)}}

Unused(t, n) ==
    LET at == Upwards(t, n)
        goes(i) == /\ at[i] # NULL
                   /\ t.node[at[i]].refcount = 0
                   /\ t.kids[at[i]] = IF i = 0 THEN << >> ELSE <<at[i - 1]>>
    IN {at[k] : k \in {k \in DOMAIN at : \A i \in 0..k : goes(i)}}

(* unlink_and_free_node, for the nodes in gone. *)
Without(t, gone) ==
    [t EXCEPT !.alloc = @ \ gone,
              !.kids  = [n \in Node |-> Unlinked(@[n], gone)]]

SemsOf(t, gone) == {t.node[n].sem : n \in {n \in gone : disk[t.node[n].entry].kind = "semaphore"}}

(* node_sync: what is in the node goes to the entry. *)
Sync(d, t, n) == [d EXCEPT ![t.node[n].entry].sem = t.node[n].sem]

(* One descriptor on node n is closed, in vfs_close and process_delete. *)
Drop(d, t, n) ==
    LET free(u, gone) == [disk |-> Sync(d, t, n), t |-> Without(u, gone), sems |-> SemsOf(u, gone)]
        less          == [t EXCEPT !.node[n].refcount = @ - 1]
    IN free(less, Unused(less, n))

Pin_forgotten(nodes, n) == nodes     \* mutant

Pin(nodes, n) == [nodes EXCEPT ![n].refcount = @ + 1]

FileCount(p) == Cardinality({i \in Slot : fd[p][i] # NULL})
FreeSlot(p) == Lowest({i \in Slot : fd[p][i] = NULL})

-----------------------------------------------------------------------------
(* vfs_open *)
Open(p, path, flags) ==
    /\ FileCount(p) < Cardinality(Slot)
    /\ \E made \in Outcomes : \E f \in {FindAndCreateNode(tree, path, flags, "file", made)} :
          /\ disk' = f.disk
          /\ IF f.ret = NULL
             THEN tree' = f.t /\ UNCHANGED fd
             ELSE /\ tree' = [f.t EXCEPT !.node = Pin(@, f.ret)]
                  /\ fd' = [fd EXCEPT ![p][FreeSlot(p)] = f.ret]
    /\ UNCHANGED <<sems, mounts>>

(* vfs_close *)
Close(p, i) ==
    /\ fd[p][i] # NULL
    /\ fd' = [fd EXCEPT ![p][i] = NULL]
    /\ \E r \in {Drop(disk, tree, fd[p][i])} :
          /\ disk' = r.disk
          /\ tree' = r.t
          /\ sems' = sems \ r.sems
    /\ UNCHANGED mounts

(* process_delete: the descriptors are closed one after the other. *)
Delete(p) ==
    LET drop(r, n) == [Drop(r.disk, r.t, n) EXCEPT !.sems = @ \cup r.sems]
        done[k \in 0..Cardinality(Slot)] ==
            IF k = 0 THEN [disk |-> disk, t |-> tree, sems |-> {}]
            ELSE IF fd[p][k] = NULL THEN done[k - 1] ELSE drop(done[k - 1], fd[p][k])
    IN /\ FileCount(p) > 0
       /\ fd' = [fd EXCEPT ![p] = [i \in Slot |-> NULL]]
       /\ \E end \in {done[Cardinality(Slot)]} :
             /\ disk' = end.disk
             /\ tree' = end.t
             /\ sems' = sems \ end.sems
       /\ UNCHANGED mounts

(* scheduler_syscall_spawn: the new process q gets the file its parent      *)
(* names as descriptor 1, or its parent's.  (Descriptor 2 is given in the   *)
(* same way, after a search of its own.)  If scheduler_spawn fails the node *)
(* stays as the search left it.                                             *)
Spawn(p, q, path) ==
    /\ FileCount(q) = 0
    /\ p # q
    /\ \E f \in {FindAndCreateNode(tree, path, {}, "file", FALSE)}, spawned \in BOOLEAN :
          IF f.ret = NULL \/ ~spawned
          THEN tree' = f.t /\ UNCHANGED fd
          ELSE /\ tree' = [f.t EXCEPT !.node = Pin(@, f.ret)]
               /\ fd' = [fd EXCEPT ![q][1] = f.ret]
    /\ UNCHANGED <<disk, sems, mounts>>

SpawnInherit(p, q) ==
    /\ FileCount(q) = 0
    /\ p # q
    /\ fd[p][1] # NULL
    /\ tree' = [tree EXCEPT !.node = Pin(@, fd[p][1])]
    /\ fd' = [fd EXCEPT ![q][1] = fd[p][1]]
    /\ UNCHANGED <<disk, sems, mounts>>

(* vfs_remove_node refuses a directory with entries. *)
HasEntries(d, e) == \E x \in DOMAIN d : x # << >> /\ Front(x) = e

(* semaphore_syscall_create: when there is no free descriptor the entry is  *)
(* removed again and its node freed.  That the node may be one that others  *)
(* use happens with TakenNames only.                                        *)
SemaphoreCreate(p, path) ==
    LET sem  == Lowest(Sem \ sems)
        full == FileCount(p) = Cardinality(Slot)
    IN /\ Sem \ sems # {}
       /\ \E made \in Outcomes :
             \E f \in {FindAndCreateNode(tree, path, {"create", "exclusive"}, "semaphore", made)} :
                LET n == f.ret
                    t == [f.t EXCEPT !.node[n].sem = sem]
                    e == f.t.node[n].entry
                IN /\ full /\ n \in tree.alloc => TakenNames
                   /\ IF n = NULL
                      THEN tree' = f.t /\ disk' = f.disk /\ UNCHANGED <<sems, fd>>
                      ELSE IF full /\ ~HasEntries(f.disk, e)
                      THEN /\ tree' = Without(t, {n})
                           /\ disk' = [x \in DOMAIN f.disk \ {e} |-> f.disk[x]]
                           /\ UNCHANGED <<sems, fd>>
                      ELSE /\ tree' = IF full THEN t ELSE [t EXCEPT !.node = Pin(@, n)]
                           /\ fd' = IF full THEN fd ELSE [fd EXCEPT ![p][FreeSlot(p)] = n]
                           /\ disk' = Sync(f.disk, t, n)
                           /\ sems' = sems \cup {sem}
       /\ UNCHANGED mounts

(* vfs_mount: both nodes are pinned for good. *)
Mount(target, point) ==
    /\ Len(mounts) < MaxMounts
    /\ \E made \in Outcomes :
       \E a \in {FindAndCreateNode(tree, target, {}, "file", FALSE)} :
       \E b \in {FindAndCreateNode(a.t, point, {"create"}, "dir", made)} :
          IF a.ret = NULL
          THEN tree' = a.t /\ UNCHANGED <<disk, mounts>>
          ELSE IF b.ret = NULL \/ ~IsDir(b.disk, b.t, b.ret)
          THEN tree' = b.t /\ disk' = b.disk /\ UNCHANGED mounts
          ELSE /\ tree' = [b.t EXCEPT !.node = Pin(Pin([@ EXCEPT ![b.ret].mount = a.ret], a.ret), b.ret)]
               /\ disk' = b.disk
               /\ mounts' = Append(mounts, <<a.ret, b.ret>>)
    /\ UNCHANGED <<sems, fd>>

Next ==
    \/ \E p \in Process, path \in Paths, flags \in Modes : Open(p, path, flags)
    \/ \E p \in Process, i \in Slot : Close(p, i)
    \/ \E p \in Process : Delete(p)
    \/ \E p, q \in Process, path \in Paths : Spawn(p, q, path)
    \/ \E p, q \in Process : SpawnInherit(p, q)
    \/ \E p \in Process, path \in SemPaths : SemaphoreCreate(p, path)
    \/ \E m \in MountPairs : Mount(m[1], m[2])

Spec == Init /\ [][Next]_vars

-----------------------------------------------------------------------------
(* Every variable has its type. *)
TypeOK ==
    /\ \A e \in DOMAIN disk : disk[e] \in [kind : Kinds, sem : Sem \cup {NULL}]
    /\ tree.alloc \subseteq Node
    /\ \A n \in Node :
          /\ tree.node[n].entry \in Seq(Name) /\ tree.node[n].asked \in Seq(Name)
          /\ tree.node[n].parent \in Node \cup {NULL}
          /\ tree.node[n].refcount \in Nat
          /\ tree.node[n].mount \in Node \cup {NULL}
          /\ tree.node[n].sem \in Sem \cup {NULL}
    /\ sems \subseteq Sem
    /\ fd \in [Process -> [Slot -> Node \cup {NULL}]]

Kids(n) == {tree.kids[n][i] : i \in 1..Len(tree.kids[n])}

Linked == {Root} \cup UNION {Kids(n) : n \in tree.alloc}

(* A node that was reached by the names its directories have. *)
AsSpelt(n) == tree.node[n].asked = tree.node[n].entry

(* Two descriptors on one file share its node, so its size and its lock: no *)
(* entry has two nodes in the tree, except that on a FAT32 partition a path *)
(* that spells a name in another case may lead to another node each time    *)
(* (node_find does not look at the case, the search of the tree before it   *)
(* does).                                                                   *)
OneNodePerEntry ==
    \A m, n \in Linked : tree.node[m].entry = tree.node[n].entry =>
        \/ m = n
        \/ OnFat32(tree.node[m].entry) /\ ~(AsSpelt(m) /\ AsSpelt(n))

(* Every pointer of the tree leads to a node in memory, children and parent *)
(* agree, no node is linked twice ("now the whole search stack is unlinked  *)
(* from the vfs tree", vfs_find_and_create_node), and no entry has two      *)
(* unless a path spells it otherwise than its FAT32 directory does.         *)
TreeSound ==
    /\ OneNodePerEntry
    /\ \A n \in tree.alloc :
        /\ \A c \in Kids(n) : c \in tree.alloc /\ tree.node[c].parent = n
        /\ Cardinality(Kids(n)) = Len(tree.kids[n])
        /\ tree.node[n].parent # NULL => tree.node[n].parent \in tree.alloc
        /\ tree.node[n].mount # NULL => tree.node[n].mount \in tree.alloc

(* A node that a descriptor points to is in memory and in the tree, however *)
(* many others have opened, closed, exited or failed meanwhile              *)
(* (vfs_cleanup_node_tree).                                                 *)
DescriptorsLive ==
    \A p \in Process, i \in Slot : fd[p][i] # NULL =>
        /\ fd[p][i] \in tree.alloc
        /\ fd[p][i] # Root =>
              /\ tree.node[fd[p][i]].parent \in tree.alloc
              /\ fd[p][i] \in Kids(tree.node[fd[p][i]].parent)

(* A reference count is the number of descriptors and mounts that use the   *)
(* node: none is forgotten, none is given back twice.                       *)
RefcountIsExact ==
    \A n \in tree.alloc \ {Root} :
        tree.node[n].refcount =
            Cardinality({u \in Process \X Slot : fd[u[1]][u[2]] = n})
            + Cardinality({u \in (1..Len(mounts)) \X {1, 2} : mounts[u[1]][u[2]] = n})

InUse(n) == tree.node[n].refcount > 0 \/ tree.kids[n] # << >>

(* "unused node clean up": a node of the tree that is in use, or that leads *)
(* to one, does not become an unused one: the step that takes its last use  *)
(* away frees it and, upwards, the parents kept for it alone (vfs_close,    *)
(* process_delete, a failed creation).                                      *)
NothingLeftUnused ==
    [][\A n \in Linked : InUse(n) /\ n \in tree'.alloc => InUse(n)']_vars

(* FILE_OPEN_EXCLUSIVE, "yield error when the file is existed": creating a  *)
(* semaphore never takes the place of one that exists.                      *)
SemaphoresNamed == \A s \in sems : \E n \in tree.alloc : tree.node[n].sem = s

(* A semaphore that a node in memory leads to is in memory ("sync the flags *)
(* and pointer down to the ramfs structure").                               *)
SemaphoresLive ==
    \A n \in tree.alloc : tree.node[n].sem # NULL => tree.node[n].sem \in sems
=============================================================================
