----------------------------- MODULE VfsProofs ------------------------------
(***************************************************************************)
(* Proofs about Vfs, for any file systems, processes, descriptor tables,   *)
(* paths, searches of any length and any number of mounts, where paths     *)
(* have no ".." (PlainPaths) and no process without a free descriptor      *)
(* creates a semaphore whose node is in the tree (~TakenNames).  Without   *)
(* either hypothesis TLC finds a violation.                                *)
(*                                                                         *)
(* VfsInv is inductive.  TreeInv says that the nodes reached from the root *)
(* are a tree whose paths grow by a name from parent to child, in which an *)
(* entry has one node for the names it has (and more for other spellings   *)
(* of them, on a FAT32 partition only), and UseInv that descriptors and    *)
(* mounts are on nodes of it and counted.  A node that a failed search has *)
(* left behind (alloc, but no parent and no children) is in memory and not *)
(* in the tree.  A search only adds to the tree (Extends) or takes its own *)
(* nodes away again; the clean-up takes nodes away that nobody uses, with  *)
(* all their children (Idle).                                              *)
(***************************************************************************)
EXTENDS Vfs, DataLemmas

(* No path has ".." in it. *)
PlainPaths ==
    \A path \in Paths \cup SemPaths \cup UNION {{m[1], m[2]} : m \in MountPairs} :
        \A i \in 1..Len(path) : path[i] # ".."

-----------------------------------------------------------------------------
(* The inductive invariant: what a tree is, and how descriptors and mounts  *)
(* use it.  Its parts take the tree, the descriptors and the mounts as      *)
(* parameters, for the trees in the middle of a search or of a deletion.    *)

Names == Seq(Name)

NodeType == [entry : Names, asked : Names, parent : Node \cup {NULL}, refcount : Nat,
             mount : Node \cup {NULL}, sem : Sem \cup {NULL}]

TreeType == [alloc : SUBSET Node, node : [Node -> NodeType], kids : [Node -> Seq(Node)]]

KidsOf(t, n) == Range(t.kids[n])

(* n has been reached from the root. *)
InTree(t, n) == n \in t.alloc /\ (n = Root \/ t.node[n].parent # NULL)

(* The root. *)
RootInv(t) ==
    Root \in t.alloc /\ t.node[Root].entry = << >> /\ t.node[Root].parent = NULL

Longer(e, longer) == \E name \in Name : longer = Append(e, name)

(* The children of a node know it, and their paths are one name longer. *)
KidsInv(t) ==
    \A n \in t.alloc :
        /\ IsInjective(t.kids[n])
        /\ \A c \in KidsOf(t, n) :
              /\ c \in t.alloc
              /\ t.node[c].parent = n
              /\ Longer(t.node[n].entry, t.node[c].entry)

(* A node is a child of its parent, or the search that made it has leaked it. *)
ParentInv(t) ==
    \A n \in t.alloc \ {Root} :
        IF t.node[n].parent = NULL THEN t.kids[n] = << >>
        ELSE t.node[n].parent \in t.alloc /\ n \in KidsOf(t, t.node[n].parent)

(* The names by which a node was reached are those of its parent and one    *)
(* more.  Only on a FAT32 partition are they spelt otherwise than its entry. *)
AskedInv(t) ==
    /\ t.node[Root].asked = << >>
    /\ \A n \in t.alloc : \A c \in KidsOf(t, n) : Longer(t.node[n].asked, t.node[c].asked)
    /\ \A n \in t.alloc : InTree(t, n) =>
          t.node[n].asked = t.node[n].entry \/ OnFat32(t.node[n].entry)

(* No entry has two nodes that were reached by the names it has. *)
EntryInv(t) ==
    \A m, n \in t.alloc :
        /\ InTree(t, m) /\ InTree(t, n) /\ t.node[m].entry = t.node[n].entry
        /\ t.node[m].asked = t.node[m].entry /\ t.node[n].asked = t.node[n].entry
        => m = n

(* A mount point leads to a node of the tree. *)
MountInv(t) ==
    \A n \in t.alloc : t.node[n].mount # NULL => InTree(t, t.node[n].mount)

TreeInv(t) ==
    /\ t \in TreeType /\ RootInv(t) /\ KidsInv(t) /\ ParentInv(t)
    /\ AskedInv(t) /\ EntryInv(t) /\ MountInv(t)

FdUses(f, n) == {u \in Process \X Slot : f[u[1]][u[2]] = n}

MountUses(m, n) == {u \in (1..Len(m)) \X {1, 2} : m[u[1]][u[2]] = n}

Uses(f, m, n) ==
    Cardinality(FdUses(f, n)) + Cardinality(MountUses(m, n)) + (IF n = Root THEN 1 ELSE 0)

(* Descriptors and mounts are on nodes of the tree, and counted. *)
UseInv(t, f, m) ==
    /\ f \in [Process -> [Slot -> Node \cup {NULL}]]
    /\ m \in Seq(Node \X Node)
    /\ \A p \in Process, i \in Slot : f[p][i] # NULL => InTree(t, f[p][i])
    /\ \A k \in 1..Len(m) : InTree(t, m[k][1]) /\ InTree(t, m[k][2])
    /\ \A n \in t.alloc : t.node[n].refcount = Uses(f, m, n)
    /\ \A n \in t.alloc : t.node[n].mount # NULL => \E k \in 1..Len(m) : t.node[n].mount = m[k][1]

DiskType(d) == d \in [DOMAIN d -> [kind : Kinds, sem : Sem \cup {NULL}]]

VfsInv == DiskType(disk) /\ TreeInv(tree) /\ UseInv(tree, fd, mounts) /\ sems \subseteq Sem

(* The lowest of some numbers is one of them. *)
LEMMA LowestIn ==
    ASSUME NEW S \in SUBSET Nat, S # {}
    PROVE  Lowest(S) \in S
<1>1. \E x \in S : \A y \in S : x <= y
  BY LeastNat
<1> QED
  BY <1>1 DEF Lowest

(* A list of children with some unlinked is a list of children. *)
LEMMA UnlinkedType ==
    ASSUME NEW S, NEW q \in Seq(S), NEW gone
    PROVE  Unlinked(q, gone) \in Seq(S)
<1> DEFINE h == CHOOSE g : IsUnlinking(g, q, gone)
<1>1. Unlinked(q, gone) = h[Len(q)]
  BY Zenon DEF Unlinked, IsUnlinking
<1>2. IsUnlinking(h, q, gone)
  BY UnlinkingExists
<1> HIDE DEF h
<1> QED
  BY <1>1, <1>2, UnlinkingType

(* What a list without gone contains. *)
LEMMA UnlinkedProperties ==
    ASSUME NEW S, NEW q \in Seq(S), IsInjective(q), NEW gone
    PROVE  /\ Unlinked(q, gone) \in Seq(S)
           /\ IsInjective(Unlinked(q, gone))
           /\ Range(Unlinked(q, gone)) = Range(q) \ gone
<1> DEFINE h == CHOOSE g : IsUnlinking(g, q, gone)
           n == Len(q)
<1>1. Unlinked(q, gone) = h[n]
  BY Zenon DEF Unlinked, IsUnlinking
<1>2. IsUnlinking(h, q, gone)
  BY UnlinkingExists
<1>3. n \in 0..Len(q) /\ DOMAIN q = 1..n
  BY LenProperties
<1>4. Firsts(q, n) = Range(q)
  BY <1>3 DEF Firsts, Range
<1> HIDE DEF h, n
<1>5. h[n] \in Seq(S) /\ IsInjective(h[n]) /\ Range(h[n]) = Firsts(q, n) \ gone
  BY <1>2, <1>3, UnlinkingProperties
<1> QED
  BY <1>1, <1>4, <1>5

(* The types of the fields. *)
LEMMA TreeFields ==
    ASSUME NEW t \in TreeType
    PROVE  /\ t.alloc \subseteq Node
           /\ t.node \in [Node -> NodeType]
           /\ t.kids \in [Node -> Seq(Node)]
           /\ \A n \in Node : /\ t.node[n] \in NodeType
                              /\ t.node[n].entry \in Names /\ t.node[n].asked \in Names
                              /\ t.node[n].parent \in Node \cup {NULL}
                              /\ t.node[n].refcount \in Nat
                              /\ t.node[n].mount \in Node \cup {NULL}
                              /\ t.node[n].sem \in Sem \cup {NULL}
                              /\ t.kids[n] \in Seq(Node)
                              /\ KidsOf(t, n) \subseteq Node
<1>1. /\ t.alloc \subseteq Node
      /\ t.node \in [Node -> NodeType]
      /\ t.kids \in [Node -> Seq(Node)]
  BY DEF TreeType
<1> SUFFICES ASSUME NEW n \in Node
             PROVE  /\ t.node[n] \in NodeType
                    /\ t.node[n].entry \in Names /\ t.node[n].asked \in Names
                    /\ t.node[n].parent \in Node \cup {NULL}
                    /\ t.node[n].refcount \in Nat
                    /\ t.node[n].mount \in Node \cup {NULL}
                    /\ t.node[n].sem \in Sem \cup {NULL}
                    /\ t.kids[n] \in Seq(Node)
                    /\ KidsOf(t, n) \subseteq Node
  BY <1>1
<1>2. t.node[n] \in NodeType /\ t.kids[n] \in Seq(Node)
  BY <1>1
<1>3. /\ t.node[n].entry \in Names /\ t.node[n].asked \in Names
      /\ t.node[n].parent \in Node \cup {NULL}
      /\ t.node[n].refcount \in Nat
      /\ t.node[n].mount \in Node \cup {NULL}
      /\ t.node[n].sem \in Sem \cup {NULL}
  BY <1>2 DEF NodeType
<1>4. KidsOf(t, n) \subseteq Node
  BY <1>2 DEF KidsOf, Range
<1> QED
  BY <1>2, <1>3, <1>4

(* NULL is no node. *)
LEMMA NullApart ==
    NULL \notin Node /\ Root \in Node /\ Node \subseteq Nat /\ IsFiniteSet(Node)
BY VfsAssumption DEF NULL, Root

(* A child and its parent. *)
LEMMA KidFacts ==
    ASSUME NEW t, TreeInv(t), NEW n \in t.alloc, NEW c \in KidsOf(t, n)
    PROVE  /\ c \in t.alloc /\ c \in Node /\ n \in Node
           /\ t.node[c].parent = n
           /\ c # Root
           /\ InTree(t, c)
           /\ InTree(t, n)
           /\ Longer(t.node[n].entry, t.node[c].entry)
<1>1. t \in TreeType /\ RootInv(t) /\ KidsInv(t) /\ ParentInv(t)
  BY DEF TreeInv
<1>2. t.alloc \subseteq Node
  BY <1>1, TreeFields
<1>3. /\ c \in t.alloc
      /\ t.node[c].parent = n
      /\ Longer(t.node[n].entry, t.node[c].entry)
  BY <1>1 DEF KidsInv
<1>4. n # NULL
  BY <1>2, NullApart
<1>5. c # Root
  BY <1>1, <1>3, <1>4 DEF RootInv
<1>6. InTree(t, c)
  BY <1>3, <1>4 DEF InTree
<1>7. InTree(t, n)
  <2> SUFFICES ASSUME n # Root, t.node[n].parent = NULL PROVE FALSE
    BY DEF InTree
  <2>1. t.kids[n] = << >>
    BY <1>1 DEF ParentInv
  <2> QED
    BY <2>1 DEF KidsOf, Range
<1> QED
  BY <1>2, <1>3, <1>5, <1>6, <1>7

(* A node of the tree other than the root is a child of its parent. *)
LEMMA ParentFacts ==
    ASSUME NEW t, TreeInv(t), NEW n, InTree(t, n), n # Root
    PROVE  /\ n \in t.alloc
           /\ t.node[n].parent \in t.alloc
           /\ n \in KidsOf(t, t.node[n].parent)
           /\ InTree(t, t.node[n].parent)
<1>1. ParentInv(t)
  BY DEF TreeInv
<1>2. n \in t.alloc /\ t.node[n].parent \in t.alloc /\ n \in KidsOf(t, t.node[n].parent)
  BY <1>1 DEF InTree, ParentInv
<1> QED
  BY <1>2, KidFacts

(* A list without elements is empty. *)
LEMMA EmptyList ==
    ASSUME NEW S, NEW q \in Seq(S)
    PROVE  Range(q) = {} <=> q = << >>
<1>1. ASSUME q # << >> PROVE Range(q) # {}
  <2>1. 1 \in DOMAIN q
    BY <1>1
  <2> QED
    BY <2>1 DEF Range
<1>2. ASSUME q = << >> PROVE Range(q) = {}
  BY <1>2 DEF Range
<1> QED
  BY <1>1, <1>2

(* u is t without the nodes in gone. *)
Frees(t, u, gone) ==
    /\ u \in TreeType
    /\ u.alloc = t.alloc \ gone
    /\ u.node = t.node
    /\ \A x \in u.alloc : IsInjective(u.kids[x]) /\ KidsOf(u, x) = KidsOf(t, x) \ gone

(* Nothing that stays leads to a node in gone. *)
MayGo(t, gone) ==
    /\ Root \notin gone
    /\ \A g \in gone \cap t.alloc : KidsOf(t, g) \subseteq gone
    /\ \A n \in t.alloc : t.node[n].mount \notin gone

(* A tree without such nodes is a tree. *)
LEMMA FreeKeepsTree ==
    ASSUME NEW t, TreeInv(t), NEW u, NEW gone, Frees(t, u, gone), MayGo(t, gone)
    PROVE  TreeInv(u) /\ \A x : InTree(u, x) <=> InTree(t, x) /\ x \notin gone
<1>1. /\ t \in TreeType /\ RootInv(t) /\ KidsInv(t) /\ ParentInv(t) /\ EntryInv(t) /\ MountInv(t)
      /\ AskedInv(t) /\ u \in TreeType
  BY DEF TreeInv, Frees
<1>2. u.alloc = t.alloc \ gone /\ u.node = t.node
  BY DEF Frees
<1>3. \A x : InTree(u, x) <=> InTree(t, x) /\ x \notin gone
  BY <1>2 DEF InTree
<1>4. RootInv(u)
  BY <1>1, <1>2 DEF RootInv, MayGo
<1>5. KidsInv(u)
  <2> SUFFICES ASSUME NEW n \in u.alloc
               PROVE  /\ IsInjective(u.kids[n])
                      /\ \A c \in KidsOf(u, n) :
                            /\ c \in u.alloc
                            /\ u.node[c].parent = n
                            /\ Longer(u.node[n].entry, u.node[c].entry)
    BY DEF KidsInv
  <2>1. IsInjective(u.kids[n]) /\ KidsOf(u, n) = KidsOf(t, n) \ gone
    BY DEF Frees
  <2>2. ASSUME NEW c \in KidsOf(u, n)
        PROVE  /\ c \in u.alloc
               /\ u.node[c].parent = n
               /\ Longer(u.node[n].entry, u.node[c].entry)
    <3>1. n \in t.alloc /\ c \in KidsOf(t, n) /\ c \notin gone
      BY <1>2, <2>1
    <3> QED
      BY <3>1, <1>1, <1>2 DEF KidsInv
  <2> QED
    BY <2>1, <2>2
<1>6. ParentInv(u)
  <2> SUFFICES ASSUME NEW n \in u.alloc \ {Root}
               PROVE  IF u.node[n].parent = NULL THEN u.kids[n] = << >>
                      ELSE u.node[n].parent \in u.alloc /\ n \in KidsOf(u, u.node[n].parent)
    BY DEF ParentInv
  <2>1. n \in t.alloc \ {Root} /\ n \notin gone
    BY <1>2
  <2>2. CASE t.node[n].parent = NULL
    <3>1. t.kids[n] = << >>
      BY <2>1, <2>2, <1>1 DEF ParentInv
    <3>2. KidsOf(t, n) = {}
      BY <3>1 DEF KidsOf, Range
    <3>3. KidsOf(u, n) = {}
      BY <3>2 DEF Frees
    <3>4. u.kids[n] \in Seq(Node)
      BY <1>1, TreeFields
    <3>5. u.kids[n] = << >>
      BY <3>3, <3>4, EmptyList DEF KidsOf
    <3> QED
      BY <2>2, <3>5, <1>2
  <2>3. CASE t.node[n].parent # NULL
    <3> DEFINE p == t.node[n].parent
    <3>1. p \in t.alloc /\ n \in KidsOf(t, p)
      BY <2>1, <2>3, <1>1 DEF ParentInv
    <3>2. p \notin gone
      BY <2>1, <3>1 DEF MayGo
    <3>3. p \in u.alloc
      BY <3>1, <3>2, <1>2
    <3>4. n \in KidsOf(u, p)
      BY <3>1, <3>3, <2>1 DEF Frees
    <3> QED
      BY <2>3, <3>3, <3>4, <1>2
  <2> QED
    BY <2>2, <2>3
<1>7. EntryInv(u)
  BY <1>1, <1>2, <1>3 DEF EntryInv
<1>8. MountInv(u)
  BY <1>1, <1>2, <1>3 DEF MountInv, MayGo
<1>9. AskedInv(u)
  <2>1. \A n \in u.alloc : n \in t.alloc /\ KidsOf(u, n) \subseteq KidsOf(t, n)
    BY <1>2 DEF Frees
  <2> QED
    BY <2>1, <1>1, <1>2, <1>3 DEF AskedInv
<1> QED
  BY <1>1, <1>3, <1>4, <1>5, <1>6, <1>7, <1>8, <1>9 DEF TreeInv

(* u is t with a new node n, in no list. *)
Makes(t, u, n) ==
    /\ n \in Node \ t.alloc
    /\ u \in TreeType
    /\ u.alloc = t.alloc \cup {n}
    /\ u.node[n] = NoNode /\ u.kids[n] = << >>
    /\ \A x \in Node \ {n} : u.node[x] = t.node[x] /\ u.kids[x] = t.kids[x]

(* A tree with a node in no list is a tree. *)
LEMMA MakeKeepsTree ==
    ASSUME NEW t, TreeInv(t), NEW u, NEW n, Makes(t, u, n)
    PROVE  TreeInv(u) /\ \A x : InTree(u, x) <=> InTree(t, x)
<1>1. /\ t \in TreeType /\ RootInv(t) /\ KidsInv(t) /\ ParentInv(t) /\ EntryInv(t) /\ MountInv(t)
      /\ AskedInv(t) /\ u \in TreeType
  BY DEF TreeInv, Makes
<1>2. /\ n \in Node \ t.alloc /\ u.alloc = t.alloc \cup {n}
      /\ u.node[n] = NoNode /\ u.kids[n] = << >> /\ t.alloc \subseteq Node
  BY <1>1, TreeFields DEF Makes
<1>3. /\ u.node[n].parent = NULL /\ u.node[n].mount = NULL
      /\ KidsOf(u, n) = {} /\ IsInjective(u.kids[n])
  BY <1>2 DEF NoNode, KidsOf, Range, IsInjective
<1>4. \A x \in t.alloc : /\ x \in Node /\ x # n
                         /\ u.node[x] = t.node[x] /\ u.kids[x] = t.kids[x]
                         /\ KidsOf(u, x) = KidsOf(t, x)
  BY <1>2 DEF Makes, KidsOf
<1>5. n # Root
  BY <1>1, <1>2 DEF RootInv
<1>6. \A x : InTree(u, x) <=> InTree(t, x)
  BY <1>2, <1>3, <1>4, <1>5 DEF InTree
<1>7. RootInv(u)
  BY <1>1, <1>2, <1>4 DEF RootInv
<1>8. KidsInv(u)
  <2> SUFFICES ASSUME NEW x \in u.alloc
               PROVE  /\ IsInjective(u.kids[x])
                      /\ \A c \in KidsOf(u, x) :
                            /\ c \in u.alloc
                            /\ u.node[c].parent = x
                            /\ Longer(u.node[x].entry, u.node[c].entry)
    BY DEF KidsInv
  <2>1. CASE x = n
    BY <2>1, <1>3
  <2>2. CASE x \in t.alloc
    BY <2>2, <1>1, <1>2, <1>4 DEF KidsInv
  <2> QED
    BY <2>1, <2>2, <1>2
<1>9. ParentInv(u)
  BY <1>1, <1>2, <1>3, <1>4 DEF ParentInv
<1>10. EntryInv(u)
  <2> SUFFICES ASSUME NEW m \in u.alloc, NEW x \in u.alloc,
                      InTree(u, m), InTree(u, x), u.node[m].entry = u.node[x].entry,
                      u.node[m].asked = u.node[m].entry, u.node[x].asked = u.node[x].entry
               PROVE  m = x
    BY DEF EntryInv
  <2>1. InTree(t, m) /\ InTree(t, x)
    BY <1>6
  <2>2. m \in t.alloc /\ x \in t.alloc
    BY <2>1 DEF InTree
  <2> QED
    BY <2>1, <2>2, <1>1, <1>4 DEF EntryInv
<1>11. MountInv(u)
  <2> SUFFICES ASSUME NEW x \in u.alloc, u.node[x].mount # NULL PROVE InTree(u, u.node[x].mount)
    BY DEF MountInv
  <2>1. x \in t.alloc
    BY <1>2, <1>3
  <2> QED
    BY <2>1, <1>1, <1>4, <1>6 DEF MountInv
<1>12. AskedInv(u)
  <2>1. u.node[Root].asked = << >>
    BY <1>1, <1>4 DEF AskedInv, RootInv
  <2>2. ASSUME NEW x \in u.alloc, NEW c \in KidsOf(u, x)
        PROVE  Longer(u.node[x].asked, u.node[c].asked)
    <3>1. x \in t.alloc /\ c \in KidsOf(t, x)
      BY <1>2, <1>3, <1>4
    <3>2. c \in t.alloc
      BY <3>1, <1>1 DEF KidsInv
    <3> QED
      BY <3>1, <3>2, <1>1, <1>4 DEF AskedInv
  <2>3. ASSUME NEW x \in u.alloc, InTree(u, x)
        PROVE  u.node[x].asked = u.node[x].entry \/ OnFat32(u.node[x].entry)
    <3>1. InTree(t, x) /\ x \in t.alloc
      BY <2>3, <1>6 DEF InTree
    <3> QED
      BY <3>1, <1>1, <1>4 DEF AskedInv
  <2> QED
    BY <2>1, <2>2, <2>3 DEF AskedInv
<1> QED
  BY <1>1, <1>6, <1>7, <1>8, <1>9, <1>10, <1>11, <1>12 DEF TreeInv

(* u is t with a new node n, the last child of par.  Its name is spelt a    *)
(* there and was asked for as name.                                         *)
Links(t, u, n, par, a, name) ==
    /\ a \in Name /\ Same(t.node[par].entry, a, name)
    /\ n \in Node \ t.alloc
    /\ u \in TreeType
    /\ u.alloc = t.alloc \cup {n}
    /\ u.node[n].entry = Append(t.node[par].entry, a)
    /\ u.node[n].asked = Append(t.node[par].asked, name)
    /\ u.node[n].parent = par /\ u.node[n].refcount = 0 /\ u.node[n].mount = NULL
    /\ u.kids[n] = << >>
    /\ u.kids[par] = Append(t.kids[par], n)
    /\ \A x \in Node \ {n} : u.node[x] = t.node[x]
    /\ \A x \in Node \ {n, par} : u.kids[x] = t.kids[x]

(* A name that no child has belongs to no node of the tree that was reached *)
(* by the names it has.                                                     *)
LEMMA CachedName ==
    ASSUME NEW t, TreeInv(t), NEW par, InTree(t, par), NEW name \in Name,
           Cached(t, par, name) = {},
           t.node[par].asked = t.node[par].entry,
           NEW m, InTree(t, m), t.node[m].entry = Append(t.node[par].entry, name),
           t.node[m].asked = t.node[m].entry
    PROVE  FALSE
<1>1. t \in TreeType /\ RootInv(t) /\ EntryInv(t) /\ AskedInv(t)
  BY DEF TreeInv
<1>2. par \in t.alloc /\ par \in Node /\ m \in t.alloc /\ m \in Node
  BY <1>1, TreeFields DEF InTree
<1>3. t.node[par].entry \in Seq(Name) /\ t.kids[par] \in Seq(Node)
  BY <1>1, <1>2, TreeFields DEF Names
<1>4. t.node[m].entry # << >>
  BY <1>3, AppendProperties
<1>5. m # Root
  BY <1>1, <1>4 DEF RootInv
<1> DEFINE p == t.node[m].parent
<1>6. p \in t.alloc /\ m \in KidsOf(t, p) /\ InTree(t, p)
  BY <1>5, ParentFacts
<1>7. p \in Node /\ t.node[p].entry \in Seq(Name) /\ t.node[p].asked \in Seq(Name)
  BY <1>1, <1>6, TreeFields DEF Names
<1>8. PICK nm \in Name : t.node[m].entry = Append(t.node[p].entry, nm)
  <2>1. Longer(t.node[p].entry, t.node[m].entry)
    BY <1>6, KidFacts
  <2> QED
    BY <2>1 DEF Longer
<1> HIDE DEF p
<1>9. t.node[p].entry = t.node[par].entry /\ nm = name
  <2>1. Append(t.node[p].entry, nm) = Append(t.node[par].entry, name)
    BY <1>8
  <2> HIDE DEF p
  <2> DEFINE e == t.node[p].entry
             f == t.node[par].entry
  <2>2. e \in Seq(Name) /\ f \in Seq(Name) /\ Append(e, nm) = Append(f, name)
    BY <2>1, <1>3, <1>7
  <2> HIDE DEF e, f
  <2>3. e = f /\ nm = name
    BY <2>2, AppendInjective
  <2> QED
    BY <2>3 DEF e, f
<1>91. PICK ask \in Name : t.node[m].asked = Append(t.node[p].asked, ask)
  BY <1>1, <1>6 DEF AskedInv, Longer
<1>92. t.node[p].asked = t.node[par].entry
  <2> DEFINE e == t.node[p].asked
             f == t.node[par].entry
  <2>1. e \in Seq(Name) /\ f \in Seq(Name) /\ Append(e, ask) = Append(f, name)
    BY <1>3, <1>7, <1>91
  <2> HIDE DEF e, f
  <2>2. e = f
    BY <2>1, AppendInjective
  <2> QED
    BY <2>2 DEF e, f
<1>10. p = par
  BY <1>1, <1>2, <1>6, <1>9, <1>92 DEF EntryInv
<1>11. PICK i \in 1..Len(t.kids[par]) : t.kids[par][i] = m
  BY <1>3, <1>6, <1>10 DEF KidsOf, Range
<1>12. Last(t.node[m].entry) = name
  <2>1. /\ Len(Append(t.node[par].entry, name)) = Len(t.node[par].entry) + 1
        /\ Append(t.node[par].entry, name)[Len(t.node[par].entry) + 1] = name
    BY <1>3, AppendProperties
  <2> QED
    BY <2>1 DEF Last
<1>13. i \in Cached(t, par, name)
  BY <1>11, <1>12 DEF Cached
<1> QED
  BY <1>13

(* A new node is linked: it is in the tree, and nothing else moves. *)
LEMMA LinkKeepsTree ==
    ASSUME NEW t, TreeInv(t), NEW par, InTree(t, par), NEW name \in Name,
           Cached(t, par, name) = {}, NEW u, NEW n, NEW a, Links(t, u, n, par, a, name)
    PROVE  /\ TreeInv(u)
           /\ \A x : InTree(u, x) <=> InTree(t, x) \/ x = n
           /\ KidsOf(u, par) = KidsOf(t, par) \cup {n}
           /\ KidsOf(u, n) = {}
           /\ \A x \in t.alloc \ {par} : KidsOf(u, x) = KidsOf(t, x)
<1>1. /\ t \in TreeType /\ RootInv(t) /\ KidsInv(t) /\ ParentInv(t) /\ EntryInv(t) /\ MountInv(t)
      /\ AskedInv(t) /\ u \in TreeType
  BY DEF TreeInv, Links
<1>2. /\ n \in Node \ t.alloc /\ u.alloc = t.alloc \cup {n} /\ t.alloc \subseteq Node
      /\ par \in t.alloc /\ par \in Node /\ par # NULL /\ par # n
  BY <1>1, TreeFields, NullApart DEF Links, InTree
<1>3. /\ u.node[n].parent = par /\ u.node[n].mount = NULL
      /\ u.node[n].entry = Append(t.node[par].entry, a) /\ a \in Name
      /\ u.node[n].asked = Append(t.node[par].asked, name)
      /\ KidsOf(u, n) = {} /\ IsInjective(u.kids[n])
  BY DEF Links, KidsOf, Range, IsInjective
<1>4. \A x \in t.alloc : x \in Node /\ x # n /\ u.node[x] = t.node[x]
  BY <1>2 DEF Links
<1>5. \A x \in t.alloc \ {par} : u.kids[x] = t.kids[x] /\ KidsOf(u, x) = KidsOf(t, x)
  BY <1>2 DEF Links, KidsOf
<1>6. KidsOf(u, par) = KidsOf(t, par) \cup {n} /\ IsInjective(u.kids[par])
  <2>1. u.kids[par] = Append(t.kids[par], n) /\ t.kids[par] \in Seq(Node) /\ IsInjective(t.kids[par])
    BY <1>1, <1>2, TreeFields DEF Links, KidsInv
  <2>2. n \notin Range(t.kids[par])
    BY <1>1, <1>2 DEF KidsInv, KidsOf
  <2> QED
    BY <1>2, <2>1, <2>2, AppendNew DEF KidsOf
<1>7. n # Root
  BY <1>1, <1>2 DEF RootInv
<1>8. \A x : InTree(u, x) <=> InTree(t, x) \/ x = n
  BY <1>2, <1>3, <1>4, <1>7 DEF InTree
<1>9. RootInv(u)
  BY <1>1, <1>2, <1>4 DEF RootInv
<1>10. KidsInv(u)
  <2> SUFFICES ASSUME NEW x \in u.alloc
               PROVE  /\ IsInjective(u.kids[x])
                      /\ \A c \in KidsOf(u, x) :
                            /\ c \in u.alloc
                            /\ u.node[c].parent = x
                            /\ Longer(u.node[x].entry, u.node[c].entry)
    BY DEF KidsInv
  <2>1. CASE x = n
    BY <2>1, <1>3
  <2>2. CASE x = par
    <3>1. ASSUME NEW c \in KidsOf(t, par)
          PROVE  /\ c \in u.alloc
                 /\ u.node[c].parent = par
                 /\ Longer(u.node[par].entry, u.node[c].entry)
      BY <1>1, <1>2, <1>4 DEF KidsInv
    <3>2. /\ n \in u.alloc
          /\ u.node[n].parent = par
          /\ Longer(u.node[par].entry, u.node[n].entry)
      BY <1>2, <1>3, <1>4 DEF Longer
    <3> QED
      BY <2>2, <3>1, <3>2, <1>6
  <2>3. CASE x \in t.alloc \ {par}
    BY <2>3, <1>1, <1>2, <1>4, <1>5 DEF KidsInv
  <2> QED
    BY <2>1, <2>2, <2>3, <1>2
<1>11. ParentInv(u)
  <2> SUFFICES ASSUME NEW x \in u.alloc \ {Root}
               PROVE  IF u.node[x].parent = NULL THEN u.kids[x] = << >>
                      ELSE u.node[x].parent \in u.alloc /\ x \in KidsOf(u, u.node[x].parent)
    BY DEF ParentInv
  <2>1. CASE x = n
    BY <2>1, <1>2, <1>3, <1>6
  <2>2. CASE x \in t.alloc /\ t.node[x].parent = NULL
    <3>1. x # par
      BY <2>2 DEF InTree
    <3> QED
      BY <2>2, <3>1, <1>1, <1>4, <1>5 DEF ParentInv
  <2>3. CASE x \in t.alloc /\ t.node[x].parent # NULL
    <3>1. t.node[x].parent \in t.alloc /\ x \in KidsOf(t, t.node[x].parent)
      BY <2>3, <1>1 DEF ParentInv
    <3>2. x \in KidsOf(u, t.node[x].parent)
      BY <3>1, <1>5, <1>6
    <3> QED
      BY <2>3, <3>1, <3>2, <1>2, <1>4
  <2> QED
    BY <2>1, <2>2, <2>3, <1>2
<1>12. EntryInv(u)
  <2> SUFFICES ASSUME NEW m \in u.alloc, NEW x \in u.alloc,
                      InTree(u, m), InTree(u, x), u.node[m].entry = u.node[x].entry,
                      u.node[m].asked = u.node[m].entry, u.node[x].asked = u.node[x].entry
               PROVE  m = x
    BY DEF EntryInv
  <2>0. \A y : InTree(t, y) => y \in t.alloc
    BY DEF InTree
  <2>1. CASE InTree(t, m) /\ InTree(t, x)
    BY <2>0, <2>1, <1>1, <1>4 DEF EntryInv
  <2>2. ASSUME u.node[n].asked = u.node[n].entry, NEW y, InTree(t, y),
               u.node[y].entry = u.node[n].entry, u.node[y].asked = u.node[y].entry
        PROVE  FALSE
    <3> DEFINE e == t.node[par].entry
               f == t.node[par].asked
    <3>1. e \in Seq(Name) /\ f \in Seq(Name) /\ Append(f, name) = Append(e, a)
      BY <2>2, <1>1, <1>2, <1>3, TreeFields DEF Names
    <3> HIDE DEF e, f
    <3>2. f = e /\ name = a
      BY <3>1, <1>3, AppendInjective
    <3>3. t.node[par].asked = t.node[par].entry /\ name = a
      BY <3>2 DEF e, f
    <3>4. t.node[y].entry = Append(t.node[par].entry, name) /\ t.node[y].asked = t.node[y].entry
      BY <2>0, <2>2, <3>3, <1>3, <1>4
    <3> QED
      BY <2>2, <3>3, <3>4, CachedName
  <2> QED
    BY <2>1, <2>2, <1>8
<1>121. AskedInv(u)
  <2>1. u.node[Root].asked = << >>
    BY <1>1, <1>4 DEF AskedInv, RootInv
  <2>2. ASSUME NEW x \in u.alloc, NEW c \in KidsOf(u, x)
        PROVE  Longer(u.node[x].asked, u.node[c].asked)
    <3>1. CASE x = par /\ c = n
      BY <3>1, <1>2, <1>3, <1>4 DEF Longer
    <3>2. CASE ~(x = par /\ c = n)
      <4>1. x \in t.alloc /\ c \in KidsOf(t, x)
        BY <3>2, <1>2, <1>3, <1>5, <1>6
      <4>2. c \in t.alloc
        BY <4>1, <1>1 DEF KidsInv
      <4> QED
        BY <4>1, <4>2, <1>1, <1>4 DEF AskedInv
    <3> QED
      BY <3>1, <3>2
  <2>3. u.node[n].asked = u.node[n].entry \/ OnFat32(u.node[n].entry)
    <3> DEFINE e == t.node[par].entry
    <3>1. e \in Seq(Name)
      BY <1>1, <1>2, TreeFields DEF Names
    <3>2. CASE OnFat32(e)
      <4>1. e # << >> /\ e[1] \in Fat32
        BY <3>2 DEF OnFat32
      <4>2. Append(e, a) # << >> /\ Append(e, a)[1] = e[1]
        <5> HIDE DEF e
        <5>1. 1 \in 1..Len(e)
          BY <3>1, <4>1
        <5> QED
          BY <3>1, <5>1, <1>3, AppendProperties
      <4> QED
        BY <4>1, <4>2, <1>3 DEF OnFat32
    <3>3. CASE ~OnFat32(e)
      <4>1. a = name
        BY <3>3 DEF Links, Same
      <4>2. t.node[par].asked = e
        BY <3>3, <1>1, <1>2 DEF AskedInv
      <4> QED
        BY <4>1, <4>2, <1>3
    <3> QED
      BY <3>2, <3>3
  <2>4. ASSUME NEW x \in u.alloc, InTree(u, x)
        PROVE  u.node[x].asked = u.node[x].entry \/ OnFat32(u.node[x].entry)
    <3>1. CASE x = n
      BY <3>1, <2>3
    <3>2. CASE x # n
      <4>1. InTree(t, x) /\ x \in t.alloc
        BY <2>4, <3>2, <1>8 DEF InTree
      <4> QED
        BY <4>1, <1>1, <1>4 DEF AskedInv
    <3> QED
      BY <3>1, <3>2
  <2> QED
    BY <2>1, <2>2, <2>4 DEF AskedInv
<1>13. MountInv(u)
  <2> SUFFICES ASSUME NEW x \in u.alloc, u.node[x].mount # NULL PROVE InTree(u, u.node[x].mount)
    BY DEF MountInv
  <2>1. x \in t.alloc
    BY <1>2, <1>3
  <2> QED
    BY <2>1, <1>1, <1>4, <1>8 DEF MountInv
<1>14. TreeInv(u)
  BY <1>1, <1>9, <1>10, <1>11, <1>12, <1>121, <1>13 DEF TreeInv
<1> QED
  BY <1>3, <1>5, <1>6, <1>8, <1>14

-----------------------------------------------------------------------------
(* The search. *)

(* u has what t has; its other nodes are new. *)
Extends(t, u) ==
    /\ t.alloc \subseteq u.alloc
    /\ \A x \in t.alloc : u.node[x] = t.node[x] /\ KidsOf(t, x) \subseteq KidsOf(u, x)
    /\ \A x \in u.alloc \ t.alloc : u.node[x].refcount = 0 /\ u.node[x].mount = NULL

(* Nothing is added. *)
LEMMA ExtendsSelf ==
    ASSUME NEW t
    PROVE  Extends(t, t)
BY DEF Extends

(* Something is added twice. *)
LEMMA ExtendsTwice ==
    ASSUME NEW t, NEW u, NEW w, Extends(t, u), Extends(u, w)
    PROVE  Extends(t, w)
<1>1. t.alloc \subseteq w.alloc
  BY DEF Extends
<1>2. ASSUME NEW x \in t.alloc PROVE w.node[x] = t.node[x] /\ KidsOf(t, x) \subseteq KidsOf(w, x)
  BY DEF Extends
<1>3. ASSUME NEW x \in w.alloc \ t.alloc PROVE w.node[x].refcount = 0 /\ w.node[x].mount = NULL
  <2>1. CASE x \in u.alloc
    <3>1. u.node[x].refcount = 0 /\ u.node[x].mount = NULL /\ w.node[x] = u.node[x]
      BY <2>1, <1>3 DEF Extends
    <3> QED
      BY <3>1
  <2>2. CASE x \notin u.alloc
    BY <2>2, <1>3 DEF Extends
  <2> QED
    BY <2>1, <2>2
<1> QED
  BY <1>1, <1>2, <1>3 DEF Extends

(* What was in the tree stays in it. *)
LEMMA ExtendsInTree ==
    ASSUME NEW t, NEW u, Extends(t, u), NEW n, InTree(t, n)
    PROVE  InTree(u, n)
BY DEF Extends, InTree

Ends == {"no", "depth", "error", "create"}

SearchType == [t : TreeType, cur : Node, par : Node, stack : Seq(Node), end : Ends]

(* The nodes that the search made lead to each other only, and only the     *)
(* first is a child of another node.                                        *)
StackInv(t, s) ==
    /\ \A g \in Range(s.stack) : g \in s.t.alloc \ t.alloc /\ KidsOf(s.t, g) \subseteq Range(s.stack)
    /\ \A i \in 2..Len(s.stack) : s.t.node[s.stack[i]].parent \in Range(s.stack) \cup {NULL}

(* A search that began with t: as long as it goes on it has made nothing,   *)
(* or is at a node that it has just made; last is the name to create.       *)
SearchInv(t, s, last) ==
    /\ s \in SearchType
    /\ TreeInv(s.t)
    /\ Extends(t, s.t)
    /\ InTree(s.t, s.cur)
    /\ InTree(s.t, s.par)
    /\ StackInv(t, s)
    /\ s.end = "no" => IF s.stack = << >> THEN s.t = t
                       ELSE s.cur \in Range(s.stack) /\ KidsOf(s.t, s.cur) = {}
    /\ s.end = "create" => Cached(s.t, s.par, last) = {}

(* The types of the fields of a search. *)
LEMMA SearchFields ==
    ASSUME NEW s \in SearchType
    PROVE  /\ s.t \in TreeType /\ s.cur \in Node /\ s.par \in Node
           /\ s.stack \in Seq(Node) /\ s.end \in Ends
           /\ Range(s.stack) \subseteq Node
           /\ Len(s.stack) \in Nat
           /\ \A i \in 1..Len(s.stack) : s.stack[i] \in Range(s.stack)
<1>1. /\ s.t \in TreeType /\ s.cur \in Node /\ s.par \in Node
      /\ s.stack \in Seq(Node) /\ s.end \in Ends
  BY DEF SearchType
<1> DEFINE q == s.stack
<1>2. q \in Seq(Node)
  BY <1>1
<1> HIDE DEF q
<1>3. /\ Range(q) \subseteq Node
      /\ Len(q) \in Nat
      /\ \A i \in 1..Len(q) : q[i] \in Range(q)
  BY <1>2 DEF Range
<1> QED
  BY <1>1, <1>3 DEF q

(* Nothing leads to what a failed search made. *)
LEMMA StackMayGo ==
    ASSUME NEW t, TreeInv(t), NEW s, NEW last, SearchInv(t, s, last)
    PROVE  MayGo(s.t, Range(s.stack))
<1>1. s \in SearchType /\ TreeInv(s.t) /\ Extends(t, s.t) /\ StackInv(t, s)
  BY DEF SearchInv
<1>2. Range(s.stack) \subseteq Node
  BY <1>1, SearchFields
<1>3. Root \notin Range(s.stack)
  BY <1>1 DEF StackInv, TreeInv, RootInv
<1>4. \A g \in Range(s.stack) \cap s.t.alloc : KidsOf(s.t, g) \subseteq Range(s.stack)
  BY <1>1 DEF StackInv
<1>5. ASSUME NEW n \in s.t.alloc, s.t.node[n].mount \in Range(s.stack) PROVE FALSE
  <2>1. s.t.node[n].mount # NULL
    BY <1>2, <1>5, NullApart
  <2>2. n \in t.alloc /\ s.t.node[n] = t.node[n]
    BY <1>1, <2>1 DEF Extends
  <2>3. InTree(t, t.node[n].mount)
    BY <2>1, <2>2 DEF TreeInv, MountInv
  <2> QED
    BY <2>2, <2>3, <1>1, <1>5 DEF InTree, StackInv
<1> QED
  BY <1>3, <1>4, <1>5 DEF MayGo

(* nuke_search_stack_and_ret gives the tree back. *)
LEMMA NukeFrees ==
    ASSUME NEW t, TreeInv(t), NEW s, NEW last, SearchInv(t, s, last)
    PROVE  Frees(s.t, Nuke(s), Range(s.stack))
<1> DEFINE G == Range(s.stack)
           first == s.stack[1]
           par == s.t.node[first].parent
           w == s.t
<1>1. s \in SearchType /\ TreeInv(w) /\ StackInv(t, s)
  BY DEF SearchInv
<1>2. /\ w \in TreeType /\ s.stack \in Seq(Node) /\ G \subseteq Node /\ Len(s.stack) \in Nat
      /\ \A i \in 1..Len(s.stack) : s.stack[i] \in G
  BY <1>1, SearchFields
<1>3. {s.stack[i] : i \in 1..Len(s.stack)} = G
  BY <1>2 DEF Range
<1>4. \A x \in w.alloc : IsInjective(w.kids[x])
  BY <1>1 DEF TreeInv, KidsInv
<1>5. CASE s.stack = << >>
  <2>1. Nuke(s) = w
    BY <1>5 DEF Nuke
  <2>2. G = {}
    BY <1>5 DEF Range
  <2> QED
    BY <2>1, <2>2, <1>2, <1>4 DEF Frees
<1>6. CASE s.stack # << >>
  <2>1. 1 \in 1..Len(s.stack) /\ first \in G /\ first \in Node
    BY <1>2, <1>6
  <2>2. par \in Node \cup {NULL}
    BY <2>1, <1>2, TreeFields
  <2>3. ASSUME NEW x \in w.alloc \ G, NEW g \in KidsOf(w, x), g \in G
        PROVE  g = first /\ x = par
    <3>1. w.node[g].parent = x
      BY <1>1, KidFacts
    <3>2. PICK i \in 1..Len(s.stack) : g = s.stack[i]
      BY <1>3, <2>3
    <3>3. x # NULL
      BY <1>2, TreeFields, NullApart
    <3>4. i \notin 2..Len(s.stack)
      BY <3>1, <3>2, <3>3, <1>1 DEF StackInv
    <3>5. i = 1
      BY <3>2, <3>4, <1>2
    <3> QED
      BY <3>1, <3>2, <3>5
  <2> HIDE DEF first, par, w, G
  <2>4. CASE par = NULL
    <3>1. Nuke(s) = [w EXCEPT !.alloc = @ \ G]
      BY <2>4, <1>3, <1>6 DEF Nuke, first, par, w
    <3> DEFINE u == [w EXCEPT !.alloc = @ \ G]
    <3>2. u \in TreeType /\ u.alloc = w.alloc \ G /\ u.node = w.node /\ u.kids = w.kids
      BY <1>2 DEF TreeType
    <3> HIDE DEF u
    <3>3. ASSUME NEW x \in u.alloc PROVE IsInjective(u.kids[x]) /\ KidsOf(u, x) = KidsOf(w, x) \ G
      <4>1. x \in w.alloc \ G /\ x \in Node /\ x # NULL
        BY <3>2, <1>2, TreeFields, NullApart
      <4>2. KidsOf(w, x) \cap G = {}
        BY <4>1, <2>3, <2>4
      <4>3. KidsOf(u, x) = KidsOf(w, x)
        BY <3>2 DEF KidsOf
      <4> QED
        BY <4>1, <4>2, <4>3, <3>2, <1>4
    <3>4. Frees(w, u, G)
      BY <3>2, <3>3 DEF Frees
    <3> QED
      BY <3>1, <3>4 DEF u, w, G
  <2>5. CASE par # NULL
    <3> DEFINE rest == Unlinked(w.kids[par], {first})
               v == [w EXCEPT !.kids[par] = rest]
               u == [v EXCEPT !.alloc = @ \ G]
    <3>0. par \in Node
      BY <2>2, <2>5
    <3>1. Nuke(s) = u
      <4>1. v = [w EXCEPT !.kids[par] = Unlinked(@, {first})]
        BY Zenon
      <4> HIDE DEF v
      <4> QED
        BY <4>1, <2>5, <1>3, <1>6 DEF Nuke, first, par, w
    <3>2. par \in w.alloc
      <4>1. first \in w.alloc /\ first # Root
        BY <1>1, <2>1 DEF StackInv, G, w, TreeInv, RootInv
      <4> QED
        BY <4>1, <2>5, <1>1 DEF TreeInv, ParentInv, par, w
    <3>3. w.kids[par] \in Seq(Node) /\ IsInjective(w.kids[par])
      BY <3>0, <3>2, <1>2, <1>4, TreeFields
    <3>4. rest \in Seq(Node) /\ IsInjective(rest) /\ Range(rest) = KidsOf(w, par) \ {first}
      BY <3>3, UnlinkedProperties DEF KidsOf
    <3> HIDE DEF rest
    <3>5. /\ v \in TreeType /\ v.alloc = w.alloc /\ v.node = w.node
          /\ v.kids[par] = rest /\ \A x \in Node \ {par} : v.kids[x] = w.kids[x]
      BY <1>2, <3>0, <3>4 DEF TreeType
    <3> HIDE DEF v
    <3>6. u \in TreeType /\ u.alloc = w.alloc \ G /\ u.node = w.node /\ u.kids = v.kids
      BY <3>5 DEF TreeType
    <3> HIDE DEF u
    <3>7. ASSUME NEW x \in u.alloc PROVE IsInjective(u.kids[x]) /\ KidsOf(u, x) = KidsOf(w, x) \ G
      <4>1. x \in w.alloc \ G /\ x \in Node
        BY <3>6, <1>2, TreeFields
      <4>2. CASE x = par
        <5>1. KidsOf(w, x) \ G = KidsOf(w, par) \ {first}
          BY <4>1, <4>2, <2>1, <2>3
        <5>2. u.kids[x] = rest
          BY <4>2, <3>5, <3>6
        <5> QED
          BY <5>1, <5>2, <3>4 DEF KidsOf
      <4>3. CASE x # par
        <5>1. KidsOf(w, x) \cap G = {}
          BY <4>1, <4>3, <2>3
        <5>2. u.kids[x] = w.kids[x]
          BY <4>1, <4>3, <3>5, <3>6
        <5> QED
          BY <4>1, <5>1, <5>2, <1>4 DEF KidsOf
      <4> QED
        BY <4>2, <4>3
    <3>8. Frees(w, u, G)
      BY <3>6, <3>7 DEF Frees
    <3> QED
      BY <3>1, <3>8 DEF w, G
  <2> QED
    BY <2>4, <2>5
<1> QED
  BY <1>5, <1>6

(* So a failed search changes nothing but what others made before it. *)
LEMMA NukeKeepsTree ==
    ASSUME NEW t, TreeInv(t), NEW s, NEW last, SearchInv(t, s, last)
    PROVE  TreeInv(Nuke(s)) /\ Extends(t, Nuke(s))
<1> DEFINE u == Nuke(s)
           G == Range(s.stack)
<1>1. TreeInv(s.t) /\ Extends(t, s.t) /\ StackInv(t, s)
  BY DEF SearchInv
<1>2. Frees(s.t, u, G) /\ MayGo(s.t, G)
  BY NukeFrees, StackMayGo
<1>3. G \cap t.alloc = {}
  BY <1>1 DEF StackInv
<1> HIDE DEF u, G
<1>4. TreeInv(u)
  BY <1>1, <1>2, FreeKeepsTree
<1>5. t.alloc \subseteq u.alloc
  BY <1>1, <1>2, <1>3 DEF Frees, Extends
<1>6. ASSUME NEW x \in t.alloc PROVE u.node[x] = t.node[x] /\ KidsOf(t, x) \subseteq KidsOf(u, x)
  <2>1. KidsOf(t, x) \subseteq t.alloc
    BY DEF TreeInv, KidsInv
  <2>2. KidsOf(u, x) = KidsOf(s.t, x) \ G /\ u.node = s.t.node
    BY <1>2, <1>5 DEF Frees
  <2> QED
    BY <1>1, <1>3, <2>1, <2>2 DEF Extends
<1>7. ASSUME NEW x \in u.alloc \ t.alloc PROVE u.node[x].refcount = 0 /\ u.node[x].mount = NULL
  BY <1>1, <1>2 DEF Extends, Frees
<1>8. Extends(t, u)
  BY <1>5, <1>6, <1>7 DEF Extends
<1> QED
  BY <1>4, <1>8 DEF u

(* A node for the next name, in no list yet. *)
Made(s, n) ==
    [s EXCEPT !.t.alloc = @ \cup {n}, !.stack = Append(@, n),
              !.t.node[n] = NoNode, !.t.kids[n] = << >>]

(* A node with nothing in it. *)
LEMMA NoNodeType == NoNode \in NodeType
BY DEF NoNode, NodeType, Names, NULL

(* The fields of a search that made a node. *)
LEMMA MadeFields ==
    ASSUME NEW s \in SearchType, NEW n \in Node \ s.t.alloc
    PROVE  /\ Made(s, n) \in SearchType
           /\ Made(s, n).cur = s.cur /\ Made(s, n).par = s.par /\ Made(s, n).end = s.end
           /\ Made(s, n).stack = Append(s.stack, n)
           /\ Makes(s.t, Made(s, n).t, n)
<1> DEFINE w == s.t
           u == [w EXCEPT !.alloc = @ \cup {n}, !.node[n] = NoNode, !.kids[n] = << >>]
           st == Append(s.stack, n)
<1>1. w \in TreeType /\ s.stack \in Seq(Node) /\ n \in Node
  BY DEF SearchType
<1>2. st \in Seq(Node)
  BY <1>1, AppendProperties
<1>3. << >> \in Seq(Node)
  OBVIOUS
<1>4. Made(s, n) = [s EXCEPT !.t = u, !.stack = st]
  BY DEF Made, SearchType, TreeType
<1> HIDE DEF w
<1>5. /\ u \in TreeType /\ u.alloc = w.alloc \cup {n} /\ u.node[n] = NoNode /\ u.kids[n] = << >>
      /\ \A x \in Node \ {n} : u.node[x] = w.node[x] /\ u.kids[x] = w.kids[x]
  BY <1>1, <1>3, NoNodeType DEF TreeType
<1> HIDE DEF u, st
<1>6. /\ Made(s, n) \in SearchType
      /\ Made(s, n).cur = s.cur /\ Made(s, n).par = s.par /\ Made(s, n).end = s.end
      /\ Made(s, n).stack = st
      /\ Made(s, n).t = u
  BY <1>2, <1>4, <1>5 DEF SearchType
<1>7. Makes(s.t, u, n)
  BY <1>1, <1>5 DEF Makes, w
<1> QED
  BY <1>6, <1>7 DEF st

(* The stack with one node more. *)
LEMMA PushRange ==
    ASSUME NEW q \in Seq(Node), NEW n \in Node
    PROVE  /\ Range(Append(q, n)) = Range(q) \cup {n}
           /\ Len(Append(q, n)) = Len(q) + 1
           /\ Append(q, n) # << >>
           /\ Append(q, n)[Len(q) + 1] = n
           /\ \A i \in 1..Len(q) : Append(q, n)[i] = q[i]
<1>1. /\ Append(q, n) \in Seq(Node)
      /\ Append(q, n) # << >>
      /\ Len(Append(q, n)) = Len(q) + 1
      /\ \A i \in 1..Len(q) : Append(q, n)[i] = q[i]
      /\ Append(q, n)[Len(q) + 1] = n
      /\ Len(q) \in Nat
  BY AppendProperties, LenProperties
<1> DEFINE a == Append(q, n)
<1> HIDE DEF a
<1>2. /\ a \in Seq(Node) /\ Len(a) = Len(q) + 1
      /\ \A i \in 1..Len(q) : a[i] = q[i]
      /\ a[Len(q) + 1] = n
  BY <1>1 DEF a
<1>3. DOMAIN a = 1..Len(q) + 1 /\ DOMAIN q = 1..Len(q)
  BY <1>2
<1>4. 1..Len(q) + 1 = (1..Len(q)) \cup {Len(q) + 1}
  BY <1>1
<1>5. Range(a) = Range(q) \cup {n}
  BY <1>2, <1>3, <1>4 DEF Range
<1> QED
  BY <1>1, <1>5 DEF a

(* The search goes on at cur, which has no child of the name. *)
AtGap(t, s, last, name) ==
    /\ SearchInv(t, s, last)
    /\ s.end = "no" /\ s.par = s.cur
    /\ Cached(s.t, s.par, name) = {}

(* A search that made a node is in order. *)
LEMMA MakeKeepsSearch ==
    ASSUME NEW t, TreeInv(t), NEW s, NEW last, NEW name, AtGap(t, s, last, name),
           NEW n \in Node \ s.t.alloc, NEW end \in Ends, end # "no",
           end = "create" => name = last
    PROVE  SearchInv(t, [Made(s, n) EXCEPT !.end = end], last)
<1> DEFINE m == Made(s, n)
           r == [m EXCEPT !.end = end]
           u == m.t
<1>1. /\ s \in SearchType /\ TreeInv(s.t) /\ Extends(t, s.t) /\ InTree(s.t, s.cur) /\ InTree(s.t, s.par)
      /\ StackInv(t, s)
  BY DEF AtGap, SearchInv
<1>2. /\ m \in SearchType
      /\ m.cur = s.cur /\ m.par = s.par /\ m.end = s.end
      /\ m.stack = Append(s.stack, n)
      /\ Makes(s.t, u, n)
  BY <1>1, MadeFields
<1> HIDE DEF m
<1>3. /\ r \in SearchType /\ r.t = u /\ r.cur = s.cur /\ r.par = s.par /\ r.end = end
      /\ r.stack = Append(s.stack, n)
  BY <1>2 DEF SearchType
<1> HIDE DEF r, u
<1>4. TreeInv(u) /\ \A x : InTree(u, x) <=> InTree(s.t, x)
  BY <1>1, <1>2, MakeKeepsTree
<1>5. /\ s.stack \in Seq(Node) /\ s.t \in TreeType /\ s.t.alloc \subseteq Node /\ s.par \in s.t.alloc
      /\ Len(s.stack) \in Nat
  BY <1>1, SearchFields, TreeFields DEF InTree
<1>6. /\ u.alloc = s.t.alloc \cup {n} /\ u.node[n] = NoNode /\ u.kids[n] = << >> /\ n \in Node \ s.t.alloc
      /\ \A x \in s.t.alloc : u.node[x] = s.t.node[x] /\ u.kids[x] = s.t.kids[x] /\ KidsOf(u, x) = KidsOf(s.t, x)
  BY <1>2, <1>5 DEF Makes, KidsOf
<1>7. u.node[n].refcount = 0 /\ u.node[n].mount = NULL /\ u.node[n].parent = NULL /\ KidsOf(u, n) = {}
  BY <1>6 DEF NoNode, KidsOf, Range
<1>8. Extends(s.t, u)
  BY <1>6, <1>7 DEF Extends
<1>9. Extends(t, u)
  BY <1>1, <1>8, ExtendsTwice
<1>10. StackInv(t, r)
  <2>1. /\ Range(r.stack) = Range(s.stack) \cup {n}
        /\ Len(r.stack) = Len(s.stack) + 1
        /\ r.stack[Len(s.stack) + 1] = n
        /\ \A i \in 1..Len(s.stack) : r.stack[i] = s.stack[i]
    BY <1>3, <1>5, PushRange
  <2>2. ASSUME NEW g \in Range(r.stack) PROVE g \in u.alloc \ t.alloc /\ KidsOf(u, g) \subseteq Range(r.stack)
    <3>1. CASE g = n
      BY <3>1, <1>1, <1>6, <1>7 DEF Extends
    <3>2. CASE g \in Range(s.stack)
      BY <3>2, <2>1, <1>1, <1>6 DEF StackInv
    <3> QED
      BY <3>1, <3>2, <2>1
  <2>3. ASSUME NEW i \in 2..Len(r.stack) PROVE u.node[r.stack[i]].parent \in Range(r.stack) \cup {NULL}
    <3>1. CASE i = Len(s.stack) + 1
      BY <3>1, <2>1, <1>7
    <3>2. CASE i # Len(s.stack) + 1
      <4>1. i \in 2..Len(s.stack) /\ i \in 1..Len(s.stack)
        BY <3>2, <2>1, <1>5
      <4>2. r.stack[i] = s.stack[i] /\ s.stack[i] \in Range(s.stack)
        BY <4>1, <2>1, <1>1, SearchFields
      <4>3. s.stack[i] \in s.t.alloc /\ s.t.node[s.stack[i]].parent \in Range(s.stack) \cup {NULL}
        BY <4>1, <4>2, <1>1 DEF StackInv
      <4> QED
        BY <4>2, <4>3, <2>1, <1>6
    <3> QED
      BY <3>1, <3>2
  <2> QED
    BY <2>2, <2>3, <1>3 DEF StackInv
<1>11. ASSUME end = "create" PROVE Cached(u, s.par, last) = {}
  <2>1. Cached(s.t, s.par, last) = {}
    BY <1>11 DEF AtGap
  <2>2. u.kids[s.par] = s.t.kids[s.par]
    BY <1>5, <1>6
  <2>3. ASSUME NEW i \in 1..Len(s.t.kids[s.par]) PROVE s.t.kids[s.par][i] \in s.t.alloc
    <3>1. s.t.kids[s.par][i] \in KidsOf(s.t, s.par)
      <4>1. s.t.kids[s.par] \in Seq(Node)
        BY <1>5, TreeFields
      <4> QED
        BY <4>1 DEF KidsOf, Range
    <3> QED
      BY <3>1, <1>1, <1>5, KidFacts
  <2>4. ASSUME NEW i \in 1..Len(s.t.kids[s.par])
        PROVE  u.node[u.kids[s.par][i]] = s.t.node[s.t.kids[s.par][i]]
    BY <2>2, <2>3, <1>6
  <2> QED
    BY <2>1, <2>2, <2>4 DEF Cached
<1>12. SearchInv(t, r, last)
  BY <1>1, <1>3, <1>4, <1>9, <1>10, <1>11 DEF SearchInv
<1> QED
  BY <1>12 DEF r, m

(* The fields of a tree with a node linked. *)
LEMMA LinkFields ==
    ASSUME NEW t \in TreeType, NEW n \in Node, NEW par \in Node, n # par,
           NEW e \in Names, NEW asked \in Names, NEW sem \in Sem \cup {NULL},
           NEW u, u = Link(t, n, e, asked, par, sem)
    PROVE  /\ u \in TreeType
           /\ u.alloc = t.alloc
           /\ u.node[n].entry = e /\ u.node[n].asked = asked /\ u.node[n].parent = par
           /\ u.node[n].refcount = 0 /\ u.node[n].mount = NULL
           /\ u.kids[n] = << >>
           /\ u.kids[par] = Append(t.kids[par], n)
           /\ \A x \in Node \ {n} : u.node[x] = t.node[x]
           /\ \A x \in Node \ {n, par} : u.kids[x] = t.kids[x]
<1> DEFINE r == [NoNode EXCEPT !.entry = e, !.asked = asked, !.parent = par, !.sem = sem]
           a == Append(t.kids[par], n)
           none == << >>
           w == [t EXCEPT !.node[n] = r, !.kids[n] = none, !.kids[par] = a]
<1>1. /\ r \in NodeType /\ r.entry = e /\ r.asked = asked /\ r.parent = par
      /\ r.refcount = 0 /\ r.mount = NULL
  BY DEF NoNode, NodeType, Names, NULL
<1>2. t.kids[par] \in Seq(Node)
  BY TreeFields
<1>3. a \in Seq(Node) /\ none \in Seq(Node)
  BY <1>2, AppendProperties
<1>4. Link(t, n, e, asked, par, sem) = w
  <2>1. [t EXCEPT !.node[n] = r, !.kids[n] = none].kids[par] = t.kids[par]
    BY DEF TreeType
  <2> QED
    BY <2>1 DEF Link
<1> HIDE DEF r, a, none
<1>5. /\ w \in TreeType /\ w.alloc = t.alloc
      /\ w.node[n] = r
      /\ w.kids[n] = none /\ w.kids[par] = a
      /\ \A x \in Node \ {n} : w.node[x] = t.node[x]
      /\ \A x \in Node \ {n, par} : w.kids[x] = t.kids[x]
  BY <1>1, <1>3 DEF TreeType
<1> HIDE DEF w
<1> QED
  BY <1>1, <1>4, <1>5 DEF none, a

(* The absolute path of the next name, and the names asked for. *)
NextEntry(s, name) == Append(s.t.node[s.par].entry, name)
NextAsked(s, name) == Append(s.t.node[s.par].asked, name)

Entered(s, n, e, asked, sem) ==
    [Made(s, n) EXCEPT !.t = Link(Made(s, n).t, n, e, asked, s.par, sem), !.cur = n]

(* A search that finds the entry makes its node a child of cur. *)
LEMMA LinkKeepsSearch ==
    ASSUME NEW t, TreeInv(t), NEW s, NEW last, NEW name \in Name, AtGap(t, s, last, name),
           NEW n \in Node \ s.t.alloc, NEW sem \in Sem \cup {NULL},
           NEW a \in Name, Same(s.t.node[s.par].entry, a, name),
           NEW e, e = NextEntry(s, a), NEW asked, asked = NextAsked(s, name),
           NEW r, r = Entered(s, n, e, asked, sem)
    PROVE  /\ SearchInv(t, r, last)
           /\ r.t.node[r.cur].mount = NULL
<1> DEFINE m == Made(s, n)
           v == m.t
           u == Link(v, n, e, asked, s.par, sem)
<1>1. /\ s \in SearchType /\ TreeInv(s.t) /\ Extends(t, s.t) /\ InTree(s.t, s.cur) /\ InTree(s.t, s.par)
      /\ StackInv(t, s) /\ s.end = "no" /\ s.par = s.cur /\ Cached(s.t, s.par, name) = {}
      /\ IF s.stack = << >> THEN s.t = t ELSE s.cur \in Range(s.stack)
  BY DEF AtGap, SearchInv
<1>2. /\ m \in SearchType
      /\ m.cur = s.cur /\ m.par = s.par /\ m.end = s.end
      /\ m.stack = Append(s.stack, n)
      /\ Makes(s.t, v, n)
  BY <1>1, MadeFields
<1>3. /\ s.stack \in Seq(Node) /\ s.t \in TreeType /\ s.t.alloc \subseteq Node /\ s.par \in s.t.alloc
      /\ s.par \in Node /\ n # s.par /\ Len(s.stack) \in Nat /\ n \in Node
  BY <1>1, SearchFields, TreeFields DEF InTree
<1>4. e \in Names /\ asked \in Names
  <2>1. s.t.node[s.par].entry \in Seq(Name) /\ s.t.node[s.par].asked \in Seq(Name)
    BY <1>3, TreeFields DEF Names
  <2> QED
    BY <2>1, AppendProperties DEF Names, NextEntry, NextAsked
<1> HIDE DEF m, v
<1>5. /\ v \in TreeType /\ v.alloc = s.t.alloc \cup {n}
      /\ \A x \in Node \ {n} : v.node[x] = s.t.node[x] /\ v.kids[x] = s.t.kids[x]
  BY <1>2 DEF Makes
<1>6. /\ u \in TreeType
      /\ u.alloc = v.alloc
      /\ u.node[n].entry = e /\ u.node[n].asked = asked /\ u.node[n].parent = s.par
      /\ u.node[n].refcount = 0 /\ u.node[n].mount = NULL
      /\ u.kids[n] = << >>
      /\ u.kids[s.par] = Append(v.kids[s.par], n)
      /\ \A x \in Node \ {n} : u.node[x] = v.node[x]
      /\ \A x \in Node \ {n, s.par} : u.kids[x] = v.kids[x]
  <2>1. n \in Node /\ s.par \in Node /\ n # s.par /\ u = Link(v, n, e, asked, s.par, sem)
    BY <1>3
  <2> HIDE DEF u
  <2> QED
    BY <2>1, <1>4, <1>5, LinkFields, SMTT(30)
<1> HIDE DEF u
<1>7. Links(s.t, u, n, s.par, a, name)
  BY <1>3, <1>5, <1>6 DEF Links, NextEntry, NextAsked
<1>8. /\ r \in SearchType /\ r.t = u /\ r.cur = n /\ r.par = s.par /\ r.end = "no"
      /\ r.stack = Append(s.stack, n)
  BY <1>1, <1>2, <1>6 DEF SearchType, u, v, m, Entered
<1>9. /\ TreeInv(u)
      /\ \A x : InTree(u, x) <=> InTree(s.t, x) \/ x = n
      /\ KidsOf(u, s.par) = KidsOf(s.t, s.par) \cup {n}
      /\ KidsOf(u, n) = {}
      /\ \A x \in s.t.alloc \ {s.par} : KidsOf(u, x) = KidsOf(s.t, x)
  <2> DEFINE w == s.t
             par == s.par
  <2>1. TreeInv(w) /\ InTree(w, par) /\ Cached(w, par, name) = {} /\ Links(w, u, n, par, a, name)
    BY <1>1, <1>7
  <2> HIDE DEF w, par
  <2>2. /\ TreeInv(u)
        /\ \A x : InTree(u, x) <=> InTree(w, x) \/ x = n
        /\ KidsOf(u, par) = KidsOf(w, par) \cup {n}
        /\ KidsOf(u, n) = {}
        /\ \A x \in w.alloc \ {par} : KidsOf(u, x) = KidsOf(w, x)
    BY <2>1, LinkKeepsTree
  <2> QED
    BY <2>2 DEF w, par
<1>10. /\ u.alloc = s.t.alloc \cup {n}
       /\ \A x \in s.t.alloc : u.node[x] = s.t.node[x] /\ KidsOf(s.t, x) \subseteq KidsOf(u, x)
  BY <1>3, <1>5, <1>6, <1>9
<1>11. Extends(s.t, u)
  BY <1>6, <1>10 DEF Extends
<1>12. Extends(t, u)
  BY <1>1, <1>11, ExtendsTwice
<1>13. /\ Range(r.stack) = Range(s.stack) \cup {n}
       /\ Len(r.stack) = Len(s.stack) + 1
       /\ r.stack # << >>
       /\ r.stack[Len(s.stack) + 1] = n
       /\ \A i \in 1..Len(s.stack) : r.stack[i] = s.stack[i]
  BY <1>3, <1>8, PushRange
<1>14. StackInv(t, r)
  <2>1. ASSUME NEW g \in Range(r.stack) PROVE g \in u.alloc \ t.alloc /\ KidsOf(u, g) \subseteq Range(r.stack)
    <3>1. CASE g = n
      BY <3>1, <1>1, <1>9, <1>10 DEF Extends
    <3>2. CASE g \in Range(s.stack)
      <4>1. g \in s.t.alloc \ t.alloc /\ KidsOf(s.t, g) \subseteq Range(s.stack)
        BY <3>2, <1>1 DEF StackInv
      <4>2. KidsOf(u, g) \subseteq KidsOf(s.t, g) \cup {n}
        BY <4>1, <1>9
      <4> QED
        BY <4>1, <4>2, <1>10, <1>13
    <3> QED
      BY <3>1, <3>2, <1>13
  <2>2. ASSUME NEW i \in 2..Len(r.stack) PROVE u.node[r.stack[i]].parent \in Range(r.stack) \cup {NULL}
    <3>1. CASE i = Len(s.stack) + 1
      <4>1. s.stack # << >>
        <5> SUFFICES ASSUME s.stack = << >> PROVE FALSE
          OBVIOUS
        <5>1. Len(s.stack) = 0
          OBVIOUS
        <5> QED
          BY <5>1, <3>1
      <4>2. s.par \in Range(s.stack)
        BY <4>1, <1>1
      <4> QED
        BY <3>1, <4>2, <1>6, <1>13
    <3>2. CASE i # Len(s.stack) + 1
      <4>1. i \in 2..Len(s.stack) /\ i \in 1..Len(s.stack)
        BY <3>2, <1>13, <1>3
      <4>2. r.stack[i] = s.stack[i] /\ s.stack[i] \in Range(s.stack)
        BY <4>1, <1>13, <1>1, SearchFields
      <4>3. s.stack[i] \in s.t.alloc /\ s.t.node[s.stack[i]].parent \in Range(s.stack) \cup {NULL}
        BY <4>1, <4>2, <1>1 DEF StackInv
      <4> QED
        BY <4>2, <4>3, <1>10, <1>13
    <3> QED
      BY <3>1, <3>2
  <2> QED
    BY <2>1, <2>2, <1>8 DEF StackInv
<1>15. SearchInv(t, r, last)
  <2>1. InTree(u, r.cur) /\ InTree(u, r.par) /\ r.cur \in Range(r.stack) /\ KidsOf(u, r.cur) = {}
    BY <1>1, <1>8, <1>9, <1>13
  <2> QED
    BY <2>1, <1>8, <1>9, <1>12, <1>13, <1>14 DEF SearchInv
<1> QED
  BY <1>6, <1>8, <1>15

(* A search that ends is in order. *)
LEMMA EndKeepsSearch ==
    ASSUME NEW t, NEW s, NEW last, SearchInv(t, s, last), NEW end \in Ends, end # "no", end # "create"
    PROVE  SearchInv(t, [s EXCEPT !.end = end], last) /\ [s EXCEPT !.end = end].end = end
<1> DEFINE r == [s EXCEPT !.end = end]
<1>1. s \in SearchType
  BY DEF SearchInv
<1>2. /\ r \in SearchType /\ r.t = s.t /\ r.cur = s.cur /\ r.par = s.par /\ r.stack = s.stack
      /\ r.end = end
  BY <1>1 DEF SearchType
<1> HIDE DEF r
<1>3. StackInv(t, r)
  BY <1>2 DEF SearchInv, StackInv
<1>4. SearchInv(t, r, last)
  BY <1>2, <1>3 DEF SearchInv
<1> QED
  BY <1>2, <1>4 DEF r

(* vfs_find_and_create_node's look into the file system. *)
LEMMA DiscoverKeepsSearch ==
    ASSUME NEW t, TreeInv(t), DiskType(disk), NEW s, NEW last, NEW name \in Name,
           AtGap(t, s, last, name), NEW isLast, isLast => name = last, NEW flags,
           NEW d, d = Discover(s, name, isLast, flags)
    PROVE  SearchInv(t, d, last) /\ (d.end = "no" => d.t.node[d.cur].mount = NULL)
<1> DEFINE free == Node \ s.t.alloc
           n == Lowest(free)
           spelt == Spellings(s.t.node[s.par].entry, name)
           a == CHOOSE x \in spelt : TRUE
           e == NextEntry(s, a)
           asked == NextAsked(s, name)
           X == IF isLast /\ "create" \in flags /\ "onlydir" \notin flags THEN "create" ELSE "error"
<1>0. d = IF Len(s.stack) >= MAX_ALLOCATION THEN [s EXCEPT !.end = "depth"]
          ELSE IF free = {} THEN [s EXCEPT !.end = "error"]
          ELSE IF ~IsDir(disk, s.t, s.par) THEN [Made(s, n) EXCEPT !.end = "error"]
          ELSE IF spelt = {} THEN [Made(s, n) EXCEPT !.end = X]
          ELSE IF "exclusive" \in flags /\ isLast THEN [Made(s, n) EXCEPT !.end = "error"]
          ELSE Entered(s, n, e, asked, disk[e].sem)
  BY Zenon DEF Discover, Made, NextEntry, NextAsked, Entered
<1>1. SearchInv(t, s, last)
  BY DEF AtGap
<1>2. "depth" \in Ends /\ "error" \in Ends /\ "depth" # "no" /\ "error" # "no" /\ "create" # "no" /\ "depth" # "create" /\ "error" # "create"
  BY DEF Ends
<1>3. X \in {"create", "error"} /\ (X = "create" => isLast)
  OBVIOUS
<1>4. free # {} => n \in free
  <2>1. free \in SUBSET Nat
    BY NullApart
  <2> HIDE DEF free
  <2> QED
    BY <2>1, LowestIn
<1>41. spelt # {} => a \in Name /\ Same(s.t.node[s.par].entry, a, name) /\ e \in DOMAIN disk
  <2> SUFFICES ASSUME spelt # {}
               PROVE  a \in Name /\ Same(s.t.node[s.par].entry, a, name) /\ e \in DOMAIN disk
    OBVIOUS
  <2>1. a \in spelt
    OBVIOUS
  <2> HIDE DEF a
  <2> QED
    BY <2>1 DEF Spellings, NextEntry
<1> HIDE DEF n, spelt, a, e, asked, X
<1>5. CASE d = [s EXCEPT !.end = "depth"]
  <2> DEFINE end == "depth"
  <2>1. end \in Ends /\ end # "no" /\ end # "create" /\ d = [s EXCEPT !.end = end]
    BY <1>2, <1>5
  <2> HIDE DEF end
  <2> QED
    BY <2>1, <1>1, EndKeepsSearch
<1>6. CASE d = [s EXCEPT !.end = "error"]
  <2> DEFINE end == "error"
  <2>1. end \in Ends /\ end # "no" /\ end # "create" /\ d = [s EXCEPT !.end = end]
    BY <1>2, <1>6
  <2> HIDE DEF end
  <2> QED
    BY <2>1, <1>1, EndKeepsSearch
<1>7. ASSUME n \in free, NEW end \in {"create", "error"}, end = "create" => name = last,
             d = [Made(s, n) EXCEPT !.end = end]
      PROVE  SearchInv(t, d, last) /\ (d.end = "no" => d.t.node[d.cur].mount = NULL)
  <2>1. end \in Ends /\ end # "no"
    BY <1>2, <1>7 DEF Ends
  <2>2. SearchInv(t, d, last)
    BY <2>1, <1>7, MakeKeepsSearch
  <2>3. d.end = end
    <3>1. s \in SearchType
      BY <1>1 DEF SearchInv
    <3>2. Made(s, n) \in SearchType
      BY <3>1, <1>7, MadeFields
    <3> QED
      BY <3>2, <1>7 DEF SearchType
  <2> QED
    BY <2>1, <2>2, <2>3
<1>8. CASE n \in free /\ d = [Made(s, n) EXCEPT !.end = "error"]
  BY <1>2, <1>7, <1>8
<1>9. CASE n \in free /\ d = [Made(s, n) EXCEPT !.end = X]
  BY <1>3, <1>7, <1>9
<1>10. CASE n \in free /\ spelt # {} /\ d = Entered(s, n, e, asked, disk[e].sem)
  <2> DEFINE sem == disk[e].sem
  <2>1. sem \in Sem \cup {NULL}
    BY <1>10, <1>41 DEF DiskType
  <2>2. /\ e = NextEntry(s, a) /\ asked = NextAsked(s, name) /\ n \in Node \ s.t.alloc
        /\ d = Entered(s, n, e, asked, sem) /\ a \in Name /\ Same(s.t.node[s.par].entry, a, name)
    BY <1>10, <1>41 DEF e, asked
  <2> HIDE DEF sem
  <2> QED
    BY <2>1, <2>2, LinkKeepsSearch
<1> QED
  BY <1>0, <1>4, <1>5, <1>6, <1>8, <1>9, <1>10

(* One token of a path without "..". *)
LEMMA StepKeepsSearch ==
    ASSUME NEW t, TreeInv(t), DiskType(disk), NEW s, NEW last, SearchInv(t, s, last),
           NEW name \in Name, name # "..", NEW isLast, isLast => name = last, NEW flags
    PROVE  SearchInv(t, Step(s, name, isLast, flags), last)
<1> DEFINE named == Cached(s.t, s.cur, name)
           down == [s EXCEPT !.par = s.cur]
           next == IF named # {} THEN [down EXCEPT !.cur = s.t.kids[s.cur][Lowest(named)]]
                   ELSE Discover(down, name, isLast, flags)
<1>1. Step(s, name, isLast, flags) = IF s.end # "no" THEN s ELSE Redirect(next)
  BY Zenon DEF Step
<1>2. CASE s.end # "no"
  BY <1>1, <1>2
<1>3. CASE s.end = "no"
  <2>1. /\ s \in SearchType /\ TreeInv(s.t) /\ Extends(t, s.t) /\ InTree(s.t, s.cur) /\ StackInv(t, s)
        /\ IF s.stack = << >> THEN s.t = t ELSE s.cur \in Range(s.stack) /\ KidsOf(s.t, s.cur) = {}
    BY <1>3 DEF SearchInv
  <2>2. s.t \in TreeType /\ s.cur \in Node /\ s.cur \in s.t.alloc /\ s.t.kids[s.cur] \in Seq(Node)
    BY <2>1, TreeFields, SearchFields DEF InTree
  <2>3. /\ down \in SearchType /\ down.t = s.t /\ down.cur = s.cur /\ down.par = s.cur
        /\ down.stack = s.stack /\ down.end = "no"
    BY <2>1, <2>2, <1>3 DEF SearchType
  <2> HIDE DEF down
  <2>4. SearchInv(t, down, last)
    <3>1. StackInv(t, down)
      BY <2>1, <2>3 DEF StackInv
    <3> QED
      BY <2>1, <2>3, <3>1 DEF SearchInv
  <2>5. CASE named = {}
    <3>1. AtGap(t, down, last, name)
      BY <2>3, <2>4, <2>5 DEF AtGap
    <3>2. next = Discover(down, name, isLast, flags)
      BY <2>5
    <3> HIDE DEF next
    <3>3. SearchInv(t, next, last) /\ (next.end = "no" => next.t.node[next.cur].mount = NULL)
      BY <3>1, <3>2, DiscoverKeepsSearch
    <3>4. Redirect(next) = next
      BY <3>3 DEF Redirect
    <3> QED
      BY <3>3, <3>4, <1>1, <1>3
  <2>6. CASE named # {}
    <3> DEFINE c == s.t.kids[s.cur][Lowest(named)]
    <3>1. Lowest(named) \in 1..Len(s.t.kids[s.cur])
      <4>1. named \in SUBSET Nat /\ named \subseteq 1..Len(s.t.kids[s.cur])
        BY <2>2 DEF Cached
      <4> HIDE DEF named
      <4> QED
        BY <4>1, <2>6, LowestIn
    <3>2. c \in KidsOf(s.t, s.cur)
      <4> HIDE DEF named
      <4> QED
        BY <3>1, <2>2 DEF KidsOf, Range
    <3>3. s.stack = << >> /\ s.t = t
      BY <3>2, <2>1
    <3>4. c \in Node /\ InTree(t, c) /\ c \in t.alloc
      BY <3>2, <3>3, <2>1, <2>2, KidFacts
    <3>5. next = [down EXCEPT !.cur = c]
      BY <2>6
    <3> HIDE DEF c, next, named
    <3>6. /\ next \in SearchType /\ next.t = t /\ next.cur = c /\ next.par = s.cur
          /\ next.stack = << >> /\ next.end = "no"
      BY <2>3, <3>3, <3>4, <3>5 DEF SearchType
    <3>7. ASSUME NEW to \in Node, InTree(t, to), NEW r \in SearchType,
                 r.t = t, r.cur = to, r.par = s.cur, r.stack = << >>, r.end = "no"
          PROVE  SearchInv(t, r, last)
      <4>1. StackInv(t, r)
        BY <3>7 DEF StackInv, Range
      <4>2. Extends(t, t)
        BY ExtendsSelf
      <4> QED
        BY <3>7, <4>1, <4>2, <3>3, <2>1 DEF SearchInv
    <3>8. CASE t.node[c].mount = NULL
      <4>1. Redirect(next) = next
        BY <3>6, <3>8 DEF Redirect
      <4>2. SearchInv(t, next, last)
        BY <3>4, <3>6, <3>7
      <4> QED
        BY <4>1, <4>2, <1>1, <1>3
    <3>9. CASE t.node[c].mount # NULL
      <4> DEFINE to == t.node[c].mount
                 r == [next EXCEPT !.cur = to]
      <4>1. InTree(t, to)
        BY <3>4, <3>9 DEF TreeInv, MountInv
      <4>2. to \in Node
        BY <4>1, <3>3, <2>2, TreeFields DEF InTree
      <4>3. Redirect(next) = r
        BY <3>6, <3>9 DEF Redirect
      <4> HIDE DEF to
      <4>4. /\ r \in SearchType /\ r.t = t /\ r.cur = to /\ r.par = s.cur
            /\ r.stack = << >> /\ r.end = "no"
        BY <3>6, <4>2 DEF SearchType
      <4> HIDE DEF r
      <4>5. SearchInv(t, r, last)
        BY <4>1, <4>2, <4>4, <3>7
      <4> QED
        BY <4>3, <4>5, <1>1, <1>3
    <3> QED
      BY <3>8, <3>9
  <2> QED
    BY <2>5, <2>6
<1> QED
  BY <1>2, <1>3

Begin(t) == [t |-> t, cur |-> Root, par |-> Root, stack |-> << >>, end |-> "no"]

(* A search begins in order. *)
LEMMA BeginInv ==
    ASSUME NEW t, TreeInv(t), NEW last
    PROVE  SearchInv(t, Begin(t), last)
<1> DEFINE s == Begin(t)
<1>1. t \in TreeType /\ Root \in Node /\ "no" \in Ends /\ << >> \in Seq(Node)
  BY NullApart DEF TreeInv, Ends
<1>2. s \in SearchType /\ s.t = t /\ s.cur = Root /\ s.par = Root /\ s.stack = << >> /\ s.end = "no"
  BY <1>1 DEF SearchType, Begin
<1> HIDE DEF s
<1>3. InTree(t, Root)
  BY DEF InTree, TreeInv, RootInv
<1>4. StackInv(t, s)
  BY <1>2 DEF StackInv, Range
<1>5. SearchInv(t, s, last)
  BY <1>2, <1>3, <1>4, ExtendsSelf DEF SearchInv
<1> QED
  BY <1>5 DEF s

Plain(path) == path \in Names /\ \A i \in 1..Len(path) : path[i] # ".."

IsSearch(g, t, path, flags) ==
    g = [i \in 0..Len(path) |-> IF i = 0 THEN Begin(t)
                                ELSE Step(g[i - 1], path[i], i = Len(path), flags)]

(* The whole path. *)
LEMMA SearchKeepsTree ==
    ASSUME NEW t, TreeInv(t), DiskType(disk), NEW path, Plain(path), NEW flags
    PROVE  SearchInv(t, Search(t, path, flags), Last(path))
<1> DEFINE last == Last(path)
           S == {s \in SearchType : SearchInv(t, s, last)}
           T == [u \in (1..Len(path)) \X S |-> Step(u[2], path[u[1]], u[1] = Len(path), flags)]
           h == CHOOSE g : IsSearch(g, t, path, flags)
<1>0. /\ path \in Seq(Name) /\ Len(path) \in Nat
      /\ \A i \in 1..Len(path) : path[i] \in Name /\ path[i] # ".." /\ (i = Len(path) => path[i] = last)
  BY DEF Plain, Names, Last
<1>1. Search(t, path, flags) = h[Len(path)]
  BY Zenon DEF Search, IsSearch, Begin
<1>2. Begin(t) \in S
  BY BeginInv DEF SearchInv
<1>3. \A i \in 1..Len(path) : \A s \in S : T[<<i, s>>] = Step(s, path[i], i = Len(path), flags)
  OBVIOUS
<1> HIDE DEF last
<1>4. ASSUME NEW i \in 1..Len(path), NEW s \in S PROVE T[<<i, s>>] \in S
  <2> DEFINE name == path[i]
             isLast == (i = Len(path))
  <2>1. name \in Name /\ name # ".." /\ (isLast => name = last) /\ SearchInv(t, s, last)
    BY <1>0
  <2>2. T[<<i, s>>] = Step(s, name, isLast, flags)
    BY <1>3
  <2> HIDE DEF name, isLast, T
  <2>3. SearchInv(t, Step(s, name, isLast, flags), last)
    BY <2>1, StepKeepsSearch
  <2> QED
    BY <2>2, <2>3 DEF SearchInv
<1> HIDE DEF S, T
<1>5. PICK f \in [0..Len(path) -> S] : Follows(f, Begin(t), T, Len(path))
  BY <1>0, <1>2, <1>4, Recursion
<1>6. ASSUME NEW i \in 0..Len(path)
      PROVE  f[i] = IF i = 0 THEN Begin(t) ELSE Step(f[i - 1], path[i], i = Len(path), flags)
  <2>1. CASE i = 0
    BY <2>1, <1>5 DEF Follows
  <2>2. CASE i # 0
    <3>1. i \in 1..Len(path) /\ i - 1 \in 0..Len(path)
      BY <2>2, <1>0
    <3>2. f[i - 1] \in S /\ f[i] = T[<<i, f[i - 1]>>]
      BY <3>1, <1>5 DEF Follows
    <3> QED
      BY <2>2, <3>1, <3>2, <1>3
  <2> QED
    BY <2>1, <2>2
<1>7. IsSearch(f, t, path, flags)
  BY <1>6 DEF IsSearch
<1>8. IsSearch(h, t, path, flags)
  BY <1>7
<1> HIDE DEF h
<1>9. \A i \in 0..Len(path) : h[i] = IF i = 0 THEN Begin(t) ELSE Step(h[i - 1], path[i], i = Len(path), flags)
  BY <1>8 DEF IsSearch
<1> DEFINE Ind == {i \in Nat : i <= Len(path) => h[i] \in S}
<1>10. 0 \in Ind
  BY <1>0, <1>2, <1>9
<1>11. ASSUME NEW i \in Nat, i \in Ind PROVE i + 1 \in Ind
  <2> SUFFICES ASSUME i + 1 <= Len(path) PROVE h[i + 1] \in S
    OBVIOUS
  <2>1. i + 1 \in 1..Len(path) /\ i + 1 \in 0..Len(path) /\ i + 1 # 0 /\ (i + 1) - 1 = i /\ h[i] \in S
    BY <1>0, <1>11
  <2>2. h[i + 1] = Step(h[i], path[i + 1], i + 1 = Len(path), flags)
    BY <2>1, <1>9
  <2> DEFINE j == i + 1
  <2>3. j \in 1..Len(path) /\ h[j] = Step(h[i], path[j], j = Len(path), flags)
    BY <2>1, <2>2
  <2> HIDE DEF j
  <2>4. T[<<j, h[i]>>] = Step(h[i], path[j], j = Len(path), flags)
    BY <2>1, <2>3, <1>3
  <2>5. T[<<j, h[i]>>] \in S
    BY <2>1, <2>3, <1>4
  <2>6. h[j] \in S
    BY <2>3, <2>4, <2>5
  <2> QED
    BY <2>6 DEF j
<1>12. Len(path) \in Ind
  <2> HIDE DEF Ind
  <2> QED
    BY <1>0, <1>10, <1>11, NatSetInduction
<1>13. h[Len(path)] \in S
  BY <1>0, <1>12
<1> QED
  BY <1>1, <1>13 DEF S, last

(* What vfs_find_and_create_node gives back. *)
FindInv(t, f) ==
    /\ TreeInv(f.t)
    /\ Extends(t, f.t)
    /\ f.ret # NULL => InTree(f.t, f.ret)
    /\ f.ret # NULL /\ f.ret \notin t.alloc => KidsOf(f.t, f.ret) = {}
    /\ DiskType(f.disk)

(* A search that creates the last entry of its path. *)
LEMMA CreateKeepsTree ==
    ASSUME NEW t, TreeInv(t), DiskType(disk), NEW s, NEW name \in Name, SearchInv(t, s, name),
           s.end = "create", NEW kind \in Kinds, NEW made
    PROVE  FindInv(t, Create(s, name, kind, made))
<1> DEFINE free == Node \ s.t.alloc
           n == Lowest(free)
           e == Append(s.t.node[s.par].entry, name)
           w == s.t
           par == s.par
           v == [w EXCEPT !.alloc = @ \cup {n}]
           asked == Append(s.t.node[s.par].asked, name)
           u == Link(v, n, e, asked, par, NULL)
           no == free = {} \/ ~made \/ (kind = "semaphore" /\ OnFat32(s.t.node[s.par].entry))
           d == [x \in DOMAIN disk \cup {e} |-> IF x = e THEN [kind |-> kind, sem |-> NULL] ELSE disk[x]]
           f == Create(s, name, kind, made)
<1>1. /\ s \in SearchType /\ TreeInv(w) /\ Extends(t, w) /\ InTree(w, par) /\ Cached(w, par, name) = {}
  BY DEF SearchInv
<1>2. w \in TreeType /\ par \in Node /\ par \in w.alloc /\ w.alloc \subseteq Node
  BY <1>1, SearchFields, TreeFields DEF InTree
<1>3. CASE no
  <2>1. f = [t |-> Nuke(s), disk |-> disk, ret |-> NULL]
    BY <1>3 DEF Create
  <2>2. f.t = Nuke(s) /\ f.disk = disk /\ f.ret = NULL
    BY <2>1
  <2> HIDE DEF f
  <2>3. TreeInv(f.t) /\ Extends(t, f.t)
    BY <2>2, NukeKeepsTree
  <2>4. FindInv(t, f)
    BY <2>2, <2>3 DEF FindInv
  <2> QED
    BY <2>4 DEF f
<1>4. CASE ~no
  <2>1. f = [t |-> u, disk |-> d, ret |-> n]
    BY <1>4 DEF Create
  <2>2. f.t = u /\ f.disk = d /\ f.ret = n
    <3> HIDE DEF f, u, d, n
    <3> QED
      BY <2>1
  <2>3. n \in Node \ w.alloc
    <3>1. free \in SUBSET Nat /\ free # {}
      BY <1>4, NullApart
    <3> HIDE DEF free
    <3>2. n \in free
      BY <3>1, LowestIn
    <3> QED
      BY <3>2 DEF free
  <2>4. e \in Names /\ asked \in Names
    <3>1. w.node[par].entry \in Seq(Name) /\ w.node[par].asked \in Seq(Name)
      BY <1>2, TreeFields DEF Names
    <3> QED
      BY <3>1, AppendProperties DEF Names
  <2>5. /\ e = Append(w.node[par].entry, name) /\ asked = Append(w.node[par].asked, name)
        /\ Same(w.node[par].entry, name, name)
    BY DEF Same
  <2>6. DiskType(d)
    BY DEF DiskType
  <2>7. DiskType(f.disk)
    <3> HIDE DEF d
    <3> QED
      BY <2>2, <2>6
  <2> HIDE DEF n, e, asked, w, par, f
  <2>8. /\ v \in TreeType /\ v.alloc = w.alloc \cup {n} /\ v.node = w.node /\ v.kids = w.kids
    BY <1>2, <2>3 DEF TreeType
  <2> HIDE DEF v
  <2>9. n \in Node /\ n # par /\ NULL \in Sem \cup {NULL} /\ u = Link(v, n, e, asked, par, NULL)
    BY <1>2, <2>3
  <2> HIDE DEF u
  <2>10. /\ u \in TreeType
         /\ u.alloc = v.alloc
         /\ u.node[n].entry = e /\ u.node[n].asked = asked /\ u.node[n].parent = par
         /\ u.node[n].refcount = 0 /\ u.node[n].mount = NULL
         /\ u.kids[n] = << >>
         /\ u.kids[par] = Append(v.kids[par], n)
         /\ \A x \in Node \ {n} : u.node[x] = v.node[x]
         /\ \A x \in Node \ {n, par} : u.kids[x] = v.kids[x]
    BY <1>2, <2>4, <2>8, <2>9, LinkFields
  <2>11. Links(w, u, n, par, name, name)
    BY <2>3, <2>5, <2>8, <2>10 DEF Links
  <2>12. /\ TreeInv(u)
         /\ \A x : InTree(u, x) <=> InTree(w, x) \/ x = n
         /\ KidsOf(u, par) = KidsOf(w, par) \cup {n}
         /\ KidsOf(u, n) = {}
         /\ \A x \in w.alloc \ {par} : KidsOf(u, x) = KidsOf(w, x)
    BY <1>1, <2>11, LinkKeepsTree
  <2>13. \A x \in w.alloc : u.node[x] = w.node[x] /\ KidsOf(w, x) \subseteq KidsOf(u, x)
    BY <1>2, <2>3, <2>8, <2>10, <2>12
  <2>14. Extends(w, u)
    BY <2>8, <2>10, <2>13 DEF Extends
  <2>15. Extends(t, u)
    BY <1>1, <2>14, ExtendsTwice
  <2>16. FindInv(t, f)
    BY <2>2, <2>7, <2>12, <2>15 DEF FindInv, d
  <2> QED
    BY <2>16 DEF f
<1> QED
  BY <1>3, <1>4

(* vfs_find_and_create_node keeps the tree a tree and only adds to it. *)
LEMMA FindKeepsTree ==
    ASSUME NEW t, TreeInv(t), DiskType(disk), NEW path, Plain(path), NEW flags,
           NEW kind \in Kinds, NEW made
    PROVE  FindInv(t, FindAndCreateNode(t, path, flags, kind, made))
<1> DEFINE s == Search(t, path, flags)
           last == Last(path)
           f == Ended(s, last, kind, made)
           r == OnlyDir(s, f, flags)
<1>1. FindAndCreateNode(t, path, flags, kind, made) = r
  BY Zenon DEF FindAndCreateNode
<1>2. SearchInv(t, s, last)
  BY SearchKeepsTree
<1>3. s.end = "create" => last \in Name
  <2> SUFFICES ASSUME path = << >>, s.end = "create" PROVE FALSE
    BY DEF Plain, Names, Last
  <2>1. s = Begin(t)
    <3> DEFINE h == CHOOSE g : IsSearch(g, t, path, flags)
    <3>1. Search(t, path, flags) = h[Len(path)]
      BY Zenon DEF Search, IsSearch, Begin
    <3>2. \E g : IsSearch(g, t, path, flags)
      <4>1. IsSearch([i \in 0..Len(path) |-> Begin(t)], t, path, flags)
        BY DEF IsSearch
      <4> QED
        BY <4>1
    <3>3. IsSearch(h, t, path, flags)
      BY <3>2
    <3> HIDE DEF h
    <3> QED
      BY <3>1, <3>3 DEF IsSearch
  <2> QED
    BY <2>1 DEF Begin
<1> HIDE DEF s, last
<1>4. FindInv(t, f)
  <2>1. CASE s.end = "create"
    <3>1. f = Create(s, last, kind, made)
      BY <2>1 DEF Ended
    <3> QED
      BY <2>1, <3>1, <1>2, <1>3, CreateKeepsTree
  <2>2. CASE s.end # "create"
    <3> DEFINE u == IF s.end = "error" THEN Nuke(s) ELSE s.t
               n == IF s.end = "no" THEN s.cur ELSE NULL
    <3>1. f = [t |-> u, disk |-> disk, ret |-> n]
      BY <2>2 DEF Ended
    <3>2. f.t = u /\ f.disk = disk /\ f.ret = n
      BY <3>1
    <3>3. /\ TreeInv(s.t) /\ Extends(t, s.t) /\ InTree(s.t, s.cur)
          /\ s.end = "no" => IF s.stack = << >> THEN s.t = t
                             ELSE s.cur \in Range(s.stack) /\ KidsOf(s.t, s.cur) = {}
      BY <1>2 DEF SearchInv
    <3>4. TreeInv(Nuke(s)) /\ Extends(t, Nuke(s))
      BY <1>2, NukeKeepsTree
    <3>5. TreeInv(u) /\ Extends(t, u)
      BY <3>3, <3>4
    <3>6. n # NULL => InTree(u, n) /\ (n \notin t.alloc => KidsOf(u, n) = {})
      <4> SUFFICES ASSUME n # NULL PROVE InTree(u, n) /\ (n \notin t.alloc => KidsOf(u, n) = {})
        OBVIOUS
      <4>1. s.end = "no" /\ n = s.cur /\ u = s.t
        OBVIOUS
      <4>2. ASSUME s.stack = << >> PROVE s.cur \in t.alloc
        BY <4>1, <4>2, <3>3 DEF InTree
      <4> QED
        BY <4>1, <4>2, <3>3
    <3> HIDE DEF u, n, f
    <3> QED
      BY <3>2, <3>5, <3>6 DEF FindInv
  <2> QED
    BY <2>1, <2>2
<1> HIDE DEF f
<1>5. CASE f.ret # NULL /\ "onlydir" \in flags /\ ~IsDir(f.disk, f.t, f.ret)
  <2>1. r = [f EXCEPT !.t = Nuke(s), !.ret = NULL]
    BY <1>5 DEF OnlyDir
  <2>2. \E u, d, x : f = [t |-> u, disk |-> d, ret |-> x]
    BY Zenon DEF f, Ended, Create
  <2>3. r.t = Nuke(s) /\ r.ret = NULL /\ r.disk = f.disk
    BY <2>1, <2>2
  <2> HIDE DEF r
  <2>4. TreeInv(Nuke(s)) /\ Extends(t, Nuke(s))
    BY <1>2, NukeKeepsTree
  <2>5. FindInv(t, r)
    BY <2>3, <2>4, <1>4 DEF FindInv
  <2> QED
    BY <2>5, <1>1
<1>6. CASE ~(f.ret # NULL /\ "onlydir" \in flags /\ ~IsDir(f.disk, f.t, f.ret))
  <2>1. r = f
    BY <1>6 DEF OnlyDir
  <2> QED
    BY <2>1, <1>1, <1>4
<1> QED
  BY <1>5, <1>6

-----------------------------------------------------------------------------
(* Uses of a node. *)

FdType == [Process -> [Slot -> Node \cup {NULL}]]

(* Uses can be counted. *)
LEMMA UsesFinite ==
    ASSUME NEW f, NEW m \in Seq(Node \X Node), NEW n
    PROVE  /\ IsFiniteSet(FdUses(f, n)) /\ IsFiniteSet(MountUses(m, n))
           /\ Cardinality(FdUses(f, n)) \in Nat /\ Cardinality(MountUses(m, n)) \in Nat
<1>1. IsFiniteSet(Process \X Slot)
  BY VfsAssumption, FS_Product
<1>2. IsFiniteSet((1..Len(m)) \X {1, 2})
  <2>1. Len(m) \in Nat
    OBVIOUS
  <2>2. IsFiniteSet(1..Len(m))
    BY <2>1, FS_Interval
  <2>3. IsFiniteSet({1, 2})
    <3> DEFINE a == 1
               b == 2
    <3>1. {1, 2} = a..b /\ a \in Int /\ b \in Int
      OBVIOUS
    <3> HIDE DEF a, b
    <3>2. IsFiniteSet(a..b)
      BY <3>1, FS_Interval
    <3> QED
      BY <3>1, <3>2
  <2> QED
    BY <2>2, <2>3, FS_Product
<1>3. IsFiniteSet(FdUses(f, n)) /\ IsFiniteSet(MountUses(m, n))
  BY <1>1, <1>2, FS_Subset DEF FdUses, MountUses
<1> QED
  BY <1>3, FS_CardinalityType

(* Their number is a number. *)
LEMMA UsesType ==
    ASSUME NEW f, NEW m \in Seq(Node \X Node), NEW n
    PROVE  Uses(f, m, n) \in Nat
BY UsesFinite DEF Uses

(* A finite set without one of its elements. *)
LEMMA OneLess ==
    ASSUME NEW S, IsFiniteSet(S), NEW x \in S
    PROVE  Cardinality(S \ {x}) = Cardinality(S) - 1 /\ Cardinality(S) >= 1
<1>1. IsFiniteSet(S \ {x}) /\ Cardinality(S \ {x}) = Cardinality(S) - 1
  BY FS_RemoveElement
<1>2. Cardinality(S \ {x}) \in Nat /\ Cardinality(S) \in Nat
  BY <1>1, FS_CardinalityType
<1> QED
  BY <1>1, <1>2

(* One descriptor changes. *)
Sets(f, g, p, i, v) == g = [f EXCEPT ![p][i] = v]

SetFd(f, g, p, i, v) ==
    /\ g \in FdType
    /\ g[p][i] = v
    /\ \A q \in Process, j \in Slot : <<q, j>> # <<p, i>> => g[q][j] = f[q][j]

UsesChange(f, g, u, v) ==
    \A n : FdUses(g, n) = IF n = v THEN FdUses(f, n) \cup {u} ELSE FdUses(f, n) \ {u}

(* The uses of every node when a descriptor changes. *)
LEMMA FdChange ==
    ASSUME NEW f \in FdType, NEW p \in Process, NEW i \in Slot, NEW v \in Node \cup {NULL},
           NEW g, Sets(f, g, p, i, v)
    PROVE  /\ SetFd(f, g, p, i, v)
           /\ UsesChange(f, g, <<p, i>>, v)
<1>1. /\ g \in FdType
      /\ g[p][i] = v
      /\ \A q \in Process, j \in Slot : <<q, j>> # <<p, i>> => g[q][j] = f[q][j]
  BY DEF FdType, Sets
<1>2. ASSUME NEW n
      PROVE  FdUses(g, n) = IF n = v THEN FdUses(f, n) \cup {<<p, i>>} ELSE FdUses(f, n) \ {<<p, i>>}
  <2>1. ASSUME NEW u \in Process \X Slot, u # <<p, i>>
        PROVE  u \in FdUses(g, n) <=> u \in FdUses(f, n)
    <3>1. u[1] \in Process /\ u[2] \in Slot /\ u = <<u[1], u[2]>>
      OBVIOUS
    <3>2. g[u[1]][u[2]] = f[u[1]][u[2]]
      BY <3>1, <2>1, <1>1
    <3> QED
      BY <3>2 DEF FdUses
  <2>2. <<p, i>> \in FdUses(g, n) <=> n = v
    BY <1>1 DEF FdUses
  <2>3. FdUses(g, n) \subseteq Process \X Slot /\ FdUses(f, n) \subseteq Process \X Slot
    BY DEF FdUses
  <2> QED
    BY <2>1, <2>2, <2>3
<1>3. UsesChange(f, g, <<p, i>>, v)
  BY <1>2 DEF UsesChange
<1> QED
  BY <1>1, <1>3 DEF SetFd

CountsChange(f, g, m, old, new) ==
    /\ \A n : n # new /\ n # old => Uses(g, m, n) = Uses(f, m, n)
    /\ Uses(g, m, new) = Uses(f, m, new) + 1
    /\ Uses(g, m, old) = Uses(f, m, old) - 1
    /\ Uses(f, m, old) >= 1

(* Their number. *)
LEMMA FdCount ==
    ASSUME NEW f \in FdType, NEW p \in Process, NEW i \in Slot, NEW v \in Node \cup {NULL},
           v # f[p][i], NEW m \in Seq(Node \X Node), NEW g, Sets(f, g, p, i, v)
    PROVE  CountsChange(f, g, m, f[p][i], v)
<1> DEFINE o == f[p][i]
<1>0. \A n : FdUses(g, n) = IF n = v THEN FdUses(f, n) \cup {<<p, i>>} ELSE FdUses(f, n) \ {<<p, i>>}
  <2>1. UsesChange(f, g, <<p, i>>, v)
    BY FdChange
  <2> QED
    BY <2>1 DEF UsesChange
<1>1. \A n : <<p, i>> \in FdUses(f, n) <=> n = o
  BY DEF FdUses
<1>2. \A n : /\ IsFiniteSet(FdUses(f, n)) /\ Cardinality(FdUses(f, n)) \in Nat
             /\ Cardinality(MountUses(m, n)) \in Nat
  BY UsesFinite
<1> HIDE DEF o
<1>3. ASSUME NEW n, n # v, n # o PROVE Uses(g, m, n) = Uses(f, m, n)
  <2>1. FdUses(g, n) = FdUses(f, n)
    <3>1. FdUses(g, n) = FdUses(f, n) \ {<<p, i>>}
      BY <1>0, <1>3
    <3>2. <<p, i>> \notin FdUses(f, n)
      BY <1>1, <1>3
    <3> QED
      BY <3>1, <3>2
  <2> QED
    BY <2>1 DEF Uses
<1>4. Uses(g, m, v) = Uses(f, m, v) + 1
  <2>1. FdUses(g, v) = FdUses(f, v) \cup {<<p, i>>} /\ <<p, i>> \notin FdUses(f, v)
    BY <1>0, <1>1 DEF o
  <2>2. Cardinality(FdUses(g, v)) = Cardinality(FdUses(f, v)) + 1
    BY <2>1, <1>2, FS_AddElement
  <2> QED
    BY <2>2, <1>2 DEF Uses
<1>5. Uses(g, m, o) = Uses(f, m, o) - 1 /\ Uses(f, m, o) >= 1
  <2>1. FdUses(g, o) = FdUses(f, o) \ {<<p, i>>} /\ <<p, i>> \in FdUses(f, o)
    BY <1>0, <1>1 DEF o
  <2>2. Cardinality(FdUses(g, o)) = Cardinality(FdUses(f, o)) - 1 /\ Cardinality(FdUses(f, o)) >= 1
    BY <2>1, <1>2, OneLess
  <2> QED
    BY <2>2, <1>2 DEF Uses
<1> QED
  BY <1>3, <1>4, <1>5 DEF o, CountsChange

(* A node in use is counted. *)
LEMMA CountedUse ==
    ASSUME NEW t, NEW f, NEW m, UseInv(t, f, m)
    PROVE  /\ \A p \in Process, i \in Slot :
                 f[p][i] # NULL => f[p][i] \in t.alloc /\ t.node[f[p][i]].refcount # 0
           /\ \A k \in 1..Len(m), j \in {1, 2} : m[k][j] \in t.alloc /\ t.node[m[k][j]].refcount # 0
           /\ Root \in t.alloc => t.node[Root].refcount # 0
<1>0. m \in Seq(Node \X Node) /\ \A n \in t.alloc : t.node[n].refcount = Uses(f, m, n)
  BY DEF UseInv
<1>1. ASSUME NEW p \in Process, NEW i \in Slot, f[p][i] # NULL
      PROVE  f[p][i] \in t.alloc /\ t.node[f[p][i]].refcount # 0
  <2> DEFINE n == f[p][i]
  <2>1. n \in t.alloc
    BY <1>1 DEF UseInv, InTree
  <2>2. <<p, i>> \in FdUses(f, n)
    BY DEF FdUses
  <2> HIDE DEF n
  <2>3. Cardinality(FdUses(f, n)) >= 1 /\ Cardinality(FdUses(f, n)) \in Nat /\ Cardinality(MountUses(m, n)) \in Nat
    BY <2>2, <1>0, UsesFinite, OneLess
  <2>4. Uses(f, m, n) # 0
    BY <2>3 DEF Uses
  <2>5. t.node[n].refcount # 0
    BY <2>1, <2>4, <1>0
  <2> QED
    BY <2>1, <2>5 DEF n
<1>2. ASSUME NEW k \in 1..Len(m), NEW j \in {1, 2}
      PROVE  m[k][j] \in t.alloc /\ t.node[m[k][j]].refcount # 0
  <2> DEFINE n == m[k][j]
  <2>1. n \in t.alloc
    BY DEF UseInv, InTree
  <2>2. <<k, j>> \in MountUses(m, n)
    BY DEF MountUses
  <2> HIDE DEF n
  <2>3. Cardinality(MountUses(m, n)) >= 1 /\ Cardinality(MountUses(m, n)) \in Nat /\ Cardinality(FdUses(f, n)) \in Nat
    BY <2>2, <1>0, UsesFinite, OneLess
  <2>4. Uses(f, m, n) # 0
    BY <2>3 DEF Uses
  <2>5. t.node[n].refcount # 0
    BY <2>1, <2>4, <1>0
  <2> QED
    BY <2>1, <2>5 DEF n
<1>3. ASSUME Root \in t.alloc PROVE t.node[Root].refcount # 0
  <2>1. Cardinality(MountUses(m, Root)) \in Nat /\ Cardinality(FdUses(f, Root)) \in Nat
    BY <1>0, UsesFinite
  <2>2. Uses(f, m, Root) # 0
    BY <2>1 DEF Uses
  <2> QED
    BY <2>2, <1>0, <1>3
<1> QED
  BY <1>1, <1>2, <1>3

(* Nodes that nobody uses may go, with their children. *)
Idle(t, gone) ==
    /\ gone \subseteq Node
    /\ \A g \in gone : t.node[g].refcount = 0 /\ KidsOf(t, g) \subseteq gone

Leaves(t, u, gone) == \A x : InTree(u, x) <=> InTree(t, x) /\ x \notin gone

(* What nobody uses is freed: uses and counts stay. *)
LEMMA FreeKeepsUse ==
    ASSUME NEW t, TreeInv(t), NEW f, NEW m, UseInv(t, f, m), NEW gone, Idle(t, gone),
           NEW u, Frees(t, u, gone)
    PROVE  TreeInv(u) /\ UseInv(u, f, m) /\ Leaves(t, u, gone)
<1>0. /\ gone \in SUBSET Node
      /\ \A g \in gone : t.node[g].refcount = 0 /\ KidsOf(t, g) \subseteq gone
  BY DEF Idle
<1>1. /\ \A p \in Process, i \in Slot : f[p][i] # NULL => f[p][i] \in t.alloc /\ t.node[f[p][i]].refcount # 0
      /\ \A k \in 1..Len(m), j \in {1, 2} : m[k][j] \in t.alloc /\ t.node[m[k][j]].refcount # 0
      /\ Root \in t.alloc => t.node[Root].refcount # 0
  BY CountedUse
<1>2. Root \notin gone
  BY <1>0, <1>1 DEF TreeInv, RootInv
<1>3. ASSUME NEW n \in t.alloc PROVE t.node[n].mount \notin gone
  <2>1. CASE t.node[n].mount = NULL
    BY <2>1, <1>0, NullApart
  <2>2. CASE t.node[n].mount # NULL
    <3>1. PICK k \in 1..Len(m) : t.node[n].mount = m[k][1]
      BY <2>2 DEF UseInv
    <3> QED
      BY <3>1, <1>0, <1>1
  <2> QED
    BY <2>1, <2>2
<1>4. MayGo(t, gone)
  BY <1>0, <1>2, <1>3 DEF MayGo
<1>5. TreeInv(u) /\ \A x : InTree(u, x) <=> InTree(t, x) /\ x \notin gone
  BY <1>0, <1>4, FreeKeepsTree
<1>6. u.node = t.node /\ u.alloc \subseteq t.alloc
  BY DEF Frees
<1>7. UseInv(u, f, m)
  <2>1. ASSUME NEW p \in Process, NEW i \in Slot, f[p][i] # NULL PROVE InTree(u, f[p][i])
    BY <2>1, <1>0, <1>1, <1>5 DEF UseInv
  <2>2. ASSUME NEW k \in 1..Len(m) PROVE InTree(u, m[k][1]) /\ InTree(u, m[k][2])
    BY <1>0, <1>1, <1>5 DEF UseInv
  <2> QED
    BY <2>1, <2>2, <1>6 DEF UseInv
<1> QED
  BY <1>5, <1>7 DEF Leaves

(* Fields change that are not links. *)
SameShape(t, u) ==
    /\ u \in TreeType
    /\ u.alloc = t.alloc
    /\ u.kids = t.kids
    /\ \A x \in Node : /\ u.node[x].entry = t.node[x].entry /\ u.node[x].asked = t.node[x].asked
                       /\ u.node[x].parent = t.node[x].parent

(* A tree whose links stay is a tree. *)
LEMMA ShapeKeepsTree ==
    ASSUME NEW t, TreeInv(t), NEW u, SameShape(t, u), MountInv(u)
    PROVE  /\ TreeInv(u)
           /\ \A x : InTree(u, x) <=> InTree(t, x)
           /\ \A x : KidsOf(u, x) = KidsOf(t, x)
<1>1. /\ t \in TreeType /\ RootInv(t) /\ KidsInv(t) /\ ParentInv(t) /\ AskedInv(t) /\ EntryInv(t)
      /\ u \in TreeType
  BY DEF TreeInv, SameShape
<1>2. t.alloc \subseteq Node /\ u.alloc = t.alloc /\ u.kids = t.kids
  BY <1>1, TreeFields DEF SameShape
<1>3. \A x \in t.alloc : /\ u.node[x].entry = t.node[x].entry /\ u.node[x].asked = t.node[x].asked
                         /\ u.node[x].parent = t.node[x].parent
  BY <1>2 DEF SameShape
<1>4. \A x : InTree(u, x) <=> InTree(t, x)
  BY <1>2, <1>3 DEF InTree
<1>5. \A x : KidsOf(u, x) = KidsOf(t, x)
  BY <1>2 DEF KidsOf
<1>6. RootInv(u)
  BY <1>1, <1>2, <1>3 DEF RootInv
<1>7. KidsInv(u)
  BY <1>1, <1>2, <1>3, <1>5 DEF KidsInv
<1>8. ParentInv(u)
  BY <1>1, <1>2, <1>3, <1>5 DEF ParentInv
<1>9. EntryInv(u)
  BY <1>1, <1>2, <1>3, <1>4 DEF EntryInv
<1>10. AskedInv(u)
  <2>1. u.node[Root].asked = << >>
    BY <1>1, <1>3 DEF AskedInv, RootInv
  <2>2. \A n \in u.alloc : \A c \in KidsOf(u, n) : Longer(u.node[n].asked, u.node[c].asked)
    BY <1>1, <1>2, <1>3, <1>5 DEF AskedInv, KidsInv
  <2> QED
    BY <2>1, <2>2, <1>1, <1>2, <1>3, <1>4 DEF AskedInv
<1> QED
  BY <1>1, <1>4, <1>5, <1>6, <1>7, <1>8, <1>9, <1>10 DEF TreeInv

(* The reference count of n becomes c. *)
Recount(t, u, n, c) ==
    /\ SameShape(t, u)
    /\ \A x \in Node : u.node[x].mount = t.node[x].mount
    /\ u.node[n].refcount = c
    /\ \A x \in Node \ {n} : u.node[x].refcount = t.node[x].refcount

(* The fields of a tree with one count changed. *)
LEMMA RecountFields ==
    ASSUME NEW t \in TreeType, NEW n \in Node, NEW c \in Nat
    PROVE  Recount(t, [t EXCEPT !.node[n].refcount = c], n, c)
<1> DEFINE r == [t.node[n] EXCEPT !.refcount = c]
           u == [t EXCEPT !.node[n].refcount = c]
           w == [t EXCEPT !.node[n] = r]
<1>1. t.node[n] \in NodeType /\ t.node \in [Node -> NodeType]
  BY TreeFields
<1>2. /\ r \in NodeType /\ r.refcount = c
      /\ r.entry = t.node[n].entry /\ r.asked = t.node[n].asked
      /\ r.parent = t.node[n].parent /\ r.mount = t.node[n].mount
  BY <1>1 DEF NodeType
<1>3. u = w
  BY DEF TreeType
<1> HIDE DEF r, u
<1>4. /\ w \in TreeType /\ w.alloc = t.alloc /\ w.kids = t.kids
      /\ w.node[n] = r /\ \A x \in Node \ {n} : w.node[x] = t.node[x]
  BY <1>2 DEF TreeType
<1> HIDE DEF w
<1>5. \A x \in Node : /\ w.node[x].entry = t.node[x].entry /\ w.node[x].asked = t.node[x].asked
                      /\ w.node[x].parent = t.node[x].parent
                      /\ w.node[x].mount = t.node[x].mount
  BY <1>2, <1>4
<1>6. Recount(t, w, n, c)
  BY <1>2, <1>4, <1>5 DEF Recount, SameShape
<1> QED
  BY <1>3, <1>6 DEF u

(* The same, where the count grows by one. *)
LEMMA PinFields ==
    ASSUME NEW t \in TreeType, NEW n \in Node
    PROVE  Recount(t, [t EXCEPT !.node = Pin(@, n)], n, t.node[n].refcount + 1)
<1> DEFINE c == t.node[n].refcount + 1
<1>1. c \in Nat
  BY TreeFields
<1>2. [t EXCEPT !.node = Pin(@, n)] = [t EXCEPT !.node[n].refcount = c]
  BY DEF Pin, TreeType
<1> HIDE DEF c
<1>3. Recount(t, [t EXCEPT !.node = Pin(@, n)], n, c)
  BY <1>1, <1>2, RecountFields
<1> QED
  BY <1>3 DEF c

(* A tree with other counts is a tree. *)
LEMMA RecountKeepsTree ==
    ASSUME NEW t, TreeInv(t), NEW u, NEW n, NEW c, Recount(t, u, n, c)
    PROVE  /\ TreeInv(u)
           /\ \A x : InTree(u, x) <=> InTree(t, x)
           /\ \A x : KidsOf(u, x) = KidsOf(t, x)
<1>1. SameShape(t, u) /\ u.alloc = t.alloc
  BY DEF Recount, SameShape
<1>2. t \in TreeType /\ t.alloc \subseteq Node
  BY TreeFields DEF TreeInv
<1>3. \A x : InTree(t, x) => InTree(u, x)
  BY <1>1, <1>2 DEF InTree, SameShape
<1>4. \A x \in t.alloc : u.node[x].mount = t.node[x].mount
  BY <1>2 DEF Recount
<1>5. MountInv(u)
  BY <1>1, <1>3, <1>4 DEF TreeInv, MountInv
<1> QED
  BY <1>1, <1>5, ShapeKeepsTree

(* A descriptor changes, and with it the counts. *)
LEMMA RecountKeepsUse ==
    ASSUME NEW t, TreeInv(t), NEW f, NEW m, UseInv(t, f, m),
           NEW p \in Process, NEW i \in Slot, NEW v \in Node \cup {NULL},
           v # NULL => InTree(t, v),
           NEW g, Sets(f, g, p, i, v),
           NEW n \in Node, NEW c, NEW u, Recount(t, u, n, c),
           c = Uses(g, m, n), \A x \in t.alloc \ {n} : Uses(g, m, x) = Uses(f, m, x)
    PROVE  TreeInv(u) /\ UseInv(u, g, m)
<1>1. /\ TreeInv(u)
      /\ \A x : InTree(u, x) <=> InTree(t, x)
  BY RecountKeepsTree
<1>2. t \in TreeType /\ t.alloc \subseteq Node /\ u.alloc = t.alloc
  BY TreeFields DEF TreeInv, Recount, SameShape
<1>3. f \in FdType /\ m \in Seq(Node \X Node)
  BY DEF UseInv, FdType
<1>4. /\ g \in FdType
      /\ g[p][i] = v
      /\ \A q \in Process, j \in Slot : <<q, j>> # <<p, i>> => g[q][j] = f[q][j]
  <2>1. SetFd(f, g, p, i, v)
    BY <1>3, FdChange
  <2> QED
    BY <2>1 DEF SetFd
<1>5. ASSUME NEW q \in Process, NEW j \in Slot, g[q][j] # NULL PROVE InTree(u, g[q][j])
  <2>1. CASE <<q, j>> = <<p, i>>
    BY <2>1, <1>1, <1>4, <1>5
  <2>2. CASE <<q, j>> # <<p, i>>
    BY <2>2, <1>1, <1>4, <1>5 DEF UseInv
  <2> QED
    BY <2>1, <2>2
<1>6. \A k \in 1..Len(m) : InTree(u, m[k][1]) /\ InTree(u, m[k][2])
  BY <1>1 DEF UseInv
<1>7. ASSUME NEW x \in u.alloc PROVE u.node[x].refcount = Uses(g, m, x)
  <2>1. CASE x = n
    BY <2>1 DEF Recount
  <2>2. CASE x # n
    <3>1. u.node[x].refcount = t.node[x].refcount
      BY <2>2, <1>2 DEF Recount
    <3>2. t.node[x].refcount = Uses(f, m, x)
      BY <1>2 DEF UseInv
    <3> QED
      BY <2>2, <3>1, <3>2, <1>2
  <2> QED
    BY <2>1, <2>2
<1>8. ASSUME NEW x \in u.alloc, u.node[x].mount # NULL
      PROVE  \E k \in 1..Len(m) : u.node[x].mount = m[k][1]
  <2>1. u.node[x].mount = t.node[x].mount
    BY <1>2 DEF Recount
  <2> QED
    BY <2>1, <1>2, <1>8 DEF UseInv
<1>9. UseInv(u, g, m)
  BY <1>3, <1>4, <1>5, <1>6, <1>7, <1>8 DEF UseInv, FdType
<1> QED
  BY <1>1, <1>9

(* A descriptor is given, in vfs_open, scheduler_syscall_spawn and          *)
(* semaphore_syscall_create.                                                *)
LEMMA PinKeepsUse ==
    ASSUME NEW t, TreeInv(t), NEW f, NEW m, UseInv(t, f, m),
           NEW p \in Process, NEW i \in Slot, f[p][i] = NULL,
           NEW n, InTree(t, n), NEW u, u = [t EXCEPT !.node = Pin(@, n)],
           NEW g, Sets(f, g, p, i, n)
    PROVE  /\ TreeInv(u) /\ UseInv(u, g, m)
           /\ Recount(t, u, n, t.node[n].refcount + 1)
<1>1. t \in TreeType /\ n \in t.alloc /\ n \in Node /\ n # NULL
  BY TreeFields, NullApart DEF TreeInv, InTree
<1>2. f \in FdType /\ m \in Seq(Node \X Node)
  BY DEF UseInv, FdType
<1> DEFINE c == t.node[n].refcount + 1
<1>3. Recount(t, u, n, c)
  BY <1>1, PinFields
<1>4. /\ \A x : x # n /\ x # NULL => Uses(g, m, x) = Uses(f, m, x)
      /\ Uses(g, m, n) = Uses(f, m, n) + 1
  <2>1. n \in Node \cup {NULL} /\ n # f[p][i]
    BY <1>1
  <2>2. CountsChange(f, g, m, f[p][i], n)
    BY <2>1, <1>2, FdCount
  <2> QED
    BY <2>2 DEF CountsChange
<1>5. c = Uses(g, m, n)
  BY <1>1, <1>4 DEF UseInv
<1>6. \A x \in t.alloc \ {n} : Uses(g, m, x) = Uses(f, m, x)
  BY <1>1, <1>4, TreeFields, NullApart
<1> HIDE DEF c
<1>7. TreeInv(u) /\ UseInv(u, g, m)
  <2>1. n \in Node \cup {NULL} /\ (n # NULL => InTree(t, n))
    BY <1>1
  <2> QED
    BY <2>1, <1>1, <1>3, <1>5, <1>6, RecountKeepsUse
<1> QED
  BY <1>3, <1>7 DEF c

(* A descriptor is given back. *)
Less(t, n) == [t EXCEPT !.node[n].refcount = @ - 1]

(* The count of the node follows the descriptor that is closed. *)
LEMMA UnpinKeepsUse ==
    ASSUME NEW t, TreeInv(t), NEW f, NEW m, UseInv(t, f, m),
           NEW p \in Process, NEW i \in Slot, f[p][i] # NULL,
           NEW n, n = f[p][i], NEW u, u = Less(t, n),
           NEW g, Sets(f, g, p, i, NULL)
    PROVE  /\ TreeInv(u) /\ UseInv(u, g, m)
           /\ Recount(t, u, n, t.node[n].refcount - 1)
<1>1. t \in TreeType /\ InTree(t, n) /\ n \in t.alloc /\ n \in Node /\ n # NULL
  <2>1. t \in TreeType /\ InTree(t, n)
    BY DEF TreeInv, UseInv
  <2> QED
    BY <2>1, TreeFields DEF InTree
<1>2. f \in FdType /\ m \in Seq(Node \X Node)
  BY DEF UseInv, FdType
<1> DEFINE c == t.node[n].refcount - 1
<1>3. /\ \A x : x # n /\ x # NULL => Uses(g, m, x) = Uses(f, m, x)
      /\ Uses(g, m, n) = Uses(f, m, n) - 1
      /\ Uses(f, m, n) >= 1
  <2>1. NULL \in Node \cup {NULL} /\ NULL # f[p][i]
    OBVIOUS
  <2>2. CountsChange(f, g, m, f[p][i], NULL)
    BY <2>1, <1>2, FdCount
  <2> QED
    BY <2>2 DEF CountsChange
<1>4. t.node[n].refcount = Uses(f, m, n) /\ Uses(f, m, n) \in Nat
  BY <1>1, <1>2, UsesType DEF UseInv
<1>5. c = Uses(g, m, n) /\ c \in Nat
  BY <1>3, <1>4
<1>6. \A x \in t.alloc \ {n} : Uses(g, m, x) = Uses(f, m, x)
  BY <1>1, <1>3, TreeFields, NullApart
<1>7. Recount(t, u, n, c)
  <2>1. u = [t EXCEPT !.node[n].refcount = c]
    BY DEF Less
  <2> HIDE DEF c
  <2> QED
    BY <2>1, <1>1, <1>5, RecountFields
<1> HIDE DEF c
<1>8. TreeInv(u) /\ UseInv(u, g, m)
  <2>1. NULL \in Node \cup {NULL} /\ (NULL # NULL => InTree(t, NULL))
    OBVIOUS
  <2> QED
    BY <2>1, <1>1, <1>5, <1>6, <1>7, RecountKeepsUse
<1> QED
  BY <1>7, <1>8 DEF c

(* Finding a node changes no count. *)
LEMMA ExtendKeepsUse ==
    ASSUME NEW t, TreeInv(t), NEW f, NEW m, UseInv(t, f, m), NEW u, TreeInv(u), Extends(t, u)
    PROVE  UseInv(u, f, m)
<1>1. t.alloc \subseteq u.alloc /\ u.alloc \subseteq Node
  BY TreeFields DEF Extends, TreeInv
<1>2. \A x : InTree(t, x) => InTree(u, x)
  BY ExtendsInTree
<1>3. m \in Seq(Node \X Node) /\ f \in FdType
  BY DEF UseInv, FdType
<1>4. ASSUME NEW x \in u.alloc PROVE u.node[x].refcount = Uses(f, m, x)
  <2>1. CASE x \in t.alloc
    BY <2>1 DEF UseInv, Extends
  <2>2. CASE x \notin t.alloc
    <3>1. u.node[x].refcount = 0 /\ x # NULL /\ x # Root
      BY <2>2, <1>1, <1>4, NullApart DEF Extends, TreeInv, RootInv
    <3>2. FdUses(f, x) = {}
      <4> SUFFICES ASSUME NEW w \in FdUses(f, x) PROVE FALSE
        OBVIOUS
      <4>1. w[1] \in Process /\ w[2] \in Slot /\ f[w[1]][w[2]] = x
        BY DEF FdUses
      <4> QED
        BY <4>1, <3>1, <2>2 DEF UseInv, InTree
    <3>3. MountUses(m, x) = {}
      <4> SUFFICES ASSUME NEW w \in MountUses(m, x) PROVE FALSE
        OBVIOUS
      <4>1. w[1] \in 1..Len(m) /\ w[2] \in {1, 2} /\ m[w[1]][w[2]] = x
        BY DEF MountUses
      <4> QED
        BY <4>1, <2>2 DEF UseInv, InTree
    <3> QED
      BY <3>1, <3>2, <3>3, FS_EmptySet DEF Uses
  <2> QED
    BY <2>1, <2>2
<1>5. ASSUME NEW x \in u.alloc, u.node[x].mount # NULL
      PROVE  \E k \in 1..Len(m) : u.node[x].mount = m[k][1]
  <2>1. x \in t.alloc /\ u.node[x] = t.node[x]
    BY <1>5 DEF Extends
  <2> QED
    BY <2>1, <1>5 DEF UseInv
<1> QED
  BY <1>2, <1>3, <1>4, <1>5 DEF UseInv, FdType

-----------------------------------------------------------------------------
(* Clean-up. *)

IsUpwards(at, t, n) ==
    at = [k \in 0..Len(t.node[n].entry) |->
             IF k = 0 THEN n ELSE IF at[k - 1] = NULL THEN NULL ELSE t.node[at[k - 1]].parent]

(* The way up, one parent after the other. *)
LEMMA UpwardsProperties ==
    ASSUME NEW t \in TreeType, NEW n \in Node, NEW at, at = Upwards(t, n)
    PROVE  /\ Len(t.node[n].entry) \in Nat
           /\ at \in [0..Len(t.node[n].entry) -> Node \cup {NULL}]
           /\ at[0] = n
           /\ \A k \in 1..Len(t.node[n].entry) :
                 at[k] = IF at[k - 1] = NULL THEN NULL ELSE t.node[at[k - 1]].parent
<1> DEFINE L == Len(t.node[n].entry)
           S == Node \cup {NULL}
           T == [u \in (1..L) \X S |-> IF u[2] = NULL THEN NULL ELSE t.node[u[2]].parent]
           h == CHOOSE g : IsUpwards(g, t, n)
<1>0. L \in Nat
  BY TreeFields DEF Names
<1>1. at = h
  BY Zenon DEF Upwards, IsUpwards
<1>2. \A k \in 1..L : \A s \in S : T[<<k, s>>] = IF s = NULL THEN NULL ELSE t.node[s].parent
  OBVIOUS
<1> HIDE DEF L
<1>3. \A s \in S : (IF s = NULL THEN NULL ELSE t.node[s].parent) \in S
  BY TreeFields
<1> HIDE DEF S, T
<1>4. n \in S
  BY DEF S
<1>5. \A k \in 1..L : \A s \in S : T[<<k, s>>] \in S
  BY <1>2, <1>3
<1>6. PICK f \in [0..L -> S] : Follows(f, n, T, L)
  BY <1>0, <1>4, <1>5, Recursion
<1>7. ASSUME NEW k \in 0..L
      PROVE  f[k] = IF k = 0 THEN n ELSE IF f[k - 1] = NULL THEN NULL ELSE t.node[f[k - 1]].parent
  <2>1. CASE k = 0
    BY <2>1, <1>6 DEF Follows
  <2>2. CASE k # 0
    <3>1. k \in 1..L /\ k - 1 \in 0..L
      BY <2>2, <1>0
    <3>2. f[k - 1] \in S /\ f[k] = T[<<k, f[k - 1]>>]
      BY <3>1, <1>6 DEF Follows
    <3> QED
      BY <2>2, <3>1, <3>2, <1>2
  <2> QED
    BY <2>1, <2>2
<1>8. IsUpwards(f, t, n)
  BY <1>7 DEF IsUpwards, L
<1>9. IsUpwards(h, t, n)
  BY <1>8
<1> HIDE DEF h
<1>10. /\ DOMAIN h = 0..L
       /\ \A k \in 0..L : h[k] = IF k = 0 THEN n ELSE IF h[k - 1] = NULL THEN NULL ELSE t.node[h[k - 1]].parent
  BY <1>9 DEF IsUpwards, L
<1>16. h = [k \in 0..L |-> IF k = 0 THEN n ELSE IF h[k - 1] = NULL THEN NULL ELSE t.node[h[k - 1]].parent]
  BY <1>9 DEF IsUpwards, L
<1> DEFINE Ind == {k \in Nat : k <= L => h[k] \in S}
<1>11. 0 \in Ind
  BY <1>0, <1>4, <1>10
<1>12. ASSUME NEW k \in Nat, k \in Ind PROVE k + 1 \in Ind
  <2> SUFFICES ASSUME k + 1 <= L PROVE h[k + 1] \in S
    OBVIOUS
  <2>1. k + 1 \in 0..L /\ k + 1 # 0 /\ (k + 1) - 1 = k /\ h[k] \in S
    BY <1>0, <1>12
  <2>2. h[k + 1] = IF h[k] = NULL THEN NULL ELSE t.node[h[k]].parent
    BY <2>1, <1>10
  <2> QED
    BY <2>1, <2>2, <1>3
<1>13. \A k \in 0..L : h[k] \in S
  <2>1. Nat \subseteq Ind
    <3> HIDE DEF Ind
    <3> QED
      BY <1>11, <1>12, NatSetInduction
  <2> QED
    BY <2>1, <1>0
<1>14. h \in [0..L -> S]
  <2> DEFINE v(k) == IF k = 0 THEN n ELSE IF h[k - 1] = NULL THEN NULL ELSE t.node[h[k - 1]].parent
  <2>1. \A k \in 0..L : v(k) \in S
    BY <1>10, <1>13
  <2>2. h = [k \in 0..L |-> v(k)]
    BY <1>16
  <2> HIDE DEF v
  <2> QED
    BY <2>1, <2>2
<1>15. h[0] = n /\ \A k \in 1..L : h[k] = IF h[k - 1] = NULL THEN NULL ELSE t.node[h[k - 1]].parent
  <2>1. 0 \in 0..L /\ \A k \in 1..L : k \in 0..L /\ k # 0
    BY <1>0
  <2> QED
    BY <2>1, <1>10
<1> QED
  BY <1>0, <1>1, <1>14, <1>15 DEF L, S

(* Clean-up goes past place i of the way up. *)
Goes(t, at, i) ==
    /\ at[i] # NULL
    /\ t.node[at[i]].refcount = 0
    /\ t.kids[at[i]] = IF i = 0 THEN << >> ELSE <<at[i - 1]>>

Reached(t, at, k) == k \in DOMAIN at /\ \A i \in 0..k : Goes(t, at, i)

(* The nodes on the way up that go. *)
LEMMA UnusedUnfold ==
    ASSUME NEW t \in TreeType, NEW n \in Node, NEW at, at = Upwards(t, n)
    PROVE  \A g : g \in Unused(t, n) <=> \E k \in 0..Len(t.node[n].entry) : Reached(t, at, k) /\ g = at[k]
<1>1. Unused(t, n) = {at[k] : k \in {k \in DOMAIN at : \A i \in 0..k : Goes(t, at, i)}}
  BY Zenon DEF Unused, Goes
<1>2. DOMAIN at = 0..Len(t.node[n].entry)
  BY UpwardsProperties
<1> QED
  BY <1>1, <1>2 DEF Reached

(* What clean-up frees is not used, and has no other children. *)
LEMMA UnusedIsFree ==
    ASSUME NEW t \in TreeType, NEW n \in Node, NEW g \in Unused(t, n)
    PROVE  g \in Node /\ t.node[g].refcount = 0 /\ KidsOf(t, g) \subseteq Unused(t, n)
<1> DEFINE at == Upwards(t, n)
           L == Len(t.node[n].entry)
<1>1. L \in Nat /\ at \in [0..L -> Node \cup {NULL}]
  BY UpwardsProperties
<1>2. \A x : x \in Unused(t, n) <=> \E k \in 0..L : Reached(t, at, k) /\ x = at[k]
  BY UnusedUnfold
<1> HIDE DEF at, L
<1>3. PICK k \in 0..L : Reached(t, at, k) /\ g = at[k]
  BY <1>2
<1>4. Goes(t, at, k)
  BY <1>1, <1>3 DEF Reached
<1>5. g \in Node /\ t.node[g].refcount = 0
  BY <1>1, <1>3, <1>4 DEF Goes
<1>6. CASE k = 0
  <2>1. t.kids[g] = << >>
    BY <1>3, <1>4, <1>6 DEF Goes
  <2>2. KidsOf(t, g) = {}
    BY <2>1 DEF KidsOf, Range
  <2> QED
    BY <2>2, <1>5
<1>7. CASE k # 0
  <2> DEFINE c == at[k - 1]
  <2>1. t.kids[g] = <<c>>
    BY <1>3, <1>4, <1>7 DEF Goes
  <2>2. k - 1 \in 0..L /\ DOMAIN at = 0..L /\ 0..k - 1 \subseteq 0..k
    BY <1>1, <1>7
  <2>3. Reached(t, at, k - 1)
    BY <2>2, <1>3 DEF Reached
  <2>4. c \in Unused(t, n)
    BY <2>2, <2>3, <1>2
  <2> HIDE DEF c
  <2>5. KidsOf(t, g) = {c}
    BY <2>1 DEF KidsOf, Range
  <2> QED
    BY <2>4, <2>5, <1>5
<1> QED
  BY <1>6, <1>7

(* The way up: the paths get shorter by one name. *)
LEMMA UpwardsDepth ==
    ASSUME NEW t, TreeInv(t), NEW n, InTree(t, n), NEW at, at = Upwards(t, n),
           NEW k \in 0..Len(t.node[n].entry), Reached(t, at, k)
    PROVE  InTree(t, at[k]) /\ Len(t.node[at[k]].entry) = Len(t.node[n].entry) - k
<1>0. t \in TreeType /\ n \in Node
  BY TreeFields DEF TreeInv, InTree
<1> DEFINE L == Len(t.node[n].entry)
<1>1. /\ L \in Nat /\ at \in [0..L -> Node \cup {NULL}] /\ at[0] = n
      /\ \A j \in 1..L : at[j] = IF at[j - 1] = NULL THEN NULL ELSE t.node[at[j - 1]].parent
  BY <1>0, UpwardsProperties
<1>2. \A j \in 0..k : Goes(t, at, j)
  BY DEF Reached
<1> DEFINE Ind == {j \in Nat : j <= k => InTree(t, at[j]) /\ Len(t.node[at[j]].entry) = L - j}
<1>3. k \in 0..L
  OBVIOUS
<1> HIDE DEF L
<1>4. 0 \in Ind
  BY <1>1 DEF L
<1>5. ASSUME NEW j \in Nat, j \in Ind PROVE j + 1 \in Ind
  <2> SUFFICES ASSUME j + 1 <= k PROVE InTree(t, at[j + 1]) /\ Len(t.node[at[j + 1]].entry) = L - (j + 1)
    OBVIOUS
  <2> DEFINE c == at[j]
             x == at[j + 1]
  <2>1. j \in 0..k /\ j + 1 \in 0..k /\ j + 1 \in 1..L /\ (j + 1) - 1 = j
    BY <1>1, <1>3
  <2>2. InTree(t, c) /\ Len(t.node[c].entry) = L - j
    BY <1>5, <2>1
  <2>3. c # NULL /\ x # NULL
    BY <2>1, <1>2 DEF Goes
  <2>4. x = t.node[c].parent
    BY <2>1, <2>3, <1>1
  <2> HIDE DEF c, x
  <2>5. c # Root
    BY <2>3, <2>4 DEF TreeInv, RootInv
  <2>6. x \in t.alloc /\ c \in KidsOf(t, x) /\ InTree(t, x)
    BY <2>2, <2>4, <2>5, ParentFacts
  <2>7. Longer(t.node[x].entry, t.node[c].entry) /\ x \in Node
    BY <2>6, KidFacts
  <2>8. Len(t.node[c].entry) = Len(t.node[x].entry) + 1 /\ Len(t.node[x].entry) \in Nat
    <3>1. t.node[x].entry \in Seq(Name)
      BY <2>7, <1>0, TreeFields DEF Names
    <3>2. PICK name \in Name : t.node[c].entry = Append(t.node[x].entry, name)
      BY <2>7 DEF Longer
    <3> QED
      BY <3>1, <3>2, AppendProperties, LenProperties
  <2>9. Len(t.node[x].entry) = L - (j + 1)
    <3> DEFINE a == Len(t.node[x].entry)
    <3>1. a \in Nat /\ a + 1 = L - j /\ L \in Nat
      BY <2>2, <2>8, <1>1
    <3> HIDE DEF a
    <3>2. a = L - (j + 1)
      BY <3>1
    <3> QED
      BY <3>2 DEF a
  <2> QED
    BY <2>6, <2>9 DEF x
<1>6. k \in Ind
  <2>1. Nat \subseteq Ind
    <3> HIDE DEF Ind
    <3> QED
      BY <1>4, <1>5, NatSetInduction
  <2>2. k \in Nat
    BY <1>1, <1>3
  <2> HIDE DEF Ind
  <2> QED
    BY <2>1, <2>2
<1>7. k \in Nat /\ k <= k
  BY <1>1, <1>3
<1> QED
  BY <1>6, <1>7 DEF L

(* Clean-up goes as far as it can: a node that loses its last child to it   *)
(* is in use.                                                               *)
LEMMA UnusedIsAll ==
    ASSUME NEW t, TreeInv(t), NEW n, InTree(t, n), NEW x \in t.alloc, x \notin Unused(t, n),
           KidsOf(t, x) # {}, KidsOf(t, x) \subseteq Unused(t, n)
    PROVE  t.node[x].refcount # 0
<1>0. t \in TreeType /\ n \in Node /\ x \in Node /\ x # NULL
  BY TreeFields, NullApart DEF TreeInv, InTree
<1> DEFINE at == Upwards(t, n)
           L == Len(t.node[n].entry)
<1>1. /\ L \in Nat /\ at \in [0..L -> Node \cup {NULL}]
      /\ \A j \in 1..L : at[j] = IF at[j - 1] = NULL THEN NULL ELSE t.node[at[j - 1]].parent
  BY <1>0, UpwardsProperties
<1>2. \A g : g \in Unused(t, n) <=> \E k \in 0..L : Reached(t, at, k) /\ g = at[k]
  BY <1>0, UnusedUnfold
<1>3. \A k \in 0..L : Reached(t, at, k) => Len(t.node[at[k]].entry) = L - k
  BY UpwardsDepth
<1> HIDE DEF at, L
<1>4. \A k \in 0..L : Reached(t, at, k) <=> \A i \in 0..k : Goes(t, at, i)
  BY <1>1 DEF Reached
<1>5. PICK c \in KidsOf(t, x) : TRUE
  OBVIOUS
<1>6. PICK k \in 0..L : Reached(t, at, k) /\ c = at[k]
  BY <1>2, <1>5
<1>7. t.node[c].parent = x /\ Longer(t.node[x].entry, t.node[c].entry)
  BY <1>5, KidFacts
<1>8. k + 1 \in 1..L /\ at[k + 1] = x
  <2>1. Len(t.node[c].entry) = Len(t.node[x].entry) + 1 /\ Len(t.node[x].entry) \in Nat
    <3>1. t.node[x].entry \in Seq(Name)
      BY <1>0, TreeFields DEF Names
    <3>2. PICK name \in Name : t.node[c].entry = Append(t.node[x].entry, name)
      BY <1>7 DEF Longer
    <3> QED
      BY <3>1, <3>2, AppendProperties, LenProperties
  <2>2. Len(t.node[c].entry) = L - k
    BY <1>3, <1>6
  <2>3. k + 1 \in 1..L /\ (k + 1) - 1 = k
    BY <2>1, <2>2, <1>1
  <2>4. Goes(t, at, k)
    BY <1>4, <1>6
  <2>5. at[k] # NULL
    BY <2>4 DEF Goes
  <2> QED
    BY <2>3, <2>5, <1>1, <1>6, <1>7
<1>9. ASSUME NEW c2 \in KidsOf(t, x) PROVE c2 = c
  <2>1. PICK k2 \in 0..L : Reached(t, at, k2) /\ c2 = at[k2]
    BY <1>2
  <2>2. t.node[c2].parent = x
    BY KidFacts
  <2>3. ASSUME k2 < k PROVE FALSE
    <3>1. k2 + 1 \in 1..L /\ k2 + 1 \in 0..L /\ k2 + 1 \in 0..k /\ (k2 + 1) - 1 = k2 /\ k2 \in 0..k2
      BY <2>3, <1>1
    <3>2. at[k2] # NULL
      BY <2>1, <3>1, <1>4 DEF Goes
    <3>3. at[k2 + 1] = x
      BY <2>1, <2>2, <3>1, <3>2, <1>1
    <3>4. Reached(t, at, k2 + 1)
      <4>1. 0..k2 + 1 \subseteq 0..k
        BY <3>1
      <4> QED
        BY <4>1, <3>1, <1>4, <1>6
    <3> QED
      BY <3>1, <3>3, <3>4, <1>2
  <2>4. ASSUME k < k2 PROVE FALSE
    <3>1. k + 1 \in 0..L /\ 0..k + 1 \subseteq 0..k2
      BY <2>4, <1>1
    <3>2. Reached(t, at, k + 1)
      BY <3>1, <2>1, <1>4
    <3> QED
      BY <3>1, <3>2, <1>2, <1>8
  <2>5. k2 = k
    BY <2>3, <2>4, <1>1
  <2> QED
    BY <2>1, <2>5, <1>6
<1>10. t.kids[x] = <<c>>
  <2> DEFINE q == t.kids[x]
  <2>1. q \in Seq(Node) /\ IsInjective(q) /\ Range(q) = {c}
    BY <1>0, <1>5, <1>9, TreeFields DEF TreeInv, KidsInv, KidsOf
  <2>2. Len(q) = 1
    BY <2>1, RangeCardinality, FS_Singleton
  <2> HIDE DEF q
  <2>3. q[1] = c
    BY <2>1, <2>2 DEF Range
  <2>4. q = <<c>>
    BY <2>1, <2>2, <2>3
  <2> QED
    BY <2>4 DEF q
<1> SUFFICES ASSUME t.node[x].refcount = 0 PROVE FALSE
  OBVIOUS
<1>11. Goes(t, at, k + 1)
  <2>1. k + 1 # 0 /\ (k + 1) - 1 = k
    BY <1>1
  <2> QED
    BY <2>1, <1>0, <1>6, <1>8, <1>10 DEF Goes
<1>12. Reached(t, at, k + 1)
  <2>1. 0..k + 1 = (0..k) \cup {k + 1} /\ k + 1 \in 0..L
    BY <1>1, <1>8
  <2> QED
    BY <2>1, <1>4, <1>6, <1>11
<1> QED
  BY <1>2, <1>8, <1>12

(* unlink_and_free_node frees the nodes it is given. *)
LEMMA WithoutFrees ==
    ASSUME NEW t, TreeInv(t), NEW gone
    PROVE  Frees(t, Without(t, gone), gone)
<1> DEFINE k == [n \in Node |-> Unlinked(t.kids[n], gone)]
           a == t.alloc \ gone
           u == [t EXCEPT !.alloc = a, !.kids = k]
<1>1. t \in TreeType /\ \A n \in Node : t.kids[n] \in Seq(Node)
  BY TreeFields DEF TreeInv
<1>2. k \in [Node -> Seq(Node)] /\ a \in SUBSET Node
  <2>1. \A n \in Node : Unlinked(t.kids[n], gone) \in Seq(Node)
    BY <1>1, UnlinkedType
  <2>2. a \in SUBSET Node
    BY <1>1, TreeFields
  <2> QED
    BY <2>1, <2>2
<1>3. Without(t, gone) = u
  BY Zenon DEF Without
<1>4. \A n \in Node : k[n] = Unlinked(t.kids[n], gone)
  OBVIOUS
<1> HIDE DEF k, a
<1>5. u \in TreeType /\ u.alloc = a /\ u.kids = k /\ u.node = t.node
  BY <1>1, <1>2 DEF TreeType
<1> HIDE DEF u
<1>6. ASSUME NEW x \in u.alloc PROVE IsInjective(u.kids[x]) /\ KidsOf(u, x) = KidsOf(t, x) \ gone
  <2>1. x \in t.alloc /\ x \in Node
    BY <1>2, <1>5 DEF a
  <2>2. t.kids[x] \in Seq(Node) /\ IsInjective(t.kids[x])
    BY <2>1, <1>1 DEF TreeInv, KidsInv
  <2>3. u.kids[x] = Unlinked(t.kids[x], gone)
    BY <2>1, <1>4, <1>5
  <2> QED
    BY <2>2, <2>3, UnlinkedProperties DEF KidsOf
<1>7. Frees(t, u, gone)
  BY <1>5, <1>6 DEF Frees, a
<1> QED
  BY <1>3, <1>7

(* A node that is used or leads to one that is. *)
Busy(t, n) == t.node[n].refcount > 0 \/ t.kids[n] # << >>

StillBusy(t, u) ==
    \A x \in u.alloc : InTree(t, x) /\ Busy(t, x) => InTree(u, x) /\ Busy(u, x)

(* The same with the set of children. *)
LEMMA BusyUnfold ==
    ASSUME NEW t, TreeInv(t), NEW n \in t.alloc
    PROVE  Busy(t, n) <=> t.node[n].refcount # 0 \/ KidsOf(t, n) # {}
<1>1. t.node[n].refcount \in Nat /\ t.kids[n] \in Seq(Node)
  BY TreeFields DEF TreeInv
<1>2. KidsOf(t, n) = {} <=> t.kids[n] = << >>
  BY <1>1, EmptyList DEF KidsOf
<1> QED
  BY <1>1, <1>2 DEF Busy

(* Two changes one after the other. *)
LEMMA StillBusyTwice ==
    ASSUME NEW t, NEW u, NEW w, StillBusy(t, u), StillBusy(u, w), w.alloc \subseteq u.alloc
    PROVE  StillBusy(t, w)
BY DEF StillBusy

(* Clean-up starts at a node that is not used and has no children. *)
LEMMA UnusedStart ==
    ASSUME NEW t \in TreeType, NEW n \in Node, t.node[n].refcount = 0, KidsOf(t, n) = {}
    PROVE  n \in Unused(t, n)
<1> DEFINE at == Upwards(t, n)
           L == Len(t.node[n].entry)
<1>1. L \in Nat /\ at \in [0..L -> Node \cup {NULL}] /\ at[0] = n
  BY UpwardsProperties
<1>2. \A g : g \in Unused(t, n) <=> \E k \in 0..L : Reached(t, at, k) /\ g = at[k]
  BY UnusedUnfold
<1> HIDE DEF at, L
<1>3. t.kids[n] = << >>
  BY TreeFields, EmptyList DEF KidsOf
<1>4. Goes(t, at, 0)
  BY <1>1, <1>3, NullApart DEF Goes
<1>5. Reached(t, at, 0) /\ 0 \in 0..L
  BY <1>1, <1>4 DEF Reached
<1> QED
  BY <1>1, <1>2, <1>5

(* What one close leaves. *)
LEMMA DropFields ==
    ASSUME NEW d, NEW t, NEW n
    PROVE  /\ Drop(d, t, n).t = Without(Less(t, n), Unused(Less(t, n), n))
           /\ Drop(d, t, n).disk = Sync(d, t, n)
           /\ Drop(d, t, n).sems = SemsOf(Less(t, n), Unused(Less(t, n), n))
<1> DEFINE a == Without(Less(t, n), Unused(Less(t, n), n))
           b == Sync(d, t, n)
           c == SemsOf(Less(t, n), Unused(Less(t, n), n))
<1>1. Drop(d, t, n) = [disk |-> b, t |-> a, sems |-> c]
  BY Zenon DEF Drop, Less
<1> HIDE DEF a, b, c
<1>2. Drop(d, t, n).t = a /\ Drop(d, t, n).disk = b /\ Drop(d, t, n).sems = c
  BY <1>1
<1> QED
  BY <1>2 DEF a, b, c

Within(t, u) == u.alloc \subseteq t.alloc

(* One descriptor is closed. *)
LEMMA DropKeepsUse ==
    ASSUME NEW t, TreeInv(t), NEW f, NEW m, UseInv(t, f, m),
           NEW p \in Process, NEW i \in Slot, f[p][i] # NULL,
           NEW n, n = f[p][i], NEW g, Sets(f, g, p, i, NULL),
           NEW d, NEW u, u = Drop(d, t, n).t
    PROVE  TreeInv(u) /\ UseInv(u, g, m) /\ StillBusy(t, u) /\ Within(t, u)
<1> DEFINE v == Less(t, n)
           G == Unused(v, n)
<1>1. TreeInv(v) /\ UseInv(v, g, m) /\ Recount(t, v, n, t.node[n].refcount - 1)
  BY UnpinKeepsUse
<1>2. InTree(t, n)
  BY DEF UseInv
<1> HIDE DEF v
<1>3. /\ \A x : InTree(v, x) <=> InTree(t, x)
      /\ \A x : KidsOf(v, x) = KidsOf(t, x)
  BY <1>1, RecountKeepsTree
<1>4. v.alloc = t.alloc /\ v \in TreeType /\ v.alloc \subseteq Node /\ n \in Node
  BY <1>1, <1>2, TreeFields DEF Recount, SameShape, TreeInv, InTree
<1>5. G \in SUBSET Node /\ \A x \in G : v.node[x].refcount = 0 /\ KidsOf(v, x) \subseteq G
  BY <1>4, UnusedIsFree
<1>51. Idle(v, G)
  BY <1>5 DEF Idle
<1>6. u = Without(v, G)
  BY DropFields DEF v
<1>7. Frees(v, u, G)
  BY <1>1, <1>6, WithoutFrees
<1> HIDE DEF G
<1>8. TreeInv(u) /\ UseInv(u, g, m) /\ \A x : InTree(u, x) <=> InTree(v, x) /\ x \notin G
  BY <1>1, <1>51, <1>7, FreeKeepsUse DEF Leaves
<1>9. u.alloc = v.alloc \ G /\ u.node = v.node
  BY <1>7 DEF Frees
<1>10. ASSUME NEW x \in u.alloc, InTree(t, x), Busy(t, x) PROVE InTree(u, x) /\ Busy(u, x)
  <2>1. InTree(u, x) /\ InTree(v, x) /\ x \in t.alloc /\ x \in v.alloc /\ x \notin G /\ x \in Node
    BY <1>3, <1>4, <1>8, <1>9, <1>10
  <2>2. Busy(u, x) <=> u.node[x].refcount # 0 \/ KidsOf(u, x) # {}
    BY <1>8, <1>10, BusyUnfold
  <2>3. KidsOf(u, x) = KidsOf(v, x) \ G
    BY <1>7, <1>10 DEF Frees
  <2>4. CASE v.node[x].refcount # 0
    BY <2>1, <2>2, <2>4, <1>9
  <2>5. CASE v.node[x].refcount = 0
    <3>1. KidsOf(v, x) # {}
      <4>1. CASE x = n
        BY <4>1, <2>1, <2>5, <1>4, UnusedStart DEF G
      <4>2. CASE x # n
        <5>1. t.node[x].refcount = 0
          BY <4>2, <2>1, <2>5, <1>1 DEF Recount
        <5>2. KidsOf(t, x) # {}
          BY <5>1, <2>1, <1>10, BusyUnfold
        <5> QED
          BY <5>2, <1>3
      <4> QED
        BY <4>1, <4>2
    <3>2. ~(KidsOf(v, x) \subseteq G)
      <4>1. InTree(v, n)
        BY <1>2, <1>3
      <4> QED
        BY <4>1, <3>1, <2>1, <2>5, <1>1, UnusedIsAll DEF G
    <3>3. KidsOf(u, x) # {}
      BY <3>2, <2>3
    <3> QED
      BY <3>3, <2>1, <2>2
  <2> QED
    BY <2>4, <2>5
<1>11. StillBusy(t, u)
  BY <1>10 DEF StillBusy
<1> QED
  BY <1>4, <1>8, <1>9, <1>11 DEF Within

(* node_sync keeps the entries. *)
LEMMA SyncType ==
    ASSUME NEW d, DiskType(d), NEW t \in TreeType, NEW n \in Node
    PROVE  DiskType(Sync(d, t, n)) /\ DOMAIN Sync(d, t, n) = DOMAIN d
<1> DEFINE e == t.node[n].entry
           s == t.node[n].sem
           D == DOMAIN d
           r == [d EXCEPT ![e].sem = s]
<1>1. s \in Sem \cup {NULL}
  BY TreeFields
<1>2. Sync(d, t, n) = r
  BY DEF Sync
<1>3. d \in [D -> [kind : Kinds, sem : Sem \cup {NULL}]]
  BY DEF DiskType
<1> HIDE DEF e, s, D
<1>4. r \in [D -> [kind : Kinds, sem : Sem \cup {NULL}]]
  BY <1>1, <1>3
<1> HIDE DEF r
<1>5. DOMAIN r = D
  BY <1>4
<1> QED
  BY <1>2, <1>4, <1>5 DEF DiskType, D

-----------------------------------------------------------------------------
(* The operations that give nodes to descriptors. *)

(* A search leaves every node in use in use. *)
LEMMA ExtendStaysBusy ==
    ASSUME NEW t, TreeInv(t), NEW u, TreeInv(u), Extends(t, u)
    PROVE  StillBusy(t, u)
<1> SUFFICES ASSUME NEW x \in u.alloc, InTree(t, x), Busy(t, x) PROVE InTree(u, x) /\ Busy(u, x)
  BY DEF StillBusy
<1>1. x \in t.alloc /\ InTree(u, x)
  BY ExtendsInTree DEF InTree
<1>2. u.node[x] = t.node[x] /\ KidsOf(t, x) \subseteq KidsOf(u, x)
  BY <1>1 DEF Extends
<1>3. t.node[x].refcount # 0 \/ KidsOf(t, x) # {}
  BY <1>1, BusyUnfold
<1>4. Busy(u, x) <=> u.node[x].refcount # 0 \/ KidsOf(u, x) # {}
  BY BusyUnfold
<1> QED
  BY <1>1, <1>2, <1>3, <1>4

(* Fields change that nobody counts. *)
Alike(t, u) ==
    /\ SameShape(t, u)
    /\ \A x \in Node : u.node[x].mount = t.node[x].mount /\ u.node[x].refcount = t.node[x].refcount

(* Such a change keeps everything. *)
LEMMA AlikeKeeps ==
    ASSUME NEW t, TreeInv(t), NEW f, NEW m, UseInv(t, f, m), NEW u, Alike(t, u)
    PROVE  /\ TreeInv(u) /\ UseInv(u, f, m) /\ StillBusy(t, u) /\ u.alloc = t.alloc
           /\ Leaves(t, u, {}) /\ \A x : KidsOf(u, x) = KidsOf(t, x)
<1>1. SameShape(t, u) /\ u.alloc = t.alloc /\ t.alloc \subseteq Node /\ u.kids = t.kids
  BY TreeFields DEF Alike, SameShape, TreeInv
<1>2. \A x \in t.alloc : u.node[x].mount = t.node[x].mount /\ u.node[x].refcount = t.node[x].refcount
  BY <1>1 DEF Alike
<1>3. \A x : InTree(u, x) <=> InTree(t, x)
  BY <1>1 DEF InTree, SameShape
<1>4. MountInv(u)
  BY <1>1, <1>2, <1>3 DEF TreeInv, MountInv
<1>5. TreeInv(u) /\ \A x : KidsOf(u, x) = KidsOf(t, x)
  BY <1>1, <1>4, ShapeKeepsTree
<1>6. UseInv(u, f, m)
  BY <1>1, <1>2, <1>3 DEF UseInv
<1>7. StillBusy(t, u)
  BY <1>1, <1>2, <1>3 DEF StillBusy, Busy
<1> QED
  BY <1>1, <1>3, <1>5, <1>6, <1>7 DEF Leaves

(* The semaphore of a node is such a field. *)
LEMMA SemField ==
    ASSUME NEW t \in TreeType, NEW n \in Node, NEW s \in Sem \cup {NULL}
    PROVE  Alike(t, [t EXCEPT !.node[n].sem = s])
<1> DEFINE r == [t.node[n] EXCEPT !.sem = s]
           u == [t EXCEPT !.node[n].sem = s]
           w == [t EXCEPT !.node[n] = r]
<1>1. t.node[n] \in NodeType
  BY TreeFields
<1>2. /\ r \in NodeType /\ r.refcount = t.node[n].refcount
      /\ r.entry = t.node[n].entry /\ r.asked = t.node[n].asked
      /\ r.parent = t.node[n].parent /\ r.mount = t.node[n].mount
  BY <1>1 DEF NodeType
<1>3. u = w
  BY DEF TreeType
<1> HIDE DEF u, r
<1>4. /\ w \in TreeType /\ w.alloc = t.alloc /\ w.kids = t.kids
      /\ w.node[n] = r /\ \A x \in Node \ {n} : w.node[x] = t.node[x]
  BY <1>2 DEF TreeType
<1> HIDE DEF w
<1>5. \A x \in Node : /\ w.node[x].entry = t.node[x].entry /\ w.node[x].asked = t.node[x].asked
                      /\ w.node[x].parent = t.node[x].parent
                      /\ w.node[x].mount = t.node[x].mount /\ w.node[x].refcount = t.node[x].refcount
  BY <1>2, <1>4
<1>6. Alike(t, w)
  BY <1>2, <1>4, <1>5 DEF Alike, SameShape
<1> QED
  BY <1>3, <1>6 DEF u

(* One more use of n stays a use. *)
LEMMA PinStaysBusy ==
    ASSUME NEW t, TreeInv(t), NEW u, NEW n, n \in Node,
           Recount(t, u, n, t.node[n].refcount + 1)
    PROVE  StillBusy(t, u) /\ u.alloc = t.alloc
<1>1. /\ TreeInv(u)
      /\ \A x : InTree(u, x) <=> InTree(t, x)
      /\ \A x : KidsOf(u, x) = KidsOf(t, x)
  BY RecountKeepsTree
<1>2. u.alloc = t.alloc /\ t.alloc \subseteq Node /\ t \in TreeType
  BY TreeFields DEF Recount, SameShape, TreeInv
<1>3. ASSUME NEW x \in u.alloc, InTree(t, x), Busy(t, x) PROVE Busy(u, x)
  <2>1. t.node[x].refcount # 0 \/ KidsOf(t, x) # {}
    BY <1>2, <1>3, BusyUnfold
  <2>2. t.node[x].refcount \in Nat /\ x \in Node
    BY <1>2, TreeFields
  <2>3. u.node[x].refcount = t.node[x].refcount \/ u.node[x].refcount = t.node[x].refcount + 1
    BY <2>2 DEF Recount
  <2>4. u.node[x].refcount # 0 \/ KidsOf(u, x) # {}
    BY <1>1, <2>1, <2>2, <2>3
  <2> QED
    BY <2>4, <1>1, BusyUnfold
<1> QED
  BY <1>1, <1>2, <1>3 DEF StillBusy

(* A descriptor is given on a node of the tree. *)
LEMMA Given ==
    ASSUME NEW t, TreeInv(t), NEW f, NEW m, UseInv(t, f, m),
           NEW p \in Process, NEW i \in Slot, f[p][i] = NULL,
           NEW n, InTree(t, n), NEW u, u = [t EXCEPT !.node = Pin(@, n)],
           NEW g, Sets(f, g, p, i, n)
    PROVE  TreeInv(u) /\ UseInv(u, g, m) /\ StillBusy(t, u) /\ u.alloc = t.alloc
<1>1. /\ TreeInv(u) /\ UseInv(u, g, m)
      /\ Recount(t, u, n, t.node[n].refcount + 1)
  BY PinKeepsUse
<1>2. n \in Node
  BY TreeFields DEF InTree, TreeInv
<1> QED
  BY <1>1, <1>2, PinStaysBusy

(* A process with fewer files than descriptors has a free one. *)
LEMMA FreeSlotIn ==
    ASSUME NEW p \in Process, fd \in FdType, FileCount(p) < Cardinality(Slot)
    PROVE  FreeSlot(p) \in Slot /\ fd[p][FreeSlot(p)] = NULL
<1> DEFINE used == {i \in Slot : fd[p][i] # NULL}
           free == {i \in Slot : fd[p][i] = NULL}
<1>1. IsFiniteSet(Slot) /\ Cardinality(Slot) \in Nat /\ Slot \subseteq Nat
  BY VfsAssumption, FS_CardinalityType
<1>2. Cardinality(used) < Cardinality(Slot)
  BY DEF FileCount
<1>3. used # Slot
  BY <1>1, <1>2
<1>4. free \in SUBSET Nat /\ free # {}
  BY <1>1, <1>3
<1>5. FreeSlot(p) = Lowest(free)
  BY DEF FreeSlot
<1> HIDE DEF free
<1>6. Lowest(free) \in free
  BY <1>4, LowestIn
<1> QED
  BY <1>5, <1>6 DEF free

(* A process without files has its first descriptor free. *)
LEMMA NoFiles ==
    ASSUME NEW p \in Process, fd \in FdType, FileCount(p) = 0
    PROVE  1 \in Slot /\ fd[p][1] = NULL
<1> DEFINE used == {i \in Slot : fd[p][i] # NULL}
<1>1. IsFiniteSet(used) /\ 1 \in Slot
  BY VfsAssumption, FS_Subset
<1>2. Cardinality(used) = 0
  BY DEF FileCount
<1>3. used = {}
  <2> HIDE DEF used
  <2> QED
    BY <1>1, <1>2, FS_EmptySet
<1> QED
  BY <1>1, <1>3

(* Paths that callers use. *)
LEMMA GivenPaths ==
    ASSUME PlainPaths
    PROVE  /\ \A path \in Paths \cup SemPaths : Plain(path)
           /\ \A m \in MountPairs : Plain(m[1]) /\ Plain(m[2])
<1> DEFINE all == Paths \cup SemPaths \cup UNION {{m[1], m[2]} : m \in MountPairs}
<1>1. \A path \in all : path \in Seq(Name) /\ \A i \in 1..Len(path) : path[i] # ".."
  BY VfsAssumption DEF PlainPaths
<1>2. \A path \in all : Plain(path)
  BY <1>1 DEF Plain, Names
<1> QED
  BY <1>2

(* A search has been made. *)
LEMMA Found ==
    ASSUME VfsInv, NEW path, Plain(path), NEW flags, NEW kind \in Kinds, NEW made,
           NEW f, f = FindAndCreateNode(tree, path, flags, kind, made)
    PROVE  /\ FindInv(tree, f)
           /\ TreeInv(f.t) /\ UseInv(f.t, fd, mounts) /\ StillBusy(tree, f.t)
           /\ DiskType(f.disk)
           /\ f.ret # NULL => InTree(f.t, f.ret)
<1>1. TreeInv(tree) /\ UseInv(tree, fd, mounts) /\ DiskType(disk)
  BY DEF VfsInv
<1>2. FindInv(tree, f)
  BY <1>1, FindKeepsTree
<1>3. TreeInv(f.t) /\ Extends(tree, f.t) /\ DiskType(f.disk) /\ (f.ret # NULL => InTree(f.t, f.ret))
  BY <1>2 DEF FindInv
<1>4. UseInv(f.t, fd, mounts) /\ StillBusy(tree, f.t)
  BY <1>1, <1>3, ExtendKeepsUse, ExtendStaysBusy
<1> QED
  BY <1>2, <1>3, <1>4

Kept == VfsInv' /\ StillBusy(tree, tree')

(* vfs_open. *)
LEMMA OpenKeeps ==
    ASSUME VfsInv, NEW p \in Process, NEW path, Plain(path), NEW flags, Open(p, path, flags)
    PROVE  Kept
<1>0. PICK made \in Outcomes : \E f \in {FindAndCreateNode(tree, path, flags, "file", made)} :
          /\ disk' = f.disk
          /\ IF f.ret = NULL
             THEN tree' = f.t /\ UNCHANGED fd
             ELSE /\ tree' = [f.t EXCEPT !.node = Pin(@, f.ret)]
                  /\ fd' = [fd EXCEPT ![p][FreeSlot(p)] = f.ret]
  BY DEF Open
<1>1. PICK f \in {FindAndCreateNode(tree, path, flags, "file", made)} :
          /\ disk' = f.disk
          /\ IF f.ret = NULL
             THEN tree' = f.t /\ UNCHANGED fd
             ELSE /\ tree' = [f.t EXCEPT !.node = Pin(@, f.ret)]
                  /\ fd' = [fd EXCEPT ![p][FreeSlot(p)] = f.ret]
  BY <1>0
<1>2. "file" \in Kinds
  BY DEF Kinds
<1>3. /\ TreeInv(f.t) /\ UseInv(f.t, fd, mounts) /\ StillBusy(tree, f.t) /\ DiskType(f.disk)
      /\ f.ret # NULL => InTree(f.t, f.ret)
  BY <1>2, Found
<1>4. sems' = sems /\ mounts' = mounts /\ FileCount(p) < Cardinality(Slot)
  BY DEF Open
<1>5. sems \subseteq Sem /\ fd \in FdType
  BY DEF VfsInv, UseInv, FdType
<1>6. CASE f.ret = NULL
  BY <1>1, <1>3, <1>4, <1>5, <1>6 DEF Kept, VfsInv
<1>7. CASE f.ret # NULL
  <2>1. tree' = [f.t EXCEPT !.node = Pin(@, f.ret)] /\ Sets(fd, fd', p, FreeSlot(p), f.ret)
    BY <1>1, <1>7 DEF Sets
  <2>2. FreeSlot(p) \in Slot /\ fd[p][FreeSlot(p)] = NULL
    BY <1>4, <1>5, FreeSlotIn
  <2>3. TreeInv(tree') /\ UseInv(tree', fd', mounts) /\ StillBusy(f.t, tree') /\ tree'.alloc = f.t.alloc
    BY <2>1, <2>2, <1>3, <1>7, Given
  <2>4. StillBusy(tree, tree')
    BY <2>3, <1>3, StillBusyTwice
  <2> QED
    BY <2>3, <2>4, <1>1, <1>3, <1>4, <1>5 DEF Kept, VfsInv
<1> QED
  BY <1>6, <1>7

(* scheduler_syscall_spawn with a file for the output. *)
LEMMA SpawnKeeps ==
    ASSUME VfsInv, NEW p \in Process, NEW q \in Process, NEW path, Plain(path), Spawn(p, q, path)
    PROVE  Kept
<1>1. PICK f \in {FindAndCreateNode(tree, path, {}, "file", FALSE)}, spawned \in BOOLEAN :
          IF f.ret = NULL \/ ~spawned
          THEN tree' = f.t /\ UNCHANGED fd
          ELSE /\ tree' = [f.t EXCEPT !.node = Pin(@, f.ret)]
               /\ fd' = [fd EXCEPT ![q][1] = f.ret]
  BY DEF Spawn
<1>2. "file" \in Kinds
  BY DEF Kinds
<1>3. /\ TreeInv(f.t) /\ UseInv(f.t, fd, mounts) /\ StillBusy(tree, f.t)
      /\ f.ret # NULL => InTree(f.t, f.ret)
  BY <1>2, Found
<1>4. sems' = sems /\ mounts' = mounts /\ disk' = disk /\ FileCount(q) = 0
  BY DEF Spawn
<1>5. sems \subseteq Sem /\ fd \in FdType /\ DiskType(disk)
  BY DEF VfsInv, UseInv, FdType
<1>6. CASE f.ret = NULL \/ ~spawned
  BY <1>1, <1>3, <1>4, <1>5, <1>6 DEF Kept, VfsInv
<1>7. CASE f.ret # NULL /\ spawned
  <2>1. Sets(fd, fd', q, 1, f.ret)
    BY <1>1, <1>7 DEF Sets
  <2>11. tree' = [f.t EXCEPT !.node = Pin(@, f.ret)]
    BY <1>1, <1>7
  <2>2. 1 \in Slot /\ fd[q][1] = NULL
    BY <1>4, <1>5, NoFiles
  <2> DEFINE i == 1
             t == f.t
             n == f.ret
  <2>21. i \in Slot /\ fd[q][i] = NULL /\ Sets(fd, fd', q, i, n)
    BY <2>1, <2>2
  <2>22. TreeInv(t) /\ UseInv(t, fd, mounts) /\ InTree(t, n) /\ tree' = [t EXCEPT !.node = Pin(@, n)]
    BY <2>11, <1>3, <1>7
  <2> HIDE DEF i, t, n
  <2>3. TreeInv(tree') /\ UseInv(tree', fd', mounts) /\ StillBusy(t, tree') /\ tree'.alloc = t.alloc
    BY <2>21, <2>22, Given
  <2>4. StillBusy(tree, tree')
    BY <2>3, <1>3, StillBusyTwice DEF t
  <2> QED
    BY <2>3, <2>4, <1>1, <1>3, <1>4, <1>5 DEF Kept, VfsInv
<1> QED
  BY <1>6, <1>7

(* scheduler_syscall_spawn with the output of the parent. *)
LEMMA SpawnInheritKeeps ==
    ASSUME VfsInv, NEW p \in Process, NEW q \in Process, SpawnInherit(p, q)
    PROVE  Kept
<1>1. /\ sems' = sems /\ mounts' = mounts /\ disk' = disk /\ FileCount(q) = 0 /\ fd[p][1] # NULL
      /\ tree' = [tree EXCEPT !.node = Pin(@, fd[p][1])]
      /\ Sets(fd, fd', q, 1, fd[p][1])
  BY DEF SpawnInherit, Sets
<1>2. sems \subseteq Sem /\ fd \in FdType /\ DiskType(disk) /\ TreeInv(tree) /\ UseInv(tree, fd, mounts)
  BY DEF VfsInv, UseInv, FdType
<1>3. 1 \in Slot /\ fd[q][1] = NULL
  BY <1>1, <1>2, NoFiles
<1>4. InTree(tree, fd[p][1])
  BY <1>1, <1>2, <1>3 DEF UseInv
<1> DEFINE n == fd[p][1]
           i == 1
<1>5. i \in Slot /\ fd[q][i] = NULL /\ Sets(fd, fd', q, i, n) /\ InTree(tree, n)
      /\ tree' = [tree EXCEPT !.node = Pin(@, n)]
  BY <1>1, <1>3, <1>4
<1> HIDE DEF n, i
<1>6. TreeInv(tree') /\ UseInv(tree', fd', mounts) /\ StillBusy(tree, tree')
  BY <1>2, <1>5, Given
<1> QED
  BY <1>6, <1>1, <1>2 DEF Kept, VfsInv

(* vfs_close. *)
LEMMA CloseKeeps ==
    ASSUME VfsInv, NEW p \in Process, NEW i \in Slot, Close(p, i)
    PROVE  Kept
<1> DEFINE n == fd[p][i]
           r == Drop(disk, tree, n)
<1>1. /\ n # NULL /\ Sets(fd, fd', p, i, NULL) /\ mounts' = mounts
      /\ disk' = r.disk /\ tree' = r.t /\ sems' = sems \ r.sems
  BY DEF Close, Sets
<1>2. sems \subseteq Sem /\ DiskType(disk) /\ TreeInv(tree) /\ UseInv(tree, fd, mounts)
  BY DEF VfsInv
<1>3. InTree(tree, n)
  BY <1>1, <1>2 DEF UseInv
<1>4. tree \in TreeType /\ n \in Node
  BY <1>2, <1>3, TreeFields DEF TreeInv, InTree
<1>5. TreeInv(tree') /\ UseInv(tree', fd', mounts) /\ StillBusy(tree, tree')
  BY <1>1, <1>2, DropKeepsUse
<1>6. DiskType(disk')
  <2>1. r.disk = Sync(disk, tree, n)
    BY DropFields
  <2> HIDE DEF r, n
  <2> QED
    BY <2>1, <1>1, <1>2, <1>4, SyncType
<1> QED
  BY <1>1, <1>2, <1>5, <1>6 DEF Kept, VfsInv

-----------------------------------------------------------------------------
(* Named semaphores. *)

(* A node that the search made is freed again. *)
LEMMA NewNodeGoes ==
    ASSUME NEW t, TreeInv(t), NEW u, TreeInv(u), Extends(t, u), NEW v, TreeInv(v), Alike(u, v),
           NEW n, n \notin t.alloc, NEW w, TreeInv(w), Frees(v, w, {n}), Leaves(v, w, {n})
    PROVE  StillBusy(t, w)
<1>1. /\ SameShape(u, v) /\ v.alloc = u.alloc /\ u.alloc \subseteq Node /\ v.kids = u.kids
      /\ \A x \in u.alloc : v.node[x].refcount = u.node[x].refcount
  BY TreeFields DEF Alike, SameShape, TreeInv
<1>2. w.alloc = v.alloc \ {n} /\ w.node = v.node
  BY DEF Frees
<1> SUFFICES ASSUME NEW x \in w.alloc, InTree(t, x), Busy(t, x) PROVE InTree(w, x) /\ Busy(w, x)
  BY DEF StillBusy
<1>3. x \in t.alloc /\ x \in u.alloc /\ x # n /\ x \in Node
  BY <1>1, <1>2 DEF InTree
<1>4. InTree(u, x)
  BY ExtendsInTree
<1>5. InTree(v, x)
  BY <1>1, <1>3, <1>4 DEF InTree, SameShape
<1>6. InTree(w, x)
  BY <1>3, <1>5 DEF Leaves
<1>7. w.node[x].refcount = t.node[x].refcount
  BY <1>1, <1>2, <1>3 DEF Extends
<1>8. KidsOf(t, x) \subseteq KidsOf(w, x)
  <2>1. KidsOf(t, x) \subseteq t.alloc
    BY <1>3 DEF TreeInv, KidsInv
  <2>2. KidsOf(t, x) \subseteq KidsOf(v, x)
    BY <1>1, <1>3 DEF Extends, KidsOf
  <2>3. KidsOf(w, x) = KidsOf(v, x) \ {n}
    BY DEF Frees
  <2> QED
    BY <2>1, <2>2, <2>3
<1>9. t.node[x].refcount # 0 \/ KidsOf(t, x) # {}
  BY <1>3, BusyUnfold
<1>10. w.node[x].refcount # 0 \/ KidsOf(w, x) # {}
  BY <1>7, <1>8, <1>9
<1> QED
  BY <1>6, <1>10, BusyUnfold

(* A process has no more files than descriptors. *)
LEMMA NotFull ==
    ASSUME NEW p \in Process, FileCount(p) # Cardinality(Slot)
    PROVE  FileCount(p) < Cardinality(Slot)
<1> DEFINE used == {i \in Slot : fd[p][i] # NULL}
<1>1. IsFiniteSet(Slot) /\ used \in SUBSET Slot
  BY VfsAssumption
<1>2. FileCount(p) = Cardinality(used)
  BY DEF FileCount
<1> HIDE DEF used
<1>3. Cardinality(used) \in Nat /\ Cardinality(Slot) \in Nat /\ Cardinality(used) <= Cardinality(Slot)
  BY <1>1, FS_Subset, FS_CardinalityType
<1> QED
  BY <1>2, <1>3

(* kmalloc gives a semaphore. *)
LEMMA NewSem ==
    ASSUME Sem \ sems # {}
    PROVE  Lowest(Sem \ sems) \in Sem
<1> DEFINE S == Sem \ sems
<1>1. S \in SUBSET Nat /\ S # {}
  BY VfsAssumption
<1> HIDE DEF S
<1>2. Lowest(S) \in S
  BY <1>1, LowestIn
<1> QED
  BY <1>2 DEF S

(* What semaphore_syscall_create does with the node it has found or made. *)
Named(p, f, sem, full, n, t, e) ==
    /\ full /\ n \in tree.alloc => TakenNames
    /\ IF n = NULL
       THEN tree' = f.t /\ disk' = f.disk /\ UNCHANGED <<sems, fd>>
       ELSE IF full /\ ~HasEntries(f.disk, e)
       THEN /\ tree' = Without(t, {n})
            /\ disk' = [x \in DOMAIN f.disk \ {e} |-> f.disk[x]]
            /\ UNCHANGED <<sems, fd>>
       ELSE /\ tree' = IF full THEN t ELSE [t EXCEPT !.node = Pin(@, n)]
            /\ fd' = IF full THEN fd ELSE [fd EXCEPT ![p][FreeSlot(p)] = n]
            /\ disk' = Sync(f.disk, t, n)
            /\ sems' = sems \cup {sem}

(* semaphore_syscall_create. *)
LEMMA SemaphoreCreateKeeps ==
    ASSUME ~TakenNames, VfsInv, NEW p \in Process, NEW path, Plain(path), SemaphoreCreate(p, path)
    PROVE  Kept
<1> DEFINE sem == Lowest(Sem \ sems)
           full == FileCount(p) = Cardinality(Slot)
<1>0. Sem \ sems # {} /\ mounts' = mounts
  BY DEF SemaphoreCreate
<1>1. PICK made \in Outcomes :
        \E f \in {FindAndCreateNode(tree, path, {"create", "exclusive"}, "semaphore", made)} :
            Named(p, f, sem, full, f.ret, [f.t EXCEPT !.node[f.ret].sem = sem], f.t.node[f.ret].entry)
  BY Zenon DEF SemaphoreCreate, Named
<1>2. PICK f : /\ f = FindAndCreateNode(tree, path, {"create", "exclusive"}, "semaphore", made)
               /\ Named(p, f, sem, full, f.ret, [f.t EXCEPT !.node[f.ret].sem = sem],
                        f.t.node[f.ret].entry)
  BY <1>1
<1> DEFINE n == f.ret
           v == f.t
           t == [v EXCEPT !.node[n].sem = sem]
           e == v.node[n].entry
<1>3. Named(p, f, sem, full, n, t, e)
  BY <1>2
<1>4. sem \in Sem
  BY <1>0, NewSem
<1>5. "semaphore" \in Kinds
  BY DEF Kinds
<1>6. /\ FindInv(tree, f)
      /\ TreeInv(v) /\ UseInv(v, fd, mounts) /\ StillBusy(tree, v)
      /\ DiskType(f.disk)
      /\ n # NULL => InTree(v, n)
  BY <1>2, <1>5, Found
<1>7. sems \subseteq Sem /\ fd \in FdType /\ TreeInv(tree)
  BY DEF VfsInv, UseInv, FdType
<1> HIDE DEF sem, full, n, v, t, e
<1>8. CASE n = NULL
  BY <1>0, <1>3, <1>6, <1>7, <1>8 DEF Kept, VfsInv, Named, v
<1>9. CASE n # NULL
  <2>1. v \in TreeType /\ n \in Node /\ n \in v.alloc
    BY <1>6, <1>9, TreeFields DEF TreeInv, InTree
  <2>2. Alike(v, t)
    BY <2>1, <1>4, SemField DEF t
  <2>3. /\ TreeInv(t) /\ UseInv(t, fd, mounts) /\ StillBusy(v, t) /\ t.alloc = v.alloc
        /\ Leaves(v, t, {}) /\ \A x : KidsOf(t, x) = KidsOf(v, x)
    BY <2>2, <1>6, AlikeKeeps
  <2>4. StillBusy(tree, t)
    BY <2>3, <1>6, StillBusyTwice
  <2>5. InTree(t, n)
    BY <2>3, <1>6, <1>9 DEF Leaves
  <2>6. CASE full /\ ~HasEntries(f.disk, e)
    <3>1. /\ tree' = Without(t, {n}) /\ disk' = [x \in DOMAIN f.disk \ {e} |-> f.disk[x]]
          /\ sems' = sems /\ fd' = fd /\ n \notin tree.alloc
      BY <2>6, <1>3, <1>9 DEF Named
    <3>2. v.node[n].refcount = 0 /\ KidsOf(v, n) = {} /\ Extends(tree, v)
      BY <3>1, <2>1, <1>6, <1>9 DEF FindInv, Extends, n, v
    <3>3. t.node[n].refcount = 0 /\ KidsOf(t, n) = {}
      BY <3>2, <2>1, <2>2, <2>3 DEF Alike
    <3>4. Idle(t, {n})
      BY <3>3, <2>1 DEF Idle
    <3>5. Frees(t, tree', {n})
      BY <3>1, <2>3, WithoutFrees
    <3>6. TreeInv(tree') /\ UseInv(tree', fd, mounts) /\ Leaves(t, tree', {n})
      BY <3>4, <3>5, <2>3, FreeKeepsUse
    <3>7. StillBusy(tree, tree')
      BY <3>1, <3>2, <3>5, <3>6, <2>2, <2>3, <1>6, <1>7, NewNodeGoes
    <3>8. DiskType(disk')
      BY <3>1, <1>6 DEF DiskType
    <3> QED
      BY <3>1, <3>6, <3>7, <3>8, <1>0, <1>7 DEF Kept, VfsInv
  <2>7. CASE ~(full /\ ~HasEntries(f.disk, e))
    <3>1. /\ tree' = IF full THEN t ELSE [t EXCEPT !.node = Pin(@, n)]
          /\ fd' = IF full THEN fd ELSE [fd EXCEPT ![p][FreeSlot(p)] = n]
          /\ disk' = Sync(f.disk, t, n)
          /\ sems' = sems \cup {sem}
      BY <2>7, <1>3, <1>9 DEF Named
    <3>2. DiskType(disk')
      BY <3>1, <2>1, <2>3, <1>6, SyncType DEF TreeInv
    <3>3. sems' \subseteq Sem
      BY <3>1, <1>4, <1>7
    <3>4. CASE full
      BY <3>1, <3>2, <3>3, <3>4, <2>3, <2>4, <1>0 DEF Kept, VfsInv
    <3>5. CASE ~full
      <4>1. tree' = [t EXCEPT !.node = Pin(@, n)] /\ Sets(fd, fd', p, FreeSlot(p), n)
        BY <3>1, <3>5 DEF Sets
      <4>2. FreeSlot(p) \in Slot /\ fd[p][FreeSlot(p)] = NULL
        BY <3>5, <1>7, NotFull, FreeSlotIn DEF full
      <4>3. TreeInv(tree') /\ UseInv(tree', fd', mounts) /\ StillBusy(t, tree') /\ tree'.alloc = t.alloc
        BY <4>1, <4>2, <2>3, <2>5, Given
      <4>4. StillBusy(tree, tree')
        BY <4>3, <2>4, StillBusyTwice
      <4> QED
        BY <4>3, <4>4, <3>2, <3>3, <1>0 DEF Kept, VfsInv
    <3> QED
      BY <3>4, <3>5
  <2> QED
    BY <2>6, <2>7
<1> QED
  BY <1>8, <1>9

-----------------------------------------------------------------------------
(* Mounts. *)

Appends(m, l, x, y) == l = Append(m, <<x, y>>)

One(n, x) == IF n = x THEN 1 ELSE 0

(* The uses of every node with one mount more. *)
LEMMA MountCount ==
    ASSUME NEW f, NEW m \in Seq(Node \X Node), NEW x \in Node, NEW y \in Node, NEW n,
           NEW l, Appends(m, l, x, y)
    PROVE  Uses(f, l, n) = Uses(f, m, n) + One(n, x) + One(n, y)
<1> DEFINE k == Len(m) + 1
           A == IF n = x THEN {<<k, 1>>} ELSE {}
           B == IF n = y THEN {<<k, 2>>} ELSE {}
           M == MountUses(m, n)
<1>1. /\ l \in Seq(Node \X Node) /\ Len(l) = k /\ Len(m) \in Nat /\ l[k] = <<x, y>>
      /\ \A i \in 1..Len(m) : l[i] = m[i]
  BY AppendProperties DEF Appends
<1>2. MountUses(l, n) = M \cup A \cup B
  <2>1. ASSUME NEW i \in 1..k, NEW j \in {1, 2}
        PROVE  l[i][j] = n <=> <<i, j>> \in M \cup A \cup B
    <3>1. CASE i = k
      <4>1. l[i] = <<x, y>>
        BY <3>1, <1>1
      <4>2. <<i, j>> \notin M
        BY <3>1, <1>1 DEF MountUses
      <4>3. CASE j = 1
        BY <3>1, <4>1, <4>2, <4>3
      <4>4. CASE j = 2
        BY <3>1, <4>1, <4>2, <4>4
      <4> QED
        BY <4>3, <4>4
    <3>2. CASE i # k
      <4>1. i \in 1..Len(m) /\ l[i] = m[i]
        BY <3>2, <1>1
      <4>2. <<i, j>> \notin A \cup B
        BY <3>2
      <4>3. <<i, j>> \in M <=> m[i][j] = n
        BY <4>1 DEF MountUses
      <4> QED
        BY <4>1, <4>2, <4>3
    <3> QED
      BY <3>1, <3>2
  <2>2. MountUses(l, n) \subseteq (1..k) \X {1, 2}
    BY <1>1 DEF MountUses
  <2>3. M \cup A \cup B \subseteq (1..k) \X {1, 2}
    BY <1>1 DEF MountUses
  <2>4. \A i \in 1..k, j \in {1, 2} : <<i, j>> \in MountUses(l, n) <=> l[i][j] = n
    BY <1>1 DEF MountUses
  <2> DEFINE W == M \cup A \cup B
             V == MountUses(l, n)
             P == (1..k) \X {1, 2}
  <2>5. V \subseteq P /\ W \subseteq P
    BY <2>2, <2>3
  <2>6. ASSUME NEW u \in P PROVE u \in V <=> u \in W
    <3>1. PICK i \in 1..k, j \in {1, 2} : u = <<i, j>>
      OBVIOUS
    <3> HIDE DEF V, W
    <3> QED
      BY <3>1, <2>1, <2>4 DEF V, W
  <2> HIDE DEF V, W, P
  <2>7. V = W
    BY <2>5, <2>6
  <2> QED
    BY <2>7 DEF V, W
<1>3. IsFiniteSet(M) /\ Cardinality(M) \in Nat /\ Cardinality(FdUses(f, n)) \in Nat
  BY UsesFinite
<1>4. <<k, 1>> \notin M /\ <<k, 2>> \notin M
  BY <1>1 DEF MountUses
<1> HIDE DEF M, k
<1>5. IsFiniteSet(M \cup A) /\ Cardinality(M \cup A) = Cardinality(M) + One(n, x)
  <2>1. CASE n = x
    <3>1. M \cup A = M \cup {<<k, 1>>}
      BY <2>1
    <3> QED
      BY <3>1, <2>1, <1>3, <1>4, FS_AddElement DEF One
  <2>2. CASE n # x
    <3>1. M \cup A = M
      BY <2>2
    <3> QED
      BY <3>1, <2>2, <1>3 DEF One
  <2> QED
    BY <2>1, <2>2
<1>6. Cardinality(M \cup A \cup B) = Cardinality(M \cup A) + One(n, y)
  <2>1. <<k, 2>> \notin M \cup A
    BY <1>4
  <2>2. Cardinality(M \cup A) \in Nat
    BY <1>5, FS_CardinalityType
  <2> DEFINE C == M \cup A
  <2> HIDE DEF C
  <2>3. CASE n = y
    <3>1. M \cup A \cup B = C \cup {<<k, 2>>}
      BY <2>3 DEF C
    <3>2. Cardinality(C \cup {<<k, 2>>}) = Cardinality(C) + 1
      BY <2>1, <2>2, <1>5, FS_AddElement DEF C
    <3> QED
      BY <3>1, <3>2, <2>3 DEF One, C
  <2>4. CASE n # y
    <3>1. M \cup A \cup B = M \cup A
      BY <2>4
    <3> QED
      BY <3>1, <2>2, <2>4 DEF One
  <2> QED
    BY <2>3, <2>4
<1> HIDE DEF A, B
<1>7. Cardinality(MountUses(l, n)) = Cardinality(M) + One(n, x) + One(n, y)
  BY <1>2, <1>5, <1>6
<1> QED
  BY <1>3, <1>7 DEF Uses, One, M

(* Node y leads to x, and both have one more use. *)
Mounted(t, u, x, y) ==
    /\ SameShape(t, u)
    /\ u.node[y].mount = x
    /\ \A z \in Node \ {y} : u.node[z].mount = t.node[z].mount
    /\ \A z \in Node : u.node[z].refcount = t.node[z].refcount + One(z, x) + One(z, y)

(* The fields of a tree with a mount. *)
LEMMA MountFields ==
    ASSUME NEW t \in TreeType, NEW x \in Node, NEW y \in Node
    PROVE  Mounted(t, [t EXCEPT !.node = Pin(Pin([@ EXCEPT ![y].mount = x], x), y)], x, y)
<1> DEFINE a == [t.node EXCEPT ![y].mount = x]
           b == Pin(a, x)
           c == Pin(b, y)
           u == [t EXCEPT !.node = c]
<1>1. t.node \in [Node -> NodeType] /\ \A z \in Node : t.node[z].refcount \in Nat
  BY TreeFields
<1>2. /\ a \in [Node -> NodeType]
      /\ a[y].mount = x /\ \A z \in Node \ {y} : a[z].mount = t.node[z].mount
      /\ \A z \in Node : /\ a[z].refcount = t.node[z].refcount /\ a[z].entry = t.node[z].entry /\ a[z].asked = t.node[z].asked
                         /\ a[z].parent = t.node[z].parent
  BY <1>1 DEF NodeType
<1> HIDE DEF a
<1>3. /\ b \in [Node -> NodeType]
      /\ \A z \in Node : /\ b[z].mount = a[z].mount /\ b[z].entry = a[z].entry /\ b[z].parent = a[z].parent
                         /\ b[z].asked = a[z].asked
                         /\ b[z].refcount = a[z].refcount + One(z, x)
  BY <1>2 DEF NodeType, Pin, One
<1> HIDE DEF b
<1>4. /\ c \in [Node -> NodeType]
      /\ \A z \in Node : /\ c[z].mount = b[z].mount /\ c[z].entry = b[z].entry /\ c[z].parent = b[z].parent
                         /\ c[z].asked = b[z].asked
                         /\ c[z].refcount = b[z].refcount + One(z, y)
  BY <1>3 DEF NodeType, Pin, One
<1> HIDE DEF c
<1>5. u \in TreeType /\ u.alloc = t.alloc /\ u.kids = t.kids /\ u.node = c
  BY <1>4 DEF TreeType
<1>6. u = [t EXCEPT !.node = Pin(Pin([@ EXCEPT ![y].mount = x], x), y)]
  BY DEF a, b, c
<1> HIDE DEF u
<1>7. SameShape(t, u)
  BY <1>2, <1>3, <1>4, <1>5 DEF SameShape
<1>8. Mounted(t, u, x, y)
  BY <1>2, <1>3, <1>4, <1>5, <1>7 DEF Mounted
<1> QED
  BY <1>6, <1>8

(* Counts follow the mount. *)
LEMMA MountKeepsUse ==
    ASSUME NEW t, TreeInv(t), NEW f, NEW m, UseInv(t, f, m),
           NEW x, InTree(t, x), NEW y, InTree(t, y), NEW u, Mounted(t, u, x, y),
           NEW l, Appends(m, l, x, y)
    PROVE  TreeInv(u) /\ UseInv(u, f, l) /\ StillBusy(t, u) /\ u.alloc = t.alloc
<1>1. t \in TreeType /\ t.alloc \subseteq Node /\ x \in Node /\ y \in Node
  BY TreeFields DEF TreeInv, InTree
<1>2. SameShape(t, u) /\ u.alloc = t.alloc /\ u.kids = t.kids
  BY DEF Mounted, SameShape
<1>3. \A z : InTree(u, z) <=> InTree(t, z)
  BY <1>1, <1>2 DEF InTree, SameShape
<1>4. u.node[y].mount = x /\ \A z \in t.alloc \ {y} : u.node[z].mount = t.node[z].mount
  BY <1>1 DEF Mounted
<1>5. MountInv(u)
  BY <1>2, <1>3, <1>4 DEF TreeInv, MountInv
<1>6. TreeInv(u)
  BY <1>2, <1>5, ShapeKeepsTree
<1>7. m \in Seq(Node \X Node) /\ f \in FdType
  BY DEF UseInv, FdType
<1>8. /\ l \in Seq(Node \X Node) /\ Len(l) = Len(m) + 1 /\ Len(m) \in Nat /\ l[Len(m) + 1] = <<x, y>>
      /\ \A i \in 1..Len(m) : l[i] = m[i]
  BY <1>1, <1>7, AppendProperties DEF Appends
<1>9. ASSUME NEW k \in 1..Len(l) PROVE InTree(u, l[k][1]) /\ InTree(u, l[k][2])
  <2>1. CASE k = Len(m) + 1
    BY <2>1, <1>3, <1>8
  <2>2. CASE k # Len(m) + 1
    <3>1. k \in 1..Len(m) /\ l[k] = m[k]
      BY <2>2, <1>8
    <3> QED
      BY <3>1, <1>3 DEF UseInv
  <2> QED
    BY <2>1, <2>2
<1>10. ASSUME NEW z \in u.alloc PROVE u.node[z].refcount = Uses(f, l, z)
  <2>1. u.node[z].refcount = t.node[z].refcount + One(z, x) + One(z, y)
    BY <1>1, <1>2 DEF Mounted
  <2>2. t.node[z].refcount = Uses(f, m, z)
    BY <1>2 DEF UseInv
  <2>3. Uses(f, l, z) = Uses(f, m, z) + One(z, x) + One(z, y)
    BY <1>1, <1>7, MountCount
  <2> QED
    BY <2>1, <2>2, <2>3
<1>11. ASSUME NEW z \in u.alloc, u.node[z].mount # NULL
       PROVE  \E k \in 1..Len(l) : u.node[z].mount = l[k][1]
  <2>1. CASE z = y
    <3>1. Len(m) + 1 \in 1..Len(l) /\ u.node[z].mount = l[Len(m) + 1][1]
      BY <2>1, <1>4, <1>8
    <3> QED
      BY <3>1
  <2>2. CASE z # y
    <3>1. u.node[z].mount = t.node[z].mount
      BY <2>2, <1>2, <1>4
    <3>2. PICK k \in 1..Len(m) : t.node[z].mount = m[k][1]
      BY <3>1, <1>2, <1>11 DEF UseInv
    <3>3. k \in 1..Len(l) /\ l[k] = m[k]
      BY <1>8
    <3> QED
      BY <3>1, <3>2, <3>3
  <2> QED
    BY <2>1, <2>2
<1>12. UseInv(u, f, l)
  <2>1. \A p \in Process, i \in Slot : f[p][i] # NULL => InTree(u, f[p][i])
    BY <1>3 DEF UseInv
  <2> QED
    BY <2>1, <1>7, <1>8, <1>9, <1>10, <1>11 DEF UseInv, FdType
<1>13. ASSUME NEW z \in u.alloc, InTree(t, z), Busy(t, z) PROVE Busy(u, z)
  <2>1. u.node[z].refcount = t.node[z].refcount + One(z, x) + One(z, y) /\ t.node[z].refcount \in Nat
    BY <1>1, <1>2, TreeFields DEF Mounted
  <2> QED
    BY <2>1, <1>2, <1>13 DEF Busy, One
<1>14. StillBusy(t, u)
  BY <1>3, <1>13 DEF StillBusy
<1> QED
  BY <1>2, <1>6, <1>12, <1>14

(* vfs_mount. *)
LEMMA MountKeeps ==
    ASSUME VfsInv, NEW target, Plain(target), NEW point, Plain(point), Mount(target, point)
    PROVE  Kept
<1> DEFINE Done(a, b) ==
          IF a.ret = NULL
          THEN tree' = a.t /\ UNCHANGED <<disk, mounts>>
          ELSE IF b.ret = NULL \/ ~IsDir(b.disk, b.t, b.ret)
          THEN tree' = b.t /\ disk' = b.disk /\ UNCHANGED mounts
          ELSE /\ tree' = [b.t EXCEPT !.node = Pin(Pin([@ EXCEPT ![b.ret].mount = a.ret], a.ret), b.ret)]
               /\ disk' = b.disk
               /\ mounts' = Append(mounts, <<a.ret, b.ret>>)
<1>1. PICK made \in Outcomes :
       \E a \in {FindAndCreateNode(tree, target, {}, "file", FALSE)} :
       \E b \in {FindAndCreateNode(a.t, point, {"create"}, "dir", made)} : Done(a, b)
  BY DEF Mount
<1>2. sems' = sems /\ fd' = fd
  BY DEF Mount
<1> HIDE DEF Done
<1>3. PICK a : /\ a = FindAndCreateNode(tree, target, {}, "file", FALSE)
               /\ \E b \in {FindAndCreateNode(a.t, point, {"create"}, "dir", made)} : Done(a, b)
  BY <1>1
<1>4. PICK b : b = FindAndCreateNode(a.t, point, {"create"}, "dir", made) /\ Done(a, b)
  BY <1>3
<1>5. "file" \in Kinds /\ "dir" \in Kinds
  BY DEF Kinds
<1>6. sems \subseteq Sem /\ DiskType(disk)
  BY DEF VfsInv
<1>7. /\ FindInv(tree, a) /\ TreeInv(a.t) /\ UseInv(a.t, fd, mounts) /\ StillBusy(tree, a.t)
      /\ a.ret # NULL => InTree(a.t, a.ret)
  BY <1>3, <1>5, Found
<1>8. FindInv(a.t, b)
  BY <1>4, <1>5, <1>6, <1>7, FindKeepsTree
<1>9. /\ TreeInv(b.t) /\ Extends(a.t, b.t) /\ DiskType(b.disk)
      /\ b.ret # NULL => InTree(b.t, b.ret)
  BY <1>8 DEF FindInv
<1>10. UseInv(b.t, fd, mounts) /\ StillBusy(a.t, b.t)
  BY <1>7, <1>9, ExtendKeepsUse, ExtendStaysBusy
<1>11. StillBusy(tree, b.t)
  <2>1. Extends(tree, a.t) /\ TreeInv(tree)
    BY <1>7 DEF FindInv, VfsInv
  <2>2. Extends(tree, b.t)
    BY <2>1, <1>9, ExtendsTwice
  <2> QED
    BY <2>1, <2>2, <1>9, ExtendStaysBusy
<1>12. a.ret # NULL => InTree(b.t, a.ret)
  BY <1>7, <1>9, ExtendsInTree
<1>13. CASE a.ret = NULL
  BY <1>13, <1>2, <1>4, <1>6, <1>7 DEF Kept, VfsInv, Done
<1>14. CASE a.ret # NULL /\ (b.ret = NULL \/ ~IsDir(b.disk, b.t, b.ret))
  BY <1>14, <1>2, <1>4, <1>6, <1>9, <1>10, <1>11 DEF Kept, VfsInv, Done
<1>15. CASE ~(a.ret = NULL) /\ ~(b.ret = NULL \/ ~IsDir(b.disk, b.t, b.ret))
  <2> DEFINE x == a.ret
             y == b.ret
             t == b.t
  <2>1. /\ tree' = [t EXCEPT !.node = Pin(Pin([@ EXCEPT ![y].mount = x], x), y)]
        /\ disk' = b.disk
    BY <1>4, <1>15 DEF Done
  <2>11. Appends(mounts, mounts', x, y)
    BY <1>4, <1>15 DEF Done, Appends
  <2>2. InTree(t, x) /\ InTree(t, y) /\ TreeInv(t) /\ UseInv(t, fd, mounts) /\ StillBusy(tree, t)
    BY <1>9, <1>10, <1>11, <1>12, <1>15
  <2> HIDE DEF x, y, t
  <2>3. t \in TreeType /\ x \in Node /\ y \in Node
    BY <2>2, TreeFields DEF TreeInv, InTree
  <2>4. Mounted(t, tree', x, y)
    BY <2>1, <2>3, MountFields
  <2>5. TreeInv(tree') /\ UseInv(tree', fd, mounts') /\ StillBusy(t, tree') /\ tree'.alloc = t.alloc
    BY <2>2, <2>4, <2>11, MountKeepsUse
  <2>6. StillBusy(tree, tree')
    BY <2>2, <2>5, StillBusyTwice
  <2> QED
    BY <2>1, <2>5, <2>6, <1>2, <1>6, <1>9 DEF Kept, VfsInv
<1> QED
  BY <1>13, <1>14, <1>15

-----------------------------------------------------------------------------
(* process_delete. *)

NothingClosed == [disk |-> disk, t |-> tree, sems |-> {}]

CloseNext(p, k, r) ==
    IF fd[p][k] = NULL THEN r ELSE [Drop(r.disk, r.t, fd[p][k]) EXCEPT !.sems = @ \cup r.sems]

IsClosing(g, p, last) ==
    g = [k \in 0..last |-> IF k = 0 THEN NothingClosed ELSE CloseNext(p, k, g[k - 1])]

(* The descriptors of a process, closed one after the other. *)
LEMMA ClosingExists ==
    ASSUME NEW p, NEW last \in Nat
    PROVE  \E g : IsClosing(g, p, last)
<1> DEFINE Ind == {k \in Nat : \E g : IsClosing(g, p, k)}
<1>1. 0 \in Ind
  <2>1. IsClosing([i \in 0..0 |-> NothingClosed], p, 0)
    BY DEF IsClosing
  <2> QED
    BY <2>1
<1>2. ASSUME NEW k \in Nat, k \in Ind PROVE k + 1 \in Ind
  <2>1. PICK g : IsClosing(g, p, k)
    BY <1>2
  <2> DEFINE new == CloseNext(p, k + 1, g[k])
             h == [i \in 0..k + 1 |-> IF i = k + 1 THEN new ELSE g[i]]
  <2>2. \A i \in 0..k : g[i] = IF i = 0 THEN NothingClosed ELSE CloseNext(p, i, g[i - 1])
    BY <2>1 DEF IsClosing
  <2>3. /\ h[k + 1] = new
        /\ \A i \in 0..k : h[i] = g[i]
    <3> HIDE DEF new
    <3> QED
      OBVIOUS
  <2>4. ASSUME NEW i \in 0..k + 1
        PROVE  h[i] = IF i = 0 THEN NothingClosed ELSE CloseNext(p, i, h[i - 1])
    <3>1. CASE i = k + 1
      <4>1. i # 0 /\ i - 1 = k /\ k \in 0..k
        BY <3>1
      <4>2. h[i - 1] = g[k] /\ h[i] = CloseNext(p, i, g[k])
        <5> HIDE DEF h
        <5> QED
          BY <4>1, <3>1, <2>3
      <4> HIDE DEF h, new
      <4> QED
        BY <4>1, <4>2
    <3>2. CASE i # k + 1
      <4>1. i \in 0..k /\ (i # 0 => i - 1 \in 0..k)
        BY <3>2
      <4> HIDE DEF h, new
      <4> QED
        BY <4>1, <2>2, <2>3
    <3> QED
      BY <3>1, <3>2
  <2>5. DOMAIN h = 0..k + 1 /\ h = [i \in 0..k + 1 |-> h[i]]
    <3> HIDE DEF new
    <3> QED
      OBVIOUS
  <2> HIDE DEF h, new
  <2>6. IsClosing(h, p, k + 1)
    BY <2>4, <2>5 DEF IsClosing
  <2> QED
    BY <2>6
<1> HIDE DEF Ind
<1>3. last \in Ind
  BY <1>1, <1>2, NatSetInduction
<1> QED
  BY <1>3 DEF Ind

(* The descriptors when the first k are closed. *)
Closed(p, k) == [fd EXCEPT ![p] = [i \in Slot |-> IF i <= k THEN NULL ELSE fd[p][i]]]

(* One more is closed. *)
LEMMA ClosedNext ==
    ASSUME fd \in FdType, NEW p \in Process, NEW k \in Nat, NEW j \in Slot, j = k + 1
    PROVE  /\ Closed(p, k)[p][j] = fd[p][j]
           /\ fd[p][j] = NULL => Closed(p, j) = Closed(p, k)
           /\ Sets(Closed(p, k), Closed(p, j), p, j, NULL)
<1> DEFINE F == [Process -> [Slot -> Node \cup {NULL}]]
           a(x) == [i \in Slot |-> IF i <= x THEN NULL ELSE fd[p][i]]
<1>1. Slot \subseteq Nat
  BY VfsAssumption, FS_CardinalityType
<1>2. fd \in F
  BY DEF FdType
<1>3. \A i \in Slot : (i <= j <=> i <= k \/ i = j) /\ ~(j <= k)
  BY <1>1
<1>4. a(k) \in [Slot -> Node \cup {NULL}] /\ a(j) \in [Slot -> Node \cup {NULL}]
  BY <1>2
<1>5. /\ \A i \in Slot : a(k)[i] = IF i <= k THEN NULL ELSE fd[p][i]
      /\ \A i \in Slot : a(j)[i] = IF i <= j THEN NULL ELSE fd[p][i]
  OBVIOUS
<1>6. Closed(p, k) = [fd EXCEPT ![p] = a(k)] /\ Closed(p, j) = [fd EXCEPT ![p] = a(j)]
  BY DEF Closed
<1> DEFINE b == a(k)
           c == a(j)
<1>7. /\ b \in [Slot -> Node \cup {NULL}] /\ c \in [Slot -> Node \cup {NULL}]
      /\ Closed(p, k) = [fd EXCEPT ![p] = b] /\ Closed(p, j) = [fd EXCEPT ![p] = c]
      /\ \A i \in Slot : b[i] = IF i <= k THEN NULL ELSE fd[p][i]
      /\ \A i \in Slot : c[i] = IF i <= j THEN NULL ELSE fd[p][i]
  BY <1>4, <1>5, <1>6
<1> HIDE DEF b, c
<1>8. b[j] = fd[p][j]
  BY <1>3, <1>7
<1>9. c = [b EXCEPT ![j] = NULL]
  <2>1. \A i \in Slot : c[i] = IF i = j THEN NULL ELSE b[i]
    BY <1>3, <1>7
  <2> QED
    BY <2>1, <1>7
<1>10. fd[p][j] = NULL => c = b
  BY <1>7, <1>8, <1>9
<1>11. [fd EXCEPT ![p] = c] = [[fd EXCEPT ![p] = b] EXCEPT ![p][j] = NULL]
  BY <1>2, <1>7, <1>9
<1> QED
  BY <1>2, <1>7, <1>8, <1>10, <1>11 DEF Sets

(* None is closed, and all are. *)
LEMMA ClosedEnds ==
    ASSUME fd \in FdType, NEW p \in Process
    PROVE  /\ Closed(p, 0) = fd
           /\ Closed(p, Cardinality(Slot)) = [fd EXCEPT ![p] = [i \in Slot |-> NULL]]
<1> DEFINE a(x) == [i \in Slot |-> IF i <= x THEN NULL ELSE fd[p][i]]
<1>1. Cardinality(Slot) \in Nat /\ \A i \in Slot : i \in Nat /\ i <= Cardinality(Slot) /\ ~(i <= 0)
  BY VfsAssumption, FS_CardinalityType
<1>2. fd \in [Process -> [Slot -> Node \cup {NULL}]]
  BY DEF FdType
<1>3. a(0) = fd[p] /\ a(Cardinality(Slot)) = [i \in Slot |-> NULL]
  BY <1>1, <1>2
<1> QED
  BY <1>2, <1>3 DEF Closed

(* A descriptor is closed. *)
Drops(f, g, p, i, t, u) ==
    f[p][i] # NULL /\ Sets(f, g, p, i, NULL) /\ \E d : u = Drop(d, t, f[p][i]).t

(* DropKeepsUse, with its hypotheses in one. *)
LEMMA DropsKeepUse ==
    ASSUME NEW t, TreeInv(t), NEW f, NEW m, UseInv(t, f, m),
           NEW p \in Process, NEW i \in Slot, NEW g, NEW u, Drops(f, g, p, i, t, u)
    PROVE  TreeInv(u) /\ UseInv(u, g, m) /\ StillBusy(t, u) /\ Within(t, u)
<1>1. PICK d : u = Drop(d, t, f[p][i]).t
  BY DEF Drops
<1>2. f[p][i] # NULL /\ Sets(f, g, p, i, NULL)
  BY DEF Drops
<1> DEFINE n == f[p][i]
<1>3. n = f[p][i] /\ u = Drop(d, t, n).t
  BY <1>1
<1> HIDE DEF n
<1> QED
  BY <1>2, <1>3, DropKeepsUse

GoodWith(f, r) ==
    /\ DiskType(r.disk) /\ TreeInv(r.t) /\ UseInv(r.t, f, mounts)
    /\ StillBusy(tree, r.t)

(* What the descriptor was on does not matter to the tree: one that is used *)
(* more often stays.                                                        *)
LEMMA CloseNextWith ==
    ASSUME NEW p \in Process, NEW j \in Slot, NEW r, NEW f, GoodWith(f, r), f[p][j] = fd[p][j],
           NEW g, Sets(f, g, p, j, NULL), fd[p][j] = NULL => g = f
    PROVE  GoodWith(g, CloseNext(p, j, r))
<1> DEFINE n == fd[p][j]
           t == r.t
<1>2. DiskType(r.disk) /\ TreeInv(t) /\ UseInv(t, f, mounts) /\ StillBusy(tree, t)
  BY DEF GoodWith
<1>3. CASE n = NULL
  <2>1. CloseNext(p, j, r) = r
    BY <1>3 DEF CloseNext
  <2> QED
    BY <2>1, <1>2, <1>3 DEF GoodWith
<1>4. CASE n # NULL
  <2> DEFINE x == Drop(r.disk, t, n)
             y == CloseNext(p, j, r)
  <2>1. y = [x EXCEPT !.sems = @ \cup r.sems]
    BY <1>4 DEF CloseNext
  <2>2. \E a, b, c : x = [disk |-> a, t |-> b, sems |-> c]
    BY Zenon DEF Drop
  <2> HIDE DEF x, y
  <2>3. y.t = x.t /\ y.disk = x.disk
    BY <2>1, <2>2
  <2>4. InTree(t, n)
    BY <1>2, <1>4 DEF UseInv
  <2>5. t \in TreeType /\ n \in Node
    BY <1>2, <2>4, TreeFields DEF TreeInv, InTree
  <2>6. x.disk = Sync(r.disk, t, n) /\ y.t = Drop(r.disk, t, n).t
    BY <2>3, DropFields DEF x
  <2>7. TreeInv(y.t) /\ UseInv(y.t, g, mounts) /\ StillBusy(t, y.t) /\ Within(t, y.t)
    <3> DEFINE w == y.t
               d == r.disk
    <3>1. Drops(f, g, p, j, t, w)
      BY <2>6, <1>4 DEF Drops
    <3> HIDE DEF w, d, n, t
    <3>2. TreeInv(w) /\ UseInv(w, g, mounts) /\ StillBusy(t, w) /\ Within(t, w)
      BY <3>1, <1>2, DropsKeepUse
    <3> QED
      BY <3>2 DEF w
  <2> HIDE DEF n, t
  <2>8. DiskType(y.disk)
    BY <2>3, <2>5, <2>6, <1>2, SyncType
  <2>9. StillBusy(tree, y.t)
    BY <2>7, <1>2, StillBusyTwice DEF Within
  <2>10. GoodWith(g, y)
    BY <2>7, <2>8, <2>9 DEF GoodWith
  <2> QED
    BY <2>10 DEF y
<1> QED
  BY <1>3, <1>4

GoodAt(p, k, r) == GoodWith(Closed(p, k), r)

(* One step of the loop of process_delete. *)
LEMMA CloseNextGood ==
    ASSUME fd \in FdType, NEW p \in Process, NEW k \in Nat, NEW j \in Slot, j = k + 1,
           NEW r, GoodAt(p, k, r)
    PROVE  GoodAt(p, j, CloseNext(p, j, r))
<1> DEFINE f == Closed(p, k)
           g == Closed(p, j)
<1>1. f[p][j] = fd[p][j] /\ (fd[p][j] = NULL => g = f) /\ Sets(f, g, p, j, NULL)
  BY ClosedNext
<1>2. GoodWith(f, r)
  BY DEF GoodAt
<1> HIDE DEF f, g
<1>3. GoodWith(g, CloseNext(p, j, r))
  BY <1>1, <1>2, CloseNextWith
<1> QED
  BY <1>3 DEF GoodAt, g

(* process_delete. *)
LEMMA DeleteKeeps ==
    ASSUME VfsInv, NEW p \in Process, Delete(p)
    PROVE  Kept
<1> DEFINE last == Cardinality(Slot)
           h == CHOOSE g : IsClosing(g, p, last)
           end == h[last]
<1>1. /\ fd' = [fd EXCEPT ![p] = [i \in Slot |-> NULL]] /\ mounts' = mounts
      /\ disk' = end.disk /\ tree' = end.t /\ sems' = sems \ end.sems
  <2>1. \E e \in {h[last]} : disk' = e.disk /\ tree' = e.t /\ sems' = sems \ e.sems
    BY Zenon DEF Delete, IsClosing, CloseNext, NothingClosed
  <2> HIDE DEF h, last
  <2>2. fd' = [fd EXCEPT ![p] = [i \in Slot |-> NULL]] /\ mounts' = mounts
    BY DEF Delete
  <2> QED
    BY <2>1, <2>2
<1>2. /\ sems \subseteq Sem /\ fd \in FdType /\ DiskType(disk) /\ TreeInv(tree)
      /\ UseInv(tree, fd, mounts)
  BY DEF VfsInv, UseInv, FdType
<1>3. last \in Nat /\ Slot = 1..last
  BY VfsAssumption, FS_CardinalityType
<1>4. IsClosing(h, p, last)
  BY <1>3, ClosingExists
<1> HIDE DEF h, last
<1>5. \A k \in 0..last : h[k] = IF k = 0 THEN NothingClosed ELSE CloseNext(p, k, h[k - 1])
  BY <1>4 DEF IsClosing
<1> DEFINE Ind == {k \in Nat : k <= last => GoodAt(p, k, h[k])}
<1>6. 0 \in Ind
  <2>1. h[0] = NothingClosed
    BY <1>3, <1>5
  <2>2. h[0].disk = disk /\ h[0].t = tree
    BY <2>1 DEF NothingClosed
  <2>3. StillBusy(tree, tree)
    BY DEF StillBusy
  <2>4. Closed(p, 0) = fd
    BY <1>2, ClosedEnds
  <2>5. GoodAt(p, 0, h[0])
    BY <2>2, <2>3, <2>4, <1>2 DEF GoodAt, GoodWith
  <2> QED
    BY <2>5
<1>7. ASSUME NEW k \in Nat, k \in Ind PROVE k + 1 \in Ind
  <2> SUFFICES ASSUME k + 1 <= last PROVE GoodAt(p, k + 1, h[k + 1])
    OBVIOUS
  <2> DEFINE j == k + 1
  <2>1. GoodAt(p, k, h[k])
    BY <1>3, <1>7
  <2>2. j \in 0..last /\ j # 0 /\ j - 1 = k /\ j \in Slot /\ j = k + 1
    BY <1>3
  <2> HIDE DEF j, Ind
  <2>3. h[j] = CloseNext(p, j, h[k])
    BY <2>2, <1>5
  <2>4. GoodAt(p, j, h[j])
    BY <2>1, <2>2, <2>3, <1>2, CloseNextGood
  <2> QED
    BY <2>4 DEF j
<1> HIDE DEF Ind
<1>8. last \in Ind
  BY <1>3, <1>6, <1>7, NatSetInduction
<1>9. GoodAt(p, last, end)
  BY <1>3, <1>8 DEF Ind
<1>10. fd' = Closed(p, last)
  BY <1>1, <1>2, ClosedEnds DEF last
<1> HIDE DEF end
<1> QED
  BY <1>1, <1>2, <1>9, <1>10 DEF Kept, VfsInv, GoodAt, GoodWith

-----------------------------------------------------------------------------
(* The specification. *)

(* The tree with the root alone is in order. *)
LEMMA InitInv ==
    ASSUME Init
    PROVE  VfsInv
<1>1. DiskType(disk)
  BY VfsAssumption DEF Init, DiskType
<1> DEFINE t == tree
           root == [NoNode EXCEPT !.refcount = 1]
<1>2. NoNode \in NodeType /\ root \in NodeType
  <2>1. << >> \in Names
    BY DEF Names
  <2> QED
    BY <2>1 DEF NoNode, NodeType
<1>3. /\ NoNode.entry = << >> /\ NoNode.parent = NULL /\ NoNode.mount = NULL
      /\ root.entry = << >> /\ root.asked = << >> /\ root.parent = NULL /\ root.mount = NULL /\ root.refcount = 1
  BY DEF NoNode
<1>4. /\ t.alloc = {Root} /\ t.node = [n \in Node |-> IF n = Root THEN root ELSE NoNode]
      /\ t.kids = [n \in Node |-> << >>]
      /\ t = [alloc |-> t.alloc, node |-> t.node, kids |-> t.kids]
  BY DEF Init
<1> HIDE DEF root, t
<1>5. Root \in Node /\ NULL \notin Node
  BY NullApart
<1>6. t \in TreeType
  <2>1. t.alloc \in SUBSET Node
    BY <1>4, <1>5
  <2>2. t.node \in [Node -> NodeType]
    BY <1>2, <1>4
  <2>3. t.kids \in [Node -> Seq(Node)]
    BY <1>4
  <2> DEFINE a == t.alloc
             b == t.node
             c == t.kids
  <2> HIDE DEF a, b, c
  <2>4. t = [alloc |-> a, node |-> b, kids |-> c]
    BY <1>4 DEF a, b, c
  <2> QED
    BY <2>1, <2>2, <2>3, <2>4 DEF TreeType, a, b, c
<1>7. t.node[Root] = root /\ t.kids[Root] = << >>
  BY <1>4, <1>5
<1>8. KidsOf(t, Root) = {} /\ IsInjective(t.kids[Root])
  BY <1>7 DEF KidsOf, Range, IsInjective
<1>9. RootInv(t) /\ KidsInv(t) /\ ParentInv(t) /\ AskedInv(t) /\ EntryInv(t) /\ MountInv(t)
  BY <1>3, <1>4, <1>7, <1>8 DEF RootInv, KidsInv, ParentInv, AskedInv, EntryInv, MountInv
<1>10. TreeInv(t)
  BY <1>6, <1>9 DEF TreeInv
<1>11. UseInv(t, fd, mounts)
  <2>1. fd \in FdType /\ mounts = << >> /\ mounts \in Seq(Node \X Node) /\ Len(mounts) = 0
        /\ \A p \in Process, i \in Slot : fd[p][i] = NULL
    BY DEF Init, FdType
  <2>2. Uses(fd, mounts, Root) = 1
    <3>1. FdUses(fd, Root) = {}
      BY <2>1, <1>5 DEF FdUses
    <3>2. MountUses(mounts, Root) = {}
      BY <2>1 DEF MountUses
    <3> QED
      BY <3>1, <3>2, FS_EmptySet DEF Uses
  <2>3. \A n \in t.alloc : t.node[n].refcount = Uses(fd, mounts, n) /\ t.node[n].mount = NULL
    BY <2>2, <1>3, <1>4, <1>7
  <2> QED
    BY <2>1, <2>3 DEF UseInv, FdType
<1> QED
  BY <1>1, <1>10, <1>11 DEF VfsInv, t, Init

(* Every step keeps the invariant, and the nodes in use in use. *)
LEMMA StepKeeps ==
    ASSUME PlainPaths, ~TakenNames, VfsInv, [Next]_vars
    PROVE  Kept
<1>0. /\ \A path \in Paths \cup SemPaths : Plain(path)
      /\ \A m \in MountPairs : Plain(m[1]) /\ Plain(m[2])
  BY GivenPaths
<1>1. ASSUME NEW p \in Process, NEW path \in Paths, NEW flags \in Modes, Open(p, path, flags) PROVE Kept
  BY <1>0, <1>1, OpenKeeps
<1>2. ASSUME NEW p \in Process, NEW i \in Slot, Close(p, i) PROVE Kept
  BY <1>2, CloseKeeps
<1>3. ASSUME NEW p \in Process, Delete(p) PROVE Kept
  BY <1>3, DeleteKeeps
<1>4. ASSUME NEW p \in Process, NEW q \in Process, NEW path \in Paths, Spawn(p, q, path) PROVE Kept
  BY <1>0, <1>4, SpawnKeeps
<1>5. ASSUME NEW p \in Process, NEW q \in Process, SpawnInherit(p, q) PROVE Kept
  BY <1>5, SpawnInheritKeeps
<1>6. ASSUME NEW p \in Process, NEW path \in SemPaths, SemaphoreCreate(p, path) PROVE Kept
  BY <1>0, <1>6, SemaphoreCreateKeeps
<1>7. ASSUME NEW m \in MountPairs, Mount(m[1], m[2]) PROVE Kept
  BY <1>0, <1>7, MountKeeps
<1>8. ASSUME UNCHANGED vars PROVE Kept
  <2>1. disk' = disk /\ tree' = tree /\ sems' = sems /\ fd' = fd /\ mounts' = mounts
    BY <1>8 DEF vars
  <2>2. StillBusy(tree, tree)
    BY DEF StillBusy
  <2> QED
    BY <2>1, <2>2 DEF Kept, VfsInv
<1> QED
  BY <1>1, <1>2, <1>3, <1>4, <1>5, <1>6, <1>7, <1>8 DEF Next

(* The inductive invariant, of every run of vfs_op.c's calls with paths     *)
(* that have no "..", in which no process without a free descriptor creates *)
(* a semaphore again.                                                       *)
THEOREM Invariant ==
    ASSUME PlainPaths, ~TakenNames
    PROVE  Spec => []VfsInv
<1>1. Init => VfsInv
  BY InitInv
<1>2. VfsInv /\ [Next]_vars => VfsInv'
  BY StepKeeps DEF Kept
<1> QED
  BY <1>1, <1>2, PTL DEF Spec

(* The children, as a set. *)
LEMMA KidsAreKidsOf ==
    ASSUME VfsInv, NEW n \in Node
    PROVE  Kids(n) = KidsOf(tree, n)
<1>1. tree.kids[n] \in Seq(Node)
  BY TreeFields DEF VfsInv, TreeInv
<1> QED
  BY <1>1 DEF Kids, KidsOf, Range

(* The linked nodes are those reached from the root. *)
LEMMA LinkedInTree ==
    ASSUME VfsInv
    PROVE  \A n : n \in Linked <=> InTree(tree, n)
<1>1. TreeInv(tree) /\ tree.alloc \subseteq Node
  BY TreeFields DEF VfsInv, TreeInv
<1>2. ASSUME NEW n \in Linked PROVE InTree(tree, n)
  <2>1. CASE n = Root
    BY <2>1, <1>1 DEF InTree, TreeInv, RootInv
  <2>2. CASE n # Root
    <3>1. PICK m \in tree.alloc : n \in Kids(m)
      BY <2>2 DEF Linked
    <3>2. n \in KidsOf(tree, m)
      BY <3>1, <1>1, KidsAreKidsOf
    <3> QED
      BY <3>1, <3>2, <1>1, KidFacts
  <2> QED
    BY <2>1, <2>2
<1>3. ASSUME NEW n, InTree(tree, n) PROVE n \in Linked
  <2>1. CASE n = Root
    BY <2>1 DEF Linked
  <2>2. CASE n # Root
    <3>1. tree.node[n].parent \in tree.alloc /\ n \in KidsOf(tree, tree.node[n].parent)
      BY <2>2, <1>1, <1>3, ParentFacts
    <3>2. n \in Kids(tree.node[n].parent)
      BY <3>1, <1>1, KidsAreKidsOf
    <3> QED
      BY <3>1, <3>2 DEF Linked
  <2> QED
    BY <2>1, <2>2
<1> QED
  BY <1>2, <1>3

(* vfs_find_and_create_node, unlink_and_free_node: whatever is opened,      *)
(* closed, created, mounted and inherited, and however searches fail,       *)
(* parents, children and mount points lead to nodes in memory that lead     *)
(* back, and an entry has two nodes only on a FAT32 partition and when a    *)
(* path spelt one of its names in another case than the directory does.     *)
THEOREM TreeStaysSound ==
    ASSUME PlainPaths, ~TakenNames
    PROVE  Spec => []TreeSound
<1>1. ASSUME VfsInv PROVE TreeSound
  <2>1. TreeInv(tree) /\ tree.alloc \subseteq Node /\ tree \in TreeType
    BY <1>1, TreeFields DEF VfsInv, TreeInv
  <2>2. OneNodePerEntry
    <3> SUFFICES ASSUME NEW m \in Linked, NEW n \in Linked, tree.node[m].entry = tree.node[n].entry,
                        m # n
                 PROVE  OnFat32(tree.node[m].entry) /\ ~(AsSpelt(m) /\ AsSpelt(n))
      BY DEF OneNodePerEntry
    <3>1. InTree(tree, m) /\ InTree(tree, n) /\ m \in tree.alloc /\ n \in tree.alloc
      BY <1>1, LinkedInTree DEF InTree
    <3>2. ~(AsSpelt(m) /\ AsSpelt(n))
      BY <3>1, <2>1 DEF TreeInv, EntryInv, AsSpelt
    <3>3. OnFat32(tree.node[m].entry)
      BY <3>1, <3>2, <2>1 DEF TreeInv, AskedInv, AsSpelt
    <3> QED
      BY <3>2, <3>3
  <2>3. ASSUME NEW n \in tree.alloc
        PROVE  /\ \A c \in Kids(n) : c \in tree.alloc /\ tree.node[c].parent = n
               /\ Cardinality(Kids(n)) = Len(tree.kids[n])
    <3>1. Kids(n) = KidsOf(tree, n) /\ tree.kids[n] \in Seq(Node) /\ IsInjective(tree.kids[n])
      BY <1>1, <2>1, KidsAreKidsOf, TreeFields DEF TreeInv, KidsInv
    <3>2. Cardinality(KidsOf(tree, n)) = Len(tree.kids[n])
      BY <3>1, RangeCardinality DEF KidsOf
    <3> QED
      BY <3>1, <3>2, <2>1 DEF TreeInv, KidsInv
  <2>4. ASSUME NEW n \in tree.alloc, tree.node[n].parent # NULL PROVE tree.node[n].parent \in tree.alloc
    BY <2>1, <2>4 DEF TreeInv, ParentInv, RootInv
  <2>5. ASSUME NEW n \in tree.alloc, tree.node[n].mount # NULL PROVE tree.node[n].mount \in tree.alloc
    BY <2>1, <2>5 DEF TreeInv, MountInv, InTree
  <2> QED
    BY <2>2, <2>3, <2>4, <2>5 DEF TreeSound
<1> QED
  BY <1>1, Invariant, PTL

(* vfs_cleanup_node_tree: a node that a descriptor points to is in memory   *)
(* and in the tree, whoever else closes, exits or fails.                    *)
THEOREM DescriptorsStayLive ==
    ASSUME PlainPaths, ~TakenNames
    PROVE  Spec => []DescriptorsLive
<1>1. ASSUME VfsInv PROVE DescriptorsLive
  <2>1. TreeInv(tree) /\ tree.alloc \subseteq Node /\ UseInv(tree, fd, mounts)
    BY <1>1, TreeFields DEF VfsInv, TreeInv
  <2> SUFFICES ASSUME NEW p \in Process, NEW i \in Slot, fd[p][i] # NULL
               PROVE  /\ fd[p][i] \in tree.alloc
                      /\ fd[p][i] # Root =>
                            /\ tree.node[fd[p][i]].parent \in tree.alloc
                            /\ fd[p][i] \in Kids(tree.node[fd[p][i]].parent)
    BY DEF DescriptorsLive
  <2> DEFINE n == fd[p][i]
  <2>2. InTree(tree, n)
    BY <2>1 DEF UseInv
  <2> HIDE DEF n
  <2>3. n # Root => n \in Kids(tree.node[n].parent) /\ tree.node[n].parent \in tree.alloc
    BY <1>1, <2>1, <2>2, ParentFacts, KidsAreKidsOf
  <2> QED
    BY <2>2, <2>3 DEF InTree, n
<1> QED
  BY <1>1, Invariant, PTL

(* vfs_open, vfs_close, process_delete, vfs_mount, scheduler_syscall_spawn: *)
(* a reference count is the number of descriptors and mounts on the node.   *)
THEOREM RefcountStaysExact ==
    ASSUME PlainPaths, ~TakenNames
    PROVE  Spec => []RefcountIsExact
<1>1. ASSUME VfsInv PROVE RefcountIsExact
  <2>1. ASSUME NEW n \in tree.alloc \ {Root}
        PROVE  tree.node[n].refcount = Cardinality(FdUses(fd, n)) + Cardinality(MountUses(mounts, n))
    <3>1. tree.node[n].refcount = Uses(fd, mounts, n) /\ mounts \in Seq(Node \X Node)
      BY <1>1 DEF VfsInv, UseInv
    <3>2. Cardinality(FdUses(fd, n)) \in Nat /\ Cardinality(MountUses(mounts, n)) \in Nat
      BY <3>1, UsesFinite
    <3> QED
      BY <3>1, <3>2 DEF Uses
  <2> QED
    BY <2>1 DEF RefcountIsExact, FdUses, MountUses
<1> QED
  BY <1>1, Invariant, PTL

(* unlink_and_free_node, process_delete: the step that takes the last use   *)
(* of a node away frees it, and the parents kept for it alone.              *)
THEOREM NothingStaysUnused ==
    ASSUME PlainPaths, ~TakenNames
    PROVE  Spec => NothingLeftUnused
<1>1. ASSUME VfsInv, [Next]_vars
      PROVE  [\A n \in Linked : InUse(n) /\ n \in tree'.alloc => InUse(n)']_vars
  <2>1. StillBusy(tree, tree')
    BY <1>1, StepKeeps DEF Kept
  <2>2. \A n \in Linked : InTree(tree, n)
    BY <1>1, LinkedInTree
  <2>3. ASSUME NEW n \in Linked, InUse(n), n \in tree'.alloc PROVE InUse(n)'
    BY <2>1, <2>2, <2>3 DEF StillBusy, Busy, InUse
  <2> QED
    BY <2>3
<1> QED
  BY <1>1, Invariant, PTL DEF Spec, NothingLeftUnused
=============================================================================
