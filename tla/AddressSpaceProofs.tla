------------------------- MODULE AddressSpaceProofs -------------------------
(***************************************************************************)
(* Proofs about AddressSpace, for any sizes of memory, tables, heap and    *)
(* stack, any programs the linker could make and any number of processes.  *)
(*                                                                         *)
(* AddressInv is inductive: MemoryInv as long as nothing is amiss, and     *)
(* Astray once the heap has grown or shrunk without its table.  The heart  *)
(* of MemoryInv is Sound: a frame is in use from at most one place, a      *)
(* place being "directory d", "table t of d" or "page i of table t of d".  *)
(* Every call then does one of a few things to places: it fills an empty   *)
(* one with a frame that has none (Put), clears one and frees its frame    *)
(* (Clear), drops all those of some directories (Drop), or adds the empty  *)
(* ones of a new directory (AddEmpty).  What is left over, Loose, are the  *)
(* frames in use without a place, which a failing load adds to and nothing *)
(* else does.                                                              *)
(***************************************************************************)
EXTENDS AddressSpace, DataLemmas

(* The words of memory. *)
Word == 0..FRAMES
Cells == 0..ENTRIES - 1
Entries == Tables \cup Cells
Memory == [Word -> [Entries -> Word]]

(* The half of a directory that is its own: the kernel's directory owns the *)
(* tables of the heap, the others own their user tables.                    *)
Half(d) == IF d = KERNEL THEN USER_TABLES..USER_TABLES + HEAP_TABLES - 1 ELSE 0..USER_TABLES - 1

(* The places from which a frame can be in use: as a directory, as table t  *)
(* of a directory, as page i of that table.                                 *)
DirSlot(d) == <<d, -1, -1>>
TabSlot(d, t) == <<d, t, -1>>
PagSlot(d, t, i) == <<d, t, i>>

SlotsOf(d) ==
    {DirSlot(e) : e \in {d} \ {KERNEL}}
    \cup {TabSlot(d, t) : t \in Half(d)}
    \cup {PagSlot(d, t, i) : t \in Half(d), i \in Cells}
Slots(D) == UNION {SlotsOf(d) : d \in D}

Table(mm, d, t) == mm[d][t]
Page(mm, d, t, i) == IF mm[d][t] = 0 THEN 0 ELSE mm[mm[d][t]][i]

(* The frame at a place, or 0. *)
At(mm, s) ==
    IF s[2] = -1 THEN s[1] ELSE IF s[3] = -1 THEN Table(mm, s[1], s[2]) ELSE Page(mm, s[1], s[2], s[3])

(* No frame is at two places, and a frame at a place is in use. *)
Placed(f, S, u) ==
    /\ u \subseteq Frame
    /\ \A s \in S : f[s] = 0 \/ f[s] \in u
    /\ \A r, s \in S : f[r] = f[s] /\ f[r] # 0 => r = s

Uses(mm, D) == [s \in Slots(D) |-> At(mm, s)]
Refs(f, S) == {f[s] : s \in S} \ {0}
Loose(u, mm, D) == u \ Refs(Uses(mm, D), Slots(D))

(* Directories share the kernel's half, or have not got it yet. *)
Shared(mm, D) ==
    /\ \A t \in 0..USER_TABLES - 1 : mm[KERNEL][t] = 0
    /\ \A d \in D : \A t \in USER_TABLES..USER_TABLES + HEAP_TABLES - 1 : mm[d][t] \in {0, mm[KERNEL][t]}

(* Memory that is in order: D are the directories, the kernel's included.   *)
Sound(u, mm, D) ==
    /\ mm \in Memory
    /\ D \subseteq Word /\ KERNEL \in D
    /\ Placed(Uses(mm, D), Slots(D), u)
    /\ Shared(mm, D)

(* Constants. *)
LEMMA Sizes ==
    /\ FRAMES \in Nat /\ ENTRIES \in Nat /\ ENTRIES > 0
    /\ USER_TABLES \in Nat /\ USER_TABLES > 0 /\ HEAP_TABLES \in Nat /\ HEAP_TABLES > 0
    /\ KERNEL = 0 /\ KERNEL \notin Frame /\ Frame \subseteq Nat
    /\ Word = Frame \cup {KERNEL} /\ Frame = Word \ {0} /\ KERNEL \in Word
    /\ \A d \in Word : Half(d) \subseteq Tables /\ Half(d) \subseteq Entries /\ Half(d) \subseteq Nat
    /\ Cells \subseteq Entries /\ Cells \subseteq Nat /\ Tables \subseteq Entries
BY AddressSpaceAssumption DEF KERNEL, Frame, Word, Half, Tables, Entries, Cells

(* The three kinds of places, and what is there. *)
LEMMA SlotKinds ==
    ASSUME NEW D, D \subseteq Word, NEW s \in Slots(D)
    PROVE  \/ \E d \in D \ {KERNEL} : s = DirSlot(d)
           \/ \E d \in D : \E t \in Half(d) : s = TabSlot(d, t)
           \/ \E d \in D : \E t \in Half(d) : \E i \in Cells : s = PagSlot(d, t, i)
<1>1. PICK d \in D : s \in SlotsOf(d)
  BY DEF Slots
<1> QED
  BY <1>1 DEF SlotsOf

(* Each of them is a place of Slots(D). *)
LEMMA SlotsThere ==
    ASSUME NEW D
    PROVE  /\ \A d \in D \ {KERNEL} : DirSlot(d) \in Slots(D)
           /\ \A d \in D : \A t \in Half(d) : TabSlot(d, t) \in Slots(D)
           /\ \A d \in D : \A t \in Half(d) : \A i \in Cells : PagSlot(d, t, i) \in Slots(D)
<1>1. \A d \in D : SlotsOf(d) \subseteq Slots(D)
  BY DEF Slots
<1> QED
  BY <1>1 DEF SlotsOf

(* Places are told apart by what they name. *)
LEMMA SlotsDiffer ==
    ASSUME NEW D, D \subseteq Word, NEW d \in D, NEW e \in D
    PROVE  /\ DirSlot(d) = DirSlot(e) => d = e
           /\ \A t \in Half(d), r \in Half(e) : TabSlot(d, t) = TabSlot(e, r) => d = e /\ t = r
           /\ \A t \in Half(d), r \in Half(e) : \A i, j \in Cells :
                 PagSlot(d, t, i) = PagSlot(e, r, j) => d = e /\ t = r /\ i = j
           /\ \A r \in Half(e) : DirSlot(d) # TabSlot(e, r)
           /\ \A r \in Half(e) : \A j \in Cells : DirSlot(d) # PagSlot(e, r, j)
           /\ \A t \in Half(d), r \in Half(e) : \A j \in Cells : TabSlot(d, t) # PagSlot(e, r, j)
<1>1. \A t \in Half(e) : t # -1
  BY Sizes
<1>2. \A t \in Cells : t # -1
  BY Sizes
<1> QED
  BY <1>1, <1>2 DEF DirSlot, TabSlot, PagSlot

(* What is at each kind of place. *)
LEMMA AtSlot ==
    ASSUME NEW mm, NEW d \in Word
    PROVE  /\ At(mm, DirSlot(d)) = d
           /\ \A t \in Half(d) : At(mm, TabSlot(d, t)) = mm[d][t]
           /\ \A t \in Half(d), i \in Cells : At(mm, PagSlot(d, t, i)) = Page(mm, d, t, i)
<1>1. \A t \in Half(d) : t # -1
  BY Sizes
<1>2. \A t \in Cells : t # -1
  BY Sizes
<1> QED
  BY <1>1, <1>2 DEF At, DirSlot, TabSlot, PagSlot, Table

(* The same for one table. *)
LEMMA AtTab ==
    ASSUME NEW mm, NEW d \in Word, NEW t \in Half(d)
    PROVE  At(mm, TabSlot(d, t)) = mm[d][t]
BY AtSlot

(* The same for one page. *)
LEMMA AtPag ==
    ASSUME NEW mm, NEW d \in Word, NEW t \in Half(d), NEW i \in Cells
    PROVE  At(mm, PagSlot(d, t, i)) = Page(mm, d, t, i)
BY AtSlot

(* Every place holds a frame or 0. *)
LEMMA AtType ==
    ASSUME NEW mm \in Memory, NEW D, D \subseteq Word, NEW s \in Slots(D)
    PROVE  At(mm, s) \in Word
<1>1. ASSUME NEW d \in D, NEW t \in Half(d) PROVE mm[d][t] \in Word
  BY <1>1, Sizes DEF Memory
<1>2. ASSUME NEW d \in D, NEW t \in Half(d), NEW i \in Cells PROVE Page(mm, d, t, i) \in Word
  <2> DEFINE x == mm[d][t]
  <2>1. x \in Word /\ i \in Entries
    BY <1>1, Sizes
  <2> HIDE DEF x
  <2>2. mm[x][i] \in Word
    BY <2>1 DEF Memory
  <2> QED
    BY <2>2, Sizes DEF Page, x
<1>3. \A d \in D : d \in Word
  OBVIOUS
<1>4. CASE \E d \in D \ {KERNEL} : s = DirSlot(d)
  BY <1>3, <1>4, AtSlot
<1>5. CASE \E d \in D : \E t \in Half(d) : s = TabSlot(d, t)
  BY <1>1, <1>3, <1>5, AtSlot
<1>6. CASE \E d \in D : \E t \in Half(d) : \E i \in Cells : s = PagSlot(d, t, i)
  <2>1. PICK d \in D : \E t \in Half(d) : \E i \in Cells : s = PagSlot(d, t, i)
    BY <1>6
  <2>2. PICK t \in Half(d), i \in Cells : s = PagSlot(d, t, i)
    BY <2>1
  <2>3. At(mm, PagSlot(d, t, i)) = Page(mm, d, t, i)
    BY <1>3, AtSlot
  <2> QED
    BY <1>2, <2>2, <2>3
<1> QED
  BY <1>4, <1>5, <1>6, SlotKinds

-----------------------------------------------------------------------------
(* Frames that are taken have no place yet. *)
LEMMA TakeMore ==
    ASSUME NEW S, NEW f, NEW u, Placed(f, S, u), NEW X \in SUBSET (Frame \ u)
    PROVE  /\ Placed(f, S, u \cup X)
           /\ (u \cup X) \ Refs(f, S) = (u \ Refs(f, S)) \cup X
<1>1. \A x \in X : x \notin Refs(f, S)
  BY DEF Placed, Refs
<1> QED
  BY <1>1 DEF Placed

(* A frame without a place is put at an empty one. *)
LEMMA Put ==
    ASSUME NEW S, NEW f, NEW u, Placed(f, S, u), NEW p \in S, f[p] = 0, NEW x \in u \ Refs(f, S),
           NEW g, g[p] = x, \A s \in S : s # p => g[s] = f[s]
    PROVE  /\ Placed(g, S, u)
           /\ u \ Refs(g, S) = (u \ Refs(f, S)) \ {x}
<1>0. x # 0 /\ x \in u
  BY Sizes DEF Placed
<1>1. \A s \in S : f[s] # x
  BY <1>0 DEF Refs
<1>2. Placed(g, S, u)
  BY <1>0, <1>1 DEF Placed
<1>3. ASSUME NEW y PROVE y \in Refs(g, S) <=> y \in Refs(f, S) \/ y = x
  BY <1>0 DEF Refs
<1> QED
  BY <1>2, <1>3

(* A place is cleared and its frame given back. *)
LEMMA Clear ==
    ASSUME NEW S, NEW f, NEW u, Placed(f, S, u), NEW p \in S, f[p] # 0,
           NEW g, g[p] = 0, \A s \in S : s # p => g[s] = f[s]
    PROVE  /\ Placed(g, S, u \ {f[p]})
           /\ (u \ {f[p]}) \ Refs(g, S) = u \ Refs(f, S)
<1>1. Placed(g, S, u \ {f[p]})
  BY DEF Placed
<1>2. ASSUME NEW y PROVE y \in Refs(f, S) <=> y \in Refs(g, S) \/ y = f[p]
  BY DEF Refs
<1> QED
  BY <1>1, <1>2

(* Places go, and with them their frames. *)
LEMMA Drop ==
    ASSUME NEW S, NEW f, NEW u, Placed(f, S, u), NEW T \in SUBSET S, NEW g, \A s \in T : g[s] = f[s]
    PROVE  /\ Placed(g, T, u \ Refs(f, S \ T))
           /\ (u \ Refs(f, S \ T)) \ Refs(g, T) = u \ Refs(f, S)
<1>1. \A s \in T : f[s] # 0 => f[s] \notin Refs(f, S \ T)
  BY DEF Placed, Refs
<1>2. Placed(g, T, u \ Refs(f, S \ T))
  BY <1>1 DEF Placed
<1>3. ASSUME NEW y PROVE y \in Refs(f, S) <=> y \in Refs(f, S \ T) \/ y \in Refs(g, T)
  BY DEF Refs
<1> QED
  BY <1>2, <1>3

(* Empty places are added. *)
LEMMA AddEmpty ==
    ASSUME NEW S, NEW f, NEW u, Placed(f, S, u), NEW T, S \subseteq T, NEW g,
           \A s \in S : g[s] = f[s], \A s \in T \ S : g[s] = 0
    PROVE  Placed(g, T, u) /\ Refs(g, T) = Refs(f, S)
<1>1. Placed(g, T, u)
  BY DEF Placed
<1>2. ASSUME NEW y PROVE y \in Refs(g, T) <=> y \in Refs(f, S)
  BY DEF Refs
<1> QED
  BY <1>1, <1>2

(* Nothing changes. *)
LEMMA SamePlaces ==
    ASSUME NEW S, NEW f, NEW u, Placed(f, S, u), NEW g, \A s \in S : g[s] = f[s]
    PROVE  Placed(g, S, u) /\ Refs(g, S) = Refs(f, S)
BY DEF Placed, Refs

-----------------------------------------------------------------------------
(* What is read through a place: the rows of directories and of tables,     *)
(* which are frames in use or the kernel's directory.                       *)
LEMMA RowsInUse ==
    ASSUME NEW u, NEW mm, NEW D, Sound(u, mm, D)
    PROVE  /\ \A d \in D : d # KERNEL => d \in u
           /\ \A d \in D : \A t \in Half(d) : mm[d][t] \in Word
           /\ \A d \in D : \A t \in Half(d) : mm[d][t] # 0 => mm[d][t] \in u /\ mm[d][t] \notin D
           /\ \A d, e \in D : \A t \in Half(d), r \in Half(e) :
                 mm[d][t] # 0 /\ mm[d][t] = mm[e][r] => d = e /\ t = r
<1> DEFINE f == Uses(mm, D)
<1>0. mm \in Memory /\ D \subseteq Word /\ KERNEL \in D /\ Placed(f, Slots(D), u)
  BY DEF Sound
<1>1. \A s \in Slots(D) : f[s] = At(mm, s)
  BY DEF Uses
<1> HIDE DEF f
<1>2. ASSUME NEW d \in D, d # KERNEL PROVE f[DirSlot(d)] = d /\ DirSlot(d) \in Slots(D) /\ d # 0
  BY <1>0, <1>1, <1>2, AtSlot, SlotsThere DEF KERNEL
<1>3. ASSUME NEW d \in D, NEW t \in Half(d)
      PROVE  f[TabSlot(d, t)] = mm[d][t] /\ TabSlot(d, t) \in Slots(D)
  BY <1>0, <1>1, <1>3, AtSlot, SlotsThere
<1>4. ASSUME NEW d \in D, NEW t \in Half(d) PROVE mm[d][t] \in Word
  BY <1>0, <1>3, <1>4, AtType, <1>1
<1>5. ASSUME NEW d \in D, d # KERNEL PROVE d \in u
  BY <1>0, <1>2, <1>5 DEF Placed
<1>6. ASSUME NEW d \in D, NEW t \in Half(d), mm[d][t] # 0 PROVE mm[d][t] \in u
  BY <1>0, <1>3, <1>6 DEF Placed
<1>7. ASSUME NEW d \in D, NEW t \in Half(d), mm[d][t] # 0 PROVE mm[d][t] \notin D
  <2> SUFFICES ASSUME NEW e \in D, mm[d][t] = e PROVE FALSE
    OBVIOUS
  <2>1. e # KERNEL
    BY <1>7 DEF KERNEL
  <2>2. f[DirSlot(e)] = f[TabSlot(d, t)] /\ f[DirSlot(e)] # 0
    BY <1>2, <1>3, <2>1
  <2>3. DirSlot(e) = TabSlot(d, t)
    BY <1>0, <1>2, <1>3, <2>1, <2>2 DEF Placed
  <2> QED
    BY <2>3, <1>0, SlotsDiffer
<1>8. ASSUME NEW d \in D, NEW e \in D, NEW t \in Half(d), NEW r \in Half(e),
             mm[d][t] # 0, mm[d][t] = mm[e][r]
      PROVE  d = e /\ t = r
  <2>1. TabSlot(d, t) = TabSlot(e, r)
    BY <1>0, <1>3, <1>8 DEF Placed
  <2> QED
    BY <2>1 DEF TabSlot
<1> QED
  BY <1>4, <1>5, <1>6, <1>7, <1>8

(* Memory that differs only outside of what is in use. *)
LEMMA SameRows ==
    ASSUME NEW u, NEW mm, NEW D, Sound(u, mm, D), NEW m2,
           \A x \in u \cup {KERNEL} : m2[x] = mm[x]
    PROVE  \A s \in Slots(D) : At(m2, s) = At(mm, s)
<1>0. D \subseteq Word /\ \A d \in D : d \in u \cup {KERNEL} /\ m2[d] = mm[d]
  BY RowsInUse DEF Sound
<1>1. ASSUME NEW d \in D, NEW t \in Half(d) PROVE m2[d][t] = mm[d][t]
  BY <1>0
<1>2. ASSUME NEW d \in D, NEW t \in Half(d), NEW i \in Cells PROVE Page(m2, d, t, i) = Page(mm, d, t, i)
  <2>1. CASE mm[d][t] = 0
    BY <1>1, <2>1 DEF Page
  <2>2. CASE mm[d][t] # 0
    <3>1. mm[d][t] \in u
      BY <2>2, RowsInUse
    <3> QED
      BY <1>1, <3>1 DEF Page
  <2> QED
    BY <2>1, <2>2
<1> TAKE s \in Slots(D)
<1>4. CASE \E d \in D \ {KERNEL} : s = DirSlot(d)
  BY <1>0, <1>4, AtSlot
<1>5. CASE \E d \in D : \E t \in Half(d) : s = TabSlot(d, t)
  BY <1>0, <1>1, <1>5, AtSlot
<1>6. CASE \E d \in D : \E t \in Half(d) : \E i \in Cells : s = PagSlot(d, t, i)
  <2>1. PICK d \in D : \E t \in Half(d) : \E i \in Cells : s = PagSlot(d, t, i)
    BY <1>6
  <2>2. PICK t \in Half(d), i \in Cells : s = PagSlot(d, t, i)
    BY <2>1
  <2>3. At(mm, s) = Page(mm, d, t, i) /\ At(m2, s) = Page(m2, d, t, i)
    BY <1>0, <2>2, AtSlot
  <2> QED
    BY <1>2, <2>3
<1> QED
  BY <1>0, <1>4, <1>5, <1>6, SlotKinds

(* An entry of a table is written: one place changes. *)
CellSet(mm, d, t, i, x) == [mm EXCEPT ![mm[d][t]][i] = x]

(* Writing an entry of a table changes the one place that names it. *)
LEMMA WriteCell ==
    ASSUME NEW u, NEW mm, NEW D, Sound(u, mm, D), NEW d \in D, NEW t \in Half(d), mm[d][t] # 0,
           NEW i \in Cells, NEW x \in Word, NEW m2, m2 = CellSet(mm, d, t, i, x)
    PROVE  /\ m2 \in Memory /\ Shared(m2, D)
           /\ At(m2, PagSlot(d, t, i)) = x
           /\ \A s \in Slots(D) : s # PagSlot(d, t, i) => At(m2, s) = At(mm, s)
<1> DEFINE k == mm[d][t]
<1>0. mm \in Memory /\ D \subseteq Word /\ Shared(mm, D)
  BY DEF Sound
<1>1. k \in Word /\ k # 0 /\ k \notin D /\ i \in Entries
  BY RowsInUse, Sizes
<1>2. m2 = [mm EXCEPT ![k] = [mm[k] EXCEPT ![i] = x]]
  BY <1>0, <1>1 DEF Memory, CellSet
<1>3. \A e \in D : \A r \in Half(e) : mm[e][r] = k => e = d /\ r = t
  BY RowsInUse, <1>1
<1>4. k = mm[d][t]
  OBVIOUS
<1> HIDE DEF k
<1>5. mm[k] \in [Entries -> Word]
  BY <1>0, <1>1 DEF Memory
<1>6. m2 \in Memory
  <2> DEFINE row == [mm[k] EXCEPT ![i] = x]
  <2>1. row \in [Entries -> Word]
    BY <1>1, <1>5
  <2> HIDE DEF row
  <2>2. m2 = [mm EXCEPT ![k] = row]
    BY <1>2 DEF row
  <2> QED
    BY <1>0, <1>1, <2>1, <2>2 DEF Memory
<1>7. \A e \in Word : e # k => m2[e] = mm[e]
  BY <1>0, <1>2 DEF Memory
<1>8. m2[k][i] = x /\ \A j \in Entries : j # i => m2[k][j] = mm[k][j]
  BY <1>0, <1>1, <1>2, <1>5 DEF Memory
<1>9. \A e \in D : m2[e] = mm[e]
  BY <1>0, <1>1, <1>7
<1>10. Shared(m2, D)
  <2>1. KERNEL \in D
    BY DEF Sound
  <2> QED
    BY <1>0, <1>9, <2>1 DEF Shared
<1>11. At(m2, PagSlot(d, t, i)) = x
  <2>1. At(m2, PagSlot(d, t, i)) = Page(m2, d, t, i)
    BY <1>0, AtSlot
  <2> QED
    BY <2>1, <1>1, <1>4, <1>8, <1>9 DEF Page
<1>12. ASSUME NEW s \in Slots(D), s # PagSlot(d, t, i) PROVE At(m2, s) = At(mm, s)
  <2>1. CASE \E e \in D \ {KERNEL} : s = DirSlot(e)
    BY <1>0, <2>1, AtSlot
  <2>2. CASE \E e \in D : \E r \in Half(e) : s = TabSlot(e, r)
    <3>1. PICK e \in D : \E r \in Half(e) : s = TabSlot(e, r)
      BY <2>2
    <3>2. PICK r \in Half(e) : s = TabSlot(e, r)
      BY <3>1
    <3>3. e \in Word
      BY <1>0
    <3>4. At(mm, s) = mm[e][r] /\ At(m2, s) = m2[e][r]
      BY <3>2, <3>3, AtTab
    <3> QED
      BY <1>9, <3>4
  <2>3. CASE \E e \in D : \E r \in Half(e) : \E j \in Cells : s = PagSlot(e, r, j)
    <3>1. PICK e \in D : \E r \in Half(e) : \E j \in Cells : s = PagSlot(e, r, j)
      BY <2>3
    <3>2. PICK r \in Half(e), j \in Cells : s = PagSlot(e, r, j)
      BY <3>1
    <3>w. e \in Word
      BY <1>0
    <3>3. At(mm, s) = Page(mm, e, r, j) /\ At(m2, s) = Page(m2, e, r, j)
      BY <3>2, <3>w, AtPag
    <3>4. m2[e][r] = mm[e][r] /\ mm[e][r] \in Word
      BY <1>9, RowsInUse
    <3>5. CASE mm[e][r] # k
      BY <1>7, <3>3, <3>4, <3>5 DEF Page
    <3>6. CASE mm[e][r] = k
      <4>1. j # i /\ j \in Entries
        BY <1>3, <1>12, <3>2, <3>6, Sizes
      <4> QED
        BY <1>8, <3>3, <3>4, <3>6, <4>1 DEF Page
    <3> QED
      BY <3>5, <3>6
  <2> QED
    BY <1>0, <2>1, <2>2, <2>3, SlotKinds
<1> QED
  BY <1>6, <1>10, <1>11, <1>12

(* An empty table is entered in a directory: one place changes. *)
TableSet(mm, d, t, n) == [mm EXCEPT ![d][t] = n, ![n] = NoEntries]

(* Entering an empty table changes the one place that names it. *)
LEMMA NewTable ==
    ASSUME NEW u, NEW mm, NEW D, Sound(u, mm, D), NEW d \in D, NEW t \in Half(d), mm[d][t] = 0,
           NEW n \in Frame \ u, NEW m2, m2 = TableSet(mm, d, t, n)
    PROVE  /\ m2 \in Memory /\ Shared(m2, D)
           /\ At(m2, TabSlot(d, t)) = n
           /\ \A s \in Slots(D) : s # TabSlot(d, t) => At(m2, s) = At(mm, s)
<1>0. mm \in Memory /\ D \subseteq Word /\ Shared(mm, D) /\ KERNEL \in D /\ n \in Word /\ n # 0
  BY Sizes DEF Sound
<1>1. n \notin D /\ t \in Entries /\ \A e \in D : \A r \in Half(e) : mm[e][r] # n
  BY RowsInUse, Sizes, <1>0
<1>2. NoEntries \in [Entries -> Word] /\ \A i \in Entries : NoEntries[i] = 0
  BY Sizes DEF NoEntries, Entries, Cells, KERNEL
<1>3. mm[d] \in [Entries -> Word] /\ d # n /\ d \in Word
  BY <1>0, <1>1 DEF Memory
<1>4. m2[d] = [mm[d] EXCEPT ![t] = n] /\ m2[n] = NoEntries /\ m2 \in [Word -> [Entries -> Word]]
  BY <1>0, <1>1, <1>2, <1>3 DEF Memory, TableSet
<1>5. \A e \in Word : e # d /\ e # n => m2[e] = mm[e]
  BY <1>0 DEF Memory, TableSet
<1>6. m2[d][t] = n /\ \A r \in Entries : r # t => m2[d][r] = mm[d][r]
  BY <1>1, <1>3, <1>4
<1>7. \A e \in D : \A r \in Half(e) : e # d \/ r # t => m2[e][r] = mm[e][r]
  BY <1>0, <1>1, <1>5, <1>6, Sizes
<1>8. Shared(m2, D)
  <2> DEFINE low == 0..USER_TABLES - 1
             high == USER_TABLES..USER_TABLES + HEAP_TABLES - 1
  <2>1. (\A r \in low : r \notin high) /\ low \subseteq Entries /\ high \subseteq Entries /\ low \cap high = {}
    BY AddressSpaceAssumption DEF Entries, Tables
  <2>2. Half(d) = IF d = KERNEL THEN high ELSE low
    BY DEF Half
  <2>3. (\A r \in low : mm[KERNEL][r] = 0) /\ \A e \in D : \A r \in high : mm[e][r] \in {0, mm[KERNEL][r]}
    BY <1>0 DEF Shared
  <2>s. Shared(m2, D) <=> (\A r \in low : m2[KERNEL][r] = 0)
                          /\ \A e \in D : \A r \in high : m2[e][r] \in {0, m2[KERNEL][r]}
    BY DEF Shared
  <2> HIDE DEF low, high
  <2>4. CASE d = KERNEL
    <3>1. t \in high
      BY <2>2, <2>4
    <3>2. \A r \in low : m2[KERNEL][r] = 0
      BY <1>6, <2>1, <2>3, <2>4, <3>1
    <3>3. ASSUME NEW e \in D, NEW r \in high PROVE m2[e][r] \in {0, m2[KERNEL][r]}
      <4>1. CASE e = KERNEL
        BY <4>1
      <4>2. CASE e # KERNEL
        <5>1. m2[e] = mm[e]
          BY <1>0, <1>1, <1>5, <2>4, <4>2
        <5>2. CASE r = t
          BY <5>1, <5>2, <2>3, <2>4
        <5>3. CASE r # t
          BY <5>1, <5>3, <2>3, <2>4, <1>6, <2>1
        <5> QED
          BY <5>2, <5>3
      <4> QED
        BY <4>1, <4>2
    <3> QED
      BY <2>s, <3>2, <3>3
  <2>5. CASE d # KERNEL
    <3>1. t \in low
      BY <2>2, <2>5
    <3>2. m2[KERNEL] = mm[KERNEL]
      BY <1>0, <1>1, <1>5, <2>5
    <3>3. ASSUME NEW e \in D, NEW r \in high PROVE m2[e][r] = mm[e][r]
      <4>1. CASE e = d
        <5>1. r # t
          BY <2>1, <3>1
        <5> QED
          BY <4>1, <5>1, <1>6, <2>1
      <4>2. CASE e # d
        BY <4>2, <1>5, <1>1, <1>0
      <4> QED
        BY <4>1, <4>2
    <3> QED
      BY <2>s, <2>3, <3>2, <3>3
  <2> QED
    BY <2>4, <2>5
<1>9. At(m2, TabSlot(d, t)) = n
  <2>1. At(m2, TabSlot(d, t)) = m2[d][t]
    BY <1>3, AtTab
  <2> QED
    BY <1>6, <2>1
<1>10. ASSUME NEW s \in Slots(D), s # TabSlot(d, t) PROVE At(m2, s) = At(mm, s)
  <2>1. CASE \E e \in D \ {KERNEL} : s = DirSlot(e)
    BY <1>0, <2>1, AtSlot
  <2>2. CASE \E e \in D : \E r \in Half(e) : s = TabSlot(e, r)
    <3>1. PICK e \in D : \E r \in Half(e) : s = TabSlot(e, r)
      BY <2>2
    <3>2. PICK r \in Half(e) : s = TabSlot(e, r)
      BY <3>1
    <3>3. e # d \/ r # t
      BY <1>10, <3>2
    <3>4. m2[e][r] = mm[e][r] /\ e \in Word
      BY <1>0, <1>7, <3>3
    <3>5. At(mm, s) = mm[e][r] /\ At(m2, s) = m2[e][r]
      BY <3>2, <3>4, AtTab
    <3> QED
      BY <3>4, <3>5
  <2>3. CASE \E e \in D : \E r \in Half(e) : \E j \in Cells : s = PagSlot(e, r, j)
    <3>1. PICK e \in D : \E r \in Half(e) : \E j \in Cells : s = PagSlot(e, r, j)
      BY <2>3
    <3>2. PICK r \in Half(e), j \in Cells : s = PagSlot(e, r, j)
      BY <3>1
    <3>w. e \in Word
      BY <1>0
    <3>3. At(mm, s) = Page(mm, e, r, j) /\ At(m2, s) = Page(m2, e, r, j)
      BY <3>2, <3>w, AtPag
    <3>4. CASE e = d /\ r = t
      <4>1. Page(mm, e, r, j) = 0
        BY <3>4 DEF Page
      <4>2. Page(m2, e, r, j) = NoEntries[j]
        BY <3>4, <1>0, <1>4, <1>6 DEF Page
      <4> QED
        BY <3>3, <4>1, <4>2, <1>2, Sizes
    <3>5. CASE ~(e = d /\ r = t)
      <4> DEFINE k == mm[e][r]
      <4>1. m2[e][r] = k /\ k # n
        BY <1>7, <3>5, <1>1
      <4>3. k \in Word
        BY RowsInUse
      <4>2. k # 0 => k # d
        BY RowsInUse
      <4>4. Page(m2, e, r, j) = IF k = 0 THEN 0 ELSE m2[k][j]
        BY <4>1 DEF Page
      <4>5. Page(mm, e, r, j) = IF k = 0 THEN 0 ELSE mm[k][j]
        BY DEF Page
      <4> HIDE DEF k
      <4> QED
        BY <1>5, <3>3, <4>1, <4>2, <4>3, <4>4, <4>5
    <3> QED
      BY <3>4, <3>5
  <2> QED
    BY <1>0, <2>1, <2>2, <2>3, SlotKinds
<1> QED
  BY <1>4, <1>8, <1>9, <1>10 DEF Memory

-----------------------------------------------------------------------------
(* pmmngr_alloc_multi_block returns 0 or the first of cnt free frames. *)
LEMMA FirstFreeFacts ==
    ASSUME NEW w, NEW cnt \in Nat, FirstFree(w, cnt) # 0
    PROVE  LET p == FirstFree(w, cnt)
           IN p \in Frame /\ p..p + cnt - 1 \subseteq Frame \ w.used
<1> DEFINE runs == {f \in Frame : f + cnt - 1 \in Frame /\ f..f + cnt - 1 \cap w.used = {}}
<1>1. runs # {} /\ cnt # 0 /\ FirstFree(w, cnt) = Min(runs)
  BY DEF FirstFree
<1>2. runs \in SUBSET Nat
  BY Sizes
<1>3. Min(runs) \in runs
  <2> HIDE DEF runs
  <2> QED
    BY <1>1, <1>2, LeastNat
<1> DEFINE p == FirstFree(w, cnt)
<1>4. p \in Frame /\ p + cnt - 1 \in Frame /\ p..p + cnt - 1 \cap w.used = {}
  BY <1>1, <1>3
<1> HIDE DEF p
<1>5. p..p + cnt - 1 \subseteq Frame
  BY <1>4, Sizes DEF Frame
<1> QED
  BY <1>4, <1>5 DEF p

(* pmmngr_alloc_block returns a free frame. *)
LEMMA OneFree ==
    ASSUME NEW w, FirstFree(w, 1) # 0
    PROVE  FirstFree(w, 1) \in Frame \ w.used
<1> DEFINE one == 1
           p == FirstFree(w, one)
<1>1. one \in Nat /\ one = 1
  OBVIOUS
<1>2. FirstFree(w, one) # 0
  OBVIOUS
<1> HIDE DEF one
<1>3. p \in Frame /\ p..p + one - 1 \subseteq Frame \ w.used
  BY <1>1, <1>2, FirstFreeFacts
<1> HIDE DEF p
<1>4. p \in Nat /\ p..p + one - 1 = p..p
  BY <1>1, <1>3, Sizes
<1>5. p \in p..p + one - 1
  BY <1>4
<1> QED
  BY <1>1, <1>3, <1>5 DEF p

(* There is one free frame at least. *)
LEMMA FreeFound ==
    ASSUME NEW w, NEW x \in Frame, x \notin w.used
    PROVE  FirstFree(w, 1) # 0
<1> DEFINE runs == {f \in Frame : f + 1 - 1 \in Frame /\ f..f + 1 - 1 \cap w.used = {}}
<1>1. x + 1 - 1 = x /\ x..x + 1 - 1 = {x}
  BY Sizes
<1>2. x \in runs
  BY <1>1
<1>3. runs \in SUBSET Nat /\ runs # {} /\ \A r \in runs : r # 0
  BY <1>2, Sizes
<1>4. FirstFree(w, 1) = Min(runs)
  BY <1>3 DEF FirstFree
<1> HIDE DEF runs
<1> QED
  BY <1>3, <1>4, LeastNat

-----------------------------------------------------------------------------
(* Pages and their places. *)
Pages(d) == IF d = KERNEL THEN USER_TABLES * ENTRIES..(USER_TABLES + HEAP_TABLES) * ENTRIES - 1 ELSE UserPages
On(mm, d, v) == Page(mm, d, PDI(v), PTI(v))
PageSlot(d, v) == PagSlot(d, PDI(v), PTI(v))

(* A page between two tables is an entry of a table between them. *)
LEMMA TableRange ==
    ASSUME NEW lo \in Nat, NEW hi \in Nat, NEW v \in lo * ENTRIES..hi * ENTRIES - 1
    PROVE  PDI(v) \in lo..hi - 1 /\ PTI(v) \in Cells /\ v = ENTRIES * PDI(v) + PTI(v)
<1> DEFINE q == PDI(v)
           r == PTI(v)
           n == ENTRIES
<1>0. n \in Nat /\ n > 0 /\ lo * n \in Nat /\ hi * n \in Nat
  BY Sizes
<1>1. v \in Nat /\ lo * n <= v /\ v < hi * n
  BY <1>0
<1>2. v = n * q + r /\ r \in 0..n - 1 /\ q \in Int
  BY <1>0, <1>1, DivMod DEF PDI, PTI
<1> HIDE DEF q, r, n
<1>3. lo <= q
  <2> SUFFICES ASSUME q + 1 <= lo PROVE FALSE
    BY <1>2
  <2>1. n * (q + 1) <= n * lo /\ n * (q + 1) = n * q + n /\ n * lo = lo * n /\ n * q \in Int
    BY <1>0, <1>2
  <2> QED
    BY <1>0, <1>1, <1>2, <2>1
<1>4. q < hi
  <2> SUFFICES ASSUME hi <= q PROVE FALSE
    BY <1>2
  <2>1. n * hi <= n * q /\ n * hi = hi * n /\ n * q \in Int
    BY <1>0, <1>2
  <2> QED
    BY <1>0, <1>1, <1>2, <2>1
<1> QED
  BY <1>2, <1>3, <1>4 DEF q, r, n, Cells

(* A page of a directory is an entry of a table of its half. *)
LEMMA PageIndex ==
    ASSUME NEW d \in Word, NEW v \in Pages(d)
    PROVE  PDI(v) \in Half(d) /\ PTI(v) \in Cells /\ v = ENTRIES * PDI(v) + PTI(v) /\ v \in Nat
<1> DEFINE top == USER_TABLES + HEAP_TABLES
<1>1. top \in Nat /\ USER_TABLES \in Nat /\ 0 \in Nat /\ 0 * ENTRIES = 0
      /\ USER_TABLES * ENTRIES \in Nat
  BY Sizes
<1>2. CASE d = KERNEL
  <2>1. v \in USER_TABLES * ENTRIES..top * ENTRIES - 1
    BY <1>2 DEF Pages
  <2>2. v \in Nat
    BY <1>1, <2>1
  <2>4. Half(d) = USER_TABLES..top - 1
    <3>1. Half(d) = USER_TABLES..USER_TABLES + HEAP_TABLES - 1
      BY <1>2 DEF Half
    <3>2. USER_TABLES + HEAP_TABLES - 1 = top - 1
      BY Sizes
    <3> QED
      BY <3>1, <3>2
  <2> HIDE DEF top
  <2>3. PDI(v) \in USER_TABLES..top - 1 /\ PTI(v) \in Cells /\ v = ENTRIES * PDI(v) + PTI(v)
    BY <1>1, <2>1, TableRange
  <2> QED
    BY <2>2, <2>3, <2>4
<1>3. CASE d # KERNEL
  <2>1. v \in 0 * ENTRIES..USER_TABLES * ENTRIES - 1
    BY <1>1, <1>3 DEF Pages, UserPages
  <2>2. v \in Nat
    BY <1>1, <2>1
  <2>3. PDI(v) \in 0..USER_TABLES - 1 /\ PTI(v) \in Cells /\ v = ENTRIES * PDI(v) + PTI(v)
    BY <1>1, <2>1, TableRange
  <2> QED
    BY <1>3, <2>2, <2>3 DEF Half
<1> QED
  BY <1>2, <1>3

(* And the other way round. *)
LEMMA PageOf ==
    ASSUME NEW d \in Word, NEW t \in Half(d), NEW i \in Cells
    PROVE  /\ ENTRIES * t + i \in Pages(d)
           /\ PDI(ENTRIES * t + i) = t /\ PTI(ENTRIES * t + i) = i
<1> DEFINE v == ENTRIES * t + i
           lo == IF d = KERNEL THEN USER_TABLES ELSE 0
           hi == IF d = KERNEL THEN USER_TABLES + HEAP_TABLES ELSE USER_TABLES
           n == ENTRIES
<1>0. n \in Nat /\ n > 0 /\ lo \in Nat /\ hi \in Nat /\ t \in lo..hi - 1 /\ i \in 0..n - 1
  BY Sizes DEF Half, Cells
<1>1. Pages(d) = lo * n..hi * n - 1
  <2>1. 0 * ENTRIES = 0
    BY Sizes
  <2> QED
    BY <2>1 DEF Pages, UserPages
<1>v. v = n * t + i
  OBVIOUS
<1> HIDE DEF lo, hi, n, v
<1>2. n * lo <= n * t /\ n * (t + 1) <= n * hi /\ n * (t + 1) = n * t + n
      /\ n * t \in Int /\ n * lo = lo * n /\ n * hi = hi * n /\ n * lo \in Int /\ n * hi \in Int
  BY <1>0
<1>3. v \in lo * n..hi * n - 1
  BY <1>0, <1>2, <1>v
<1>4. v = i + n * t
  BY <1>0, <1>2, <1>v
<1>5. v % n = i /\ v \div n = t
  BY <1>0, <1>4, ModUnique
<1> QED
  BY <1>1, <1>3, <1>5 DEF PDI, PTI, v, n

(* A page has one place, and two pages have two. *)
LEMMA PageSlots ==
    ASSUME NEW D, D \subseteq Word, NEW d \in D, NEW v \in Pages(d)
    PROVE  /\ PageSlot(d, v) \in Slots(D)
           /\ \A mm : At(mm, PageSlot(d, v)) = On(mm, d, v)
           /\ TabSlot(d, PDI(v)) \in Slots(D) /\ TabSlot(d, PDI(v)) # PageSlot(d, v)
           /\ \A e \in D : \A r \in Pages(e) : PageSlot(d, v) = PageSlot(e, r) => d = e /\ v = r
<1>1. PDI(v) \in Half(d) /\ PTI(v) \in Cells /\ d \in Word
  BY PageIndex
<1>2. PageSlot(d, v) \in Slots(D) /\ TabSlot(d, PDI(v)) \in Slots(D)
  BY <1>1, SlotsThere DEF PageSlot
<1>3. \A mm : At(mm, PageSlot(d, v)) = On(mm, d, v)
  BY <1>1, AtPag DEF PageSlot, On
<1>4. TabSlot(d, PDI(v)) # PageSlot(d, v)
  BY <1>1, SlotsDiffer DEF PageSlot
<1>5. ASSUME NEW e \in D, NEW r \in Pages(e), PageSlot(d, v) = PageSlot(e, r) PROVE d = e /\ v = r
  <2>1. PDI(r) \in Half(e) /\ PTI(r) \in Cells /\ r = ENTRIES * PDI(r) + PTI(r)
    BY PageIndex
  <2>2. v = ENTRIES * PDI(v) + PTI(v)
    BY PageIndex
  <2>3. d = e /\ PDI(v) = PDI(r) /\ PTI(v) = PTI(r)
    BY <1>5 DEF PageSlot, PagSlot
  <2> QED
    BY <2>1, <2>2, <2>3
<1> QED
  BY <1>2, <1>3, <1>4, <1>5

-----------------------------------------------------------------------------
(* Memory in the middle of a call. *)
Mem == [used : SUBSET Frame, mem : Memory, err : BOOLEAN]

(* A frame without a place becomes page v of a table that is there. *)
LEMMA WriteLoose ==
    ASSUME NEW u, NEW mm, NEW D, Sound(u, mm, D), NEW d \in D, NEW v \in Pages(d),
           mm[d][PDI(v)] # 0, On(mm, d, v) = 0, NEW x \in Loose(u, mm, D),
           NEW m2, m2 = CellSet(mm, d, PDI(v), PTI(v), x)
    PROVE  /\ Sound(u, m2, D) /\ Loose(u, m2, D) = Loose(u, mm, D) \ {x}
           /\ At(m2, PageSlot(d, v)) = x
           /\ \A s \in Slots(D) : s # PageSlot(d, v) => At(m2, s) = At(mm, s)
<1> DEFINE f == Uses(mm, D)
           g == Uses(m2, D)
           S == Slots(D)
           p == PageSlot(d, v)
<1>0. D \subseteq Word /\ KERNEL \in D /\ d \in Word /\ Placed(f, S, u)
  BY DEF Sound
<1>1. PDI(v) \in Half(d) /\ PTI(v) \in Cells
  BY <1>0, PageIndex
<1>2. x \in u \ Refs(f, S) /\ x \in Word
  BY <1>0, Sizes DEF Loose, Placed
<1>3. /\ m2 \in Memory /\ Shared(m2, D)
      /\ At(m2, p) = x
      /\ \A s \in S : s # p => At(m2, s) = At(mm, s)
  <2>1. p = PagSlot(d, PDI(v), PTI(v))
    BY DEF PageSlot
  <2> HIDE DEF p
  <2> QED
    BY <1>1, <1>2, <2>1, WriteCell
<1>4. p \in S /\ At(mm, p) = 0
  BY <1>0, PageSlots
<1>5. f[p] = 0 /\ g[p] = x /\ \A s \in S : s # p => g[s] = f[s]
  BY <1>3, <1>4 DEF Uses
<1> HIDE DEF f, g, S, p
<1>6. Placed(g, S, u) /\ u \ Refs(g, S) = (u \ Refs(f, S)) \ {x}
  BY <1>0, <1>2, <1>4, <1>5, Put
<1>7. Sound(u, m2, D)
  BY <1>0, <1>3, <1>6 DEF Sound, g, S
<1>8. Loose(u, m2, D) = Loose(u, mm, D) \ {x}
  BY <1>6 DEF Loose, f, g, S
<1> QED
  BY <1>3, <1>7, <1>8 DEF p, S

(* A free frame becomes an empty table. *)
LEMMA EnterTable ==
    ASSUME NEW u, NEW mm, NEW D, Sound(u, mm, D), NEW d \in D, NEW t \in Half(d), mm[d][t] = 0,
           NEW n \in Frame \ u, NEW m2, m2 = TableSet(mm, d, t, n)
    PROVE  /\ Sound(u \cup {n}, m2, D) /\ Loose(u \cup {n}, m2, D) = Loose(u, mm, D)
           /\ m2[d][t] = n
           /\ At(mm, TabSlot(d, t)) = 0
           /\ \A s \in Slots(D) : s # TabSlot(d, t) => At(m2, s) = At(mm, s)
<1> DEFINE f == Uses(mm, D)
           g == Uses(m2, D)
           S == Slots(D)
           p == TabSlot(d, t)
           u2 == u \cup {n}
<1>0. D \subseteq Word /\ KERNEL \in D /\ d \in Word /\ Placed(f, S, u)
  BY DEF Sound
<1>1. /\ m2 \in Memory /\ Shared(m2, D)
      /\ At(m2, p) = n
      /\ \A s \in S : s # p => At(m2, s) = At(mm, s)
  BY NewTable
<1>2. p \in S /\ At(mm, p) = 0 /\ At(m2, p) = m2[d][t]
  BY <1>0, SlotsThere, AtTab
<1>3. f[p] = 0 /\ g[p] = n /\ \A s \in S : s # p => g[s] = f[s]
  BY <1>1, <1>2 DEF Uses
<1>u. u2 = u \cup {n}
  OBVIOUS
<1>9. Loose(u2, m2, D) = u2 \ Refs(g, S) /\ Loose(u, mm, D) = u \ Refs(f, S)
  BY DEF Loose
<1>10. Sound(u2, m2, D) <=> m2 \in Memory /\ D \subseteq Word /\ KERNEL \in D /\ Placed(g, S, u2) /\ Shared(m2, D)
  BY DEF Sound
<1> HIDE DEF f, g, S, p, u2
<1>4. Placed(f, S, u2) /\ u2 \ Refs(f, S) = (u \ Refs(f, S)) \cup {n}
  <2>1. {n} \in SUBSET (Frame \ u)
    OBVIOUS
  <2> DEFINE X == {n}
  <2> HIDE DEF X
  <2>2. X \in SUBSET (Frame \ u)
    BY <2>1 DEF X
  <2>3. Placed(f, S, u \cup X) /\ (u \cup X) \ Refs(f, S) = (u \ Refs(f, S)) \cup X
    BY <1>0, <2>2, TakeMore
  <2> QED
    BY <2>3, <1>u DEF X
<1>5. n \in u2 \ Refs(f, S)
  BY <1>4
<1>6. Placed(g, S, u2) /\ u2 \ Refs(g, S) = (u2 \ Refs(f, S)) \ {n}
  BY <1>2, <1>3, <1>4, <1>5, Put
<1>7. (u2 \ Refs(f, S)) \ {n} = u \ Refs(f, S)
  BY <1>4
<1> QED
  BY <1>0, <1>1, <1>2, <1>6, <1>7, <1>9, <1>10 DEF p, S, u2

(* What a call that maps pages in directory d leaves as it was. *)
Grown(w, y, D, d) ==
    /\ w.used \subseteq y.used
    /\ \A s \in Slots(D) : At(y.mem, s) = At(w.mem, s) \/ (At(w.mem, s) = 0 /\ s \in SlotsOf(d))

NoTable(w, d, v) == w.mem[d][PDI(v)] = 0 /\ FirstFree(w, 1) = 0

(* vmmngr_map puts a frame without a place at a page that is not mapped. *)
MapsTo(w, y, D, d, v, x) ==
    /\ y.err = w.err
    /\ Loose(y.used, y.mem, D) = Loose(w.used, w.mem, D) \ {x}
    /\ On(y.mem, d, v) = x
    /\ \A e \in D : \A r \in Pages(e) : e # d \/ r # v => On(y.mem, e, r) = On(w.mem, e, r)

MapDone(w, y, D, d, v, x) ==
    /\ y \in Mem /\ Sound(y.used, y.mem, D) /\ Grown(w, y, D, d)
    /\ NoTable(w, d, v) => y.err = TRUE /\ y.used = w.used /\ y.mem = w.mem
    /\ ~NoTable(w, d, v) => MapsTo(w, y, D, d, v, x)

(* vmmngr_map in memory that is in order. *)
LEMMA MapStep ==
    ASSUME NEW w \in Mem, NEW D, Sound(w.used, w.mem, D), NEW d \in D, NEW v \in Pages(d),
           On(w.mem, d, v) = 0, NEW x \in Loose(w.used, w.mem, D), NEW y, y = Map(w, d, x, v)
    PROVE  MapDone(w, y, D, d, v, x)
<1> DEFINE t == PDI(v)
           i == PTI(v)
           k == w.mem[d][t]
           new == FirstFree(w, 1)
<1>0. D \subseteq Word /\ KERNEL \in D /\ d \in Word /\ w.mem \in Memory /\ w.used \in SUBSET Frame /\ w.err \in BOOLEAN
  BY DEF Sound, Mem
<1>1. t \in Half(d) /\ i \in Cells /\ t \in Entries /\ i \in Entries
  BY <1>0, PageIndex, Sizes
<1>2. k \in Word /\ w.mem[d] \in [Entries -> Word]
  BY <1>0, <1>1 DEF Memory
<1>3. PageSlot(d, v) \in Slots(D) /\ PageSlot(d, v) \in SlotsOf(d) /\ TabSlot(d, t) \in SlotsOf(d)
      /\ At(w.mem, PageSlot(d, v)) = 0
  BY <1>0, <1>1, PageSlots DEF SlotsOf, PageSlot
<1>4. \A e \in D : \A r \in Pages(e) : \A mm : /\ PageSlot(e, r) \in Slots(D)
                                              /\ At(mm, PageSlot(e, r)) = On(mm, e, r)
                                              /\ (e # d \/ r # v => PageSlot(e, r) # PageSlot(d, v))
  BY <1>0, PageSlots
<1>5. CASE k # 0
  <2> DEFINE m2 == [w.mem EXCEPT ![k][i] = x]
  <2>1. y = [w EXCEPT !.mem[k][i] = x]
    BY <1>5 DEF Map
  <2>2. y.used = w.used /\ y.err = w.err /\ y.mem = m2 /\ y = [used |-> w.used, mem |-> m2, err |-> w.err]
    BY <2>1 DEF Mem
  <2>3. ~NoTable(w, d, v)
    BY <1>5 DEF NoTable
  <2>4. m2 = CellSet(w.mem, d, PDI(v), PTI(v), x)
    BY DEF CellSet
  <2>5. w.mem[d][PDI(v)] # 0
    BY <1>5
  <2> HIDE DEF m2, t, i, k
  <2>6. /\ Sound(w.used, m2, D) /\ Loose(w.used, m2, D) = Loose(w.used, w.mem, D) \ {x}
        /\ At(m2, PageSlot(d, v)) = x
        /\ \A s \in Slots(D) : s # PageSlot(d, v) => At(m2, s) = At(w.mem, s)
    BY <2>4, <2>5, WriteLoose
  <2>7. y \in Mem
    BY <1>0, <2>2, <2>6 DEF Mem, Sound
  <2>8. Grown(w, y, D, d)
    BY <1>3, <2>2, <2>6 DEF Grown
  <2>9. MapsTo(w, y, D, d, v, x)
    BY <1>4, <2>2, <2>6 DEF MapsTo
  <2> QED
    BY <2>2, <2>3, <2>6, <2>7, <2>8, <2>9 DEF MapDone
<1>6. CASE k = 0 /\ new = 0
  <2>1. y = [w EXCEPT !.err = TRUE]
    BY <1>6 DEF Map
  <2>2. y.used = w.used /\ y.err = TRUE /\ y.mem = w.mem /\ y = [used |-> w.used, mem |-> w.mem, err |-> TRUE]
    BY <2>1 DEF Mem
  <2>3. NoTable(w, d, v) /\ y \in Mem
    BY <1>0, <1>6, <2>2 DEF NoTable, Mem
  <2> QED
    BY <2>2, <2>3 DEF Grown, MapDone
<1>7. CASE k = 0 /\ new # 0
  <2> DEFINE m1 == [w.mem EXCEPT ![d][t] = new, ![new] = NoEntries]
             m2 == [m1 EXCEPT ![new][i] = x]
             u1 == w.used \cup {new}
  <2>0. ~NoTable(w, d, v)
    BY <1>7 DEF NoTable
  <2>1. new \in Frame \ w.used /\ new \in Word /\ new # d
    BY <1>7, <1>0, OneFree, Sizes, RowsInUse
  <2>2. y = [w EXCEPT !.used = @ \cup {new}, !.mem[d][t] = new, !.mem[new] = [NoEntries EXCEPT ![i] = x]]
    BY <1>7 DEF Map
  <2>3. /\ y.used = u1 /\ y.err = w.err
        /\ y.mem = [w.mem EXCEPT ![d][t] = new, ![new] = [NoEntries EXCEPT ![i] = x]]
        /\ y = [used |-> y.used, mem |-> y.mem, err |-> w.err]
    BY <2>2 DEF Mem
  <2>4. y.mem = m2
    <3>1. m2 = [m1 EXCEPT ![new] = [m1[new] EXCEPT ![i] = x]] /\ m1[new] = NoEntries
      BY <1>0, <2>1 DEF Memory
    <3> DEFINE row == [NoEntries EXCEPT ![i] = x]
               top == [w.mem[d] EXCEPT ![t] = new]
    <3>2. m1 = [w.mem EXCEPT ![d] = top, ![new] = NoEntries]
      BY <1>0, <1>2 DEF Memory
    <3>3. m2 = [m1 EXCEPT ![new] = row]
      BY <3>1
    <3>4. y.mem = [w.mem EXCEPT ![d] = top, ![new] = row]
      BY <2>3, <1>0, <1>2 DEF Memory
    <3> HIDE DEF row, top, m1, m2
    <3> QED
      BY <3>2, <3>3, <3>4, <2>1, <1>0 DEF Memory
  <2>5. /\ Sound(u1, m1, D) /\ Loose(u1, m1, D) = Loose(w.used, w.mem, D)
        /\ m1[d][t] = new
        /\ At(w.mem, TabSlot(d, t)) = 0
        /\ \A s \in Slots(D) : s # TabSlot(d, t) => At(m1, s) = At(w.mem, s)
    <3>1. w.mem[d][t] = 0
      BY <1>7
    <3>2. m1 = TableSet(w.mem, d, t, new)
      BY DEF TableSet
    <3>3. t \in Half(d) /\ new \in Frame \ w.used
      BY <1>1, <2>1
    <3>4. u1 = w.used \cup {new}
      OBVIOUS
    <3> DEFINE uu == w.used
               mm == w.mem
    <3>5. Sound(uu, mm, D) /\ mm[d][t] = 0 /\ m1 = TableSet(mm, d, t, new) /\ new \in Frame \ uu
      BY <3>1, <3>2, <3>3
    <3> HIDE DEF m1, t, new, u1, uu, mm
    <3>6. /\ Sound(uu \cup {new}, m1, D) /\ Loose(uu \cup {new}, m1, D) = Loose(uu, mm, D)
          /\ m1[d][t] = new
          /\ At(mm, TabSlot(d, t)) = 0
          /\ \A s \in Slots(D) : s # TabSlot(d, t) => At(m1, s) = At(mm, s)
      BY <3>3, <3>5, EnterTable
    <3> QED
      BY <3>4, <3>6 DEF uu, mm
  <2>6. m2 = CellSet(m1, d, PDI(v), PTI(v), x)
    BY <2>5 DEF CellSet
  <2>7. m1[d][PDI(v)] # 0 /\ On(m1, d, v) = 0
    <3>1. TabSlot(d, PDI(v)) # PageSlot(d, v)
      BY <1>0, PageSlots
    <3>2. At(m1, PageSlot(d, v)) = 0
      BY <1>3, <2>5, <3>1
    <3> QED
      BY <1>4, <1>7, <2>5, <3>2
  <2> HIDE DEF m1, m2, u1, t, i, k, new
  <2>8. /\ Sound(u1, m2, D) /\ Loose(u1, m2, D) = Loose(u1, m1, D) \ {x}
        /\ At(m2, PageSlot(d, v)) = x
        /\ \A s \in Slots(D) : s # PageSlot(d, v) => At(m2, s) = At(m1, s)
    BY <2>5, <2>6, <2>7, WriteLoose
  <2>9. y \in Mem
    <3>1. u1 \in SUBSET Frame /\ m2 \in Memory
      BY <2>8 DEF Sound, Placed
    <3> QED
      BY <1>0, <2>3, <2>4, <3>1 DEF Mem
  <2>10. Grown(w, y, D, d)
    <3>1. w.used \subseteq u1
      BY DEF u1
    <3> QED
      BY <1>3, <2>3, <2>4, <2>5, <2>8, <3>1 DEF Grown
  <2>11. MapsTo(w, y, D, d, v, x)
    <3>1. ASSUME NEW e \in D, NEW r \in Pages(e), e # d \/ r # v PROVE On(m2, e, r) = On(w.mem, e, r)
      <4>1. e \in Word /\ PDI(r) \in Half(e) /\ PTI(r) \in Cells
        BY <1>0, PageIndex
      <4>2. PageSlot(e, r) # TabSlot(d, t)
        BY <1>0, <1>1, <4>1, SlotsDiffer DEF PageSlot
      <4> QED
        BY <1>4, <2>5, <2>8, <3>1, <4>2
    <3>2. On(m2, d, v) = x
      BY <1>4, <2>8
    <3> QED
      BY <2>3, <2>4, <2>5, <2>8, <3>1, <3>2 DEF MapsTo
  <2> QED
    BY <2>0, <2>3, <2>4, <2>8, <2>9, <2>10, <2>11 DEF MapDone
<1> QED
  BY <1>5, <1>6, <1>7

-----------------------------------------------------------------------------
(* vmmngr_map on any memory. *)
LEMMA MapType ==
    ASSUME NEW w \in Mem, NEW d \in Word, NEW v \in Pages(d), NEW x \in Word
    PROVE  Map(w, d, x, v) \in Mem
<1> DEFINE t == PDI(v)
           i == PTI(v)
           k == w.mem[d][t]
           new == FirstFree(w, 1)
<1>0. w.mem \in Memory /\ w.used \in SUBSET Frame /\ w.err \in BOOLEAN
  BY DEF Mem
<1>1. t \in Entries /\ i \in Entries
  BY PageIndex, Sizes
<1>2. k \in Word /\ w.mem[d] \in [Entries -> Word]
  BY <1>0, <1>1 DEF Memory
<1>3. NoEntries \in [Entries -> Word]
  BY Sizes DEF NoEntries, Entries, Cells, KERNEL
<1>4. CASE k # 0
  <2> DEFINE row == [w.mem[k] EXCEPT ![i] = x]
             m2 == [w.mem EXCEPT ![k] = row]
  <2>1. row \in [Entries -> Word]
    BY <1>0, <1>1, <1>2 DEF Memory
  <2>2. Map(w, d, x, v) = [w EXCEPT !.mem[k][i] = x]
    BY <1>4 DEF Map
  <2>3. Map(w, d, x, v) = [used |-> w.used, mem |-> m2, err |-> w.err]
    BY <1>0, <1>2, <2>2 DEF Mem, Memory
  <2> HIDE DEF row
  <2>4. m2 \in Memory
    BY <1>0, <1>2, <2>1 DEF Memory
  <2> HIDE DEF m2
  <2> QED
    BY <1>0, <2>3, <2>4 DEF Mem
<1>5. CASE k = 0 /\ new = 0
  <2>1. Map(w, d, x, v) = [used |-> w.used, mem |-> w.mem, err |-> TRUE]
    BY <1>5 DEF Map, Mem
  <2> QED
    BY <1>0, <2>1 DEF Mem
<1>6. CASE k = 0 /\ new # 0
  <2> DEFINE row == [NoEntries EXCEPT ![i] = x]
             top == [w.mem[d] EXCEPT ![t] = new]
             m2 == [w.mem EXCEPT ![d] = top, ![new] = row]
             u2 == w.used \cup {new}
  <2>1. new \in Frame /\ new \in Word
    BY <1>6, OneFree, Sizes
  <2>2. row \in [Entries -> Word] /\ top \in [Entries -> Word]
    BY <1>1, <1>2, <1>3, <2>1
  <2>3. Map(w, d, x, v) = [w EXCEPT !.used = @ \cup {new}, !.mem[d][t] = new, !.mem[new] = row]
    BY <1>6 DEF Map
  <2>4. Map(w, d, x, v) = [used |-> u2, mem |-> m2, err |-> w.err]
    BY <1>0, <1>2, <2>3 DEF Mem, Memory
  <2> HIDE DEF row, top
  <2>5. m2 \in Memory /\ u2 \in SUBSET Frame
    BY <1>0, <2>1, <2>2 DEF Memory
  <2> HIDE DEF m2, u2
  <2> QED
    BY <1>0, <2>4, <2>5 DEF Mem
<1> QED
  BY <1>4, <1>5, <1>6

(* One turn of the loops over vmmngr_map. *)
Turn(y, d, phys, v, stop, i) == IF stop /\ y.err THEN y ELSE Map(y, d, phys + i - 1, v + i - 1)

Turns(f, w, d, phys, v, stop, n) ==
    f[0] = w /\ \A i \in 1..n : f[i] = Turn(f[i - 1], d, phys, v, stop, i)

InRange(d, phys, v, n) == \A i \in 1..n : phys + i - 1 \in Word /\ v + i - 1 \in Pages(d)

(* The loops over vmmngr_map, a page at a time. *)
LEMMA MapPagesUnfold ==
    ASSUME NEW w \in Mem, NEW d \in Word, NEW n \in Nat, NEW phys \in Nat, NEW v \in Nat, NEW stop,
           InRange(d, phys, v, n)
    PROVE  \E f \in [0..n -> Mem] :
              Turns(f, w, d, phys, v, stop, n) /\ MapPages(w, d, phys, v, n, stop) = f[n]
<1> DEFINE T == [y \in (1..n) \X Mem |-> Turn(y[2], d, phys, v, stop, y[1])]
           Is(f) == f = [i \in 0..n |-> IF i = 0 THEN w ELSE Turn(f[i - 1], d, phys, v, stop, i)]
           st == CHOOSE f : Is(f)
<1>2. \A i \in 1..n : \A s \in Mem : T[<<i, s>>] = Turn(s, d, phys, v, stop, i)
  OBVIOUS
<1>3. \A i \in 1..n : \A s \in Mem : T[<<i, s>>] \in Mem
  <2> SUFFICES ASSUME NEW i \in 1..n, NEW s \in Mem PROVE Turn(s, d, phys, v, stop, i) \in Mem
    BY <1>2
  <2> DEFINE x == phys + i - 1
             r == v + i - 1
  <2>1. x \in Word /\ r \in Pages(d)
    BY DEF InRange
  <2>2. Turn(s, d, phys, v, stop, i) = IF stop /\ s.err THEN s ELSE Map(s, d, x, r)
    BY DEF Turn
  <2> HIDE DEF x, r
  <2>3. Map(s, d, x, r) \in Mem
    BY <2>1, MapType
  <2> QED
    BY <2>2, <2>3
<1>4. PICK g \in [0..n -> Mem] : Follows(g, w, T, n)
  <2> HIDE DEF T
  <2> QED
    BY <1>3, Recursion
<1> HIDE DEF T
<1>5. \A i \in 1..n : g[i] = Turn(g[i - 1], d, phys, v, stop, i)
  <2> SUFFICES ASSUME NEW i \in 1..n PROVE g[i] = Turn(g[i - 1], d, phys, v, stop, i)
    OBVIOUS
  <2>1. i - 1 \in 0..n
    OBVIOUS
  <2> QED
    BY <1>2, <1>4, <2>1 DEF Follows
<1>6. Is(g)
  <2>1. \A i \in 0..n : g[i] = IF i = 0 THEN w ELSE Turn(g[i - 1], d, phys, v, stop, i)
    BY <1>4, <1>5 DEF Follows
  <2> QED
    BY <2>1
<1>7. Is(st)
  BY <1>6
<1>8. MapPages(w, d, phys, v, n, stop) = st[n]
  BY DEF MapPages, Turn
<1>9. \A i \in 0..n : st[i] = IF i = 0 THEN w ELSE Turn(st[i - 1], d, phys, v, stop, i)
  <2> HIDE DEF st
  <2> QED
    BY <1>7
<1> HIDE DEF st, Is
<1>10. \A i \in 0..n : st[i] = g[i]
  <2> DEFINE Ind == {i \in Nat : i <= n => st[i] = g[i]}
  <2>1. 0 \in Ind
    BY <1>4, <1>9 DEF Follows
  <2>2. ASSUME NEW i \in Nat, i \in Ind PROVE i + 1 \in Ind
    <3> SUFFICES ASSUME i + 1 <= n PROVE st[i + 1] = g[i + 1]
      OBVIOUS
    <3>1. st[i] = g[i] /\ i + 1 \in 1..n /\ i + 1 \in 0..n /\ i + 1 # 0 /\ (i + 1) - 1 = i
      BY <2>2
    <3> QED
      BY <3>1, <1>5, <1>9
  <2> HIDE DEF Ind
  <2>3. Nat \subseteq Ind
    BY <2>1, <2>2, NatSetInduction
  <2> QED
    BY <2>3 DEF Ind
<1>11. n \in 0..n
  OBVIOUS
<1>12. Turns(g, w, d, phys, v, stop, n)
  BY <1>4, <1>5 DEF Follows, Turns
<1> QED
  BY <1>4, <1>8, <1>10, <1>11, <1>12

(* Two calls one after the other. *)
LEMMA GrownTwice ==
    ASSUME NEW w, NEW y, NEW z, NEW D, NEW d, Grown(w, y, D, d), Grown(y, z, D, d)
    PROVE  Grown(w, z, D, d)
BY DEF Grown

(* After i turns. *)
Reached(w, y, D, d, phys, v, i) ==
    /\ Sound(y.used, y.mem, D) /\ Grown(w, y, D, d)
    /\ Loose(w.used, w.mem, D) \ phys..phys + i - 1 \subseteq Loose(y.used, y.mem, D)
    /\ \A e \in D : \A r \in Pages(e) : ~(e = d /\ r \in v..v + i - 1) => On(y.mem, e, r) = On(w.mem, e, r)
    /\ y.err = FALSE => /\ Loose(y.used, y.mem, D) = Loose(w.used, w.mem, D) \ phys..phys + i - 1
                        /\ \A r \in v..v + i - 1 : On(y.mem, d, r) # 0

(* The loops in memory that is in order. *)
LEMMA MapPagesReach ==
    ASSUME NEW w \in Mem, NEW D, Sound(w.used, w.mem, D), NEW d \in D, NEW n \in Nat, NEW phys \in Nat,
           NEW v \in Nat, NEW stop \in BOOLEAN, w.err = FALSE,
           phys..phys + n - 1 \subseteq Loose(w.used, w.mem, D),
           \A r \in v..v + n - 1 : r \in Pages(d) /\ On(w.mem, d, r) = 0
    PROVE  MapPages(w, d, phys, v, n, stop) \in Mem
           /\ Reached(w, MapPages(w, d, phys, v, n, stop), D, d, phys, v, n)
<1>0. D \subseteq Word /\ d \in Word /\ Loose(w.used, w.mem, D) \subseteq Frame
  BY DEF Sound, Loose, Placed
<1>1. \A i \in 1..n : phys + i - 1 \in phys..phys + n - 1 /\ v + i - 1 \in v..v + n - 1
  OBVIOUS
<1>2. InRange(d, phys, v, n)
  BY <1>0, <1>1, Sizes DEF InRange
<1>u. PICK f \in [0..n -> Mem] :
              Turns(f, w, d, phys, v, stop, n) /\ MapPages(w, d, phys, v, n, stop) = f[n]
  BY <1>0, <1>2, MapPagesUnfold
<1>3. /\ f \in [0..n -> Mem] /\ f[0] = w
      /\ \A i \in 1..n : f[i] = Turn(f[i - 1], d, phys, v, stop, i)
      /\ MapPages(w, d, phys, v, n, stop) = f[n]
  BY <1>u DEF Turns
<1> DEFINE Ind == {i \in Nat : i <= n => Reached(w, f[i], D, d, phys, v, i)}
<1>4. 0 \in Ind
  <2>1. phys..phys + 0 - 1 = {} /\ v..v + 0 - 1 = {}
    OBVIOUS
  <2>2. Grown(w, w, D, d)
    BY DEF Grown
  <2>3. Reached(w, w, D, d, phys, v, 0)
    BY <2>1, <2>2 DEF Reached
  <2> QED
    BY <1>3, <2>3
<1>5. ASSUME NEW i \in Nat, i \in Ind PROVE i + 1 \in Ind
  <2> SUFFICES ASSUME i + 1 <= n PROVE Reached(w, f[i + 1], D, d, phys, v, i + 1)
    OBVIOUS
  <2> DEFINE y == f[i]
             z == f[i + 1]
             x == phys + i
             r == v + i
             lw == Loose(w.used, w.mem, D)
             ly == Loose(y.used, y.mem, D)
             lz == Loose(z.used, z.mem, D)
  <2>1. y \in Mem /\ Reached(w, y, D, d, phys, v, i) /\ i + 1 \in 1..n /\ i \in 0..n
    BY <1>3, <1>5
  <2>2. phys + (i + 1) - 1 = x /\ v + (i + 1) - 1 = r /\ (i + 1) - 1 = i
    OBVIOUS
  <2>3. z = IF stop /\ y.err THEN y ELSE Map(y, d, x, r)
    <3>1. z = Turn(f[(i + 1) - 1], d, phys, v, stop, i + 1)
      BY <1>3, <2>1
    <3> QED
      BY <2>2, <3>1 DEF Turn
  <2>4. /\ x \in phys..phys + n - 1 /\ x \notin phys..phys + i - 1
        /\ phys..phys + (i + 1) - 1 = phys..phys + i - 1 \cup {x}
        /\ r \in v..v + n - 1 /\ r \notin v..v + i - 1
        /\ v..v + (i + 1) - 1 = v..v + i - 1 \cup {r}
    BY <2>1
  <2>5. r \in Pages(d) /\ On(w.mem, d, r) = 0 /\ x \in lw
    BY <2>4
  <2>6. x \in ly /\ On(y.mem, d, r) = 0
    BY <2>1, <2>4, <2>5 DEF Reached
  <2>7. Sound(y.used, y.mem, D) /\ Grown(w, y, D, d)
    BY <2>1 DEF Reached
  <2>8. y.err \in BOOLEAN
    BY <2>1 DEF Mem
  <2>9. lw \ (phys..phys + i - 1) \subseteq ly
    BY <2>1 DEF Reached
  <2>10. \A e \in D : \A q \in Pages(e) : ~(e = d /\ q \in v..v + i - 1) => On(y.mem, e, q) = On(w.mem, e, q)
    BY <2>1 DEF Reached
  <2>11. y.err = FALSE => ly = lw \ (phys..phys + i - 1) /\ \A q \in v..v + i - 1 : On(y.mem, d, q) # 0
    BY <2>1 DEF Reached
  <2> HIDE DEF x, r, y, z
  <2>12. CASE z = y /\ y.err = TRUE
    <3>1. lz = ly
      BY <2>12
    <3>2. lw \ (phys..phys + (i + 1) - 1) \subseteq lz
      BY <2>4, <2>9, <3>1
    <3>3. \A e \in D : \A q \in Pages(e) : ~(e = d /\ q \in v..v + (i + 1) - 1) => On(z.mem, e, q) = On(w.mem, e, q)
      BY <2>4, <2>10, <2>12
    <3> QED
      BY <2>7, <2>12, <3>2, <3>3 DEF Reached, z
  <2>13. CASE z = Map(y, d, x, r)
    <3>1. /\ z \in Mem /\ Sound(z.used, z.mem, D) /\ Grown(y, z, D, d)
          /\ NoTable(y, d, r) => z.err = TRUE /\ z.used = y.used /\ z.mem = y.mem
          /\ ~NoTable(y, d, r) => MapsTo(y, z, D, d, r, x)
      <4>1. y \in Mem /\ x \in Loose(y.used, y.mem, D)
        BY <2>1, <2>6
      <4> HIDE DEF lw, ly, lz
      <4>2. MapDone(y, z, D, d, r, x)
        BY <2>5, <2>6, <2>7, <2>13, <4>1, MapStep
      <4> QED
        BY <4>2 DEF MapDone
    <3>2. Grown(w, z, D, d)
      BY <2>7, <3>1, GrownTwice
    <3>3. CASE NoTable(y, d, r)
      <4>1. z.err = TRUE /\ z.used = y.used /\ z.mem = y.mem
        BY <3>1, <3>3
      <4>2. lz = ly
        BY <4>1
      <4>3. lw \ (phys..phys + (i + 1) - 1) \subseteq lz
        BY <2>4, <2>9, <4>2
      <4>4. \A e \in D : \A q \in Pages(e) : ~(e = d /\ q \in v..v + (i + 1) - 1) => On(z.mem, e, q) = On(w.mem, e, q)
        BY <2>4, <2>10, <4>1
      <4> QED
        BY <3>1, <3>2, <4>1, <4>3, <4>4 DEF Reached, z
    <3>4. CASE ~NoTable(y, d, r)
      <4>1. /\ z.err = y.err /\ lz = ly \ {x} /\ On(z.mem, d, r) = x
            /\ \A e \in D : \A q \in Pages(e) : e # d \/ q # r => On(z.mem, e, q) = On(y.mem, e, q)
        BY <3>1, <3>4 DEF MapsTo
      <4>2. lw \ (phys..phys + (i + 1) - 1) \subseteq lz
        BY <2>4, <2>9, <4>1
      <4>3. \A e \in D : \A q \in Pages(e) : ~(e = d /\ q \in v..v + (i + 1) - 1) => On(z.mem, e, q) = On(w.mem, e, q)
        BY <2>4, <2>10, <4>1
      <4>4. z.err = FALSE => lz = lw \ (phys..phys + (i + 1) - 1)
        BY <2>4, <2>11, <4>1
      <4>5. z.err = FALSE => \A q \in v..v + (i + 1) - 1 : On(z.mem, d, q) # 0
        <5> SUFFICES ASSUME z.err = FALSE, NEW q \in v..v + (i + 1) - 1 PROVE On(z.mem, d, q) # 0
          OBVIOUS
        <5>1. CASE q = r
          BY <5>1, <4>1, <2>5, <1>0, Sizes
        <5>2. CASE q # r
          <6>1. q \in v..v + i - 1
            BY <2>4, <5>2
          <6>4. q \in v..v + n - 1
            BY <2>1, <6>1
          <6>2. q \in Pages(d)
            BY <6>4
          <6>3. On(y.mem, d, q) # 0
            BY <6>1, <2>11, <4>1
          <6> QED
            BY <4>1, <5>2, <6>2, <6>3
        <5> QED
          BY <5>1, <5>2
      <4> QED
        BY <3>1, <3>2, <4>2, <4>3, <4>4, <4>5 DEF Reached, z
    <3> QED
      BY <3>3, <3>4
  <2> QED
    BY <2>3, <2>8, <2>12, <2>13
<1> HIDE DEF Ind
<1>6. Nat \subseteq Ind
  BY <1>4, <1>5, NatSetInduction
<1>7. Reached(w, f[n], D, d, phys, v, n) /\ f[n] \in Mem
  BY <1>3, <1>6 DEF Ind
<1> QED
  BY <1>3, <1>7

-----------------------------------------------------------------------------
(* The same places hold the same frames. *)
SameAt(mm, m2, D) == \A s \in Slots(D) : At(m2, s) = At(mm, s)

(* Pages are where they were. *)
LEMMA SameAtOn ==
    ASSUME NEW mm, NEW m2, NEW D, D \subseteq Word, SameAt(mm, m2, D)
    PROVE  \A d \in D : \A v \in Pages(d) : On(m2, d, v) = On(mm, d, v)
BY PageSlots DEF SameAt

(* Memory stays in order when the places hold what they held. *)
LEMMA SameAtSound ==
    ASSUME NEW u, NEW mm, NEW m2, NEW D, Sound(u, mm, D), SameAt(mm, m2, D), m2 \in Memory, Shared(m2, D)
    PROVE  Sound(u, m2, D) /\ Loose(u, m2, D) = Loose(u, mm, D)
<1> DEFINE f == Uses(mm, D)
           g == Uses(m2, D)
           S == Slots(D)
<1>1. Placed(f, S, u) /\ \A s \in S : g[s] = f[s]
  BY DEF Sound, SameAt, Uses
<1>2. Loose(u, mm, D) = u \ Refs(f, S) /\ Loose(u, m2, D) = u \ Refs(g, S)
  BY DEF Loose
<1>3. Sound(u, m2, D) <=> Placed(g, S, u)
  BY DEF Sound
<1> HIDE DEF f, g, S
<1>4. Placed(g, S, u) /\ Refs(g, S) = Refs(f, S)
  BY <1>1, SamePlaces
<1> QED
  BY <1>2, <1>3, <1>4

(* What a call leaves in frames that are not in use is arbitrary. *)
Cleaned(u, mm) == [f \in DOMAIN mm |-> IF f \in u \cup {KERNEL} THEN mm[f] ELSE Garbage]

(* Memory stays in order whatever the free frames hold. *)
LEMMA CleanedSound ==
    ASSUME NEW u, NEW mm, NEW D, Sound(u, mm, D)
    PROVE  LET m2 == Cleaned(u, mm)
           IN m2 \in Memory /\ Sound(u, m2, D) /\ Loose(u, m2, D) = Loose(u, mm, D) /\ SameAt(mm, m2, D)
<1> DEFINE m2 == Cleaned(u, mm)
<1>0. mm \in Memory /\ D \subseteq Word /\ KERNEL \in D /\ Shared(mm, D) /\ u \subseteq Frame
  BY DEF Sound, Placed
<1>1. DOMAIN mm = Word /\ \A x \in Word : mm[x] \in [Entries -> Word]
  BY <1>0 DEF Memory
<1>2. ASSUME NEW x \in Word, x # KERNEL PROVE Garbage \in [Entries -> Word]
  <2>1. 1 \in Word
    BY <1>2, Sizes DEF Word, KERNEL
  <2>2. DOMAIN NoEntries = Entries
    BY DEF NoEntries, Entries, Cells
  <2> QED
    BY <2>1, <2>2 DEF Garbage
<1>3. m2 \in Memory
  BY <1>1, <1>2 DEF Cleaned, Memory
<1>4. \A x \in u \cup {KERNEL} : m2[x] = mm[x]
  BY <1>0, <1>1, Sizes DEF Cleaned
<1> HIDE DEF m2
<1>5. SameAt(mm, m2, D)
  BY <1>4, SameRows DEF SameAt
<1>6. \A d \in D : m2[d] = mm[d]
  BY <1>4, RowsInUse
<1>7. Shared(m2, D)
  BY <1>0, <1>6 DEF Shared
<1>8. Sound(u, m2, D) /\ Loose(u, m2, D) = Loose(u, mm, D)
  BY <1>3, <1>5, <1>7, SameAtSound
<1> QED
  BY <1>3, <1>5, <1>8 DEF m2

(* vmmngr_free_page_directory frees what the directory has a place for. *)
LEMMA FreedIsRefs ==
    ASSUME NEW w, w.mem \in Memory, NEW d \in Frame
    PROVE  Freed(w, d) = {At(w.mem, s) : s \in SlotsOf(d)} \ {0}
<1> DEFINE mm == w.mem
           low == 0..USER_TABLES - 1
           tables == {mm[d][t] : t \in low} \ {0}
           pages == (UNION {{mm[t][i] : i \in Cells} : t \in tables}) \ {0}
<1>0. d \in Word /\ d # KERNEL /\ d # 0 /\ Half(d) = low
  BY Sizes DEF Half
<1>1. Freed(w, d) = tables \cup pages \cup {d}
  BY DEF Freed, Cells
<1>t. \A x : x \in tables <=> x # 0 /\ \E t \in low : x = mm[d][t]
  OBVIOUS
<1> HIDE DEF tables
<1>p. \A x : x \in pages <=> x # 0 /\ \E k \in tables : \E i \in Cells : x = mm[k][i]
  <2> DEFINE Row(k) == {mm[k][i] : i \in Cells}
             all == UNION {Row(k) : k \in tables}
  <2>1. pages = all \ {0}
    OBVIOUS
  <2>2. \A k, x : x \in Row(k) <=> \E i \in Cells : x = mm[k][i]
    OBVIOUS
  <2> HIDE DEF Row, pages
  <2>3. \A x : x \in all <=> \E k \in tables : x \in Row(k)
    OBVIOUS
  <2> HIDE DEF all
  <2>4. \A x : x \in pages <=> x # 0 /\ \E k \in tables : x \in Row(k)
    BY <2>1, <2>3
  <2> QED
    BY <2>2, <2>4
<1>s. /\ DirSlot(d) \in SlotsOf(d)
      /\ \A t \in low : TabSlot(d, t) \in SlotsOf(d)
      /\ \A t \in low : \A i \in Cells : PagSlot(d, t, i) \in SlotsOf(d)
  BY <1>0 DEF SlotsOf
<1> HIDE DEF pages, low
<1>2. ASSUME NEW s \in SlotsOf(d), At(mm, s) # 0 PROVE At(mm, s) \in Freed(w, d)
  <2>1. CASE s = DirSlot(d)
    BY <1>0, <1>1, <2>1, AtSlot
  <2>2. CASE \E t \in Half(d) : s = TabSlot(d, t)
    <3>1. PICK t \in Half(d) : s = TabSlot(d, t)
      BY <2>2
    <3>2. At(mm, s) = mm[d][t] /\ t \in low
      BY <1>0, <3>1, AtTab
    <3> QED
      BY <1>1, <1>t, <1>2, <3>2
  <2>3. CASE \E t \in Half(d) : \E i \in Cells : s = PagSlot(d, t, i)
    <3>1. PICK t \in Half(d), i \in Cells : s = PagSlot(d, t, i)
      BY <2>3
    <3>2. At(mm, s) = Page(mm, d, t, i) /\ t \in low
      BY <1>0, <3>1, AtPag
    <3>3. mm[d][t] # 0 /\ At(mm, s) = mm[mm[d][t]][i]
      BY <1>2, <3>2 DEF Page
    <3>4. mm[d][t] \in tables
      BY <1>t, <3>2, <3>3
    <3>5. At(mm, s) \in pages
      BY <1>p, <1>2, <3>1, <3>3, <3>4
    <3> QED
      BY <1>1, <3>5
  <2> QED
    BY <2>1, <2>2, <2>3 DEF SlotsOf
<1>3. ASSUME NEW x \in Freed(w, d) PROVE x # 0 /\ \E s \in SlotsOf(d) : At(mm, s) = x
  <2>1. CASE x = d
    <3>1. DirSlot(d) \in SlotsOf(d) /\ At(mm, DirSlot(d)) = d
      BY <1>0, AtSlot DEF SlotsOf
    <3> QED
      BY <1>0, <2>1, <3>1
  <2>2. CASE x \in tables
    <3>1. PICK t \in low : x = mm[d][t]
      BY <1>t, <2>2
    <3>2. t \in Half(d) /\ At(mm, TabSlot(d, t)) = mm[d][t]
      BY <1>0, AtTab
    <3> QED
      BY <1>s, <1>t, <2>2, <3>1, <3>2
  <2>3. CASE x \in pages
    <3>1. PICK k \in tables : \E i \in Cells : x = mm[k][i]
      BY <1>p, <2>3
    <3>2. PICK i \in Cells : x = mm[k][i]
      BY <3>1
    <3>3. PICK t \in low : k = mm[d][t]
      BY <1>t, <3>1
    <3>4. k # 0 /\ x # 0
      BY <1>p, <1>t, <2>3, <3>1
    <3>t. t \in Half(d)
      BY <1>0
    <3>5. PagSlot(d, t, i) \in SlotsOf(d) /\ At(mm, PagSlot(d, t, i)) = Page(mm, d, t, i)
      BY <1>0, <1>s, <3>t, AtPag
    <3>6. Page(mm, d, t, i) = x
      BY <3>2, <3>3, <3>4 DEF Page
    <3> QED
      BY <3>4, <3>5, <3>6
  <2> QED
    BY <1>1, <1>3, <2>1, <2>2, <2>3
<1> QED
  BY <1>2, <1>3

(* Directories share no places. *)
LEMMA OwnSlots ==
    ASSUME NEW D, D \subseteq Word, NEW E \in SUBSET D
    PROVE  Slots(D \ E) \subseteq Slots(D) /\ Slots(D) \ Slots(D \ E) = UNION {SlotsOf(d) : d \in E}
<1>1. \A d, e \in D : \A s : s \in SlotsOf(d) /\ s \in SlotsOf(e) => d = e
  <2>1. \A d \in D : \A s \in SlotsOf(d) : s[1] = d
    BY DEF SlotsOf, DirSlot, TabSlot, PagSlot
  <2> QED
    BY <2>1
<1>2. Slots(D \ E) \subseteq Slots(D)
  BY DEF Slots
<1>3. ASSUME NEW s \in Slots(D) \ Slots(D \ E) PROVE s \in UNION {SlotsOf(d) : d \in E}
  BY <1>3 DEF Slots
<1>4. ASSUME NEW d \in E, NEW s \in SlotsOf(d) PROVE s \in Slots(D) \ Slots(D \ E)
  BY <1>1, <1>4 DEF Slots
<1> QED
  BY <1>2, <1>3, <1>4

(* Directories E are freed. *)
LEMMA FreeSound ==
    ASSUME NEW w, NEW D, Sound(w.used, w.mem, D), NEW E \in SUBSET (D \ {KERNEL})
    PROVE  LET u2 == w.used \ UNION {Freed(w, d) : d \in E}
           IN Sound(u2, w.mem, D \ E) /\ Loose(u2, w.mem, D \ E) = Loose(w.used, w.mem, D)
<1> DEFINE mm == w.mem
           u == w.used
           u2 == u \ UNION {Freed(w, d) : d \in E}
           f == Uses(mm, D)
           g == Uses(mm, D \ E)
           S == Slots(D)
           T == Slots(D \ E)
<1>0. mm \in Memory /\ D \subseteq Word /\ KERNEL \in D /\ Shared(mm, D) /\ Placed(f, S, u)
  BY DEF Sound
<1>1. T \subseteq S /\ S \ T = UNION {SlotsOf(d) : d \in E}
  BY <1>0, OwnSlots
<1>2. \A d \in E : d \in Frame
  BY <1>0, Sizes
<1>3. \A s \in S : f[s] = At(mm, s)
  BY DEF Uses
<1>4. \A s \in T : g[s] = f[s]
  BY <1>1 DEF Uses
<1>5. UNION {Freed(w, d) : d \in E} = Refs(f, S \ T)
  <2>1. \A d \in E : Freed(w, d) = {At(mm, s) : s \in SlotsOf(d)} \ {0}
    BY <1>0, <1>2, FreedIsRefs
  <2>2. ASSUME NEW x PROVE x \in UNION {Freed(w, d) : d \in E} <=> x \in Refs(f, S \ T)
    <3>1. ASSUME NEW d \in E, x \in Freed(w, d) PROVE x \in Refs(f, S \ T)
      <4>1. PICK s \in SlotsOf(d) : x = At(mm, s) /\ x # 0
        BY <2>1, <3>1
      <4>2. s \in S \ T
        BY <1>1, <4>1
      <4> QED
        BY <1>3, <4>1, <4>2 DEF Refs
    <3>2. ASSUME x \in Refs(f, S \ T) PROVE \E d \in E : x \in Freed(w, d)
      <4>1. PICK s \in S \ T : x = f[s] /\ x # 0
        BY <3>2 DEF Refs
      <4>2. PICK d \in E : s \in SlotsOf(d)
        BY <1>1, <4>1
      <4> QED
        BY <1>3, <2>1, <4>1, <4>2
    <3> QED
      BY <3>1, <3>2
  <2> QED
    BY <2>2
<1>6. /\ Loose(u, mm, D) = u \ Refs(f, S) /\ Loose(u2, mm, D \ E) = u2 \ Refs(g, T)
      /\ Sound(u2, mm, D \ E) <=> mm \in Memory /\ D \ E \subseteq Word /\ KERNEL \in D \ E
                                  /\ Placed(g, T, u2) /\ Shared(mm, D \ E)
  BY DEF Loose, Sound
<1>7. u2 = u \ Refs(f, S \ T)
  BY <1>5
<1>8. Shared(mm, D \ E)
  BY <1>0 DEF Shared
<1>9. KERNEL \in D \ E
  BY <1>0
<1> HIDE DEF f, g, S, T, u, u2, mm
<1>10. Placed(g, T, u \ Refs(f, S \ T)) /\ (u \ Refs(f, S \ T)) \ Refs(g, T) = u \ Refs(f, S)
  BY <1>0, <1>1, <1>4, Drop
<1> QED
  BY <1>0, <1>6, <1>7, <1>8, <1>9, <1>10 DEF u, u2, mm

(* vmmngr_alloc_page_directory: frame n becomes a directory without pages. *)
DirectoryCopied(mm, n) == [mm EXCEPT ![n] = mm[KERNEL]]

(* A new directory adds empty places and its own frame. *)
LEMMA AddDirectory ==
    ASSUME NEW u, NEW mm, NEW D, Sound(u, mm, D), NEW n \in Frame \ u, NEW m2, m2 = DirectoryCopied(mm, n)
    PROVE  /\ m2 \in Memory /\ Sound(u \cup {n}, m2, D \cup {n})
           /\ Loose(u \cup {n}, m2, D \cup {n}) = Loose(u, mm, D)
           /\ SameAt(mm, m2, D) /\ n \notin D
           /\ \A v \in Pages(n) : On(m2, n, v) = 0
<1> DEFINE f == Uses(mm, D)
           E == D \cup {n}
           g == Uses(m2, E)
           S == Slots(D)
           T == Slots(E)
           p == DirSlot(n)
           h == [s \in T |-> IF s = p THEN 0 ELSE g[s]]
           u2 == u \cup {n}
<1>0. mm \in Memory /\ D \subseteq Word /\ KERNEL \in D /\ Shared(mm, D) /\ Placed(f, S, u)
  BY DEF Sound
<1>1. n \in Word /\ n # KERNEL /\ n \notin D /\ n # 0
  BY Sizes, RowsInUse
<1>2. m2 \in Memory /\ m2[n] = mm[KERNEL] /\ \A x \in Word : x # n => m2[x] = mm[x]
  BY <1>0, <1>1 DEF Memory, DirectoryCopied
<1>3. \A x \in u \cup {KERNEL} : m2[x] = mm[x]
  <2>1. u \subseteq Word
    BY <1>0, Sizes DEF Placed
  <2> QED
    BY <1>0, <1>1, <1>2, <2>1
<1>4. SameAt(mm, m2, D)
  <2> DEFINE mx == m2
  <2>1. \A x \in u \cup {KERNEL} : mx[x] = mm[x]
    BY <1>3
  <2> HIDE DEF mx
  <2>2. \A s \in Slots(D) : At(mx, s) = At(mm, s)
    BY <2>1, SameRows
  <2> QED
    BY <2>2 DEF SameAt, mx
<1>5. \A t \in Half(n) : m2[n][t] = 0
  BY <1>0, <1>1, <1>2 DEF Shared, Half
<1>6. Shared(m2, E)
  <2>1. m2[KERNEL] = mm[KERNEL] /\ \A d \in D : m2[d] = mm[d]
    BY <1>0, <1>1, <1>2
  <2> QED
    BY <1>0, <1>2, <2>1 DEF Shared
<1>7. E \subseteq Word /\ KERNEL \in E /\ n \in E
  BY <1>0, <1>1
<1>8. S \subseteq T /\ T \ S = SlotsOf(n) /\ p \in T /\ p \notin S
  <2>1. \A d, e \in E : \A s : s \in SlotsOf(d) /\ s \in SlotsOf(e) => d = e
    <3>1. \A d \in E : \A s \in SlotsOf(d) : s[1] = d
      BY DEF SlotsOf, DirSlot, TabSlot, PagSlot
    <3> QED
      BY <3>1
  <2>2. p \in SlotsOf(n)
    BY <1>1 DEF SlotsOf
  <2>3. T = S \cup SlotsOf(n)
    BY DEF Slots
  <2>4. ASSUME NEW s \in S, s \in SlotsOf(n) PROVE FALSE
    <3>1. PICK d \in D : s \in SlotsOf(d)
      BY DEF Slots
    <3> QED
      BY <1>1, <2>1, <2>4, <3>1
  <2> HIDE DEF S, T, p
  <2> QED
    BY <2>2, <2>3, <2>4
<1>9. ASSUME NEW s \in SlotsOf(n), s # p PROVE At(m2, s) = 0
  <2>1. CASE \E t \in Half(n) : s = TabSlot(n, t)
    <3>1. PICK t \in Half(n) : s = TabSlot(n, t)
      BY <2>1
    <3>2. At(m2, s) = m2[n][t]
      BY <1>1, <3>1, AtTab
    <3> QED
      BY <1>5, <3>2
  <2>2. CASE \E t \in Half(n) : \E i \in Cells : s = PagSlot(n, t, i)
    <3>1. PICK t \in Half(n), i \in Cells : s = PagSlot(n, t, i)
      BY <2>2
    <3>2. At(m2, s) = Page(m2, n, t, i)
      BY <1>1, <3>1, AtPag
    <3> QED
      BY <1>5, <3>2 DEF Page
  <2> QED
    BY <1>9, <2>1, <2>2 DEF SlotsOf
<1>10. At(m2, p) = n
  BY <1>1, AtSlot
<1>11. /\ \A s \in S : h[s] = f[s] /\ h[s] = At(mm, s)
       /\ \A s \in T \ S : h[s] = 0
       /\ h[p] = 0 /\ g[p] = n /\ \A s \in T : s # p => g[s] = h[s]
  <2>1. \A s \in T : g[s] = At(m2, s)
    BY DEF Uses
  <2>2. \A s \in S : f[s] = At(mm, s)
    BY DEF Uses
  <2>3. \A s \in T : h[s] = IF s = p THEN 0 ELSE g[s]
    OBVIOUS
  <2>4. \A s \in S : At(m2, s) = At(mm, s)
    BY <1>4 DEF SameAt
  <2> HIDE DEF f, g, h, S, T, p
  <2> QED
    BY <1>8, <1>9, <1>10, <2>1, <2>2, <2>3, <2>4
<1>12. /\ Loose(u, mm, D) = u \ Refs(f, S) /\ Loose(u2, m2, E) = u2 \ Refs(g, T)
       /\ Sound(u2, m2, E) <=> m2 \in Memory /\ E \subseteq Word /\ KERNEL \in E
                               /\ Placed(g, T, u2) /\ Shared(m2, E)
  BY DEF Loose, Sound
<1>u. u2 = u \cup {n}
  OBVIOUS
<1>13. \A v \in Pages(n) : On(m2, n, v) = 0
  <2> SUFFICES ASSUME NEW v \in Pages(n) PROVE On(m2, n, v) = 0
    OBVIOUS
  <2>1. PDI(v) \in Half(n)
    BY <1>1, PageIndex
  <2> QED
    BY <1>5, <2>1 DEF On, Page
<1> HIDE DEF f, g, h, S, T, p, u2, E
<1>14. Placed(h, T, u) /\ Refs(h, T) = Refs(f, S)
  BY <1>0, <1>8, <1>11, AddEmpty
<1>15. Placed(h, T, u2) /\ u2 \ Refs(h, T) = (u \ Refs(h, T)) \cup {n}
  <2> DEFINE X == {n}
  <2>1. X \in SUBSET (Frame \ u)
    OBVIOUS
  <2> HIDE DEF X
  <2>3. Placed(h, T, u \cup X) /\ (u \cup X) \ Refs(h, T) = (u \ Refs(h, T)) \cup X
    BY <1>14, <2>1, TakeMore
  <2> QED
    BY <2>3, <1>u DEF X
<1>16. n \in u2 \ Refs(h, T)
  BY <1>15
<1>17. Placed(g, T, u2) /\ u2 \ Refs(g, T) = (u2 \ Refs(h, T)) \ {n}
  BY <1>8, <1>11, <1>15, <1>16, Put
<1>18. u2 \ Refs(g, T) = u \ Refs(f, S)
  BY <1>14, <1>15, <1>17
<1>19. Sound(u2, m2, E) /\ Loose(u2, m2, E) = Loose(u, mm, D)
  BY <1>2, <1>6, <1>7, <1>12, <1>17, <1>18
<1> QED
  BY <1>1, <1>2, <1>4, <1>13, <1>19 DEF u2, E

-----------------------------------------------------------------------------
(* The directories there are, and the processes that can run. *)
DirsOf(lv, sp) == {KERNEL} \cup DOMAIN lv \cup {sp[c].pd : c \in DOMAIN sp}
CanRun(lv, dd) == {KERNEL} \cup (DOMAIN lv \ dd)

(* Who is there: a spawn call has a directory that is nobody else's. *)
Book(c3, lv, dd, sp) ==
    /\ KERNEL \notin DOMAIN lv /\ \A d \in DOMAIN lv : lv[d] \in Images
    /\ dd \subseteq DOMAIN lv
    /\ c3 \in CanRun(lv, dd) /\ DOMAIN sp \subseteq CanRun(lv, dd)
    /\ \A c \in DOMAIN sp : sp[c] \in [pd : Frame, img : Images \cup {{}}] /\ sp[c].pd \notin DOMAIN lv
    /\ \A b, c \in DOMAIN sp : sp[b].pd = sp[c].pd => b = c

(* The pages of a program: none before it is loaded. *)
ImagePages(img) == IF img = {} THEN {} ELSE FirstPage(img)..FirstPage(img) + RequiredPages(img) - 1

(* The heap is as long as its mapping. *)
HeapMapped(mm, end) ==
    /\ end \in HEAP_MIN..HEAP_MAX
    /\ \A i \in 0..HEAP_MAX - 1 : On(mm, KERNEL, HeapPage(i)) # 0 <=> i < end

(* A directory has at least, or exactly, these pages. *)
Has(mm, d, P) == \A v \in P : On(mm, d, v) # 0
HasOnly(mm, d, P) == \A v \in UserPages : On(mm, d, v) # 0 <=> v \in P

Programs(mm, lv) == \A d \in DOMAIN lv : Has(mm, d, ImagePages(lv[d]) \cup StackPages)
Loading(mm, sp) == \A c \in DOMAIN sp : HasOnly(mm, sp[c].pd, ImagePages(sp[c].img))

Dirs == DirsOf(live, spawning)

MemoryInv ==
    /\ Book(cr3, live, dead, spawning)
    /\ Sound(used, mem, Dirs)
    /\ HeapMapped(mem, heapEnd)
    /\ Programs(mem, live)
    /\ halted \in BOOLEAN
    /\ ~halted => Loading(mem, spawning) /\ lost = Loose(used, mem, Dirs)

(* The heap has grown and the kernel's directory does not map its last page, *)
(* or it has shrunk and the kernel's directory maps more than all of it.     *)
Astray ==
    /\ Book(cr3, live, dead, spawning) /\ Programs(mem, live)
    /\ \/ /\ amiss = "grown"
          /\ heapEnd \in Nat \ {0} /\ On(mem, KERNEL, HeapPage(heapEnd - 1)) = 0
       \/ /\ amiss = "shrunk"
          /\ Shared(mem, Dirs) /\ \A i \in 0..heapEnd - 1 : On(mem, KERNEL, HeapPage(i)) # 0

AddressInv == (amiss = "nothing" /\ MemoryInv) \/ Astray

-----------------------------------------------------------------------------
(* The pages of the kernel heap are the kernel directory's. *)
LEMMA HeapPages ==
    /\ HEAP_MAX \in Nat
    /\ \A i \in 0..HEAP_MAX - 1 : HeapPage(i) \in Pages(KERNEL)
    /\ \A v \in Pages(KERNEL) : \E i \in 0..HEAP_MAX - 1 : v = HeapPage(i)
    /\ \A i, j \in Int : HeapPage(i) = HeapPage(j) => i = j
<1> DEFINE a == USER_TABLES * ENTRIES
           b == HEAP_TABLES * ENTRIES
<1>1. a \in Nat /\ b \in Nat
  BY Sizes
<1>2. (USER_TABLES + HEAP_TABLES) * ENTRIES = a + b
  BY Sizes
<1>3. Pages(KERNEL) = a..a + b - 1
  <2>1. Pages(KERNEL) = a..(USER_TABLES + HEAP_TABLES) * ENTRIES - 1
    BY DEF Pages
  <2> DEFINE c == (USER_TABLES + HEAP_TABLES) * ENTRIES
  <2> HIDE DEF a, b
  <2>2. c - 1 = a + b - 1
    BY <1>1, <1>2
  <2> QED
    BY <2>1, <2>2
<1>4. HEAP_MAX = b /\ \A i : HeapPage(i) = a + i
  BY DEF HEAP_MAX, HeapPage
<1> HIDE DEF a, b
<1>5. ASSUME NEW v \in a..a + b - 1 PROVE v - a \in 0..b - 1 /\ v = a + (v - a)
  BY <1>1
<1>6. ASSUME NEW i \in 0..b - 1 PROVE a + i \in a..a + b - 1
  BY <1>1
<1>7. \A i, j \in Int : a + i = a + j => i = j
  BY <1>1
<1> QED
  BY <1>1, <1>3, <1>4, <1>5, <1>6, <1>7

(* Frames are taken from the allocator: they have no place yet. *)
LEMMA TakeFrames ==
    ASSUME NEW u, NEW mm, NEW D, Sound(u, mm, D), NEW X \in SUBSET (Frame \ u)
    PROVE  Sound(u \cup X, mm, D) /\ Loose(u \cup X, mm, D) = Loose(u, mm, D) \cup X
<1> DEFINE f == Uses(mm, D)
           S == Slots(D)
<1>1. Placed(f, S, u)
  BY DEF Sound
<1>2. Loose(u, mm, D) = u \ Refs(f, S) /\ Loose(u \cup X, mm, D) = (u \cup X) \ Refs(f, S)
  BY DEF Loose
<1>3. Sound(u \cup X, mm, D) <=> Placed(f, S, u \cup X)
  BY DEF Sound
<1> HIDE DEF f, S
<1>4. Placed(f, S, u \cup X) /\ (u \cup X) \ Refs(f, S) = (u \ Refs(f, S)) \cup X
  BY <1>1, TakeMore
<1> QED
  BY <1>2, <1>3, <1>4

(* A table of the heap that a directory has is the kernel's. *)
LEMMA SharedTable ==
    ASSUME NEW u, NEW mm, NEW D, Sound(u, mm, D), NEW d \in D, NEW v \in Pages(KERNEL), mm[d][PDI(v)] # 0
    PROVE  mm[KERNEL][PDI(v)] = mm[d][PDI(v)]
<1>1. PDI(v) \in USER_TABLES..USER_TABLES + HEAP_TABLES - 1
  BY PageIndex, Sizes DEF Half
<1> QED
  BY <1>1 DEF Sound, Shared

(* What a call that maps page v of the kernel leaves as it was. *)
OthersKept(w, y, D, v) ==
    \A e \in D : \A r \in Pages(e) : e # KERNEL \/ r # v => On(y.mem, e, r) = On(w.mem, e, r)

(* heap_expand by a page where it does what it should. *)
LEMMA GrowSound ==
    ASSUME NEW w \in Mem, NEW D, Sound(w.used, w.mem, D), NEW d \in D, NEW end \in 0..HEAP_MAX - 1,
           On(w.mem, KERNEL, HeapPage(end)) = 0, FirstFree(w, 1) # 0, GrowsWell(w, d, end),
           NEW y, y = Grow(w, d, end)
    PROVE  /\ y \in Mem /\ Sound(y.used, y.mem, D)
           /\ Loose(y.used, y.mem, D) = Loose(w.used, w.mem, D)
           /\ On(y.mem, KERNEL, HeapPage(end)) # 0
           /\ OthersKept(w, y, D, HeapPage(end))
<1> DEFINE v == HeapPage(end)
           phys == FirstFree(w, 1)
           z == [w EXCEPT !.used = @ \cup {phys}]
           k == KERNEL
           lw == Loose(w.used, w.mem, D)
<1>0. v \in Pages(k) /\ k \in D /\ D \subseteq Word /\ k \in Word
  BY HeapPages, Sizes DEF Sound
<1>1. phys \in Frame \ w.used /\ phys # 0
  BY OneFree, Sizes
<1>2. z = [used |-> w.used \cup {phys}, mem |-> w.mem, err |-> w.err]
      /\ z.used = w.used \cup {phys} /\ z.mem = w.mem /\ z.err = w.err
  <2> HIDE DEF phys
  <2> QED
    BY DEF Mem
<1>3. z \in Mem
  BY <1>1, <1>2 DEF Mem
<1>4. Sound(z.used, z.mem, D) /\ Loose(z.used, z.mem, D) = lw \cup {phys}
  <2> DEFINE X == {phys}
             u == w.used
             mm == w.mem
  <2>1. X \in SUBSET (Frame \ u) /\ Sound(u, mm, D)
    BY <1>1
  <2> HIDE DEF X, u, mm
  <2>2. Sound(u \cup X, mm, D) /\ Loose(u \cup X, mm, D) = Loose(u, mm, D) \cup X
    BY <2>1, TakeFrames
  <2> QED
    BY <2>2, <1>2 DEF X, u, mm
<1>5. y = Map(z, d, phys, v)
  BY DEF Grow
<1>6. phys \notin lw
  BY <1>1 DEF Loose
<1>7. y = Map(z, k, phys, v) /\ ~NoTable(z, k, v)
  <2>1. CASE z.mem[d][PDI(v)] # 0
    <3>1. z.mem[k][PDI(v)] = z.mem[d][PDI(v)]
      <4> DEFINE mm == z.mem
                 u == z.used
      <4>1. Sound(u, mm, D) /\ mm[d][PDI(v)] # 0 /\ v \in Pages(KERNEL)
        BY <1>0, <1>4, <2>1
      <4> HIDE DEF mm, u, z, v
      <4>2. mm[KERNEL][PDI(v)] = mm[d][PDI(v)]
        BY <4>1, SharedTable
      <4> QED
        BY <4>2 DEF mm
    <3> HIDE DEF z, v, phys
    <3>2. y = [z EXCEPT !.mem[z.mem[d][PDI(v)]][PTI(v)] = phys]
      BY <1>5, <2>1 DEF Map
    <3>3. Map(z, k, phys, v) = [z EXCEPT !.mem[z.mem[k][PDI(v)]][PTI(v)] = phys]
      BY <2>1, <3>1 DEF Map
    <3>4. ~NoTable(z, k, v)
      BY <2>1, <3>1 DEF NoTable
    <3> QED
      BY <3>1, <3>2, <3>3, <3>4
  <2>2. CASE z.mem[d][PDI(v)] = 0
    <3>1. d = KERNEL /\ Cardinality(Frame \ w.used) > 1
      BY <1>2, <2>2 DEF GrowsWell
    <3>2. PICK x \in Frame \ w.used : x # phys
      <4> SUFFICES ASSUME \A x \in Frame \ w.used : x = phys PROVE FALSE
        OBVIOUS
      <4>1. Frame \ w.used = {phys}
        BY <1>1
      <4>2. Cardinality({phys}) = 1
        BY FS_Singleton
      <4> QED
        BY <3>1, <4>1, <4>2
    <3>3. x \in Frame /\ x \notin z.used
      BY <1>2, <3>2
    <3> HIDE DEF z
    <3>4. FirstFree(z, 1) # 0
      BY <3>3, FreeFound
    <3> QED
      BY <1>5, <3>1, <3>4 DEF NoTable
  <2> QED
    BY <2>1, <2>2
<1>8. On(z.mem, k, v) = 0 /\ phys \in Loose(z.used, z.mem, D)
  BY <1>2, <1>4
<1> HIDE DEF z, v, phys, k
<1>9. MapDone(z, y, D, k, v, phys)
  BY <1>0, <1>3, <1>4, <1>7, <1>8, MapStep
<1>10. y \in Mem /\ Sound(y.used, y.mem, D) /\ MapsTo(z, y, D, k, v, phys)
  BY <1>7, <1>9 DEF MapDone
<1>11. Loose(y.used, y.mem, D) = lw
  BY <1>4, <1>6, <1>10 DEF MapsTo
<1>12. On(y.mem, k, v) # 0
  BY <1>1, <1>10 DEF MapsTo
<1>13. OthersKept(w, y, D, v)
  BY <1>2, <1>10 DEF MapsTo, OthersKept, k
<1> QED
  BY <1>10, <1>11, <1>12, <1>13 DEF v, k

(* heap_contract by a page. *)
LEMMA ShrinkSound ==
    ASSUME NEW w \in Mem, NEW D, Sound(w.used, w.mem, D), NEW d \in D, NEW end \in 1..HEAP_MAX,
           On(w.mem, KERNEL, HeapPage(end - 1)) # 0, w.mem[d][PDI(HeapPage(end - 1))] # 0,
           NEW y, y = Shrink(w, d, end)
    PROVE  /\ y \in Mem /\ Sound(y.used, y.mem, D)
           /\ Loose(y.used, y.mem, D) = Loose(w.used, w.mem, D)
           /\ On(y.mem, KERNEL, HeapPage(end - 1)) = 0
           /\ OthersKept(w, y, D, HeapPage(end - 1))
<1> DEFINE v == HeapPage(end - 1)
           k == KERNEL
           t == PDI(v)
           i == PTI(v)
           mm == w.mem
           u == w.used
           m2 == CellSet(mm, k, t, i, 0)
           u2 == u \ {On(mm, k, v)}
           p == PageSlot(k, v)
           f == Uses(mm, D)
           g == Uses(m2, D)
           S == Slots(D)
<1>0. v \in Pages(k) /\ k \in D /\ D \subseteq Word /\ k \in Word
  <2>1. end - 1 \in 0..HEAP_MAX - 1
    BY HeapPages
  <2> QED
    BY <2>1, HeapPages, Sizes DEF Sound
<1>1. mm[k][t] = mm[d][t] /\ mm[d][t] # 0
  <2>1. Sound(u, mm, D) /\ mm[d][t] # 0
    OBVIOUS
  <2> HIDE DEF mm, u, v
  <2> QED
    BY <1>0, <2>1, SharedTable DEF k
<1>2. t \in Half(k) /\ i \in Cells
  BY <1>0, PageIndex
<1>3. ToPhysical(w, d, v) = On(mm, k, v)
  BY <1>1 DEF ToPhysical, On, Page
<1>4. y = [used |-> u2, mem |-> m2, err |-> w.err]
  <2> DEFINE q == On(mm, k, v)
             z == [w EXCEPT !.used = @ \ {q}]
  <2>1. z = [used |-> u2, mem |-> mm, err |-> w.err]
    <3>1. u2 = w.used \ {q}
      OBVIOUS
    <3>2. z = [used |-> w.used \ {q}, mem |-> w.mem, err |-> w.err]
      <4> HIDE DEF q
      <4> QED
        BY DEF Mem
    <3> QED
      BY <3>1, <3>2
  <2>2. y = Unmap(z, d, v)
    BY <1>3 DEF Shrink
  <2> HIDE DEF z
  <2>3. z.mem[d][PDI(v)] = mm[d][t] /\ z.mem = mm
    BY <2>1
  <2>4. y = [z EXCEPT !.mem[mm[d][t]][i] = 0]
    BY <1>1, <2>2, <2>3 DEF Unmap
  <2>5. m2 = [mm EXCEPT ![mm[d][t]][i] = 0]
    BY <1>1 DEF CellSet
  <2> HIDE DEF mm, u2, m2
  <2> QED
    BY <2>1, <2>4, <2>5
<1>5. /\ m2 \in Memory /\ Shared(m2, D) /\ At(m2, PagSlot(k, t, i)) = 0
      /\ \A s \in Slots(D) : s # PagSlot(k, t, i) => At(m2, s) = At(mm, s)
  <2> DEFINE x == 0
  <2>1. x \in Word /\ Sound(u, mm, D) /\ m2 = CellSet(mm, k, t, i, x) /\ mm[k][t] # 0
    BY <1>1, Sizes DEF KERNEL
  <2>2. x = 0
    OBVIOUS
  <2> HIDE DEF x, u, mm, m2, t, i
  <2> QED
    BY <1>0, <1>2, <2>1, <2>2, WriteCell
<1>6. p = PagSlot(k, t, i)
  BY DEF PageSlot
<1>7. p \in S /\ (\A x : At(x, p) = On(x, k, v)) /\ \A e \in D : \A r \in Pages(e) :
        PageSlot(e, r) \in S /\ (\A x : At(x, PageSlot(e, r)) = On(x, e, r)) /\ (e # k \/ r # v => PageSlot(e, r) # p)
  <2> HIDE DEF v, k
  <2> QED
    BY <1>0, PageSlots DEF S
<1>8. f[p] = On(mm, k, v) /\ f[p] # 0 /\ g[p] = 0 /\ \A s \in S : s # p => g[s] = f[s]
  BY <1>5, <1>6, <1>7 DEF Uses
<1>9. Placed(f, S, u) /\ u \subseteq Frame
  BY DEF Sound, Placed
<1>10. /\ Loose(u, mm, D) = u \ Refs(f, S) /\ Loose(u2, m2, D) = u2 \ Refs(g, S)
       /\ Sound(u2, m2, D) <=> m2 \in Memory /\ D \subseteq Word /\ KERNEL \in D /\ Placed(g, S, u2) /\ Shared(m2, D)
  BY DEF Loose, Sound
<1>11. u2 = u \ {f[p]}
  BY <1>8
<1>12. \A e \in D : \A r \in Pages(e) : e # k \/ r # v => On(m2, e, r) = On(mm, e, r)
  BY <1>5, <1>6, <1>7
<1>13. On(m2, k, v) = 0
  BY <1>5, <1>6, <1>7
<1>14. y.used = u2 /\ y.mem = m2
  BY <1>4
<1>15. OthersKept(w, y, D, v)
  BY <1>12, <1>14 DEF OthersKept
<1>16. On(y.mem, KERNEL, v) = 0
  BY <1>13, <1>14
<1> HIDE DEF f, g, S, p, u, u2, mm, m2, k, v
<1>17. Placed(g, S, u2) /\ u2 \ Refs(g, S) = u \ Refs(f, S)
  BY <1>7, <1>8, <1>9, <1>11, Clear
<1>18. Sound(u2, m2, D) /\ Loose(u2, m2, D) = Loose(u, mm, D)
  BY <1>0, <1>5, <1>10, <1>17 DEF k
<1>19. y \in Mem
  BY <1>4, <1>5, <1>9 DEF Mem, u2, u
<1> QED
  BY <1>14, <1>15, <1>16, <1>18, <1>19 DEF u, mm, v

(* page_fault_handler copies the kernel's entry: no place changes. *)
EntryCopied(mm, d, t) == [mm EXCEPT ![d][t] = mm[KERNEL][t]]

(* Copying an entry of the kernel changes no place. *)
LEMMA TouchSound ==
    ASSUME NEW u, NEW mm, NEW D, Sound(u, mm, D), NEW d \in D, NEW v \in Pages(KERNEL),
           mm[d][PDI(v)] = 0, mm[KERNEL][PDI(v)] # 0,
           NEW m2, m2 = EntryCopied(mm, d, PDI(v))
    PROVE  Sound(u, m2, D) /\ Loose(u, m2, D) = Loose(u, mm, D) /\ SameAt(mm, m2, D)
<1> DEFINE t == PDI(v)
           x == mm[KERNEL][t]
           high == USER_TABLES..USER_TABLES + HEAP_TABLES - 1
           low == 0..USER_TABLES - 1
<1>0. mm \in Memory /\ D \subseteq Word /\ KERNEL \in D /\ Shared(mm, D) /\ d \in Word
  BY DEF Sound
<1>1. d # KERNEL /\ d # 0
  BY DEF KERNEL
<1>2. t \in high /\ t \in Entries /\ Half(KERNEL) = high /\ Half(d) = low
  BY <1>1, PageIndex, Sizes DEF Half
<1>3. low \cap high = {}
  BY Sizes
<1>4. x \in Word /\ x # 0 /\ x \notin D
  <2>1. t \in Half(KERNEL)
    BY <1>2
  <2>2. mm[KERNEL][t] # 0
    OBVIOUS
  <2> HIDE DEF t
  <2> QED
    BY <1>0, <2>1, <2>2, RowsInUse
<1>s. \A m : Shared(m, D) <=> (\A r \in low : m[KERNEL][r] = 0)
                          /\ \A e \in D : \A r \in high : m[e][r] \in {0, m[KERNEL][r]}
  BY DEF Shared
<1>x. x = mm[KERNEL][t] /\ m2 = [mm EXCEPT ![d][t] = x]
  BY DEF EntryCopied
<1> HIDE DEF t, x, high, low
<1>5. mm[d] \in [Entries -> Word]
  BY <1>0 DEF Memory
<1>6. m2[d] = [mm[d] EXCEPT ![t] = x] /\ m2 \in Memory
  <2> DEFINE row == [mm[d] EXCEPT ![t] = x]
  <2>1. m2 = [mm EXCEPT ![d] = row]
    BY <1>0, <1>x DEF Memory
  <2>2. row \in [Entries -> Word]
    BY <1>2, <1>4, <1>5
  <2>3. row = [mm[d] EXCEPT ![t] = x]
    OBVIOUS
  <2> HIDE DEF row
  <2>4. \A mx : mx = [mm EXCEPT ![d] = row] => mx[d] = row /\ mx \in Memory
    BY <1>0, <2>2 DEF Memory
  <2> QED
    BY <2>1, <2>3, <2>4
<1>7. \A e \in Word : e # d => m2[e] = mm[e]
  BY <1>0, <1>x DEF Memory
<1>8. m2[d][t] = x /\ \A r \in Entries : r # t => m2[d][r] = mm[d][r]
  BY <1>2, <1>5, <1>6
<1>9. \A e \in D : \A r \in Half(e) : m2[e][r] = mm[e][r]
  <2> SUFFICES ASSUME NEW e \in D, NEW r \in Half(e) PROVE m2[e][r] = mm[e][r]
    OBVIOUS
  <2>1. CASE e # d
    BY <2>1, <1>0, <1>7
  <2>2. CASE e = d
    <3>1. r # t /\ r \in Entries
      BY <2>2, <1>0, <1>2, <1>3, Sizes
    <3> QED
      BY <2>2, <3>1, <1>8
  <2> QED
    BY <2>1, <2>2
<1>10. \A e \in D : \A r \in Half(e) : \A i \in Cells : Page(m2, e, r, i) = Page(mm, e, r, i)
  <2> SUFFICES ASSUME NEW e \in D, NEW r \in Half(e), NEW i \in Cells PROVE Page(m2, e, r, i) = Page(mm, e, r, i)
    OBVIOUS
  <2>1. m2[e][r] = mm[e][r] /\ mm[e][r] \in Word /\ (mm[e][r] # 0 => mm[e][r] # d)
    BY <1>9, RowsInUse
  <2> QED
    BY <2>1, <1>7 DEF Page
<1>11. SameAt(mm, m2, D)
  <2> SUFFICES ASSUME NEW s \in Slots(D) PROVE At(m2, s) = At(mm, s)
    BY DEF SameAt
  <2>1. CASE \E e \in D \ {KERNEL} : s = DirSlot(e)
    BY <1>0, <2>1, AtSlot
  <2>2. CASE \E e \in D : \E r \in Half(e) : s = TabSlot(e, r)
    <3>1. PICK e \in D : \E r \in Half(e) : s = TabSlot(e, r)
      BY <2>2
    <3>2. PICK r \in Half(e) : s = TabSlot(e, r)
      BY <3>1
    <3>3. e \in Word
      BY <1>0
    <3>4. At(mm, s) = mm[e][r] /\ At(m2, s) = m2[e][r]
      BY <3>2, <3>3, AtTab
    <3> QED
      BY <1>9, <3>4
  <2>3. CASE \E e \in D : \E r \in Half(e) : \E j \in Cells : s = PagSlot(e, r, j)
    <3>1. PICK e \in D : \E r \in Half(e) : \E j \in Cells : s = PagSlot(e, r, j)
      BY <2>3
    <3>2. PICK r \in Half(e), j \in Cells : s = PagSlot(e, r, j)
      BY <3>1
    <3>3. e \in Word
      BY <1>0
    <3>4. At(mm, s) = Page(mm, e, r, j) /\ At(m2, s) = Page(m2, e, r, j)
      BY <3>2, <3>3, AtPag
    <3> QED
      BY <1>10, <3>4
  <2> QED
    BY <1>0, <2>1, <2>2, <2>3, SlotKinds
<1>12. Shared(m2, D)
  <2>1. m2[KERNEL] = mm[KERNEL]
    BY <1>0, <1>1, <1>7
  <2>2. ASSUME NEW e \in D, NEW r \in high PROVE m2[e][r] \in {0, mm[KERNEL][r]}
    <3>1. mm[e][r] \in {0, mm[KERNEL][r]}
      BY <1>0, <1>s
    <3>2. CASE e # d
      BY <1>0, <1>7, <3>1, <3>2
    <3>3. CASE e = d /\ r = t
      BY <1>8, <1>x, <3>3
    <3>4. CASE e = d /\ r # t
      BY <1>8, <3>1, <3>4, <1>2, Sizes
    <3> QED
      BY <3>2, <3>3, <3>4
  <2>3. \A r \in low : m2[KERNEL][r] = 0
    BY <1>0, <1>s, <2>1
  <2>4. \A e \in D : \A r \in high : m2[e][r] \in {0, m2[KERNEL][r]}
    BY <2>1, <2>2
  <2> QED
    BY <1>s, <2>3, <2>4
<1> QED
  BY <1>6, <1>11, <1>12, SameAtSound

-----------------------------------------------------------------------------
(* Pages of P bytes that hold the bytes from m up to e. *)
LEMMA PagesOfBytes ==
    ASSUME NEW P \in Nat, P > 0, NEW m \in Nat, NEW e \in Nat, m <= e, NEW B \in Nat, e <= B * P,
           NEW f, f = m \div P, NEW z, z = e - f * P,
           NEW n, n = (z \div P) + (IF z % P > 0 THEN 1 ELSE 0)
    PROVE  /\ f \in Nat /\ n \in Nat /\ f + n <= B
           /\ \A b \in m..e - 1 : b \div P \in f..f + n - 1
<1>1. f \in Int /\ m = P * f + (m % P) /\ m % P \in 0..P - 1
  BY DivMod
<1>2. P * f \in Int /\ f * P = P * f /\ P * f <= m /\ m < P * f + P
  <2> DEFINE r == m % P
             h == P * f
  <2>1. h \in Int /\ f * P = h /\ m = h + r /\ r \in 0..P - 1
    BY <1>1
  <2> HIDE DEF r, h
  <2>2. h <= m /\ m < h + P
    BY <2>1
  <2> QED
    BY <2>1, <2>2 DEF h
<1>3. f \in Nat
  <2> SUFFICES ASSUME f + 1 <= 0 PROVE FALSE
    BY <1>1
  <2>1. P * (f + 1) <= P * 0 /\ P * (f + 1) = P * f + P /\ P * 0 = 0
    BY <1>1
  <2> QED
    BY <1>2, <2>1
<1>4. z \in Nat
  BY <1>2
<1> DEFINE q == z \div P
           r == z % P
<1>5. q \in Int /\ z = P * q + r /\ r \in 0..P - 1
  BY <1>4, DivMod
<1>6. n = q + (IF r > 0 THEN 1 ELSE 0)
  OBVIOUS
<1> HIDE DEF q, r
<1>7. P * q \in Int /\ n \in Int /\ P * n \in Int
  BY <1>5, <1>6
<1>8. n = q \/ (n = q + 1 /\ r > 0)
  BY <1>5, <1>6
<1>9. z <= P * n
  <2>1. CASE n = q
    <3>1. r = 0
      BY <1>5, <1>6, <2>1
    <3> QED
      BY <1>5, <1>7, <2>1, <3>1
  <2>2. CASE n = q + 1
    <3>1. P * n = P * q + P
      BY <1>5, <2>2
    <3> QED
      BY <1>5, <1>7, <3>1
  <2> QED
    BY <1>8, <2>1, <2>2
<1>10. n \in Nat
  <2> SUFFICES ASSUME n + 1 <= 0 PROVE FALSE
    BY <1>7
  <2>1. P * (n + 1) <= P * 0 /\ P * (n + 1) = P * n + P /\ P * 0 = 0
    BY <1>7
  <2> QED
    BY <1>4, <1>7, <1>9, <2>1
<1>11. f + n <= B
  <2> SUFFICES ASSUME B + 1 <= f + n PROVE FALSE
    BY <1>1, <1>7
  <2>1. P * (B + 1) <= P * (f + n) /\ P * (B + 1) = P * B + P /\ P * (f + n) = P * f + P * n /\ P * B = B * P /\ P * B \in Int
    BY <1>1, <1>7
  <2>2. P * n <= P * q + P /\ (P * n = P * q + P => r > 0)
    <3>1. CASE n = q
      BY <1>7, <3>1
    <3>2. CASE n = q + 1 /\ r > 0
      <4>1. P * n = P * q + P
        BY <1>5, <3>2
      <4> QED
        BY <3>2, <4>1, <1>7
    <3> QED
      BY <1>8, <3>1, <3>2
  <2>3. P * n = P * q \/ P * n = P * q + P
    <3>1. n = q + 1 => P * n = P * q + P
      BY <1>5
    <3> QED
      BY <1>8, <3>1
  <2> DEFINE Pf == P * f
             Pq == P * q
             Pn == P * n
             PB == P * B
  <2>4. PB + P <= Pf + Pn /\ e <= PB /\ z = e - Pf /\ z = Pq + r /\ r \in 0..P - 1 /\ Pf \in Int /\ Pq \in Int /\ PB \in Int
        /\ (Pn = Pq \/ (Pn = Pq + P /\ r > 0))
    BY <1>2, <1>5, <1>7, <2>1, <2>2, <2>3
  <2> HIDE DEF Pf, Pq, Pn, PB
  <2> QED
    BY <2>4
<1>12. ASSUME NEW b \in m..e - 1 PROVE b \div P \in f..f + n - 1
  <2> DEFINE c == b \div P
             s == b % P
  <2>1. b \in Nat /\ m <= b /\ b < e
    OBVIOUS
  <2>2. c \in Int /\ b = P * c + s /\ s \in 0..P - 1
    BY <2>1, DivMod
  <2> HIDE DEF c, s
  <2>3. P * c \in Int
    BY <2>2
  <2>4. f <= c
    <3> SUFFICES ASSUME c + 1 <= f PROVE FALSE
      BY <1>1, <2>2
    <3>1. P * (c + 1) <= P * f /\ P * (c + 1) = P * c + P
      BY <1>1, <2>2
    <3> QED
      BY <1>2, <2>1, <2>2, <2>3, <3>1
  <2>5. c < f + n
    <3> SUFFICES ASSUME f + n <= c PROVE FALSE
      BY <1>1, <1>7, <2>2
    <3>1. P * (f + n) <= P * c /\ P * (f + n) = P * f + P * n
      BY <1>1, <1>7, <2>2
    <3> QED
      BY <1>2, <1>7, <1>9, <2>1, <2>2, <2>3, <3>1
  <2>6. c \in f..f + n - 1
    BY <1>1, <1>7, <2>2, <2>4, <2>5
  <2> QED
    BY <2>6 DEF c
<1> QED
  BY <1>3, <1>10, <1>11, <1>12

(* A bounded, non-empty set of naturals has a greatest element. *)
LEMMA Greatest ==
    ASSUME NEW S \in SUBSET Nat, S # {}, NEW B \in Nat, \A x \in S : x <= B
    PROVE  Max(S) \in S /\ \A y \in S : Max(S) >= y
<1> DEFINE T == {B - x : x \in S}
<1>1. T \in SUBSET Nat /\ T # {}
  <2>1. \A x \in S : B - x \in Nat /\ B - x \in T
    OBVIOUS
  <2> QED
    BY <2>1
<1>2. Min(T) \in T /\ \A y \in T : Min(T) <= y
  <2> HIDE DEF T
  <2> QED
    BY <1>1, LeastNat
<1>3. PICK x \in S : Min(T) = B - x
  BY <1>2
<1>4. ASSUME NEW y \in S PROVE x >= y
  <2>1. B - y \in T
    OBVIOUS
  <2>2. B - x <= B - y
    BY <1>2, <1>3, <2>1
  <2> QED
    BY <2>2
<1> QED
  BY <1>4 DEF Max

StackBase == USER_TABLES * ENTRIES - USER_STACK

(* The pages of the user stack. *)
LEMMA StackFacts ==
    /\ StackBase \in Nat /\ USER_STACK \in Nat /\ USER_STACK > 0
    /\ StackPages = StackBase..StackBase + USER_STACK - 1
    /\ StackPages \subseteq UserPages /\ UserPages \subseteq Nat
    /\ Min(StackPages) = StackBase
    /\ \A d \in Frame : Pages(d) = UserPages
<1> DEFINE a == USER_TABLES * ENTRIES
           b == USER_STACK
<1>1. a \in Nat /\ b \in 1..a
  BY AddressSpaceAssumption
<1>2. StackBase = a - b /\ UserPages = 0..a - 1 /\ StackPages = {v \in UserPages : v >= a - b}
  BY DEF StackBase, UserPages, StackPages
<1>b. b = USER_STACK
  OBVIOUS
<1> HIDE DEF a, b
<1>3. StackBase \in Nat /\ b \in Nat /\ b > 0
  BY <1>1, <1>2
<1>4. StackPages = (a - b)..(a - b) + b - 1
  BY <1>1, <1>2
<1>5. StackPages \subseteq UserPages /\ UserPages \subseteq Nat
  BY <1>1, <1>2
<1>6. a - b \in StackPages /\ \A v \in StackPages : a - b <= v
  BY <1>1, <1>2
<1>7. Min(StackPages) \in StackPages /\ \A v \in StackPages : Min(StackPages) <= v
  BY <1>5, <1>6, LeastNat
<1>8. Min(StackPages) = a - b
  <2> DEFINE k == Min(StackPages)
  <2>1. k \in Nat /\ k <= a - b /\ a - b <= k
    BY <1>5, <1>6, <1>7
  <2> HIDE DEF k
  <2>2. k = a - b
    BY <1>1, <2>1
  <2> QED
    BY <2>2 DEF k
<1>9. \A d \in Frame : Pages(d) = UserPages
  BY Sizes DEF Pages
<1> QED
  BY <1>2, <1>3, <1>4, <1>5, <1>8, <1>9, <1>b

(* The pages of a program lie below the stack and hold every byte of it. *)
LEMMA ImageFacts ==
    ASSUME NEW img \in Images
    PROVE  /\ FirstPage(img) \in Nat /\ RequiredPages(img) \in Nat
           /\ ImagePages(img) = FirstPage(img)..FirstPage(img) + RequiredPages(img) - 1
           /\ ImagePages(img) \subseteq UserPages /\ ImagePages(img) \cap StackPages = {}
           /\ \A s \in img : \A b \in s.vaddr..s.vaddr + s.memsz - 1 : b \div PAGE \in ImagePages(img)
<1> DEFINE B == StackBase
           V == {s.vaddr : s \in img}
           m == MinAddr(img)
           x == MaxAddr(img)
           top == CHOOSE s \in img : s.vaddr = x
           e == x + LastSize(img)
           f == FirstPage(img)
           n == RequiredPages(img)
           z == e - f * PAGE
<1>0. WellLinked(img)
  BY ImagesAssumption
<1>1. /\ img # {} /\ \A s \in img : s.vaddr \in Nat /\ s.memsz \in Nat /\ s.vaddr + s.memsz <= B * PAGE
      /\ \A r, s \in img : r = s \/ Precedes(r, s) \/ Precedes(s, r)
  <2>1. img # {} /\ img \subseteq [vaddr : Nat, memsz : Nat]
    BY <1>0 DEF WellLinked
  <2>2. \A r, s \in img : r = s \/ Precedes(r, s) \/ Precedes(s, r)
    BY <1>0, Zenon DEF WellLinked
  <2>3. \A s \in img : s.vaddr + s.memsz <= StackBase * PAGE
    BY <1>0, Zenon DEF WellLinked, StackBase
  <2>4. \A s \in img : s.vaddr \in Nat /\ s.memsz \in Nat
    BY <2>1
  <2> QED
    BY <2>1, <2>2, <2>3, <2>4, Zenon
<1>2. B \in Nat /\ PAGE \in Nat /\ PAGE > 0 /\ B * PAGE \in Nat
  BY StackFacts, AddressSpaceAssumption
<1>3. V \in SUBSET Nat /\ V # {} /\ \A v \in V : v <= B * PAGE
  BY <1>1, <1>2
<1>4. m \in V /\ x \in V /\ \A v \in V : m <= v /\ v <= x
  <2> DEFINE C == B * PAGE
  <2>1. m = Min(V) /\ x = Max(V) /\ C \in Nat /\ \A v \in V : v <= C
    BY <1>2, <1>3 DEF MinAddr, MaxAddr
  <2> HIDE DEF V, C, m, x
  <2>2. Max(V) \in V /\ \A y \in V : Max(V) >= y
    BY <1>3, <2>1, Greatest
  <2>3. Min(V) \in V /\ \A y \in V : Min(V) <= y
    BY <1>3, LeastNat
  <2> QED
    BY <1>3, <2>1, <2>2, <2>3
<1>5. top \in img /\ top.vaddr = x /\ LastSize(img) = top.memsz
  BY <1>4 DEF LastSize
<1> HIDE DEF top, m, x
<1>6. \A s \in img : m <= s.vaddr /\ s.vaddr + s.memsz <= e
  <2> SUFFICES ASSUME NEW s \in img PROVE m <= s.vaddr /\ s.vaddr + s.memsz <= e
    OBVIOUS
  <2>1. s.vaddr \in V
    OBVIOUS
  <2>2. m <= s.vaddr /\ s.vaddr <= x /\ x \in Nat /\ top.memsz \in Nat
    BY <1>1, <1>3, <1>4, <1>5, <2>1
  <2> QED
    BY <1>1, <1>5, <2>2 DEF Precedes
<1>7. m \in Nat /\ e \in Nat /\ m <= e /\ e <= B * PAGE
  <2>1. m \in Nat /\ x \in Nat /\ m <= x /\ top.memsz \in Nat
    BY <1>1, <1>3, <1>4, <1>5
  <2> QED
    BY <1>1, <1>5, <2>1
<1>8. f = m \div PAGE
  BY DEF FirstPage, m
<1>9. z = e - f * PAGE /\ n = (z \div PAGE) + (IF z % PAGE > 0 THEN 1 ELSE 0)
  <2>1. z = MaxAddr(img) + LastSize(img) - FirstPage(img) * PAGE
    <3>1. x \in Int /\ LastSize(img) \in Int /\ f * PAGE \in Int
      <4>1. f \in Int
        BY <1>2, <1>7, <1>8, DivMod
      <4> HIDE DEF f
      <4> QED
        BY <1>1, <1>3, <1>4, <1>5, <1>2, <4>1
    <3>2. MaxAddr(img) = x
      BY DEF x
    <3> QED
      BY <3>1, <3>2
  <2> QED
    BY <2>1 DEF RequiredPages
<1> HIDE DEF f, n, z, e, B, V
<1>10. f \in Nat /\ n \in Nat /\ f + n <= B /\ \A b \in m..e - 1 : b \div PAGE \in f..f + n - 1
  BY <1>2, <1>7, <1>8, <1>9, PagesOfBytes
<1>11. ImagePages(img) = f..f + n - 1
  BY <1>1 DEF ImagePages, f, n
<1>12. f..f + n - 1 \subseteq UserPages /\ (f..f + n - 1) \cap StackPages = {}
  <2> DEFINE a == USER_TABLES * ENTRIES
  <2>1. a \in Nat /\ UserPages = 0..a - 1 /\ StackPages = {v \in UserPages : v >= B} /\ B = a - USER_STACK /\ USER_STACK \in Nat /\ USER_STACK > 0
    BY AddressSpaceAssumption DEF UserPages, StackPages, B, StackBase
  <2> HIDE DEF a
  <2>2. ASSUME NEW v \in f..f + n - 1 PROVE v \in 0..a - 1 /\ ~(v >= B)
    BY <1>2, <1>10, <2>1
  <2> QED
    BY <2>1, <2>2
<1>13. ASSUME NEW s \in img, NEW b \in s.vaddr..s.vaddr + s.memsz - 1 PROVE b \in m..e - 1
  <2>1. s.vaddr \in Nat /\ s.memsz \in Nat /\ m <= s.vaddr /\ s.vaddr + s.memsz <= e
    BY <1>1, <1>6
  <2> DEFINE va == s.vaddr
             sz == s.memsz
  <2>2. va \in Nat /\ sz \in Nat /\ m <= va /\ va + sz <= e /\ b \in va..va + sz - 1
    BY <2>1
  <2> HIDE DEF va, sz
  <2> QED
    BY <1>7, <2>2
<1> QED
  BY <1>10, <1>11, <1>12, <1>13 DEF f, n

-----------------------------------------------------------------------------
(* What the loops over vmmngr_map do from w to y: pages v.. of directory d. *)
MadePages(w, y, D, d, v, n) ==
    /\ y \in Mem /\ Sound(y.used, y.mem, D) /\ Grown(w, y, D, d)
    /\ Loose(w.used, w.mem, D) \subseteq Loose(y.used, y.mem, D)
    /\ \A e \in D : \A r \in Pages(e) : ~(e = d /\ r \in v..v + n - 1) => On(y.mem, e, r) = On(w.mem, e, r)
    /\ y.err = FALSE => /\ Loose(y.used, y.mem, D) = Loose(w.used, w.mem, D)
                        /\ \A r \in v..v + n - 1 : On(y.mem, d, r) # 0

NoFrames(w) == [w EXCEPT !.err = TRUE]
TakePages(w, d, phys, v, n, stop) ==
    MapPages([w EXCEPT !.used = @ \cup phys..phys + n - 1], d, phys, v, n, stop)

(* A call that does nothing. *)
LEMMA NothingMade ==
    ASSUME NEW w \in Mem, NEW D, Sound(w.used, w.mem, D), NEW d, NEW v, NEW n, NEW y, y = NoFrames(w)
    PROVE  MadePages(w, y, D, d, v, n)
<1>1. y = [used |-> w.used, mem |-> w.mem, err |-> TRUE]
  BY DEF Mem, NoFrames
<1>2. y \in Mem /\ y.used = w.used /\ y.mem = w.mem /\ y.err = TRUE
  BY <1>1 DEF Mem
<1>3. Grown(w, y, D, d)
  BY <1>2 DEF Grown
<1> QED
  BY <1>2, <1>3 DEF MadePages

(* Memory with more frames in use. *)
LEMMA Taken ==
    ASSUME NEW w \in Mem, NEW X, NEW z, z = [w EXCEPT !.used = @ \cup X]
    PROVE  z = [used |-> w.used \cup X, mem |-> w.mem, err |-> w.err]
           /\ z.used = w.used \cup X /\ z.mem = w.mem /\ z.err = w.err
BY DEF Mem

(* Frames are taken and mapped. *)
LEMMA PagesMade ==
    ASSUME NEW w \in Mem, NEW D, Sound(w.used, w.mem, D), NEW d \in D, NEW n \in Nat, NEW v \in Nat,
           NEW stop \in BOOLEAN, w.err = FALSE, NEW phys, phys = FirstFree(w, n), phys # 0,
           \A r \in v..v + n - 1 : r \in Pages(d) /\ On(w.mem, d, r) = 0,
           NEW y, y = TakePages(w, d, phys, v, n, stop)
    PROVE  MadePages(w, y, D, d, v, n)
<1> DEFINE X == phys..phys + n - 1
           z == [w EXCEPT !.used = @ \cup X]
           lw == Loose(w.used, w.mem, D)
           lz == Loose(z.used, z.mem, D)
           ly == Loose(y.used, y.mem, D)
<1>1. phys \in Frame /\ X \subseteq Frame \ w.used
  BY FirstFreeFacts
<1>2. y = MapPages(z, d, phys, v, n, stop)
  BY DEF TakePages
<1>x. X = phys..phys + n - 1
  OBVIOUS
<1> HIDE DEF X
<1>3. z = [used |-> w.used \cup X, mem |-> w.mem, err |-> w.err]
      /\ z.used = w.used \cup X /\ z.mem = w.mem /\ z.err = w.err
  <2>1. z = [w EXCEPT !.used = @ \cup X]
    OBVIOUS
  <2> HIDE DEF z
  <2> QED
    BY <2>1, Taken
<1>4. z \in Mem
  BY <1>1, <1>3 DEF Mem
<1>5. Sound(z.used, z.mem, D) /\ lz = lw \cup X
  <2> DEFINE u == w.used
             mm == w.mem
  <2>1. X \in SUBSET (Frame \ u) /\ Sound(u, mm, D)
    BY <1>1
  <2> HIDE DEF u, mm
  <2>2. Sound(u \cup X, mm, D) /\ Loose(u \cup X, mm, D) = Loose(u, mm, D) \cup X
    BY <2>1, TakeFrames
  <2> QED
    BY <2>2, <1>3 DEF u, mm
<1>6. lw \cap X = {}
  BY <1>1 DEF Loose
<1>7. phys \in Nat /\ z.err = FALSE /\ \A r \in v..v + n - 1 : r \in Pages(d) /\ On(z.mem, d, r) = 0
  BY <1>1, <1>3, Sizes
<1>8. phys..phys + n - 1 \subseteq Loose(z.used, z.mem, D)
  BY <1>5, <1>x
<1> HIDE DEF z
<1>9. y \in Mem /\ Reached(z, y, D, d, phys, v, n)
  <2>1. Sound(z.used, z.mem, D)
    BY <1>5
  <2> HIDE DEF lw, lz, ly
  <2>2. MapPages(z, d, phys, v, n, stop) \in Mem
        /\ Reached(z, MapPages(z, d, phys, v, n, stop), D, d, phys, v, n)
    BY <1>4, <1>7, <1>8, <2>1, MapPagesReach
  <2> QED
    BY <1>2, <2>2
<1>10. /\ Sound(y.used, y.mem, D) /\ Grown(z, y, D, d)
       /\ lz \ X \subseteq ly
       /\ \A e \in D : \A r \in Pages(e) : ~(e = d /\ r \in v..v + n - 1) => On(y.mem, e, r) = On(w.mem, e, r)
       /\ y.err = FALSE => ly = lz \ X /\ \A r \in v..v + n - 1 : On(y.mem, d, r) # 0
  BY <1>3, <1>9, <1>x DEF Reached
<1>11. Grown(w, y, D, d)
  BY <1>3, <1>10 DEF Grown
<1>12. lz \ X = lw
  BY <1>5, <1>6
<1> QED
  BY <1>9, <1>10, <1>11, <1>12 DEF MadePages

(* Frames in use that a call that maps pages in directory pd has no place   *)
(* for: those of before, and those vmmngr_free_page_directory will miss.    *)
LEMMA UnreachedFrames ==
    ASSUME NEW D, NEW y, NEW pd \in D, pd # KERNEL, NEW v, NEW n, Sound(used, mem, D),
           MadePages(Machine, y, D, pd, v, n)
    PROVE  Loose(y.used, y.mem, D) = Loose(used, mem, D) \cup Unreached(y, pd)
<1> DEFINE S == Slots(D)
           f == Uses(mem, D)
           g == Uses(y.mem, D)
           my == y.mem
           tabs == {my[pd][t] : t \in Tables}
<1>0. D \subseteq Word /\ KERNEL \in D /\ Placed(f, S, used) /\ pd \in Word /\ pd \in Frame
  BY Sizes DEF Sound
<1>1. Machine.used = used /\ Machine.mem = mem
  BY DEF Machine
<1>2. /\ Sound(y.used, my, D) /\ used \subseteq y.used
      /\ \A s \in S : At(my, s) = At(mem, s) \/ (At(mem, s) = 0 /\ s \in SlotsOf(pd))
      /\ Loose(used, mem, D) \subseteq Loose(y.used, my, D)
  BY <1>1 DEF MadePages, Grown
<1>3. Placed(g, S, y.used) /\ y.used \subseteq Frame
  BY <1>2 DEF Sound, Placed
<1>4. \A s \in S : f[s] = At(mem, s) /\ g[s] = At(my, s)
  BY DEF Uses
<1>5. Loose(used, mem, D) = used \ Refs(f, S) /\ Loose(y.used, my, D) = y.used \ Refs(g, S)
  BY DEF Loose
<1>6. Half(pd) = 0..USER_TABLES - 1 /\ Half(KERNEL) = USER_TABLES..USER_TABLES + HEAP_TABLES - 1
      /\ Tables = Half(pd) \cup Half(KERNEL)
  BY Sizes DEF Half, Tables
<1>7. Mapped(y, pd) = {On(my, pd, q) : q \in UserPages} \ {0} /\ Pages(pd) = UserPages
  BY <1>0, StackFacts DEF Mapped, ToPhysical, On, Page
<1>8. Unreached(y, pd) = y.used \ (used \cup Mapped(y, pd) \cup tabs)
  BY DEF Unreached
<1>9. \A q \in UserPages : \E s \in S : g[s] = On(my, pd, q)
  BY <1>0, <1>4, <1>7, PageSlots
<1>10. \A t \in Half(pd) : TabSlot(pd, t) \in S /\ g[TabSlot(pd, t)] = my[pd][t]
  BY <1>0, <1>4, SlotsThere, AtTab
<1>11. \A t \in Half(KERNEL) : TabSlot(KERNEL, t) \in S /\ g[TabSlot(KERNEL, t)] = my[KERNEL][t]
  BY <1>0, <1>4, SlotsThere, AtTab, Sizes
<1>12. \A t \in Half(KERNEL) : my[pd][t] = 0 \/ my[pd][t] = my[KERNEL][t]
  BY <1>0, <1>2, <1>6 DEF Sound, Shared
<1>m. \A x : x \in Mapped(y, pd) <=> x # 0 /\ \E q \in UserPages : x = On(my, pd, q)
  BY <1>7
<1>t. \A x : x \in tabs <=> \E t \in Tables : x = my[pd][t]
  OBVIOUS
<1>z. 0 \notin y.used
  BY <1>3, Sizes
<1> HIDE DEF S, f, g, my, tabs
<1>13. ASSUME NEW x \in Loose(y.used, my, D), x \notin used PROVE x \in Unreached(y, pd)
  <2>1. x \in y.used /\ x # 0 /\ \A s \in S : g[s] # x
    BY <1>5, <1>z DEF Refs
  <2>2. x \notin Mapped(y, pd)
    BY <1>m, <1>9, <2>1
  <2>3. x \notin tabs
    <3> SUFFICES ASSUME NEW t \in Tables, x = my[pd][t] PROVE FALSE
      BY <1>t
    <3>1. CASE t \in Half(pd)
      BY <3>1, <1>10, <2>1
    <3>2. CASE t \in Half(KERNEL)
      BY <3>2, <1>11, <1>12, <2>1
    <3> QED
      BY <1>6, <3>1, <3>2
  <2> QED
    BY <1>8, <1>13, <2>1, <2>2, <2>3
<1>14. ASSUME NEW x \in Loose(y.used, my, D), x \in used PROVE x \in Loose(used, mem, D)
  <2> SUFFICES ASSUME NEW s \in S, f[s] = x PROVE FALSE
    BY <1>5, <1>14 DEF Refs
  <2>1. x # 0
    BY <1>2, <1>14, <1>z
  <2>2. g[s] = x
    BY <1>2, <1>4, <2>1
  <2> QED
    BY <1>5, <2>1, <2>2 DEF Refs
<1>15. ASSUME NEW x \in Unreached(y, pd) PROVE x \in Loose(y.used, my, D)
  <2>1. x \in y.used /\ x \notin used /\ x \notin Mapped(y, pd) /\ x \notin tabs /\ x # 0
    BY <1>8, <1>z
  <2> SUFFICES ASSUME NEW s \in S, g[s] = x PROVE FALSE
    BY <1>5, <2>1 DEF Refs
  <2>2. CASE At(my, s) = At(mem, s)
    <3>1. f[s] = x
      BY <1>4, <2>2
    <3> QED
      BY <1>0, <2>1, <3>1 DEF Placed
  <2>3. CASE At(mem, s) = 0 /\ s \in SlotsOf(pd)
    <3>1. CASE s = DirSlot(pd)
      BY <1>0, <2>3, <3>1, AtSlot, Sizes
    <3>2. CASE \E t \in Half(pd) : s = TabSlot(pd, t)
      <4>1. PICK t \in Half(pd) : s = TabSlot(pd, t)
        BY <3>2
      <4>2. x = my[pd][t] /\ t \in Tables
        BY <1>6, <1>10, <4>1
      <4> QED
        BY <1>t, <2>1, <4>2
    <3>3. CASE \E t \in Half(pd) : \E i \in Cells : s = PagSlot(pd, t, i)
      <4>1. PICK t \in Half(pd), i \in Cells : s = PagSlot(pd, t, i)
        BY <3>3
      <4> DEFINE q == ENTRIES * t + i
      <4>2. q \in UserPages /\ PDI(q) = t /\ PTI(q) = i
        BY <1>0, <1>7, PageOf
      <4>3. x = On(my, pd, q)
        <5>1. At(my, s) = Page(my, pd, t, i)
          BY <1>0, <4>1, AtPag
        <5> QED
          BY <1>4, <4>2, <5>1 DEF On
      <4> HIDE DEF q
      <4> QED
        BY <1>m, <2>1, <4>2, <4>3
    <3> QED
      BY <2>3, <3>1, <3>2, <3>3 DEF SlotsOf
  <2> QED
    BY <1>2, <2>2, <2>3
<1> QED
  BY <1>2, <1>13, <1>14, <1>15 DEF my

(* _elf_load and the stack in process_new. *)
LEMMA MachineInOrder ==
    ASSUME NEW D, Sound(used, mem, D)
    PROVE  Machine \in Mem /\ Sound(Machine.used, Machine.mem, D) /\ Machine.err = FALSE
           /\ Machine.used = used /\ Machine.mem = mem
<1>1. used \in SUBSET Frame /\ mem \in Memory
  BY DEF Sound, Placed
<1> QED
  BY <1>1 DEF Machine, Mem

(* _elf_load has mapped pages, or failed on the way. *)
LEMMA ElfLoadMade ==
    ASSUME NEW D, Sound(used, mem, D), NEW pd \in D, pd # KERNEL, NEW img \in Images, HasOnly(mem, pd, {}),
           NEW y, y = ElfLoad(Machine, pd, img)
    PROVE  MadePages(Machine, y, D, pd, FirstPage(img), RequiredPages(img))
<1> DEFINE v == FirstPage(img)
           n == RequiredPages(img)
           phys == FirstFree(Machine, n)
<1>0. pd \in Frame /\ Pages(pd) = UserPages
  BY StackFacts, Sizes DEF Sound
<1>1. v \in Nat /\ n \in Nat /\ \A r \in v..v + n - 1 : r \in UserPages
  BY ImageFacts
<1>2. Machine \in Mem /\ Sound(Machine.used, Machine.mem, D) /\ Machine.err = FALSE /\ Machine.mem = mem
  BY MachineInOrder
<1>3. \A r \in v..v + n - 1 : r \in Pages(pd) /\ On(Machine.mem, pd, r) = 0
  BY <1>0, <1>1, <1>2 DEF HasOnly
<1>4. y = IF phys = 0 THEN NoFrames(Machine) ELSE TakePages(Machine, pd, phys, v, n, TRUE)
  BY DEF ElfLoad, NoFrames, TakePages
<1>p. phys = FirstFree(Machine, n) /\ TRUE \in BOOLEAN
  OBVIOUS
<1> HIDE DEF v, n, phys
<1>5. CASE phys = 0
  BY <1>2, <1>4, <1>5, NothingMade DEF v, n
<1>6. CASE phys # 0
  <2> DEFINE st == TRUE
  <2>1. st \in BOOLEAN /\ y = TakePages(Machine, pd, phys, v, n, st)
    BY <1>4, <1>6
  <2> HIDE DEF st
  <2>2. MadePages(Machine, y, D, pd, v, n)
    BY <1>1, <1>2, <1>3, <1>6, <1>p, <2>1, PagesMade
  <2> QED
    BY <2>2 DEF v, n
<1> QED
  BY <1>5, <1>6

(* process_new has mapped the stack, or failed on the way. *)
LEMMA StackMadePages ==
    ASSUME NEW D, Sound(used, mem, D), NEW pd \in D, pd # KERNEL, NEW img \in Images,
           HasOnly(mem, pd, ImagePages(img)), NEW y, y = StackMade(pd)
    PROVE  MadePages(Machine, y, D, pd, StackBase, USER_STACK)
<1> DEFINE v == StackBase
           n == USER_STACK
           phys == FirstFree(Machine, n)
<1>0. pd \in Frame /\ Pages(pd) = UserPages
  BY StackFacts, Sizes DEF Sound
<1>1. v \in Nat /\ n \in Nat /\ v..v + n - 1 = StackPages /\ StackPages \subseteq UserPages
  BY StackFacts
<1>2. Machine \in Mem /\ Sound(Machine.used, Machine.mem, D) /\ Machine.err = FALSE /\ Machine.mem = mem
  BY MachineInOrder
<1>3. \A r \in v..v + n - 1 : r \in Pages(pd) /\ On(Machine.mem, pd, r) = 0
  <2>1. ImagePages(img) \cap StackPages = {}
    BY ImageFacts
  <2> QED
    BY <1>0, <1>1, <1>2, <2>1 DEF HasOnly
<1>4. y = IF phys = 0 THEN NoFrames(Machine) ELSE TakePages(Machine, pd, phys, v, n, FALSE)
  BY StackFacts DEF StackMade, NoFrames, TakePages
<1>p. phys = FirstFree(Machine, n)
  OBVIOUS
<1> HIDE DEF v, n, phys
<1>5. CASE phys = 0
  BY <1>2, <1>4, <1>5, NothingMade DEF v, n
<1>6. CASE phys # 0
  <2> DEFINE st == FALSE
  <2>1. st \in BOOLEAN /\ y = TakePages(Machine, pd, phys, v, n, st)
    BY <1>4, <1>6
  <2> HIDE DEF st
  <2>2. MadePages(Machine, y, D, pd, v, n)
    BY <1>1, <1>2, <1>3, <1>6, <1>p, <2>1, PagesMade
  <2> QED
    BY <2>2 DEF v, n
<1> QED
  BY <1>5, <1>6

-----------------------------------------------------------------------------
(* Pages that stay as they were. *)
KeptOn(mm, m2, D) == \A d \in D : \A v \in Pages(d) : On(m2, d, v) = On(mm, d, v)

(* The heap is mapped as before. *)
LEMMA KeptHeap ==
    ASSUME NEW mm, NEW m2, NEW end, HeapMapped(mm, end), KeptOn(mm, m2, {KERNEL})
    PROVE  HeapMapped(m2, end)
BY HeapPages DEF HeapMapped, KeptOn

(* Programs keep their pages. *)
LEMMA KeptPrograms ==
    ASSUME NEW mm, NEW m2, NEW lv, DOMAIN lv \subseteq Frame, \A d \in DOMAIN lv : lv[d] \in Images,
           Programs(mm, lv), KeptOn(mm, m2, DOMAIN lv)
    PROVE  Programs(m2, lv)
<1> SUFFICES ASSUME NEW d \in DOMAIN lv, NEW v \in ImagePages(lv[d]) \cup StackPages PROVE On(m2, d, v) # 0
  BY DEF Programs, Has
<1>1. v \in Pages(d)
  BY ImageFacts, StackFacts
<1> QED
  BY <1>1 DEF Programs, Has, KeptOn

(* Programs that are being loaded keep their pages. *)
LEMMA KeptLoading ==
    ASSUME NEW mm, NEW m2, NEW sp, NEW D, D \subseteq Frame, \A c \in DOMAIN sp : sp[c].pd \in D,
           Loading(mm, sp), KeptOn(mm, m2, D)
    PROVE  Loading(m2, sp)
BY StackFacts DEF Loading, HasOnly, KeptOn

(* Memory after a call. *)
LEMMA Settled ==
    ASSUME NEW w, NEW D, Sound(w.used, w.mem, D), Becomes(w)
    PROVE  /\ Sound(used', mem', D) /\ Loose(used', mem', D) = Loose(w.used, w.mem, D)
           /\ KeptOn(w.mem, mem', D)
<1> DEFINE u == w.used
           mm == w.mem
           m2 == Cleaned(u, mm)
<1>1. used' = u /\ mem' = m2 /\ Sound(u, mm, D)
  BY DEF Becomes, Cleaned
<1> HIDE DEF u, mm
<1>2. m2 \in Memory /\ Sound(u, m2, D) /\ Loose(u, m2, D) = Loose(u, mm, D) /\ SameAt(mm, m2, D)
  BY <1>1, CleanedSound
<1> HIDE DEF m2
<1>3. D \subseteq Word
  BY <1>1 DEF Sound
<1>4. \A d \in D : \A v \in Pages(d) : On(m2, d, v) = On(mm, d, v)
  BY <1>2, <1>3, SameAtOn
<1> QED
  BY <1>1, <1>2, <1>4 DEF KeptOn, u, mm

(* Directories are frames, and the kernel's. *)
LEMMA DirsFacts ==
    ASSUME NEW u, NEW mm, NEW c3, NEW lv, NEW dd, NEW sp, Book(c3, lv, dd, sp), Sound(u, mm, DirsOf(lv, sp))
    PROVE  /\ KERNEL \in DirsOf(lv, sp) /\ DirsOf(lv, sp) \ {KERNEL} \subseteq Frame
           /\ DOMAIN lv \subseteq Frame /\ DOMAIN lv \subseteq DirsOf(lv, sp)
           /\ \A c \in DOMAIN sp : sp[c].pd \in DirsOf(lv, sp) \ {KERNEL} /\ sp[c].pd \in Frame
           /\ c3 \in DirsOf(lv, sp)
<1>1. DirsOf(lv, sp) \subseteq Word
  BY DEF Sound
<1>2. KERNEL \in DirsOf(lv, sp) /\ DOMAIN lv \subseteq DirsOf(lv, sp) /\ \A c \in DOMAIN sp : sp[c].pd \in DirsOf(lv, sp)
  BY DEF DirsOf
<1>3. DirsOf(lv, sp) \ {KERNEL} \subseteq Frame
  BY <1>1, Sizes
<1>4. \A c \in DOMAIN sp : sp[c].pd \in Frame /\ sp[c].pd # KERNEL
  <2> SUFFICES ASSUME NEW c \in DOMAIN sp PROVE sp[c].pd \in Frame /\ sp[c].pd # KERNEL
    OBVIOUS
  <2>1. sp[c] \in [pd : Frame, img : Images \cup {{}}]
    BY DEF Book
  <2> QED
    BY <2>1, Sizes
<1>5. KERNEL \notin DOMAIN lv /\ c3 \in {KERNEL} \cup DOMAIN lv
  BY DEF Book, CanRun
<1> QED
  BY <1>2, <1>3, <1>4, <1>5

(* A step that changes no directory's own pages, but perhaps the heap. *)
LEMMA HeapStep ==
    ASSUME MemoryInv, ~halted, live' = live, spawning' = spawning, dead' = dead, cr3' = cr3, lost' = lost,
           halted' \in BOOLEAN, Sound(used', mem', Dirs), Loose(used', mem', Dirs) = Loose(used, mem, Dirs),
           KeptOn(mem, mem', Dirs \ {KERNEL}), HeapMapped(mem', heapEnd')
    PROVE  MemoryInv'
<1>1. Dirs' = Dirs
  BY DEF Dirs, DirsOf
<1>2. /\ Book(cr3, live, dead, spawning) /\ Sound(used, mem, DirsOf(live, spawning))
      /\ Programs(mem, live) /\ Loading(mem, spawning) /\ lost = Loose(used, mem, Dirs)
  BY DEF MemoryInv, Dirs
<1>3. /\ Dirs \ {KERNEL} \subseteq Frame /\ DOMAIN live \subseteq Frame /\ DOMAIN live \subseteq Dirs \ {KERNEL}
      /\ \A c \in DOMAIN spawning : spawning[c].pd \in Dirs \ {KERNEL}
  BY <1>2, DirsFacts DEF Dirs, Book
<1>4. Programs(mem', live)
  <2>1. \A d \in DOMAIN live : live[d] \in Images
    BY <1>2 DEF Book
  <2>2. KeptOn(mem, mem', DOMAIN live)
    BY <1>3 DEF KeptOn
  <2> QED
    BY <1>2, <1>3, <2>1, <2>2, KeptPrograms
<1>5. Loading(mem', spawning)
  BY <1>2, <1>3, KeptLoading
<1>6. Book(cr3', live', dead', spawning')
  BY <1>2
<1>7. Sound(used', mem', Dirs') /\ lost' = Loose(used', mem', Dirs')
  BY <1>1, <1>2
<1> QED
  BY <1>4, <1>5, <1>6, <1>7 DEF MemoryInv

(* Another process runs, perhaps because this one was killed. *)
LEMMA SwitchStep ==
    ASSUME MemoryInv, NEW p \in Runnable, Switch(p) \/ Kill(p)
    PROVE  MemoryInv'
<1>1. Dirs' = Dirs
  BY DEF Dirs, DirsOf, Switch, Kill
<1>2. Book(cr3', live', dead', spawning')
  BY DEF MemoryInv, Book, CanRun, Switch, Kill, Runnable
<1> QED
  BY <1>1, <1>2 DEF MemoryInv, Switch, Kill

(* heap_expand by a page, then whatever is left in free frames. *)
LEMMA HeapGrown ==
    ASSUME NEW w \in Mem, NEW D, Sound(w.used, w.mem, D), NEW d \in D, NEW end, HeapMapped(w.mem, end),
           CanGrow(w, end), GrowsWell(w, d, end), NEW y, y = Grow(w, d, end)
    PROVE  /\ y \in Mem /\ Sound(y.used, y.mem, D)
           /\ Loose(y.used, y.mem, D) = Loose(w.used, w.mem, D)
           /\ KeptOn(w.mem, y.mem, D \ {KERNEL})
           /\ HeapMapped(y.mem, end + 1)
<1>0. end \in HEAP_MIN..HEAP_MAX /\ HEAP_MIN \in Nat /\ HEAP_MAX \in Nat /\ KERNEL \in D
  BY HeapPages, AddressSpaceAssumption DEF HeapMapped, Sound
<1>1. end < HEAP_MAX /\ FirstFree(w, 1) # 0
  BY DEF CanGrow
<1>4. end \in 0..HEAP_MAX - 1
  BY <1>0, <1>1
<1>5. On(w.mem, KERNEL, HeapPage(end)) = 0
  BY <1>0, <1>4 DEF HeapMapped
<1>7. /\ y \in Mem /\ Sound(y.used, y.mem, D)
      /\ Loose(y.used, y.mem, D) = Loose(w.used, w.mem, D)
      /\ On(y.mem, KERNEL, HeapPage(end)) # 0
      /\ OthersKept(w, y, D, HeapPage(end))
  BY <1>1, <1>4, <1>5, GrowSound
<1>9. KeptOn(w.mem, y.mem, D \ {KERNEL})
  BY <1>7 DEF KeptOn, OthersKept
<1>10. HeapMapped(y.mem, end + 1)
  <2>1. end + 1 \in HEAP_MIN..HEAP_MAX
    BY <1>0, <1>4
  <2>2. ASSUME NEW i \in 0..HEAP_MAX - 1 PROVE On(y.mem, KERNEL, HeapPage(i)) # 0 <=> i < end + 1
    <3>1. HeapPage(i) \in Pages(KERNEL) /\ (HeapPage(i) = HeapPage(end) => i = end)
      BY <1>0, <1>4, HeapPages
    <3>3. CASE i = end
      BY <1>0, <1>7, <3>3
    <3>4. CASE i # end
      <4>1. On(y.mem, KERNEL, HeapPage(i)) = On(w.mem, KERNEL, HeapPage(i))
        BY <1>0, <1>7, <3>1, <3>4 DEF OthersKept
      <4>2. On(w.mem, KERNEL, HeapPage(i)) # 0 <=> i < end
        BY <1>0 DEF HeapMapped
      <4> QED
        BY <1>0, <3>4, <4>1, <4>2
    <3> QED
      BY <3>3, <3>4
  <2> QED
    BY <2>1, <2>2 DEF HeapMapped
<1> QED
  BY <1>7, <1>9, <1>10

(* kmalloc expands the heap. *)
LEMMA GrowStep ==
    ASSUME MemoryInv, ~halted, amiss' = "nothing", KmallocGrows
    PROVE  MemoryInv'
<1>1. CanGrow(Machine, heapEnd) /\ GrowsWell(Machine, cr3, heapEnd)
  BY DEF KmallocGrows
<1>2. PICK w : w = Grow(Machine, cr3, heapEnd) /\ Becomes(w)
  BY DEF KmallocGrows
<1>3. Sound(used, mem, Dirs) /\ cr3 \in Dirs /\ KERNEL \in Dirs
  BY DirsFacts DEF MemoryInv, Dirs
<1>6. /\ Machine \in Mem /\ Sound(Machine.used, Machine.mem, Dirs) /\ Machine.used = used /\ Machine.mem = mem
      /\ HeapMapped(Machine.mem, heapEnd)
  BY <1>3, MachineInOrder DEF MemoryInv
<1> HIDE DEF Dirs
<1>7. /\ w \in Mem /\ Sound(w.used, w.mem, Dirs)
      /\ Loose(w.used, w.mem, Dirs) = Loose(used, mem, Dirs)
      /\ KeptOn(mem, w.mem, Dirs \ {KERNEL})
      /\ HeapMapped(w.mem, heapEnd + 1)
  BY <1>1, <1>2, <1>3, <1>6, HeapGrown
<1>8. /\ Sound(used', mem', Dirs) /\ Loose(used', mem', Dirs) = Loose(w.used, w.mem, Dirs)
      /\ KeptOn(w.mem, mem', Dirs)
  BY <1>2, <1>7, Settled
<1>9. KeptOn(mem, mem', Dirs \ {KERNEL}) /\ KeptOn(w.mem, mem', {KERNEL})
  BY <1>3, <1>7, <1>8 DEF KeptOn
<1>11. /\ live' = live /\ spawning' = spawning /\ dead' = dead /\ cr3' = cr3 /\ lost' = lost
       /\ halted' = halted /\ heapEnd' = heapEnd + 1
  BY DEF KmallocGrows
<1>12. halted' \in BOOLEAN /\ Loose(used', mem', Dirs) = Loose(used, mem, Dirs) /\ HeapMapped(mem', heapEnd')
  BY <1>7, <1>8, <1>9, <1>11, KeptHeap DEF MemoryInv
<1> QED
  BY <1>8, <1>9, <1>11, <1>12, HeapStep

(* Memory in which only the other half of a directory has changed. *)
LEMMA KeptRows ==
    ASSUME NEW u, NEW mm, NEW D, Sound(u, mm, D), NEW d \in D, NEW m2,
           \A x \in (u \cup {KERNEL}) \ {d} : m2[x] = mm[x], \A t \in Half(d) : m2[d][t] = mm[d][t]
    PROVE  KeptOn(mm, m2, D)
<1> SUFFICES ASSUME NEW e \in D, NEW v \in Pages(e) PROVE On(m2, e, v) = On(mm, e, v)
  BY DEF KeptOn
<1> DEFINE t == PDI(v)
<1>1. e \in Word /\ t \in Half(e)
  BY PageIndex DEF Sound
<1>2. e # d => e \in u \cup {KERNEL}
  BY RowsInUse
<1> HIDE DEF t
<1>3. m2[e][t] = mm[e][t]
  BY <1>1, <1>2
<1>4. mm[e][t] # 0 => m2[mm[e][t]] = mm[mm[e][t]]
  BY <1>1, RowsInUse
<1> QED
  BY <1>3, <1>4 DEF On, Page, t

(* heap_expand by a page where the table is missing: the page is mapped by  *)
(* a table of the running directory's own, or by none.                      *)
LEMMA StrayGrowth ==
    ASSUME NEW w \in Mem, NEW D, Sound(w.used, w.mem, D), NEW d \in D, NEW end, HeapMapped(w.mem, end),
           CanGrow(w, end), ~GrowsWell(w, d, end), NEW y, y = Grow(w, d, end), Becomes(y)
    PROVE  KeptOn(w.mem, mem', D) /\ On(mem', KERNEL, HeapPage(end)) = 0
<1> DEFINE v == HeapPage(end)
           t == PDI(v)
           phys == FirstFree(w, 1)
           z == [w EXCEPT !.used = @ \cup {phys}]
           new == FirstFree(z, 1)
           mm == w.mem
           m2 == mem'
<1>0. /\ end \in 0..HEAP_MAX - 1 /\ v \in Pages(KERNEL) /\ KERNEL \in D /\ D \subseteq Word
      /\ w.used \subseteq Frame /\ mm \in Memory
  <2>1. end \in HEAP_MIN..HEAP_MAX /\ HEAP_MIN \in Nat /\ end < HEAP_MAX /\ HEAP_MAX \in Nat
    BY HeapPages, AddressSpaceAssumption DEF HeapMapped, CanGrow
  <2>2. end \in 0..HEAP_MAX - 1
    BY <2>1
  <2> QED
    BY <2>2, HeapPages DEF Sound, Placed
<1>1. phys \in Frame \ w.used
  BY OneFree DEF CanGrow
<1>2. z.used = w.used \cup {phys} /\ z.mem = mm /\ z \in Mem
  <2> HIDE DEF phys
  <2> QED
    BY <1>1 DEF Mem
<1>3. On(mm, KERNEL, v) = 0
  <2>1. end \in HEAP_MIN..HEAP_MAX /\ HEAP_MIN \in Nat
    BY AddressSpaceAssumption DEF HeapMapped
  <2> QED
    BY <1>0, <2>1 DEF HeapMapped
<1>4. mm[d][t] = 0 /\ ~(d = KERNEL /\ Cardinality(Frame \ w.used) > 1)
  BY DEF GrowsWell
<1>5. t \in Half(KERNEL) /\ t \in Entries
  BY <1>0, PageIndex, Sizes
<1>6. DOMAIN mm = Word /\ (w.used \cup {KERNEL}) \subseteq Word /\ d \in Word
  BY <1>0, Sizes DEF Memory
<1>7. y = Map(z, d, phys, v) /\ z.mem[d][t] = 0
  BY <1>2, <1>4 DEF Grow
<1> HIDE DEF phys, z, v
<1>8. CASE new = 0
  <2>1. y.mem = mm /\ y.used = z.used
    <3>1. y = [z EXCEPT !.err = TRUE]
      BY <1>7, <1>8 DEF Map
    <3> QED
      BY <1>2, <3>1 DEF Mem
  <2>2. \A x \in w.used \cup {KERNEL} : m2[x] = mm[x]
    BY <1>2, <1>6, <2>1 DEF Becomes
  <2> HIDE DEF m2
  <2>3. m2[d] = mm[d]
    BY <2>2, RowsInUse
  <2>4. \A x \in (w.used \cup {KERNEL}) \ {d} : m2[x] = mm[x]
    BY <2>2
  <2>5. \A r \in Half(d) : m2[d][r] = mm[d][r]
    BY <2>3
  <2> HIDE DEF mm
  <2>6. Sound(w.used, mm, D)
    BY DEF mm
  <2>7. KeptOn(mm, m2, D)
    BY <2>4, <2>5, <2>6, KeptRows
  <2> QED
    BY <1>0, <1>3, <2>7 DEF KeptOn, m2, mm, v
<1>9. CASE new # 0
  <2>1. new \in Frame /\ new \notin w.used /\ new # phys
    BY <1>2, <1>9, OneFree
  <2>2. d # KERNEL
    <3> SUFFICES Cardinality(Frame \ w.used) > 1
      BY <1>4
    <3> DEFINE S == Frame \ w.used
               R == S \ {phys}
    <3>1. IsFiniteSet(S) /\ IsFiniteSet(R)
      <4>1. IsFiniteSet(Frame)
        BY FS_Interval, Sizes DEF Frame
      <4>2. IsFiniteSet(S)
        BY <4>1, FS_Subset
      <4>3. R \subseteq S
        OBVIOUS
      <4> HIDE DEF R, S
      <4> QED
        BY <4>2, <4>3, FS_Subset
    <3>2. phys \in S /\ new \in R
      BY <1>1, <2>1
    <3> HIDE DEF S
    <3>3. Cardinality(R) = Cardinality(S) - 1 /\ Cardinality(S) \in Nat
      BY <3>1, <3>2, FS_RemoveElement, FS_CardinalityType
    <3> HIDE DEF R
    <3>4. Cardinality(R) # 0 /\ Cardinality(R) \in Nat
      BY <3>1, <3>2, FS_EmptySet, FS_CardinalityType
    <3> QED
      BY <3>3, <3>4 DEF S
  <2>3. d \in w.used /\ d # new
    BY <2>1, <2>2, RowsInUse
  <2> DEFINE row == [NoEntries EXCEPT ![PTI(v)] = phys]
  <2>4. y.mem = [mm EXCEPT ![d][t] = new, ![new] = row] /\ y.used = z.used \cup {new}
    <3>1. y = [z EXCEPT !.used = @ \cup {new}, !.mem[d][t] = new, !.mem[new] = row]
      BY <1>7, <1>9 DEF Map
    <3> HIDE DEF row, new, t, mm
    <3> QED
      BY <1>2, <3>1 DEF Mem
  <2> HIDE DEF row, new, t, mm
  <2>5. \A x \in (w.used \cup {KERNEL}) \ {d} : y.mem[x] = mm[x]
    <3> SUFFICES ASSUME NEW x \in (w.used \cup {KERNEL}) \ {d} PROVE y.mem[x] = mm[x]
      OBVIOUS
    <3>1. x # new /\ x \in Word
      BY <1>6, <2>1, Sizes
    <3> QED
      BY <1>6, <2>4, <3>1
  <2>6. \A r \in Entries : r # t => y.mem[d][r] = mm[d][r]
    <3>1. DOMAIN mm[d] = Entries
      BY <1>0, <1>6 DEF Memory
    <3> QED
      BY <1>6, <2>3, <2>4, <3>1
  <2>7. \A r \in Half(d) : r # t /\ r \in Entries
    <3>1. \A r \in Half(d) : r # t
      BY <1>5, <2>2, Sizes DEF Half
    <3> QED
      BY <1>6, <3>1, Sizes
  <2>8. \A x \in w.used \cup {KERNEL} : m2[x] = y.mem[x]
    <3>1. DOMAIN y.mem = Word
      BY <1>6, <2>4
    <3> QED
      BY <1>2, <1>6, <2>4, <3>1 DEF Becomes
  <2> HIDE DEF m2
  <2>9. \A x \in (w.used \cup {KERNEL}) \ {d} : m2[x] = mm[x]
    BY <2>5, <2>8
  <2>10. \A r \in Half(d) : m2[d][r] = mm[d][r]
    BY <2>3, <2>6, <2>7, <2>8
  <2>11. Sound(w.used, mm, D)
    BY DEF mm
  <2>12. KeptOn(mm, m2, D)
    BY <2>9, <2>10, <2>11, KeptRows
  <2> QED
    BY <1>0, <1>3, <2>12 DEF KeptOn, m2, mm, v
<1> QED
  BY <1>8, <1>9

(* kmalloc expands the heap where its table is missing. *)
LEMMA GrowAstray ==
    ASSUME MemoryInv, ~halted, amiss = "nothing", amiss' # "nothing", KmallocGrows
    PROVE  Astray'
<1>1. CanGrow(Machine, heapEnd) /\ ~GrowsWell(Machine, cr3, heapEnd) /\ amiss' = "grown"
  BY DEF KmallocGrows
<1>2. PICK w : w = Grow(Machine, cr3, heapEnd) /\ Becomes(w)
  BY DEF KmallocGrows
<1>3. Sound(used, mem, Dirs) /\ cr3 \in Dirs /\ DOMAIN live \subseteq Dirs /\ DOMAIN live \subseteq Frame
  BY DirsFacts DEF MemoryInv, Dirs
<1>4. /\ Machine \in Mem /\ Sound(Machine.used, Machine.mem, Dirs) /\ Machine.mem = mem
      /\ HeapMapped(Machine.mem, heapEnd)
  BY <1>3, MachineInOrder DEF MemoryInv
<1> HIDE DEF Dirs
<1>5. KeptOn(mem, mem', Dirs) /\ On(mem', KERNEL, HeapPage(heapEnd)) = 0
  BY <1>1, <1>2, <1>3, <1>4, StrayGrowth
<1>6. /\ live' = live /\ spawning' = spawning /\ dead' = dead /\ cr3' = cr3 /\ heapEnd' = heapEnd + 1
  BY DEF KmallocGrows
<1>7. Book(cr3, live, dead, spawning) /\ Programs(mem, live) /\ \A d \in DOMAIN live : live[d] \in Images
  BY DEF MemoryInv, Book
<1>8. Programs(mem', live)
  <2>1. KeptOn(mem, mem', DOMAIN live)
    BY <1>3, <1>5 DEF KeptOn
  <2> QED
    BY <1>3, <1>7, <2>1, KeptPrograms
<1>9. heapEnd' \in Nat \ {0} /\ heapEnd' - 1 = heapEnd
  <2>1. heapEnd \in Nat
    BY AddressSpaceAssumption DEF MemoryInv, HeapMapped
  <2> QED
    BY <1>6, <2>1
<1> QED
  BY <1>1, <1>5, <1>6, <1>7, <1>8, <1>9 DEF Astray

(* kfree contracts the heap where its table is missing: nothing is unmapped. *)
LEMMA ShrinkAstray ==
    ASSUME MemoryInv, ~halted, amiss = "nothing", amiss' # "nothing", KfreeShrinks
    PROVE  Astray'
<1> DEFINE last == heapEnd - 1
           t == PDI(HeapPage(last))
<1>1. mem[cr3][t] = 0 /\ amiss' = "shrunk"
  BY DEF KfreeShrinks
<1>2. PICK w : w = Shrink(Machine, cr3, heapEnd) /\ Becomes(w)
  BY DEF KfreeShrinks
<1>3. /\ Sound(used, mem, Dirs) /\ KERNEL \in Dirs /\ DOMAIN live \subseteq Dirs /\ DOMAIN live \subseteq Frame
      /\ used \subseteq Frame
  BY DirsFacts DEF MemoryInv, Dirs, Sound, Placed
<1>4. w.used = used /\ w.mem = mem
  <2>1. ToPhysical(Machine, cr3, HeapPage(last)) = 0
    BY <1>1 DEF ToPhysical, Machine
  <2> DEFINE m == [Machine EXCEPT !.used = @ \ {0}]
  <2>2. m.used = used /\ m.mem = mem
    BY <1>3, Sizes DEF Machine
  <2>3. w = Unmap(m, cr3, HeapPage(last))
    BY <1>2, <2>1 DEF Shrink
  <2> HIDE DEF m
  <2>4. w = m
    BY <1>1, <2>2, <2>3 DEF Unmap
  <2> QED
    BY <2>2, <2>4
<1> HIDE DEF Dirs
<1>5. Sound(used', mem', Dirs) /\ KeptOn(mem, mem', Dirs)
  BY <1>2, <1>3, <1>4, Settled
<1>6. /\ live' = live /\ spawning' = spawning /\ dead' = dead /\ cr3' = cr3 /\ heapEnd' = last
  BY DEF KfreeShrinks
<1>7. Book(cr3, live, dead, spawning) /\ Programs(mem, live) /\ \A d \in DOMAIN live : live[d] \in Images
  BY DEF MemoryInv, Book
<1>8. Programs(mem', live)
  <2>1. KeptOn(mem, mem', DOMAIN live)
    BY <1>3, <1>5 DEF KeptOn
  <2> QED
    BY <1>3, <1>7, <2>1, KeptPrograms
<1>9. \A i \in 0..last - 1 : On(mem', KERNEL, HeapPage(i)) # 0
  <2>1. heapEnd \in Nat /\ heapEnd <= HEAP_MAX /\ HeapMapped(mem, heapEnd) /\ HEAP_MAX \in Nat
    BY AddressSpaceAssumption, HeapPages DEF MemoryInv, HeapMapped
  <2> SUFFICES ASSUME NEW i \in 0..last - 1 PROVE On(mem', KERNEL, HeapPage(i)) # 0
    OBVIOUS
  <2>2. i \in 0..HEAP_MAX - 1 /\ i < heapEnd
    BY <2>1
  <2>3. On(mem, KERNEL, HeapPage(i)) # 0 /\ HeapPage(i) \in Pages(KERNEL)
    BY <2>1, <2>2, HeapPages DEF HeapMapped
  <2> QED
    BY <1>3, <1>5, <2>3 DEF KeptOn
<1>10. Dirs' = Dirs /\ Shared(mem', Dirs)
  BY <1>5, <1>6 DEF Dirs, DirsOf, Sound
<1> QED
  BY <1>1, <1>6, <1>7, <1>8, <1>9, <1>10 DEF Astray

(* kfree contracts the heap. *)
LEMMA ShrinkStep ==
    ASSUME MemoryInv, ~halted, amiss' = "nothing", KfreeShrinks
    PROVE  MemoryInv'
<1> DEFINE last == heapEnd - 1
<1>0. heapEnd \in HEAP_MIN..HEAP_MAX /\ HEAP_MIN \in Nat /\ HEAP_MIN > 0 /\ HEAP_MAX \in Nat /\ HeapMapped(mem, heapEnd)
  BY HeapPages, AddressSpaceAssumption DEF MemoryInv, HeapMapped
<1>1. heapEnd > HEAP_MIN /\ mem[cr3][PDI(HeapPage(last))] # 0
  BY DEF KfreeShrinks
<1>2. PICK w : w = Shrink(Machine, cr3, heapEnd) /\ Becomes(w)
  BY DEF KfreeShrinks
<1>3. Sound(used, mem, Dirs) /\ cr3 \in Dirs /\ KERNEL \in Dirs
  BY DirsFacts DEF MemoryInv, Dirs
<1>4. heapEnd \in 1..HEAP_MAX /\ last \in 0..HEAP_MAX - 1 /\ last < heapEnd
  BY <1>0, <1>1
<1>5. On(mem, KERNEL, HeapPage(last)) # 0
  BY <1>0, <1>4 DEF HeapMapped
<1>6. Machine \in Mem /\ Sound(Machine.used, Machine.mem, Dirs) /\ Machine.used = used /\ Machine.mem = mem
  BY <1>3, MachineInOrder
<1> HIDE DEF Dirs
<1>7. /\ w \in Mem /\ Sound(w.used, w.mem, Dirs)
      /\ Loose(w.used, w.mem, Dirs) = Loose(used, mem, Dirs)
      /\ On(w.mem, KERNEL, HeapPage(last)) = 0
      /\ OthersKept(Machine, w, Dirs, HeapPage(last))
  BY <1>1, <1>2, <1>3, <1>4, <1>5, <1>6, ShrinkSound
<1>8. /\ Sound(used', mem', Dirs) /\ Loose(used', mem', Dirs) = Loose(w.used, w.mem, Dirs)
      /\ KeptOn(w.mem, mem', Dirs)
  BY <1>2, <1>7, Settled
<1>9. KeptOn(mem, mem', Dirs \ {KERNEL})
  BY <1>6, <1>7, <1>8 DEF KeptOn, OthersKept
<1>10. HeapMapped(mem', last)
  <2>1. last \in HEAP_MIN..HEAP_MAX
    BY <1>0, <1>1
  <2>2. ASSUME NEW i \in 0..HEAP_MAX - 1 PROVE On(mem', KERNEL, HeapPage(i)) # 0 <=> i < last
    <3>1. HeapPage(i) \in Pages(KERNEL) /\ (HeapPage(i) = HeapPage(last) => i = last)
      BY <1>0, <1>4, HeapPages
    <3>2. On(mem', KERNEL, HeapPage(i)) = On(w.mem, KERNEL, HeapPage(i))
      BY <1>3, <1>8, <3>1 DEF KeptOn
    <3>3. CASE i = last
      BY <1>0, <1>7, <3>2, <3>3
    <3>4. CASE i # last
      <4>1. On(w.mem, KERNEL, HeapPage(i)) = On(mem, KERNEL, HeapPage(i))
        BY <1>3, <1>6, <1>7, <3>1, <3>4 DEF OthersKept
      <4>2. On(mem, KERNEL, HeapPage(i)) # 0 <=> i < heapEnd
        BY <1>0 DEF HeapMapped
      <4> QED
        BY <1>0, <3>2, <3>4, <4>1, <4>2
    <3> QED
      BY <3>3, <3>4
  <2> QED
    BY <2>1, <2>2 DEF HeapMapped
<1>11. /\ live' = live /\ spawning' = spawning /\ dead' = dead /\ cr3' = cr3 /\ lost' = lost
       /\ halted' = halted /\ heapEnd' = last
  BY DEF KfreeShrinks
<1>12. halted' \in BOOLEAN /\ Loose(used', mem', Dirs) = Loose(used, mem, Dirs) /\ HeapMapped(mem', heapEnd')
  BY <1>7, <1>8, <1>10, <1>11 DEF MemoryInv
<1> QED
  BY <1>8, <1>9, <1>11, <1>12, HeapStep

(* page_fault_handler. *)
LEMMA TouchStep ==
    ASSUME MemoryInv, ~halted, NEW i \in 0..heapEnd - 1, Touch(i)
    PROVE  MemoryInv'
<1> DEFINE v == HeapPage(i)
           t == PDI(v)
<1>0. heapEnd \in HEAP_MIN..HEAP_MAX /\ HEAP_MIN \in Nat /\ HEAP_MAX \in Nat /\ HeapMapped(mem, heapEnd)
  BY HeapPages, AddressSpaceAssumption DEF MemoryInv, HeapMapped
<1>1. v \in Pages(KERNEL)
  BY <1>0, HeapPages
<1>2. Sound(used, mem, Dirs) /\ cr3 \in Dirs /\ KERNEL \in Dirs /\ Dirs \subseteq Word
  BY DirsFacts DEF MemoryInv, Dirs, Sound
<1>3. /\ live' = live /\ spawning' = spawning /\ dead' = dead /\ cr3' = cr3 /\ lost' = lost
      /\ heapEnd' = heapEnd /\ used' = used
  BY DEF Touch
<1> HIDE DEF Dirs
<1>4. CASE mem[cr3][t] = 0 /\ mem[KERNEL][t] # 0
  <2>1. mem' = [mem EXCEPT ![cr3][t] = mem[KERNEL][t]] /\ halted' = halted
    BY <1>4 DEF Touch
  <2>2. Sound(used, mem', Dirs) /\ Loose(used, mem', Dirs) = Loose(used, mem, Dirs) /\ SameAt(mem, mem', Dirs)
    <3>1. mem' = EntryCopied(mem, cr3, PDI(v)) /\ mem[cr3][PDI(v)] = 0 /\ mem[KERNEL][PDI(v)] # 0
      BY <1>4, <2>1 DEF EntryCopied
    <3> HIDE DEF v
    <3> QED
      BY <1>1, <1>2, <3>1, TouchSound
  <2>3. KeptOn(mem, mem', Dirs)
    BY <1>2, <2>2, SameAtOn DEF KeptOn
  <2>4. KeptOn(mem, mem', Dirs \ {KERNEL}) /\ KeptOn(mem, mem', {KERNEL})
    BY <1>2, <2>3 DEF KeptOn
  <2>5. HeapMapped(mem', heapEnd') /\ halted' \in BOOLEAN
    BY <1>0, <1>3, <2>1, <2>4, KeptHeap DEF MemoryInv
  <2> QED
    BY <1>3, <2>2, <2>4, <2>5, HeapStep
<1>5. CASE ~(mem[cr3][t] = 0 /\ mem[KERNEL][t] # 0)
  <2>1. mem' = mem /\ halted' = TRUE
    BY <1>5 DEF Touch
  <2>2. KeptOn(mem, mem', Dirs \ {KERNEL}) /\ HeapMapped(mem', heapEnd')
    BY <1>0, <1>3, <2>1 DEF KeptOn
  <2>3. Sound(used', mem', Dirs) /\ Loose(used', mem', Dirs) = Loose(used, mem, Dirs) /\ halted' \in BOOLEAN
    BY <1>2, <1>3, <2>1
  <2> QED
    BY <1>3, <2>2, <2>3, HeapStep
<1> QED
  BY <1>4, <1>5

-----------------------------------------------------------------------------
(* vmmngr_free_page_directory, once or twice. *)
Frees(w, d, y) == y = FreePageDirectory(w, d) \/ y = FreePageDirectory(FreePageDirectory(w, d), d)

FreedFrom(w, y, D, d) ==
    y.mem = w.mem /\ Sound(y.used, y.mem, D \ {d}) /\ Loose(y.used, y.mem, D \ {d}) = Loose(w.used, w.mem, D)

(* vmmngr_free_page_directory of one directory. *)
LEMMA FreeOne ==
    ASSUME NEW w \in Mem, NEW D, Sound(w.used, w.mem, D), NEW d \in D \ {KERNEL},
           NEW y, Frees(w, d, y)
    PROVE  FreedFrom(w, y, D, d)
<1> DEFINE F == Freed(w, d)
           x == [w EXCEPT !.used = @ \ F]
<1>1. FreePageDirectory(w, d) = x
  BY DEF FreePageDirectory
<1>2. x.used = w.used \ F /\ x.mem = w.mem /\ x = [used |-> w.used \ F, mem |-> w.mem, err |-> w.err]
  <2> HIDE DEF F
  <2> QED
    BY DEF Mem
<1>3. Freed(x, d) = F
  <2> HIDE DEF x
  <2> QED
    BY <1>2 DEF Freed
<1>4. FreePageDirectory(x, d) = [x EXCEPT !.used = @ \ F]
  BY <1>3 DEF FreePageDirectory
<1>5. y.used = w.used \ F /\ y.mem = w.mem
  <2>1. CASE y = FreePageDirectory(w, d)
    BY <1>1, <1>2, <2>1
  <2>2. CASE y = FreePageDirectory(FreePageDirectory(w, d), d)
    <3>1. y = [x EXCEPT !.used = @ \ F]
      BY <1>1, <1>4, <2>2
    <3> HIDE DEF x, F
    <3>2. y.used = x.used \ F /\ y.mem = x.mem
      BY <1>2, <3>1
    <3> QED
      BY <1>2, <3>2
  <2> QED
    BY <2>1, <2>2 DEF Frees
<1>6. F = UNION {Freed(w, e) : e \in {d}}
  OBVIOUS
<1>7. LET u2 == w.used \ UNION {Freed(w, e) : e \in {d}}
      IN Sound(u2, w.mem, D \ {d}) /\ Loose(u2, w.mem, D \ {d}) = Loose(w.used, w.mem, D)
  <2> DEFINE E == {d}
  <2>1. E \in SUBSET (D \ {KERNEL}) /\ E = {d}
    OBVIOUS
  <2> HIDE DEF E
  <2>2. LET u2 == w.used \ UNION {Freed(w, e) : e \in E}
        IN Sound(u2, w.mem, D \ E) /\ Loose(u2, w.mem, D \ E) = Loose(w.used, w.mem, D)
    BY <2>1, FreeSound
  <2> QED
    BY <2>1, <2>2
<1>8. Sound(w.used \ F, w.mem, D \ {d}) /\ Loose(w.used \ F, w.mem, D \ {d}) = Loose(w.used, w.mem, D)
  BY <1>6, <1>7
<1> HIDE DEF F
<1> QED
  BY <1>5, <1>8 DEF FreedFrom

(* A spawn call is over. *)
Ended(c, lv, dd, sp, s2, pd) ==
    /\ Book(c, lv, dd, s2)
    /\ DirsOf(lv, s2) = DirsOf(lv, sp) \ {pd}
    /\ pd \in DirsOf(lv, sp) \ {KERNEL} /\ pd \notin DOMAIN lv
    /\ DOMAIN s2 = DOMAIN sp \ {c}
    /\ \A b \in DOMAIN s2 : s2[b] = sp[b] /\ s2[b].pd # pd

(* A spawn call is over. *)
LEMMA SpawnEnds ==
    ASSUME NEW lv, NEW dd, NEW sp, NEW c, Book(c, lv, dd, sp), c \in DOMAIN sp
    PROVE  Ended(c, lv, dd, sp, Without(sp, c), sp[c].pd)
<1> DEFINE s2 == Without(sp, c)
           pd == sp[c].pd
<1>1. DOMAIN s2 = DOMAIN sp \ {c} /\ \A b \in DOMAIN s2 : s2[b] = sp[b]
  BY DEF Without
<1>2. \A b \in DOMAIN s2 : s2[b].pd # pd
  BY <1>1 DEF Book
<1>3. pd # KERNEL /\ pd \notin DOMAIN lv /\ pd \in DirsOf(lv, sp)
  <2>1. sp[c] \in [pd : Frame, img : Images \cup {{}}] /\ pd \notin DOMAIN lv
    BY DEF Book
  <2>2. pd \in DirsOf(lv, sp)
    BY DEF DirsOf
  <2> QED
    BY <2>1, <2>2, Sizes
<1>4. DirsOf(lv, s2) = DirsOf(lv, sp) \ {pd}
  <2>1. ASSUME NEW x \in DirsOf(lv, s2) PROVE x \in DirsOf(lv, sp) \ {pd}
    BY <1>1, <1>2, <1>3 DEF DirsOf
  <2>2. ASSUME NEW x \in DirsOf(lv, sp), x # pd PROVE x \in DirsOf(lv, s2)
    <3>1. CASE \E b \in DOMAIN sp : x = sp[b].pd
      <4>1. PICK b \in DOMAIN sp : x = sp[b].pd
        BY <3>1
      <4>2. b \in DOMAIN s2 /\ s2[b].pd = x
        BY <1>1, <2>2, <4>1
      <4> QED
        BY <4>2 DEF DirsOf
    <3>2. CASE x \in {KERNEL} \cup DOMAIN lv
      BY <3>2 DEF DirsOf
    <3> QED
      BY <3>1, <3>2 DEF DirsOf
  <2> QED
    BY <2>1, <2>2
<1>5. Book(c, lv, dd, s2)
  BY <1>1 DEF Book
<1> QED
  BY <1>1, <1>2, <1>3, <1>4, <1>5 DEF Ended

(* A spawn call that gives up: its directory is freed. *)
LEMMA GivesUp ==
    ASSUME MemoryInv, ~halted, cr3 \in DOMAIN spawning, NEW pd, pd = spawning[cr3].pd,
           NEW w \in Mem, Sound(w.used, w.mem, Dirs), KeptOn(mem, w.mem, Dirs \ {pd}),
           NEW y, Frees(w, pd, y), Becomes(y),
           lost' = Loose(w.used, w.mem, Dirs), spawning' = Without(spawning, cr3),
           cr3' = cr3, live' = live, dead' = dead, heapEnd' = heapEnd, halted' = halted
    PROVE  MemoryInv'
<1> DEFINE E == Dirs \ {pd}
           s2 == spawning'
<1>0. /\ Book(cr3, live, dead, spawning) /\ Sound(used, mem, DirsOf(live, spawning))
      /\ Programs(mem, live) /\ Loading(mem, spawning) /\ HeapMapped(mem, heapEnd) /\ halted \in BOOLEAN
  BY DEF MemoryInv, Dirs
<1>1. /\ Book(cr3, live, dead, s2)
      /\ DirsOf(live, s2) = DirsOf(live, spawning) \ {pd}
      /\ pd \in DirsOf(live, spawning) \ {KERNEL} /\ pd \notin DOMAIN live
      /\ DOMAIN s2 = DOMAIN spawning \ {cr3}
      /\ \A b \in DOMAIN s2 : s2[b] = spawning[b] /\ s2[b].pd # pd
  <2>1. Ended(cr3, live, dead, spawning, Without(spawning, cr3), spawning[cr3].pd)
    BY <1>0, SpawnEnds
  <2>2. Ended(cr3, live, dead, spawning, s2, pd)
    BY <2>1
  <2> QED
    BY <2>2 DEF Ended
<1>2. Dirs' = E /\ pd \in Dirs \ {KERNEL} /\ Dirs = DirsOf(live, spawning)
  BY <1>1 DEF Dirs
<1>3. /\ KERNEL \in Dirs /\ Dirs \ {KERNEL} \subseteq Frame /\ DOMAIN live \subseteq Frame /\ DOMAIN live \subseteq Dirs
      /\ \A c \in DOMAIN spawning : spawning[c].pd \in Dirs \ {KERNEL}
  BY <1>0, <1>2, DirsFacts
<1> HIDE DEF Dirs
<1>4. y.mem = w.mem /\ Sound(y.used, y.mem, E) /\ Loose(y.used, y.mem, E) = Loose(w.used, w.mem, Dirs)
  <2>1. FreedFrom(w, y, Dirs, pd)
    BY <1>2, FreeOne
  <2> QED
    BY <2>1 DEF FreedFrom
<1> HIDE DEF E
<1>5. /\ Sound(used', mem', E) /\ Loose(used', mem', E) = Loose(y.used, y.mem, E)
      /\ KeptOn(y.mem, mem', E)
  BY <1>4, Settled
<1>6. KeptOn(mem, mem', E)
  BY <1>4, <1>5 DEF KeptOn, E
<1>7. KERNEL \in E /\ DOMAIN live \subseteq E /\ \A c \in DOMAIN s2 : s2[c].pd \in E \ {KERNEL}
  BY <1>1, <1>2, <1>3 DEF E
<1>8. HeapMapped(mem', heapEnd)
  <2>1. KeptOn(mem, mem', {KERNEL})
    BY <1>6, <1>7 DEF KeptOn
  <2> QED
    BY <1>0, <2>1, KeptHeap
<1>9. Programs(mem', live)
  <2>1. KeptOn(mem, mem', DOMAIN live) /\ \A d \in DOMAIN live : live[d] \in Images
    BY <1>0, <1>6, <1>7 DEF KeptOn, Book
  <2> QED
    BY <1>0, <1>3, <2>1, KeptPrograms
<1>10. Loading(mem', s2)
  <2> DEFINE G == E \ {KERNEL}
  <2>1. KeptOn(mem, mem', G) /\ G \subseteq Frame
    BY <1>3, <1>6 DEF KeptOn, E
  <2>2. Loading(mem, s2)
    BY <1>0, <1>1 DEF Loading
  <2>3. \A c \in DOMAIN s2 : s2[c].pd \in G
    BY <1>7
  <2> HIDE DEF G, s2
  <2> QED
    BY <2>1, <2>2, <2>3, KeptLoading
<1> QED
  BY <1>0, <1>1, <1>2, <1>4, <1>5, <1>8, <1>9, <1>10 DEF MemoryInv

-----------------------------------------------------------------------------
(* Mapping pages in one directory leaves the pages of the others. *)
LEMMA MadeKept ==
    ASSUME NEW y, NEW D, NEW pd, NEW v, NEW n, MadePages(Machine, y, D, pd, v, n), D \subseteq Word
    PROVE  KeptOn(mem, y.mem, D \ {pd})
BY DEF MadePages, KeptOn, Machine

(* The spawn call of the running process. *)
LEMMA SpawnFacts ==
    ASSUME MemoryInv, ~halted, cr3 \in DOMAIN spawning
    PROVE  LET pd == spawning[cr3].pd
               img == spawning[cr3].img
           IN /\ pd \in Dirs \ {KERNEL} /\ pd \in Frame /\ pd \notin DOMAIN live
              /\ HasOnly(mem, pd, ImagePages(img)) /\ img \in Images \cup {{}}
              /\ Sound(used, mem, Dirs) /\ KERNEL \in Dirs /\ Dirs \subseteq Word
              /\ lost = Loose(used, mem, Dirs)
<1>1. Book(cr3, live, dead, spawning) /\ Sound(used, mem, DirsOf(live, spawning)) /\ Loading(mem, spawning) /\ lost = Loose(used, mem, Dirs)
  BY DEF MemoryInv, Dirs
<1>2. Dirs = DirsOf(live, spawning)
  BY DEF Dirs
<1>3. spawning[cr3].pd \in Dirs \ {KERNEL} /\ spawning[cr3].pd \in Frame /\ KERNEL \in Dirs /\ Dirs \subseteq Word
  BY <1>1, <1>2, DirsFacts DEF Sound
<1> QED
  BY <1>1, <1>2, <1>3 DEF Book, Loading

(* scheduler_spawn makes a page directory. *)
LEMMA SpawnBeginStep ==
    ASSUME MemoryInv, ~halted, SpawnBegin
    PROVE  MemoryInv'
<1> DEFINE n == FirstFree(Machine, 1)
           new == [pd |-> n, img |-> {}]
           m2 == DirectoryCopied(mem, n)
           u2 == used \cup {n}
           E == Dirs \cup {n}
           s2 == spawning'
<1>0. /\ Book(cr3, live, dead, spawning) /\ Sound(used, mem, Dirs) /\ Dirs = DirsOf(live, spawning)
      /\ Programs(mem, live) /\ Loading(mem, spawning) /\ HeapMapped(mem, heapEnd) /\ halted \in BOOLEAN
      /\ lost = Loose(used, mem, Dirs)
  BY DEF MemoryInv, Dirs
<1>1. /\ n # 0 /\ cr3 \notin DOMAIN spawning /\ s2 = With(spawning, cr3, new)
      /\ cr3' = cr3 /\ live' = live /\ dead' = dead /\ heapEnd' = heapEnd /\ lost' = lost /\ halted' = halted
  BY DEF SpawnBegin
<1>2. PICK w : w = AllocPageDirectory(Machine, n) /\ Becomes(w)
  BY DEF SpawnBegin
<1>3. n \in Frame \ used
  <2>1. Machine.used = used
    BY DEF Machine
  <2> QED
    BY <1>1, <2>1, OneFree
<1>4. w.used = u2 /\ w.mem = m2
  BY <1>2 DEF AllocPageDirectory, Machine, DirectoryCopied
<1>5. /\ KERNEL \in Dirs /\ Dirs \ {KERNEL} \subseteq Frame /\ DOMAIN live \subseteq Frame /\ DOMAIN live \subseteq Dirs
      /\ \A c \in DOMAIN spawning : spawning[c].pd \in Dirs \ {KERNEL}
  BY <1>0, DirsFacts
<1>d. Dirs = DirsOf(live, spawning) /\ Dirs' = DirsOf(live, s2)
  BY <1>1 DEF Dirs
<1> HIDE DEF Dirs
<1>6. /\ m2 \in Memory /\ Sound(u2, m2, E) /\ Loose(u2, m2, E) = Loose(used, mem, Dirs)
      /\ SameAt(mem, m2, Dirs) /\ n \notin Dirs
      /\ \A v \in Pages(n) : On(m2, n, v) = 0
  <2> HIDE DEF n
  <2>1. m2 = DirectoryCopied(mem, n)
    OBVIOUS
  <2> HIDE DEF m2
  <2>2. Sound(used, mem, Dirs)
    BY <1>0
  <2>3. /\ m2 \in Memory /\ Sound(used \cup {n}, m2, Dirs \cup {n})
        /\ Loose(used \cup {n}, m2, Dirs \cup {n}) = Loose(used, mem, Dirs)
        /\ SameAt(mem, m2, Dirs) /\ n \notin Dirs
        /\ \A v \in Pages(n) : On(m2, n, v) = 0
    BY <1>3, <2>1, <2>2, AddDirectory
  <2> QED
    BY <2>3
<1>7. KeptOn(mem, m2, Dirs)
  <2>1. Dirs \subseteq Word
    BY <1>0 DEF Sound
  <2> QED
    BY <1>6, <2>1, SameAtOn DEF KeptOn
<1>n. new.pd = n /\ new.img = {}
  OBVIOUS
<1> HIDE DEF n, u2, m2, new, s2
<1>8. /\ Sound(used', mem', E) /\ Loose(used', mem', E) = Loose(u2, m2, E)
      /\ KeptOn(m2, mem', E)
  <2>1. Sound(w.used, w.mem, E)
    BY <1>4, <1>6
  <2> HIDE DEF E
  <2> QED
    BY <1>2, <1>4, <2>1, Settled
<1>9. KeptOn(mem, mem', Dirs)
  BY <1>7, <1>8 DEF KeptOn
<1>10. n \in E /\ n # KERNEL /\ n \in Frame /\ Pages(n) = UserPages
  BY <1>3, Sizes, StackFacts
<1>11. DOMAIN s2 = DOMAIN spawning \cup {cr3} /\ s2[cr3] = new /\ \A c \in DOMAIN spawning : s2[c] = spawning[c]
  BY <1>1 DEF With
<1>12. Dirs' = E
  <2>1. ASSUME NEW x \in E PROVE x \in DirsOf(live, s2)
    BY <1>d, <1>11, <1>n DEF DirsOf
  <2>2. ASSUME NEW x \in DirsOf(live, s2) PROVE x \in E
    BY <1>d, <1>11, <1>n DEF DirsOf
  <2> QED
    BY <1>d, <2>1, <2>2
<1>13. Book(cr3, live, dead, s2)
  <2>1. new \in [pd : Frame, img : Images \cup {{}}] /\ n \notin DOMAIN live
    BY <1>5, <1>6, <1>10 DEF new
  <2>2. \A c \in DOMAIN s2 : s2[c] \in [pd : Frame, img : Images \cup {{}}] /\ s2[c].pd \notin DOMAIN live
    BY <1>0, <1>11, <1>n, <2>1 DEF Book
  <2>3. \A b, c \in DOMAIN s2 : s2[b].pd = s2[c].pd => b = c
    <3>1. \A c \in DOMAIN spawning : spawning[c].pd # n
      BY <1>5, <1>6
    <3>2. \A b, c \in DOMAIN spawning : spawning[b].pd = spawning[c].pd => b = c
      BY <1>0 DEF Book
    <3> QED
      BY <1>11, <1>n, <3>1, <3>2
  <2>4. DOMAIN s2 \subseteq CanRun(live, dead)
    BY <1>0, <1>11 DEF Book
  <2> QED
    BY <1>0, <2>2, <2>3, <2>4 DEF Book
<1>14. HeapMapped(mem', heapEnd)
  <2>1. KeptOn(mem, mem', {KERNEL})
    BY <1>5, <1>9 DEF KeptOn
  <2> QED
    BY <1>0, <2>1, KeptHeap
<1>15. Programs(mem', live)
  <2>1. KeptOn(mem, mem', DOMAIN live) /\ \A d \in DOMAIN live : live[d] \in Images
    BY <1>0, <1>5, <1>9 DEF KeptOn, Book
  <2> QED
    BY <1>0, <1>5, <2>1, KeptPrograms
<1>16. Loading(mem', s2)
  <2>1. Loading(mem', spawning)
    <3> DEFINE G == Dirs \ {KERNEL}
    <3>1. KeptOn(mem, mem', G) /\ G \subseteq Frame /\ \A c \in DOMAIN spawning : spawning[c].pd \in G
      BY <1>5, <1>9 DEF KeptOn
    <3> HIDE DEF G
    <3> QED
      BY <1>0, <3>1, KeptLoading
  <2>2. \A v \in UserPages : On(mem', n, v) = 0
    BY <1>6, <1>8, <1>10 DEF KeptOn
  <2>3. HasOnly(mem', n, ImagePages({}))
    BY <2>2 DEF HasOnly, ImagePages
  <2> QED
    BY <1>11, <1>n, <2>1, <2>3 DEF Loading
<1> QED
  BY <1>0, <1>1, <1>6, <1>8, <1>12, <1>13, <1>14, <1>15, <1>16 DEF MemoryInv, s2

(* scheduler_spawn cannot read the program. *)
LEMMA SpawnLoadFailsStep ==
    ASSUME MemoryInv, ~halted, SpawnLoadFails
    PROVE  MemoryInv'
<1> DEFINE pd == spawning[cr3].pd
<1>1. /\ cr3 \in DOMAIN spawning /\ spawning' = Without(spawning, cr3) /\ lost' = lost
      /\ cr3' = cr3 /\ live' = live /\ dead' = dead /\ heapEnd' = heapEnd /\ halted' = halted
  BY DEF SpawnLoadFails
<1>2. PICK y : y = FreePageDirectory(Machine, pd) /\ Becomes(y)
  BY DEF SpawnLoadFails
<1>3. Sound(used, mem, Dirs) /\ lost = Loose(used, mem, Dirs)
  BY <1>1, SpawnFacts
<1>4. Machine \in Mem /\ Sound(Machine.used, Machine.mem, Dirs) /\ Machine.used = used /\ Machine.mem = mem
  BY <1>3, MachineInOrder
<1>5. KeptOn(mem, Machine.mem, Dirs \ {pd}) /\ Frees(Machine, pd, y) /\ lost' = Loose(Machine.used, Machine.mem, Dirs)
  BY <1>1, <1>2, <1>3, <1>4 DEF KeptOn, Frees
<1>6. pd = spawning[cr3].pd
  OBVIOUS
<1> HIDE DEF pd, Dirs
<1> QED
  BY <1>1, <1>2, <1>4, <1>5, <1>6, GivesUp

(* _elf_load, and its failure. *)
LEMMA SpawnLoadStep ==
    ASSUME MemoryInv, ~halted, NEW img \in Images, SpawnLoad(img)
    PROVE  MemoryInv'
<1> DEFINE pd == spawning[cr3].pd
           v == FirstPage(img)
           n == RequiredPages(img)
           s2 == spawning'
<1>1. /\ cr3 \in DOMAIN spawning /\ spawning[cr3].img = {}
      /\ cr3' = cr3 /\ live' = live /\ dead' = dead /\ heapEnd' = heapEnd /\ halted' = halted
  BY DEF SpawnLoad
<1>2. PICK w : /\ w = ElfLoad(Machine, pd, img)
               /\ IF w.err
                  THEN /\ \E u \in {FreePageDirectory(w, pd)} : Becomes(u)
                       /\ lost' = lost \cup Unreached(w, pd)
                       /\ spawning' = Without(spawning, cr3)
                  ELSE /\ Becomes(w)
                       /\ spawning' = [spawning EXCEPT ![cr3].img = img]
                       /\ UNCHANGED lost
  BY DEF SpawnLoad
<1>3. /\ pd \in Dirs \ {KERNEL} /\ pd \in Frame /\ pd \notin DOMAIN live
      /\ HasOnly(mem, pd, ImagePages({}))
      /\ Sound(used, mem, Dirs) /\ KERNEL \in Dirs /\ Dirs \subseteq Word
      /\ lost = Loose(used, mem, Dirs)
  BY <1>1, SpawnFacts
<1>4. HasOnly(mem, pd, {})
  BY <1>3 DEF ImagePages
<1>p. pd = spawning[cr3].pd
  OBVIOUS
<1>d. Dirs = DirsOf(live, spawning) /\ Dirs' = DirsOf(live, s2)
  BY <1>1 DEF Dirs
<1> HIDE DEF pd, Dirs
<1>5. MadePages(Machine, w, Dirs, pd, v, n)
  <2>1. w = ElfLoad(Machine, pd, img)
    BY <1>2
  <2>2. MadePages(Machine, w, Dirs, pd, FirstPage(img), RequiredPages(img))
    BY <1>3, <1>4, <2>1, ElfLoadMade
  <2> QED
    BY <2>2
<1>6. KeptOn(mem, w.mem, Dirs \ {pd})
  <2> HIDE DEF v, n
  <2> QED
    BY <1>3, <1>5, MadeKept
<1>7. Loose(w.used, w.mem, Dirs) = Loose(used, mem, Dirs) \cup Unreached(w, pd)
  <2> HIDE DEF v, n
  <2> QED
    BY <1>3, <1>5, UnreachedFrames
<1>8. w \in Mem /\ Sound(w.used, w.mem, Dirs) /\ w.err \in BOOLEAN
  BY <1>5 DEF MadePages, Mem
<1>9. CASE w.err = TRUE
  <2>1. PICK u : u = FreePageDirectory(w, pd) /\ Becomes(u)
    BY <1>2, <1>9
  <2>2. lost' = lost \cup Unreached(w, pd) /\ spawning' = Without(spawning, cr3)
    BY <1>2, <1>9
  <2>3. Frees(w, pd, u) /\ lost' = Loose(w.used, w.mem, Dirs)
    BY <1>3, <1>7, <2>1, <2>2 DEF Frees
  <2> QED
    BY <1>1, <1>p, <1>6, <1>8, <2>1, <2>2, <2>3, GivesUp
<1>10. CASE w.err = FALSE
  <2>0. /\ Book(cr3, live, dead, spawning) /\ Sound(used, mem, DirsOf(live, spawning))
        /\ Programs(mem, live) /\ Loading(mem, spawning) /\ HeapMapped(mem, heapEnd) /\ halted \in BOOLEAN
    BY <1>d DEF MemoryInv
  <2>1. Becomes(w) /\ s2 = [spawning EXCEPT ![cr3].img = img] /\ lost' = lost
    BY <1>2, <1>10
  <2>2. /\ DOMAIN s2 = DOMAIN spawning
        /\ s2[cr3] = [pd |-> pd, img |-> img] /\ s2[cr3].pd = pd /\ s2[cr3].img = img
        /\ \A c \in DOMAIN spawning : c # cr3 => s2[c] = spawning[c]
    <3> DEFINE r == spawning[cr3]
    <3>1. r \in [pd : Frame, img : Images \cup {{}}] /\ r.pd = pd
      BY <1>1, <1>p, <2>0 DEF Book
    <3>2. s2 = [spawning EXCEPT ![cr3] = [r EXCEPT !.img = img]]
      BY <2>1
    <3> HIDE DEF r, s2
    <3>3. [r EXCEPT !.img = img] = [pd |-> pd, img |-> img]
      BY <3>1
    <3> QED
      BY <1>1, <3>2, <3>3
  <2>3. \A c \in DOMAIN spawning : s2[c].pd = spawning[c].pd
    BY <1>p, <2>2
  <2> HIDE DEF s2
  <2>4. Dirs' = Dirs
    BY <1>d, <2>2, <2>3 DEF DirsOf
  <2>5. Book(cr3, live, dead, s2)
    BY <1>3, <2>0, <2>2, <2>3 DEF Book
  <2>6. /\ Sound(used', mem', Dirs) /\ Loose(used', mem', Dirs) = Loose(w.used, w.mem, Dirs)
        /\ KeptOn(w.mem, mem', Dirs)
    BY <1>8, <2>1, Settled
  <2>7. KeptOn(mem, mem', Dirs \ {pd})
    BY <1>6, <2>6 DEF KeptOn
  <2>8. /\ Dirs \ {KERNEL} \subseteq Frame /\ DOMAIN live \subseteq Frame /\ DOMAIN live \subseteq Dirs
        /\ \A c \in DOMAIN spawning : spawning[c].pd \in Dirs \ {KERNEL}
    BY <1>d, <2>0, DirsFacts
  <2>9. HeapMapped(mem', heapEnd)
    <3>1. KeptOn(mem, mem', {KERNEL})
      BY <1>3, <2>7 DEF KeptOn
    <3> QED
      BY <2>0, <3>1, KeptHeap
  <2>10. Programs(mem', live)
    <3>1. KeptOn(mem, mem', DOMAIN live) /\ \A d \in DOMAIN live : live[d] \in Images
      BY <1>3, <2>0, <2>7, <2>8 DEF KeptOn, Book
    <3> QED
      BY <2>0, <2>8, <3>1, KeptPrograms
  <2>11. lost' = Loose(used', mem', Dirs)
    BY <1>3, <1>5, <1>10, <2>1, <2>6, MachineInOrder DEF MadePages
  <2>12. HasOnly(mem', pd, ImagePages(img))
    <3>1. /\ \A r \in v..v + n - 1 : On(w.mem, pd, r) # 0
          /\ \A r \in Pages(pd) : r \notin v..v + n - 1 => On(w.mem, pd, r) = On(mem, pd, r)
      BY <1>3, <1>5, <1>10, MachineInOrder DEF MadePages
    <3>2. ImagePages(img) = v..v + n - 1 /\ ImagePages(img) \subseteq UserPages /\ Pages(pd) = UserPages
      BY <1>3, ImageFacts, StackFacts
    <3>3. \A r \in UserPages : On(mem', pd, r) = On(w.mem, pd, r)
      BY <1>3, <2>6, <3>2 DEF KeptOn
    <3> HIDE DEF v, n
    <3> QED
      BY <1>4, <3>1, <3>2, <3>3 DEF HasOnly
  <2>13. Loading(mem', s2)
    <3> SUFFICES ASSUME NEW c \in DOMAIN spawning PROVE HasOnly(mem', s2[c].pd, ImagePages(s2[c].img))
      BY <2>2 DEF Loading
    <3>1. CASE c = cr3
      BY <2>2, <2>12, <3>1
    <3>2. CASE c # cr3
      <4> DEFINE e == spawning[c].pd
      <4>1. e # pd /\ e \in Dirs /\ e \in Frame
        BY <1>1, <1>p, <2>0, <2>8, <3>2 DEF Book
      <4>2. HasOnly(mem, e, ImagePages(spawning[c].img))
        BY <2>0 DEF Loading
      <4> HIDE DEF e
      <4>3. \A r \in UserPages : On(mem', e, r) = On(mem, e, r)
        BY <2>7, <4>1, StackFacts DEF KeptOn
      <4>4. HasOnly(mem', e, ImagePages(spawning[c].img))
        BY <4>2, <4>3 DEF HasOnly
      <4> QED
        BY <2>2, <3>2, <4>4 DEF e
    <3> QED
      BY <3>1, <3>2
  <2> QED
    BY <1>1, <2>0, <2>4, <2>5, <2>6, <2>9, <2>10, <2>11, <2>13 DEF MemoryInv, s2
<1> QED
  BY <1>8, <1>9, <1>10

-----------------------------------------------------------------------------
(* The stack in process_new: what every outcome has in common. *)
LEMMA StackFactsMade ==
    ASSUME MemoryInv, ~halted, InProcessNew, NEW w, w = StackMade(spawning[cr3].pd)
    PROVE  LET pd == spawning[cr3].pd
               img == spawning[cr3].img
           IN /\ cr3 \in DOMAIN spawning /\ img \in Images
              /\ w \in Mem /\ w.err \in BOOLEAN /\ Sound(w.used, w.mem, Dirs) /\ KeptOn(mem, w.mem, Dirs \ {pd})
              /\ Loose(w.used, w.mem, Dirs) = lost \cup Unreached(w, pd)
              /\ w.err = FALSE => /\ Loose(w.used, w.mem, Dirs) = lost
                                  /\ Has(w.mem, pd, ImagePages(img) \cup StackPages)
<1> DEFINE pd == spawning[cr3].pd
           img == spawning[cr3].img
           v == StackBase
           n == USER_STACK
<1>1. cr3 \in DOMAIN spawning /\ img # {}
  BY DEF InProcessNew
<1>2. /\ pd \in Dirs \ {KERNEL} /\ pd \in Frame /\ pd \notin DOMAIN live
      /\ HasOnly(mem, pd, ImagePages(img)) /\ img \in Images
      /\ Sound(used, mem, Dirs) /\ KERNEL \in Dirs /\ Dirs \subseteq Word
      /\ lost = Loose(used, mem, Dirs)
  BY <1>1, SpawnFacts
<1> HIDE DEF pd, img, Dirs
<1>3. MadePages(Machine, w, Dirs, pd, v, n)
  <2>1. w = StackMade(pd)
    BY DEF pd
  <2> QED
    BY <1>2, <2>1, StackMadePages
<1>4. KeptOn(mem, w.mem, Dirs \ {pd})
  <2> HIDE DEF v, n
  <2> QED
    BY <1>2, <1>3, MadeKept
<1>5. Loose(w.used, w.mem, Dirs) = lost \cup Unreached(w, pd)
  <2> HIDE DEF v, n
  <2> QED
    BY <1>2, <1>3, UnreachedFrames
<1>6. w \in Mem /\ Sound(w.used, w.mem, Dirs) /\ w.err \in BOOLEAN
  BY <1>3 DEF MadePages, Mem
<1>7. ASSUME w.err = FALSE PROVE Loose(w.used, w.mem, Dirs) = lost /\ Has(w.mem, pd, ImagePages(img) \cup StackPages)
  <2>1. /\ Loose(w.used, w.mem, Dirs) = lost
        /\ \A r \in v..v + n - 1 : On(w.mem, pd, r) # 0
        /\ \A r \in Pages(pd) : r \notin v..v + n - 1 => On(w.mem, pd, r) = On(mem, pd, r)
    BY <1>2, <1>3, <1>7, MachineInOrder DEF MadePages
  <2>2. v..v + n - 1 = StackPages /\ Pages(pd) = UserPages
    BY <1>2, StackFacts
  <2>3. ImagePages(img) \subseteq UserPages
    BY <1>2, ImageFacts
  <2> HIDE DEF v, n
  <2> QED
    BY <1>2, <2>1, <2>2, <2>3 DEF Has, HasOnly
<1> QED
  BY <1>1, <1>2, <1>4, <1>5, <1>6, <1>7 DEF pd, img

(* process_new fails. *)
LEMMA ProcessNewFailsStep ==
    ASSUME MemoryInv, ~halted, ProcessNewFails
    PROVE  MemoryInv'
<1> DEFINE pd == spawning[cr3].pd
<1>1. /\ InProcessNew /\ spawning' = Without(spawning, cr3)
      /\ cr3' = cr3 /\ live' = live /\ dead' = dead /\ heapEnd' = heapEnd /\ halted' = halted
  BY DEF ProcessNewFails
<1>2. PICK w : /\ w = StackMade(pd) /\ lost' = lost \cup Unreached(w, pd)
               /\ \E u \in {FreePageDirectory(w, pd)} : Becomes(u)
  BY DEF ProcessNewFails
<1>3. PICK u : u = FreePageDirectory(w, pd) /\ Becomes(u)
  BY <1>2
<1>4. /\ cr3 \in DOMAIN spawning
      /\ w \in Mem /\ Sound(w.used, w.mem, Dirs) /\ KeptOn(mem, w.mem, Dirs \ {pd})
      /\ Loose(w.used, w.mem, Dirs) = lost \cup Unreached(w, pd)
  BY <1>1, <1>2, StackFactsMade
<1>5. Frees(w, pd, u) /\ pd = spawning[cr3].pd /\ lost' = Loose(w.used, w.mem, Dirs)
  BY <1>2, <1>3, <1>4 DEF Frees
<1> HIDE DEF pd, Dirs
<1> QED
  BY <1>1, <1>3, <1>4, <1>5, GivesUp

(* process_new succeeds and the process is deleted again. *)
LEMMA ProcessNewUndoneStep ==
    ASSUME MemoryInv, ~halted, ProcessNewUndone
    PROVE  MemoryInv'
<1> DEFINE pd == spawning[cr3].pd
<1>1. /\ InProcessNew /\ spawning' = Without(spawning, cr3) /\ lost' = lost
      /\ cr3' = cr3 /\ live' = live /\ dead' = dead /\ heapEnd' = heapEnd /\ halted' = halted
  BY DEF ProcessNewUndone
<1>2. PICK w : /\ w = StackMade(pd) /\ ~w.err
               /\ \E u \in {FreePageDirectory(FreePageDirectory(w, pd), pd)} : Becomes(u)
  BY DEF ProcessNewUndone
<1>3. PICK u : u = FreePageDirectory(FreePageDirectory(w, pd), pd) /\ Becomes(u)
  BY <1>2
<1>4. /\ cr3 \in DOMAIN spawning
      /\ w \in Mem /\ Sound(w.used, w.mem, Dirs) /\ KeptOn(mem, w.mem, Dirs \ {pd})
      /\ Loose(w.used, w.mem, Dirs) = lost
  BY <1>1, <1>2, StackFactsMade
<1>5. Frees(w, pd, u) /\ pd = spawning[cr3].pd /\ lost' = Loose(w.used, w.mem, Dirs)
  BY <1>1, <1>2, <1>3, <1>4 DEF Frees
<1> HIDE DEF pd, Dirs
<1> QED
  BY <1>1, <1>3, <1>4, <1>5, GivesUp

(* The stack has no page table: the kernel panics. *)
LEMMA ProcessNewFaultsStep ==
    ASSUME MemoryInv, ~halted, ProcessNewFaults
    PROVE  MemoryInv'
<1> DEFINE pd == spawning[cr3].pd
<1>0. /\ Book(cr3, live, dead, spawning) /\ Sound(used, mem, Dirs) /\ Dirs = DirsOf(live, spawning)
      /\ Programs(mem, live) /\ HeapMapped(mem, heapEnd)
  BY DEF MemoryInv, Dirs
<1>1. /\ InProcessNew /\ spawning' = spawning /\ halted' = TRUE
      /\ cr3' = cr3 /\ live' = live /\ dead' = dead /\ heapEnd' = heapEnd
  BY DEF ProcessNewFaults
<1>2. PICK w : w = StackMade(pd) /\ Becomes(w)
  BY DEF ProcessNewFaults
<1>3. /\ cr3 \in DOMAIN spawning
      /\ w \in Mem /\ Sound(w.used, w.mem, Dirs) /\ KeptOn(mem, w.mem, Dirs \ {pd})
  BY <1>1, <1>2, StackFactsMade
<1>4. /\ KERNEL \in Dirs /\ DOMAIN live \subseteq Frame /\ DOMAIN live \subseteq Dirs
      /\ pd # KERNEL /\ pd \notin DOMAIN live
  BY <1>0, <1>3, DirsFacts DEF Book
<1>d. Dirs' = Dirs
  BY <1>1 DEF Dirs
<1> HIDE DEF pd, Dirs
<1>5. /\ Sound(used', mem', Dirs) /\ KeptOn(w.mem, mem', Dirs)
  BY <1>2, <1>3, Settled
<1>6. KeptOn(mem, mem', DOMAIN live) /\ KeptOn(mem, mem', {KERNEL}) /\ \A d \in DOMAIN live : live[d] \in Images
  BY <1>0, <1>3, <1>4, <1>5 DEF KeptOn, Book
<1>7. HeapMapped(mem', heapEnd)
  BY <1>0, <1>6, KeptHeap
<1>8. Programs(mem', live)
  BY <1>0, <1>4, <1>6, KeptPrograms
<1> QED
  BY <1>0, <1>1, <1>d, <1>5, <1>7, <1>8 DEF MemoryInv

(* A process is made: its directory is now a live one. *)
LEMMA SpawnedBook ==
    ASSUME MemoryInv, ~halted, cr3 \in DOMAIN spawning, NEW pd, pd = spawning[cr3].pd, NEW img \in Images,
           NEW mm, KeptOn(mem, mm, Dirs \ {pd, KERNEL}), Has(mm, pd, ImagePages(img) \cup StackPages),
           KeptOn(mm, mem', Dirs), spawning' = Without(spawning, cr3), live' = With(live, pd, img)
    PROVE  /\ Dirs' = Dirs /\ Book(cr3, live', dead, spawning') /\ Programs(mem', live')
           /\ DOMAIN spawning' = DOMAIN spawning \ {cr3}
           /\ \A b \in DOMAIN spawning' : spawning'[b] = spawning[b] /\ spawning'[b].pd # pd
<1> DEFINE s2 == spawning'
           l2 == live'
<1>0. /\ Book(cr3, live, dead, spawning) /\ Sound(used, mem, Dirs) /\ Dirs = DirsOf(live, spawning)
      /\ Programs(mem, live) /\ Loading(mem, spawning) /\ halted \in BOOLEAN
  BY DEF MemoryInv, Dirs
<1>1. /\ Book(cr3, live, dead, s2)
      /\ DirsOf(live, s2) = DirsOf(live, spawning) \ {pd}
      /\ pd \in DirsOf(live, spawning) \ {KERNEL} /\ pd \notin DOMAIN live
      /\ DOMAIN s2 = DOMAIN spawning \ {cr3}
      /\ \A b \in DOMAIN s2 : s2[b] = spawning[b] /\ s2[b].pd # pd
  <2>1. Ended(cr3, live, dead, spawning, Without(spawning, cr3), spawning[cr3].pd)
    BY <1>0, SpawnEnds
  <2>2. Ended(cr3, live, dead, spawning, s2, pd)
    BY <2>1
  <2> QED
    BY <2>2 DEF Ended
<1>2. DOMAIN l2 = DOMAIN live \cup {pd} /\ l2[pd] = img /\ \A d \in DOMAIN live : l2[d] = live[d]
  BY <1>1 DEF With
<1>3. /\ KERNEL \in Dirs /\ Dirs \ {KERNEL} \subseteq Frame /\ DOMAIN live \subseteq Frame /\ DOMAIN live \subseteq Dirs
      /\ \A c \in DOMAIN spawning : spawning[c].pd \in Dirs \ {KERNEL}
  BY <1>0, DirsFacts
<1>d. Dirs' = DirsOf(l2, s2)
  BY DEF Dirs
<1> HIDE DEF s2, l2, Dirs
<1>4. Dirs' = Dirs
  <2>1. DirsOf(l2, s2) = DirsOf(live, s2) \cup {pd}
    BY <1>2 DEF DirsOf
  <2> QED
    BY <1>0, <1>1, <1>d, <2>1
<1>5. Book(cr3, l2, dead, s2)
  <2>1. CanRun(live, dead) \subseteq CanRun(l2, dead)
    BY <1>2 DEF CanRun
  <2>2. KERNEL \notin DOMAIN l2 /\ \A d \in DOMAIN l2 : l2[d] \in Images
    BY <1>0, <1>1, <1>2 DEF Book
  <2>3. dead \subseteq DOMAIN l2
    BY <1>0, <1>2 DEF Book
  <2>4. cr3 \in CanRun(l2, dead) /\ DOMAIN s2 \subseteq CanRun(l2, dead)
    BY <1>1, <2>1 DEF Book
  <2>5. \A c \in DOMAIN s2 : s2[c] \in [pd : Frame, img : Images \cup {{}}] /\ s2[c].pd \notin DOMAIN l2
    BY <1>1, <1>2 DEF Book
  <2>6. \A b, c \in DOMAIN s2 : s2[b].pd = s2[c].pd => b = c
    BY <1>1 DEF Book
  <2> QED
    BY <2>2, <2>3, <2>4, <2>5, <2>6 DEF Book
<1>7. KeptOn(mem, mem', Dirs \ {pd, KERNEL})
  BY DEF KeptOn
<1>9. Programs(mem', l2)
  <2>1. Programs(mem', live)
    <3>1. KeptOn(mem, mem', DOMAIN live) /\ \A d \in DOMAIN live : live[d] \in Images
      BY <1>0, <1>1, <1>3, <1>7 DEF KeptOn, Book
    <3> QED
      BY <1>0, <1>3, <3>1, KeptPrograms
  <2>2. Has(mem', pd, ImagePages(img) \cup StackPages)
    <3>1. pd \in Dirs /\ pd \in Frame
      BY <1>0, <1>1, <1>3
    <3>2. ImagePages(img) \cup StackPages \subseteq Pages(pd)
      BY <3>1, ImageFacts, StackFacts
    <3> QED
      BY <3>1, <3>2 DEF Has, KeptOn
  <2> QED
    BY <1>2, <2>1, <2>2 DEF Programs
<1> QED
  BY <1>1, <1>4, <1>5, <1>9 DEF s2, l2

(* And memory is in order. *)
LEMMA SpawnDone ==
    ASSUME MemoryInv, ~halted, cr3 \in DOMAIN spawning, NEW pd, pd = spawning[cr3].pd, NEW img \in Images,
           NEW z, Sound(z.used, z.mem, Dirs), Loose(z.used, z.mem, Dirs) = lost,
           KeptOn(mem, z.mem, Dirs \ {pd, KERNEL}), Has(z.mem, pd, ImagePages(img) \cup StackPages),
           HeapMapped(z.mem, heapEnd'), Becomes(z), lost' = lost,
           spawning' = Without(spawning, cr3), live' = With(live, pd, img),
           cr3' = cr3, dead' = dead, halted' = halted
    PROVE  MemoryInv'
<1> DEFINE s2 == spawning'
<1>0. /\ Sound(used, mem, Dirs) /\ Dirs = DirsOf(live, spawning) /\ Book(cr3, live, dead, spawning)
      /\ Loading(mem, spawning) /\ halted \in BOOLEAN
  BY DEF MemoryInv, Dirs
<1>3. /\ KERNEL \in Dirs /\ Dirs \ {KERNEL} \subseteq Frame
      /\ \A c \in DOMAIN spawning : spawning[c].pd \in Dirs \ {KERNEL}
  BY <1>0, DirsFacts
<1> HIDE DEF Dirs
<1>6. Sound(used', mem', Dirs) /\ Loose(used', mem', Dirs) = lost /\ KeptOn(z.mem, mem', Dirs)
  BY Settled
<1>7. KeptOn(mem, mem', Dirs \ {pd, KERNEL}) /\ KeptOn(z.mem, mem', {KERNEL})
  BY <1>3, <1>6 DEF KeptOn
<1>1. /\ Dirs' = Dirs /\ Book(cr3, live', dead, s2) /\ Programs(mem', live')
      /\ DOMAIN s2 = DOMAIN spawning \ {cr3}
      /\ \A b \in DOMAIN s2 : s2[b] = spawning[b] /\ s2[b].pd # pd
  <2> DEFINE mm == z.mem
  <2>1. KeptOn(mem, mm, Dirs \ {pd, KERNEL}) /\ Has(mm, pd, ImagePages(img) \cup StackPages) /\ KeptOn(mm, mem', Dirs)
    BY <1>6
  <2> HIDE DEF mm
  <2> QED
    BY <2>1, SpawnedBook
<1> HIDE DEF s2
<1>8. HeapMapped(mem', heapEnd')
  <2> DEFINE end == heapEnd'
             m2 == mem'
             m1 == z.mem
  <2>1. HeapMapped(m1, end) /\ KeptOn(m1, m2, {KERNEL})
    BY <1>7
  <2> HIDE DEF end, m2, m1
  <2>2. HeapMapped(m2, end)
    BY <2>1, KeptHeap
  <2> QED
    BY <2>2 DEF end, m2
<1>10. Loading(mem', s2)
  <2> DEFINE G == Dirs \ {pd, KERNEL}
  <2>1. KeptOn(mem, mem', G) /\ G \subseteq Frame
    BY <1>3, <1>7
  <2>2. Loading(mem, s2)
    BY <1>0, <1>1 DEF Loading
  <2>3. \A c \in DOMAIN s2 : s2[c].pd \in G
    BY <1>1, <1>3
  <2> HIDE DEF G
  <2> QED
    BY <2>1, <2>2, <2>3, KeptLoading
<1> QED
  BY <1>0, <1>1, <1>6, <1>8, <1>10 DEF MemoryInv, s2

(* process_new succeeds. *)
LEMMA ProcessNewStep ==
    ASSUME MemoryInv, ~halted, amiss = "nothing", NEW grows \in BOOLEAN, ProcessNew(grows)
    PROVE  AddressInv'
<1> DEFINE pd == spawning[cr3].pd
           img == spawning[cr3].img
<1>1. /\ InProcessNew /\ spawning' = Without(spawning, cr3) /\ lost' = lost
      /\ cr3' = cr3 /\ dead' = dead /\ halted' = halted /\ live' = With(live, pd, img)
  BY DEF ProcessNew
<1>2. PICK w : /\ w = StackMade(pd) /\ ~w.err
               /\ IF grows
                  THEN /\ CanGrow(w, heapEnd)
                       /\ \E u \in {Grow(w, pd, heapEnd)} : Becomes(u)
                       /\ amiss' = IF GrowsWell(w, pd, heapEnd) THEN amiss ELSE "grown"
                       /\ heapEnd' = heapEnd + 1
                  ELSE Becomes(w) /\ UNCHANGED <<heapEnd, amiss>>
  BY DEF ProcessNew
<1>3. /\ cr3 \in DOMAIN spawning /\ img \in Images
      /\ w \in Mem /\ Sound(w.used, w.mem, Dirs) /\ KeptOn(mem, w.mem, Dirs \ {pd})
      /\ Loose(w.used, w.mem, Dirs) = lost
      /\ Has(w.mem, pd, ImagePages(img) \cup StackPages)
  BY <1>1, <1>2, StackFactsMade
<1>4. /\ pd \in Dirs \ {KERNEL} /\ pd \in Frame /\ KERNEL \in Dirs /\ HeapMapped(mem, heapEnd)
  BY <1>3, SpawnFacts DEF MemoryInv
<1>p. pd = spawning[cr3].pd
  OBVIOUS
<1> HIDE DEF pd, img, Dirs
<1>5. HeapMapped(w.mem, heapEnd)
  <2>1. KeptOn(mem, w.mem, {KERNEL})
    BY <1>3, <1>4 DEF KeptOn
  <2> QED
    BY <1>4, <2>1, KeptHeap
<1>6. CASE ~grows
  <2>1. Becomes(w) /\ heapEnd' = heapEnd
    BY <1>2, <1>6
  <2>2. KeptOn(mem, w.mem, Dirs \ {pd, KERNEL}) /\ HeapMapped(w.mem, heapEnd')
    BY <1>3, <1>5, <2>1 DEF KeptOn
  <2>3. MemoryInv'
    BY <1>1, <1>3, <1>p, <2>1, <2>2, SpawnDone
  <2> QED
    BY <1>2, <1>6, <2>3 DEF AddressInv
<1>7. CASE grows /\ GrowsWell(w, pd, heapEnd)
  <2>1. CanGrow(w, heapEnd) /\ heapEnd' = heapEnd + 1 /\ amiss' = "nothing"
    BY <1>2, <1>7
  <2>2. PICK u : u = Grow(w, pd, heapEnd) /\ Becomes(u)
    BY <1>2, <1>7
  <2>3. /\ u \in Mem /\ Sound(u.used, u.mem, Dirs)
        /\ Loose(u.used, u.mem, Dirs) = Loose(w.used, w.mem, Dirs)
        /\ KeptOn(w.mem, u.mem, Dirs \ {KERNEL})
        /\ HeapMapped(u.mem, heapEnd + 1)
    <3>1. w \in Mem /\ Sound(w.used, w.mem, Dirs) /\ pd \in Dirs
      BY <1>3, <1>4
    <3>2. CanGrow(w, heapEnd) /\ GrowsWell(w, pd, heapEnd) /\ u = Grow(w, pd, heapEnd)
      BY <1>7, <2>1, <2>2
    <3> QED
      BY <1>5, <3>1, <3>2, HeapGrown
  <2>k. KeptOn(mem, u.mem, Dirs \ {pd, KERNEL})
    <3> DEFINE a == w.mem
               b == u.mem
    <3>1. KeptOn(mem, a, Dirs \ {pd}) /\ KeptOn(a, b, Dirs \ {KERNEL})
      BY <1>3, <2>3
    <3> HIDE DEF a, b
    <3>2. KeptOn(mem, b, Dirs \ {pd, KERNEL})
      BY <3>1 DEF KeptOn
    <3> QED
      BY <3>2 DEF b
  <2>4. KeptOn(mem, u.mem, Dirs \ {pd, KERNEL}) /\ HeapMapped(u.mem, heapEnd') /\ Loose(u.used, u.mem, Dirs) = lost
    BY <1>3, <2>1, <2>3, <2>k
  <2>5. Has(u.mem, pd, ImagePages(img) \cup StackPages)
    <3>1. ImagePages(img) \cup StackPages \subseteq Pages(pd)
      BY <1>3, <1>4, ImageFacts, StackFacts
    <3> QED
      BY <1>3, <1>4, <2>3, <3>1 DEF Has, KeptOn
  <2>6. MemoryInv'
    BY <1>1, <1>3, <1>p, <2>2, <2>3, <2>4, <2>5, SpawnDone
  <2> QED
    BY <2>1, <2>6 DEF AddressInv
<1>8. CASE grows /\ ~GrowsWell(w, pd, heapEnd)
  <2>1. CanGrow(w, heapEnd) /\ heapEnd' = heapEnd + 1 /\ amiss' = "grown"
    BY <1>2, <1>8
  <2>2. PICK u : u = Grow(w, pd, heapEnd) /\ Becomes(u)
    BY <1>2, <1>8
  <2> DEFINE mm == w.mem
  <2>3. KeptOn(mm, mem', Dirs) /\ On(mem', KERNEL, HeapPage(heapEnd)) = 0
    <3>1. w \in Mem /\ Sound(w.used, w.mem, Dirs) /\ pd \in Dirs
      BY <1>3, <1>4
    <3> QED
      BY <1>5, <1>8, <2>1, <2>2, <3>1, StrayGrowth
  <2>4. KeptOn(mem, mm, Dirs \ {pd, KERNEL}) /\ Has(mm, pd, ImagePages(img) \cup StackPages)
    BY <1>3 DEF KeptOn
  <2> HIDE DEF mm
  <2>5. Book(cr3, live', dead, spawning') /\ Programs(mem', live')
    BY <1>1, <1>3, <1>p, <2>3, <2>4, SpawnedBook
  <2>6. heapEnd' \in Nat \ {0} /\ heapEnd' - 1 = heapEnd
    <3>1. heapEnd \in Nat
      BY <1>4, AddressSpaceAssumption DEF HeapMapped
    <3> QED
      BY <2>1, <3>1
  <2> QED
    BY <1>1, <2>1, <2>3, <2>5, <2>6 DEF AddressInv, Astray
<1> QED
  BY <1>6, <1>7, <1>8

-----------------------------------------------------------------------------
(* The tick deletes the processes that were killed. *)
LEMMA TickStep ==
    ASSUME MemoryInv, ~halted, Tick
    PROVE  MemoryInv'
<1> DEFINE F == UNION {Freed(Machine, d) : d \in dead}
           E == Dirs \ dead
           l2 == live'
<1>0. /\ Book(cr3, live, dead, spawning) /\ Sound(used, mem, Dirs) /\ Dirs = DirsOf(live, spawning)
      /\ Programs(mem, live) /\ Loading(mem, spawning) /\ HeapMapped(mem, heapEnd) /\ halted \in BOOLEAN
      /\ lost = Loose(used, mem, Dirs)
  BY DEF MemoryInv, Dirs
<1>1. /\ l2 = [d \in DOMAIN live \ dead |-> live[d]] /\ dead' = {} /\ spawning' = spawning
      /\ cr3' = cr3 /\ heapEnd' = heapEnd /\ lost' = lost /\ halted' = halted
  BY DEF Tick
<1>2. PICK w : w = [Machine EXCEPT !.used = @ \ F] /\ Becomes(w)
  BY DEF Tick
<1>3. w.used = used \ F /\ w.mem = mem
  <2> HIDE DEF F
  <2> QED
    BY <1>2 DEF Machine
<1>4. /\ KERNEL \in Dirs /\ Dirs \ {KERNEL} \subseteq Frame /\ DOMAIN live \subseteq Frame /\ DOMAIN live \subseteq Dirs
      /\ \A c \in DOMAIN spawning : spawning[c].pd \in Dirs \ {KERNEL}
  BY <1>0, DirsFacts
<1>5. dead \in SUBSET (Dirs \ {KERNEL})
  BY <1>0, <1>4 DEF Book
<1>6. DOMAIN l2 = DOMAIN live \ dead /\ \A d \in DOMAIN l2 : l2[d] = live[d]
  BY <1>1
<1>d. Dirs = DirsOf(live, spawning) /\ Dirs' = DirsOf(l2, spawning)
  BY <1>1 DEF Dirs
<1> HIDE DEF l2, Dirs
<1>7. Dirs' = E
  <2>1. \A c \in DOMAIN spawning : spawning[c].pd \notin dead
    BY <1>0 DEF Book
  <2> QED
    BY <1>d, <1>5, <1>6, <2>1 DEF DirsOf
<1>8. Sound(used \ F, mem, E) /\ Loose(used \ F, mem, E) = lost
  <2>1. Machine \in Mem /\ Sound(Machine.used, Machine.mem, Dirs) /\ Machine.used = used /\ Machine.mem = mem
    BY <1>0, MachineInOrder
  <2>2. LET u2 == Machine.used \ UNION {Freed(Machine, d) : d \in dead}
        IN Sound(u2, Machine.mem, Dirs \ dead) /\ Loose(u2, Machine.mem, Dirs \ dead) = Loose(Machine.used, Machine.mem, Dirs)
    BY <1>5, <2>1, FreeSound
  <2> QED
    BY <1>0, <2>1, <2>2
<1> HIDE DEF F, E
<1>9. Sound(used', mem', E) /\ Loose(used', mem', E) = lost /\ KeptOn(mem, mem', E)
  <2>1. Sound(w.used, w.mem, E) /\ Loose(w.used, w.mem, E) = lost
    BY <1>3, <1>8
  <2>2. Sound(used', mem', E) /\ Loose(used', mem', E) = Loose(w.used, w.mem, E) /\ KeptOn(w.mem, mem', E)
    BY <1>2, <2>1, Settled
  <2> QED
    BY <1>3, <2>1, <2>2
<1>10. /\ KERNEL \in E /\ DOMAIN l2 \subseteq E /\ DOMAIN l2 \subseteq Frame
       /\ \A c \in DOMAIN spawning : spawning[c].pd \in E \ {KERNEL}
  BY <1>0, <1>4, <1>5, <1>6 DEF E, Book
<1>11. Book(cr3, l2, {}, spawning)
  <2>1. CanRun(l2, {}) = CanRun(live, dead)
    BY <1>6 DEF CanRun
  <2> QED
    BY <1>0, <1>6, <2>1 DEF Book
<1>12. HeapMapped(mem', heapEnd)
  <2>1. KeptOn(mem, mem', {KERNEL})
    BY <1>9, <1>10 DEF KeptOn
  <2> QED
    BY <1>0, <2>1, KeptHeap
<1>13. Programs(mem', l2)
  <2>1. KeptOn(mem, mem', DOMAIN l2) /\ \A d \in DOMAIN l2 : l2[d] \in Images
    BY <1>9, <1>10, <1>11 DEF KeptOn, Book
  <2>2. Programs(mem, l2)
    BY <1>0, <1>6 DEF Programs
  <2> QED
    BY <1>10, <2>1, <2>2, KeptPrograms
<1>14. Loading(mem', spawning)
  <2> DEFINE G == E \ {KERNEL}
  <2>1. KeptOn(mem, mem', G) /\ G \subseteq Frame /\ \A c \in DOMAIN spawning : spawning[c].pd \in G
    BY <1>4, <1>9, <1>10 DEF KeptOn, E
  <2> HIDE DEF G
  <2> QED
    BY <1>0, <2>1, KeptLoading
<1> QED
  BY <1>0, <1>1, <1>7, <1>9, <1>11, <1>12, <1>13, <1>14 DEF MemoryInv, l2

-----------------------------------------------------------------------------
(* The first pages of the heap. *)
LEMMA InitInv ==
    ASSUME Init
    PROVE  MemoryInv /\ amiss = "nothing"
<1> DEFINE mm == [f \in {KERNEL} \cup Frame |-> IF f = KERNEL THEN NoEntries ELSE Garbage]
           boot == [used |-> 1..HEAP_MIN, mem |-> mm, err |-> FALSE]
           D == {KERNEL}
           v == HeapPage(0)
           n == HEAP_MIN
           one == 1
           st == FALSE
<1>1. PICK w : w = MapPages(boot, KERNEL, 1, v, n, st) /\ ~w.err /\ used = w.used /\ mem = w.mem
  BY DEF Init
<1>2. /\ cr3 = KERNEL /\ live = << >> /\ dead = {} /\ spawning = << >> /\ heapEnd = HEAP_MIN
      /\ lost = {} /\ halted = FALSE /\ amiss = "nothing"
  BY DEF Init
<1>3. DOMAIN live = {} /\ DOMAIN spawning = {} /\ Dirs = D
  BY <1>2 DEF Dirs, DirsOf
<1>4. n \in Nat /\ n >= 1 /\ n <= FRAMES /\ n <= HEAP_MAX /\ 1..n \subseteq Frame /\ FRAMES \in Nat
  BY AddressSpaceAssumption DEF Frame, HEAP_MAX
<1>5. mm \in Memory /\ mm[KERNEL] = NoEntries
  <2>1. NoEntries \in [Entries -> Word] /\ 1 \in Word
    BY <1>4, Sizes DEF NoEntries, Entries, Cells, KERNEL, Word
  <2>2. Garbage \in [Entries -> Word]
    BY <2>1 DEF Garbage, NoEntries, Entries, Cells
  <2> QED
    BY <2>1, <2>2, Sizes DEF Memory
<1>6. \A t \in Entries : mm[KERNEL][t] = 0
  BY <1>5 DEF NoEntries, Entries, Cells
<1> HIDE DEF mm
<1>7. boot \in Mem /\ boot.used = 1..n /\ boot.mem = mm /\ boot.err = FALSE
  BY <1>4, <1>5 DEF Mem
<1>8. D \subseteq Word /\ KERNEL \in D /\ \A t \in Half(KERNEL) : mm[KERNEL][t] = 0
  BY <1>6, Sizes
<1>9. \A s \in Slots(D) : At(mm, s) = 0
  <2> SUFFICES ASSUME NEW s \in Slots(D) PROVE At(mm, s) = 0
    OBVIOUS
  <2>1. ~ \E d \in D \ {KERNEL} : s = DirSlot(d)
    OBVIOUS
  <2>2. CASE \E d \in D : \E t \in Half(d) : s = TabSlot(d, t)
    <3>1. PICK t \in Half(KERNEL) : s = TabSlot(KERNEL, t)
      BY <2>2
    <3>2. At(mm, s) = mm[KERNEL][t]
      BY <3>1, Sizes, AtTab
    <3> QED
      BY <1>8, <3>2
  <2>3. CASE \E d \in D : \E t \in Half(d) : \E i \in Cells : s = PagSlot(d, t, i)
    <3>1. PICK t \in Half(KERNEL), i \in Cells : s = PagSlot(KERNEL, t, i)
      BY <2>3
    <3>2. At(mm, s) = Page(mm, KERNEL, t, i)
      BY <3>1, Sizes, AtPag
    <3> QED
      BY <1>8, <3>2 DEF Page
  <2> QED
    BY <1>8, <2>1, <2>2, <2>3, SlotKinds
<1>10. Sound(1..n, mm, D) /\ Loose(1..n, mm, D) = 1..n
  <2>1. \A s \in Slots(D) : Uses(mm, D)[s] = 0
    BY <1>9 DEF Uses
  <2>2. Refs(Uses(mm, D), Slots(D)) = {}
    BY <2>1 DEF Refs
  <2>3. Placed(Uses(mm, D), Slots(D), 1..n)
    BY <1>4, <2>1 DEF Placed
  <2>4. Shared(mm, D)
    <3>1. 0..USER_TABLES - 1 \subseteq Entries
      BY Sizes DEF Entries, Tables
    <3> QED
      BY <1>6, <3>1 DEF Shared
  <2> QED
    BY <1>5, <1>8, <2>2, <2>3, <2>4 DEF Sound, Loose
<1>11. v \in Nat /\ \A i \in 0..HEAP_MAX - 1 : HeapPage(i) = v + i /\ v + i \in Pages(KERNEL) /\ On(mm, KERNEL, v + i) = 0
  <2> DEFINE a == USER_TABLES * ENTRIES
  <2>1. a \in Nat /\ \A i : HeapPage(i) = a + i
    BY Sizes DEF HeapPage
  <2>2. v = a
    BY <2>1
  <2>3. \A i \in 0..HEAP_MAX - 1 : a + i \in Pages(KERNEL)
    BY <2>1, HeapPages
  <2>4. \A q \in Pages(KERNEL) : On(mm, KERNEL, q) = 0
    <3> SUFFICES ASSUME NEW q \in Pages(KERNEL) PROVE On(mm, KERNEL, q) = 0
      OBVIOUS
    <3>1. PDI(q) \in Half(KERNEL)
      BY PageIndex, Sizes
    <3> QED
      BY <1>8, <3>1 DEF On, Page
  <2> HIDE DEF a, v
  <2> QED
    BY <2>1, <2>2, <2>3, <2>4
<1>12. \A r \in v..v + n - 1 : r \in Pages(KERNEL) /\ On(boot.mem, KERNEL, r) = 0
  <2> SUFFICES ASSUME NEW r \in v..v + n - 1 PROVE r \in Pages(KERNEL) /\ On(mm, KERNEL, r) = 0
    BY <1>7
  <2> HIDE DEF v, n
  <2>1. r - v \in 0..HEAP_MAX - 1 /\ r = v + (r - v)
    BY <1>4, <1>11, HeapPages
  <2> QED
    BY <1>11, <2>1
<1>13. one..one + n - 1 = 1..n
  BY <1>4
<1>14. one..one + n - 1 \subseteq Loose(boot.used, boot.mem, D) /\ Sound(boot.used, boot.mem, D)
  BY <1>7, <1>10, <1>13
<1>15. w = MapPages(boot, KERNEL, one, v, n, st) /\ one \in Nat /\ st \in BOOLEAN /\ one = 1
  BY <1>1
<1> HIDE DEF one, st, boot, v, n
<1>16. w \in Mem /\ Reached(boot, w, D, KERNEL, one, v, n)
  <2>1. MapPages(boot, KERNEL, one, v, n, st) \in Mem
        /\ Reached(boot, MapPages(boot, KERNEL, one, v, n, st), D, KERNEL, one, v, n)
    BY <1>4, <1>7, <1>8, <1>11, <1>12, <1>14, <1>15, MapPagesReach
  <2> QED
    BY <1>15, <2>1
<1>17. w.err = FALSE
  BY <1>1, <1>16 DEF Mem
<1>18. /\ Sound(used, mem, D) /\ Loose(used, mem, D) = {}
       /\ \A r \in v..v + n - 1 : On(mem, KERNEL, r) # 0
       /\ \A r \in Pages(KERNEL) : r \notin v..v + n - 1 => On(mem, KERNEL, r) = On(mm, KERNEL, r)
  BY <1>1, <1>7, <1>8, <1>10, <1>13, <1>16, <1>17 DEF Reached
<1>19. HeapMapped(mem, heapEnd)
  <2>1. HEAP_MIN = n /\ heapEnd = n
    BY <1>2 DEF n
  <2>2. heapEnd \in HEAP_MIN..HEAP_MAX
    BY <1>4, <2>1, HeapPages
  <2>3. ASSUME NEW i \in 0..HEAP_MAX - 1 PROVE On(mem, KERNEL, HeapPage(i)) # 0 <=> i < heapEnd
    <3>1. HeapPage(i) = v + i /\ v + i \in Pages(KERNEL) /\ On(mm, KERNEL, v + i) = 0 /\ i \in Nat /\ v \in Nat
      BY <1>11, HeapPages
    <3>2. v + i \in v..v + n - 1 <=> i < n
      BY <1>4, <3>1
    <3> QED
      BY <1>18, <2>1, <3>1, <3>2
  <2> QED
    BY <2>2, <2>3 DEF HeapMapped
<1>20. Book(cr3, live, dead, spawning)
  BY <1>2, <1>3 DEF Book, CanRun
<1>21. Programs(mem, live) /\ Loading(mem, spawning)
  BY <1>3 DEF Programs, Loading
<1> QED
  BY <1>2, <1>3, <1>18, <1>19, <1>20, <1>21 DEF MemoryInv

(* Every step keeps memory in order, or is the one that goes astray. *)
LEMMA NextInv ==
    ASSUME AddressInv, [Next]_vars
    PROVE  AddressInv'
<1>1. CASE UNCHANGED vars
  <2>1. Dirs' = Dirs
    BY <1>1 DEF vars, Dirs
  <2>2. MemoryInv => MemoryInv'
    BY <1>1, <2>1 DEF vars, MemoryInv
  <2>3. Astray => Astray'
    BY <1>1, <2>1 DEF vars, Astray
  <2> QED
    BY <1>1, <2>2, <2>3 DEF vars, AddressInv
<1>2. CASE Next
  <2>1. ~halted /\ amiss = "nothing" /\ MemoryInv
    BY <1>2 DEF Next, AddressInv, Astray
  <2>2. CASE \E p \in Runnable : Switch(p) \/ Kill(p)
    <3>1. MemoryInv' /\ amiss' = amiss
      BY <2>1, <2>2, SwitchStep DEF Switch, Kill
    <3> QED
      BY <2>1, <3>1 DEF AddressInv
  <2>3. CASE KmallocGrows
    <3>1. amiss' = "nothing" => MemoryInv'
      BY <2>1, <2>3, GrowStep
    <3>2. amiss' # "nothing" => Astray'
      BY <2>1, <2>3, GrowAstray
    <3> QED
      BY <3>1, <3>2 DEF AddressInv
  <2>4. CASE KfreeShrinks
    <3>1. amiss' = "nothing" => MemoryInv'
      BY <2>1, <2>4, ShrinkStep
    <3>2. amiss' # "nothing" => Astray'
      BY <2>1, <2>4, ShrinkAstray
    <3> QED
      BY <3>1, <3>2 DEF AddressInv
  <2>5. CASE \E i \in 0..heapEnd - 1 : Touch(i)
    <3>1. MemoryInv' /\ amiss' = amiss
      BY <2>1, <2>5, TouchStep DEF Touch
    <3> QED
      BY <2>1, <3>1 DEF AddressInv
  <2>6. CASE SpawnBegin
    <3>1. MemoryInv' /\ amiss' = amiss
      BY <2>1, <2>6, SpawnBeginStep DEF SpawnBegin
    <3> QED
      BY <2>1, <3>1 DEF AddressInv
  <2>7. CASE SpawnLoadFails
    <3>1. MemoryInv' /\ amiss' = amiss
      BY <2>1, <2>7, SpawnLoadFailsStep DEF SpawnLoadFails
    <3> QED
      BY <2>1, <3>1 DEF AddressInv
  <2>8. CASE \E img \in Images : SpawnLoad(img)
    <3>1. MemoryInv' /\ amiss' = amiss
      BY <2>1, <2>8, SpawnLoadStep DEF SpawnLoad
    <3> QED
      BY <2>1, <3>1 DEF AddressInv
  <2>9. CASE \E grows \in BOOLEAN : ProcessNew(grows)
    BY <2>1, <2>9, ProcessNewStep
  <2>10. CASE ProcessNewFails
    <3>1. MemoryInv' /\ amiss' = amiss
      BY <2>1, <2>10, ProcessNewFailsStep DEF ProcessNewFails
    <3> QED
      BY <2>1, <3>1 DEF AddressInv
  <2>11. CASE ProcessNewFaults
    <3>1. MemoryInv' /\ amiss' = amiss
      BY <2>1, <2>11, ProcessNewFaultsStep DEF ProcessNewFaults
    <3> QED
      BY <2>1, <3>1 DEF AddressInv
  <2>12. CASE ProcessNewUndone
    <3>1. MemoryInv' /\ amiss' = amiss
      BY <2>1, <2>12, ProcessNewUndoneStep DEF ProcessNewUndone
    <3> QED
      BY <2>1, <3>1 DEF AddressInv
  <2>13. CASE Tick
    <3>1. MemoryInv' /\ amiss' = amiss
      BY <2>1, <2>13, TickStep DEF Tick
    <3> QED
      BY <2>1, <3>1 DEF AddressInv
  <2> QED
    BY <1>2, <2>2, <2>3, <2>4, <2>5, <2>6, <2>7, <2>8, <2>9, <2>10, <2>11, <2>12, <2>13 DEF Next
<1> QED
  BY <1>1, <1>2

(* Memory stays in order: for any memory, table and heap sizes, any programs   *)
(* and any number of processes, with loads that fail, processes killed at any  *)
(* time and ticks that delete them, no frame is at two places, a frame at a    *)
(* place is in use, every directory shares the kernel half, the heap is mapped *)
(* to its end, and programs have their pages.  The step of heap_expand or      *)
(* heap_contract that does not find the heap's table ends this, and after it   *)
(* the processes still have their pages.                                       *)
THEOREM MemoryInOrder == Spec => []AddressInv
<1>1. Init => AddressInv
  BY InitInv DEF AddressInv
<1>2. AddressInv /\ [Next]_vars => AddressInv'
  BY NextInv
<1> QED
  BY <1>1, <1>2, PTL DEF Spec

-----------------------------------------------------------------------------
(* What the invariant says of the properties that the runs check.           *)
LEMMA PhysicalIsOn ==
    ASSUME NEW d, NEW v
    PROVE  ToPhysical(Machine, d, v) = On(mem, d, v)
BY DEF ToPhysical, On, Page, Machine

(* The kernel half is shared, in memory that is in order and after kfree has *)
(* gone astray, and is not after heap_expand has.                            *)
LEMMA HalfIsShared ==
    ASSUME AddressInv
    PROVE  KernelHalfShared
<1>1. CASE Astray /\ amiss = "grown"
  <2>1. heapEnd \in Nat \ {0} /\ On(mem, KERNEL, HeapPage(heapEnd - 1)) = 0
    BY <1>1 DEF Astray
  <2>2. heapEnd - 1 \in 0..heapEnd - 1
    BY <2>1
  <2>3. ToPhysical(Machine, KERNEL, HeapPage(heapEnd - 1)) = 0
    BY <2>1, PhysicalIsOn
  <2>4. ~OneKernelHalf
    BY <2>2, <2>3 DEF OneKernelHalf
  <2> QED
    BY <1>1, <2>4 DEF KernelHalfShared
<1>2. CASE ~(Astray /\ amiss = "grown")
  <2>1. amiss # "grown" /\ Shared(mem, Dirs) /\ \A i \in 0..heapEnd - 1 : On(mem, KERNEL, HeapPage(i)) # 0
    <3>1. CASE amiss = "nothing" /\ MemoryInv
      <4>1. heapEnd \in Nat /\ heapEnd <= HEAP_MAX /\ HeapMapped(mem, heapEnd) /\ HEAP_MAX \in Nat
        BY <3>1, AddressSpaceAssumption, HeapPages DEF MemoryInv, HeapMapped
      <4>2. \A i \in 0..heapEnd - 1 : i \in 0..HEAP_MAX - 1 /\ i < heapEnd
        BY <4>1
      <4>3. \A i \in 0..heapEnd - 1 : On(mem, KERNEL, HeapPage(i)) # 0
        BY <4>1, <4>2 DEF HeapMapped
      <4> QED
        BY <3>1, <4>3 DEF MemoryInv, Sound
    <3>2. CASE Astray
      BY <1>2, <3>2 DEF Astray
    <3> QED
      BY <3>1, <3>2 DEF AddressInv
  <2>2. \A i \in 0..heapEnd - 1 : ToPhysical(Machine, KERNEL, HeapPage(i)) # 0
    BY <2>1, PhysicalIsOn
  <2>3. ASSUME NEW d \in Directories, NEW t \in Tables, t >= USER_TABLES PROVE mem[d][t] \in {0, mem[KERNEL][t]}
    <3>1. d \in Dirs
      BY DEF Directories, Dirs, DirsOf
    <3>2. t \in USER_TABLES..USER_TABLES + HEAP_TABLES - 1
      BY <2>3, Sizes DEF Tables
    <3> QED
      BY <2>1, <3>1, <3>2 DEF Shared
  <2>4. OneKernelHalf
    BY <2>2, <2>3 DEF OneKernelHalf
  <2> QED
    BY <2>1, <2>4 DEF KernelHalfShared
<1> QED
  BY <1>1, <1>2

(* Every page of the processes that can run is there. *)
LEMMA RunnableHas ==
    ASSUME AddressInv
    PROVE  RunnableComplete
<1>1. Book(cr3, live, dead, spawning) /\ Programs(mem, live)
  BY DEF AddressInv, MemoryInv, Astray
<1>2. cr3 \in Runnable
  BY <1>1 DEF Book, CanRun, Runnable
<1>3. ASSUME NEW d \in DOMAIN live
      PROVE  /\ \A s \in live[d] : \A b \in s.vaddr..s.vaddr + s.memsz - 1 : ToPhysical(Machine, d, b \div PAGE) # 0
             /\ \A v \in StackPages : ToPhysical(Machine, d, v) # 0
  <2>1. live[d] \in Images /\ Has(mem, d, ImagePages(live[d]) \cup StackPages)
    BY <1>1, <1>3 DEF Book, Programs
  <2>2. \A v \in ImagePages(live[d]) \cup StackPages : ToPhysical(Machine, d, v) # 0
    BY <2>1, PhysicalIsOn DEF Has
  <2>3. \A s \in live[d] : \A b \in s.vaddr..s.vaddr + s.memsz - 1 : b \div PAGE \in ImagePages(live[d])
    BY <2>1, ImageFacts
  <2> QED
    BY <2>2, <2>3
<1> QED
  BY <1>2, <1>3 DEF RunnableComplete

-----------------------------------------------------------------------------
(* The frames of a directory, by the kind of place. *)
OwnFrame(d) == {d} \ {KERNEL}
OwnTables(mm, d) == {mm[d][t] : t \in Half(d)} \ {0}
OwnPages(mm, d) == {On(mm, d, v) : v \in Pages(d)} \ {0}

(* They are the frames at its places. *)
LEMMA PlacesOf ==
    ASSUME NEW mm, NEW d \in Word
    PROVE  {At(mm, s) : s \in SlotsOf(d)} \ {0} = OwnFrame(d) \cup OwnTables(mm, d) \cup OwnPages(mm, d)
<1>1. ASSUME NEW s \in SlotsOf(d), At(mm, s) # 0
      PROVE  At(mm, s) \in OwnFrame(d) \cup OwnTables(mm, d) \cup OwnPages(mm, d)
  <2>1. CASE s \in {DirSlot(e) : e \in {d} \ {KERNEL}}
    BY <2>1, AtSlot DEF OwnFrame
  <2>2. CASE \E t \in Half(d) : s = TabSlot(d, t)
    <3>1. PICK t \in Half(d) : s = TabSlot(d, t)
      BY <2>2
    <3>2. At(mm, s) = mm[d][t]
      BY <3>1, AtTab
    <3> QED
      BY <1>1, <3>2 DEF OwnTables
  <2>3. CASE \E t \in Half(d) : \E i \in Cells : s = PagSlot(d, t, i)
    <3>1. PICK t \in Half(d), i \in Cells : s = PagSlot(d, t, i)
      BY <2>3
    <3> DEFINE q == ENTRIES * t + i
    <3>2. At(mm, s) = Page(mm, d, t, i)
      BY <3>1, AtPag
    <3>3. q \in Pages(d) /\ PDI(q) = t /\ PTI(q) = i
      BY PageOf
    <3> HIDE DEF q
    <3>4. At(mm, s) = On(mm, d, q)
      BY <3>2, <3>3 DEF On
    <3> QED
      BY <1>1, <3>3, <3>4 DEF OwnPages
  <2> QED
    BY <2>1, <2>2, <2>3 DEF SlotsOf
<1>2. ASSUME NEW x \in OwnFrame(d) PROVE x # 0 /\ \E s \in SlotsOf(d) : x = At(mm, s)
  <2>1. x = d /\ d # KERNEL /\ DirSlot(d) \in SlotsOf(d)
    BY DEF OwnFrame, SlotsOf
  <2> QED
    BY <2>1, AtSlot DEF KERNEL
<1>3. ASSUME NEW x \in OwnTables(mm, d) PROVE x # 0 /\ \E s \in SlotsOf(d) : x = At(mm, s)
  <2>1. PICK t \in Half(d) : x = mm[d][t] /\ x # 0
    BY DEF OwnTables
  <2>2. TabSlot(d, t) \in SlotsOf(d) /\ At(mm, TabSlot(d, t)) = mm[d][t]
    BY AtTab DEF SlotsOf
  <2> QED
    BY <2>1, <2>2
<1>4. ASSUME NEW x \in OwnPages(mm, d) PROVE x # 0 /\ \E s \in SlotsOf(d) : x = At(mm, s)
  <2>1. PICK v \in Pages(d) : x = On(mm, d, v) /\ x # 0
    BY DEF OwnPages
  <2> DEFINE t == PDI(v)
             i == PTI(v)
  <2>2. t \in Half(d) /\ i \in Cells
    BY PageIndex
  <2>3. x = Page(mm, d, t, i)
    BY <2>1 DEF On
  <2> HIDE DEF t, i
  <2>4. PagSlot(d, t, i) \in SlotsOf(d) /\ At(mm, PagSlot(d, t, i)) = Page(mm, d, t, i)
    BY <2>2, AtPag DEF SlotsOf
  <2> QED
    BY <2>1, <2>3, <2>4
<1> QED
  BY <1>1, <1>2, <1>3, <1>4

(* OwnedBy is the frames at a directory's places. *)
LEMMA OwnedParts ==
    ASSUME MemoryInv, NEW d \in Dirs
    PROVE  OwnedBy(d) = OwnFrame(d) \cup OwnTables(mem, d) \cup OwnPages(mem, d)
<1>0. Sound(used, mem, Dirs) /\ HeapMapped(mem, heapEnd) /\ Dirs \subseteq Word
  BY DEF MemoryInv, Sound
<1>1. CASE d # KERNEL
  <2>1. Half(d) = 0..USER_TABLES - 1 /\ Pages(d) = UserPages /\ OwnFrame(d) = {d}
    BY <1>1 DEF Half, Pages, OwnFrame
  <2>2. UserTables(d) = OwnTables(mem, d)
    BY <2>1 DEF UserTables, OwnTables
  <2>3. Mapped(Machine, d) = OwnPages(mem, d)
    BY <2>1, PhysicalIsOn DEF Mapped, OwnPages
  <2> QED
    BY <1>1, <2>1, <2>2, <2>3 DEF OwnedBy
<1>2. CASE d = KERNEL
  <2> DEFINE P == {ToPhysical(Machine, KERNEL, HeapPage(i)) : i \in 0..heapEnd - 1}
             high == USER_TABLES..USER_TABLES + HEAP_TABLES - 1
             low == 0..USER_TABLES - 1
  <2>1. Half(KERNEL) = high /\ OwnFrame(KERNEL) = {} /\ Tables = low \cup high /\ \A t \in low : mem[KERNEL][t] = 0
    BY <1>0, Sizes DEF Half, OwnFrame, Tables, Sound, Shared
  <2> HIDE DEF high, low
  <2>2. HeapTables = OwnTables(mem, KERNEL)
    BY <2>1 DEF HeapTables, OwnTables
  <2>3. heapEnd \in Nat /\ heapEnd <= HEAP_MAX /\ HEAP_MAX \in Nat
    <3>1. HEAP_MIN \in Nat
      BY AddressSpaceAssumption
    <3> QED
      BY <1>0, <3>1, HeapPages DEF HeapMapped
  <2>4. ASSUME NEW i \in 0..heapEnd - 1 PROVE ToPhysical(Machine, KERNEL, HeapPage(i)) \in OwnPages(mem, KERNEL)
    <3>1. i \in 0..HEAP_MAX - 1 /\ i < heapEnd
      BY <2>3
    <3>2. HeapPage(i) \in Pages(KERNEL) /\ On(mem, KERNEL, HeapPage(i)) # 0
      BY <1>0, <3>1, HeapPages DEF HeapMapped
    <3> QED
      BY <3>2, PhysicalIsOn DEF OwnPages
  <2>5. ASSUME NEW x \in OwnPages(mem, KERNEL) PROVE x \in P
    <3>1. PICK v \in Pages(KERNEL) : x = On(mem, KERNEL, v) /\ x # 0
      BY DEF OwnPages
    <3>2. PICK i \in 0..HEAP_MAX - 1 : v = HeapPage(i)
      BY HeapPages
    <3>3. i < heapEnd
      BY <1>0, <3>1, <3>2 DEF HeapMapped
    <3>4. i \in 0..heapEnd - 1
      BY <2>3, <3>3
    <3> QED
      BY <3>1, <3>2, <3>4, PhysicalIsOn
  <2>6. P = OwnPages(mem, KERNEL)
    BY <2>4, <2>5
  <2> QED
    BY <1>2, <2>1, <2>2, <2>6 DEF OwnedBy
<1> QED
  BY <1>1, <1>2

-----------------------------------------------------------------------------
(* An injective function on a finite set has as many values as arguments. *)
LEMMA ImageCount ==
    ASSUME NEW S, IsFiniteSet(S), NEW f, \A r, s \in S : f[r] = f[s] => r = s
    PROVE  IsFiniteSet({f[s] : s \in S}) /\ Cardinality({f[s] : s \in S}) = Cardinality(S)
<1> DEFINE T == {f[s] : s \in S}
           g == [s \in S |-> f[s]]
<1>1. g \in [S -> T] /\ (\A r, s \in S : g[r] = g[s] => r = s) /\ \A y \in T : \E s \in S : g[s] = y
  OBVIOUS
<1> HIDE DEF T, g
<1>2. g \in Bijection(S, T)
  BY <1>1 DEF Bijection, Injection, Surjection, IsInjective
<1>3. ExistsBijection(S, T)
  BY <1>2 DEF ExistsBijection
<1> QED
  BY <1>3, FS_Bijection DEF T

(* No frame is at two places. *)
LEMMA OnePlaceEach ==
    ASSUME NEW u, NEW mm, NEW D, Sound(u, mm, D), NEW r \in Slots(D), NEW s \in Slots(D),
           At(mm, r) = At(mm, s), At(mm, r) # 0
    PROVE  r = s
<1> DEFINE f == Uses(mm, D)
<1>1. Placed(f, Slots(D), u) /\ f[r] = At(mm, r) /\ f[s] = At(mm, s)
  BY DEF Sound, Uses
<1> HIDE DEF f
<1> QED
  BY <1>1 DEF Placed

(* No frame of a directory is used twice. *)
LEMMA PageCount ==
    ASSUME NEW u, NEW mm, NEW D, Sound(u, mm, D), NEW d \in D
    PROVE  /\ \A t \in Half(d) : mm[d][t] # 0 =>
                 mm[d][t] \notin OwnFrame(d) /\ \A r \in Half(d) : mm[d][t] = mm[d][r] => t = r
           /\ \A v \in Pages(d) : On(mm, d, v) # 0 =>
                 /\ On(mm, d, v) \notin OwnFrame(d) \cup OwnTables(mm, d)
                 /\ \A r \in Pages(d) : On(mm, d, v) = On(mm, d, r) => v = r
<1>0. D \subseteq Word /\ d \in Word
  BY DEF Sound
<1>1. ASSUME NEW t \in Half(d), mm[d][t] # 0
      PROVE  mm[d][t] \notin OwnFrame(d) /\ \A r \in Half(d) : mm[d][t] = mm[d][r] => t = r
  BY <1>1, RowsInUse DEF OwnFrame
<1>2. ASSUME NEW v \in Pages(d), On(mm, d, v) # 0
      PROVE  /\ On(mm, d, v) \notin OwnFrame(d) \cup OwnTables(mm, d)
             /\ \A r \in Pages(d) : On(mm, d, v) = On(mm, d, r) => v = r
  <2>0. PDI(v) \in Half(d) /\ PTI(v) \in Cells
    BY <1>0, PageIndex
  <2>1. PageSlot(d, v) \in Slots(D) /\ At(mm, PageSlot(d, v)) = On(mm, d, v)
    BY <1>0, PageSlots
  <2>2. ASSUME NEW r \in Pages(d), On(mm, d, v) = On(mm, d, r) PROVE v = r
    <3>1. PageSlot(d, r) \in Slots(D) /\ At(mm, PageSlot(d, r)) = On(mm, d, r)
      BY <1>0, PageSlots
    <3>2. PageSlot(d, v) = PageSlot(d, r)
      BY <1>2, <2>1, <2>2, <3>1, OnePlaceEach
    <3> QED
      BY <1>0, <3>2, PageSlots
  <2>3. ASSUME On(mm, d, v) \in OwnFrame(d) PROVE FALSE
    <3>1. d # KERNEL /\ On(mm, d, v) = d
      BY <2>3 DEF OwnFrame
    <3>2. DirSlot(d) \in Slots(D) /\ At(mm, DirSlot(d)) = d
      BY <1>0, <3>1, AtSlot, SlotsThere
    <3>3. PageSlot(d, v) = DirSlot(d)
      BY <1>2, <2>1, <3>1, <3>2, OnePlaceEach
    <3> QED
      BY <1>0, <2>0, <3>3, SlotsDiffer DEF PageSlot
  <2>4. ASSUME On(mm, d, v) \in OwnTables(mm, d) PROVE FALSE
    <3>1. PICK t \in Half(d) : On(mm, d, v) = mm[d][t]
      BY <2>4 DEF OwnTables
    <3>2. TabSlot(d, t) \in Slots(D) /\ At(mm, TabSlot(d, t)) = mm[d][t]
      BY <1>0, AtTab, SlotsThere
    <3>3. PageSlot(d, v) = TabSlot(d, t)
      BY <1>2, <2>1, <3>1, <3>2, OnePlaceEach
    <3> QED
      BY <1>0, <2>0, <3>3, SlotsDiffer DEF PageSlot
  <2> QED
    BY <2>2, <2>3, <2>4
<1> QED
  BY <1>1, <1>2

(* Two sets with nothing in common. *)
LEMMA DisjointCount ==
    ASSUME NEW S, IsFiniteSet(S), NEW T, IsFiniteSet(T), S \cap T = {}
    PROVE  IsFiniteSet(S \cup T) /\ Cardinality(S \cup T) = Cardinality(S) + Cardinality(T)
<1> DEFINE a == Cardinality(S)
           b == Cardinality(T)
           c == Cardinality(S \cap T)
<1>1. a \in Nat /\ b \in Nat
  BY FS_CardinalityType
<1>2. c = 0
  BY FS_EmptySet
<1>3. IsFiniteSet(S \cup T) /\ Cardinality(S \cup T) = a + b - c
  BY FS_Union
<1> HIDE DEF a, b, c
<1>4. a + b - c = a + b
  BY <1>1, <1>2
<1> QED
  BY <1>3, <1>4 DEF a, b

(* A directory has as many frames as uses for them. *)
LEMMA OwnedCount ==
    ASSUME MemoryInv, NEW d \in Dirs
    PROVE  Cardinality(OwnedBy(d)) = Mappings(d)
<1> DEFINE A == OwnFrame(d)
           B == OwnTables(mem, d)
           C == OwnPages(mem, d)
           T == {t \in Half(d) : mem[d][t] # 0}
           V == {v \in Pages(d) : On(mem, d, v) # 0}
<1>0. Sound(used, mem, Dirs) /\ HeapMapped(mem, heapEnd) /\ Dirs \subseteq Word /\ d \in Word
  BY DEF MemoryInv, Sound
<1>1. OwnedBy(d) = A \cup B \cup C
  BY OwnedParts
<1>2. IsFiniteSet(A) /\ Cardinality(A) = IF d = KERNEL THEN 0 ELSE 1
  <2>1. CASE d = KERNEL
    BY <2>1, FS_EmptySet DEF OwnFrame
  <2>2. CASE d # KERNEL
    <3>1. A = {d}
      BY <2>2 DEF OwnFrame
    <3> QED
      BY <2>2, <3>1, FS_Singleton
  <2> QED
    BY <2>1, <2>2
<1>3. IsFiniteSet(T) /\ IsFiniteSet(V)
  <2>1. IsFiniteSet(Half(d))
    <3>1. USER_TABLES \in Int /\ USER_TABLES - 1 \in Int /\ USER_TABLES + HEAP_TABLES - 1 \in Int /\ 0 \in Int
      BY Sizes
    <3> QED
      BY <3>1, FS_Interval DEF Half
  <2>2. IsFiniteSet(Pages(d))
    <3> DEFINE a == USER_TABLES * ENTRIES
               b == (USER_TABLES + HEAP_TABLES) * ENTRIES
    <3>1. a \in Int /\ a - 1 \in Int /\ b - 1 \in Int /\ 0 \in Int
      BY Sizes
    <3>2. IsFiniteSet(a..b - 1) /\ IsFiniteSet(0..a - 1)
      BY <3>1, FS_Interval
    <3> QED
      BY <3>2 DEF Pages, UserPages
  <2> QED
    BY <2>1, <2>2, FS_Subset
<1>4. IsFiniteSet(B) /\ Cardinality(B) = Cardinality(T)
  <2> DEFINE f == mem[d]
  <2>1. \A r, s \in T : f[r] = f[s] => r = s
    BY <1>0, PageCount
  <2>2. B = {f[t] : t \in T}
    BY DEF OwnTables
  <2> HIDE DEF f, T, B
  <2> QED
    BY <1>3, <2>1, <2>2, ImageCount
<1>5. IsFiniteSet(C) /\ Cardinality(C) = Cardinality(V)
  <2> DEFINE f == [v \in Pages(d) |-> On(mem, d, v)]
  <2>1. \A r, s \in V : f[r] = f[s] => r = s
    BY <1>0, PageCount
  <2>2. C = {f[v] : v \in V}
    BY DEF OwnPages
  <2> HIDE DEF f, V, C
  <2> QED
    BY <1>3, <2>1, <2>2, ImageCount
<1>6. A \cap B = {} /\ (A \cup B) \cap C = {}
  <2>1. \A x \in B : x \notin A
    BY <1>0, PageCount DEF OwnTables
  <2>2. \A x \in C : x \notin A \cup B
    BY <1>0, PageCount DEF OwnPages
  <2> QED
    BY <2>1, <2>2
<1> HIDE DEF A, B, C
<1>7. Cardinality(A \cup B \cup C) = Cardinality(A) + Cardinality(B) + Cardinality(C)
  <2> DEFINE AB == A \cup B
  <2>1. IsFiniteSet(AB) /\ Cardinality(AB) = Cardinality(A) + Cardinality(B)
    BY <1>2, <1>4, <1>6, DisjointCount
  <2>2. AB \cap C = {}
    BY <1>6
  <2>3. A \cup B \cup C = AB \cup C
    OBVIOUS
  <2> HIDE DEF AB
  <2>4. Cardinality(AB \cup C) = Cardinality(AB) + Cardinality(C)
    BY <1>5, <2>1, <2>2, DisjointCount
  <2> QED
    BY <2>1, <2>3, <2>4
<1>8. CASE d = KERNEL
  <2>1. Mappings(d) = Cardinality(HeapTables) + heapEnd
    BY <1>8 DEF Mappings
  <2>2. HeapTables = B
    <3>1. Half(d) = USER_TABLES..USER_TABLES + HEAP_TABLES - 1 /\ Tables = 0..USER_TABLES - 1 \cup Half(d)
      BY <1>8, Sizes DEF Half, Tables
    <3>2. \A t \in 0..USER_TABLES - 1 : mem[KERNEL][t] = 0
      BY <1>0 DEF Sound, Shared
    <3> QED
      BY <1>8, <3>1, <3>2 DEF HeapTables, B, OwnTables
  <2>3. heapEnd \in Nat /\ heapEnd <= HEAP_MAX /\ HEAP_MAX \in Nat
    <3>1. HEAP_MIN \in Nat
      BY AddressSpaceAssumption
    <3> QED
      BY <1>0, <3>1, HeapPages DEF HeapMapped
  <2> DEFINE I == 0..heapEnd - 1
             f == [i \in I |-> HeapPage(i)]
  <2>4. IsFiniteSet(I) /\ Cardinality(I) = heapEnd
    <3> DEFINE z == 0
               e == heapEnd - 1
    <3>1. z \in Int /\ e \in Int /\ z = 0
      BY <2>3
    <3> HIDE DEF z, e
    <3>2. IsFiniteSet(z..e) /\ Cardinality(z..e) = IF z > e THEN 0 ELSE e - z + 1
      BY <3>1, FS_Interval
    <3>3. (IF z > e THEN 0 ELSE e - z + 1) = heapEnd
      BY <2>3, <3>1 DEF e
    <3> QED
      BY <3>1, <3>2, <3>3 DEF e
  <2>5. \A i \in I : i \in 0..HEAP_MAX - 1 /\ i \in Int /\ i < heapEnd
    BY <2>3
  <2>6. \A r, s \in I : f[r] = f[s] => r = s
    BY <2>5, HeapPages
  <2>7. V = {f[i] : i \in I}
    <3>1. ASSUME NEW i \in I PROVE f[i] \in V
      <4>1. f[i] = HeapPage(i) /\ i \in 0..HEAP_MAX - 1 /\ i < heapEnd
        BY <2>5
      <4> HIDE DEF I, f
      <4>2. HeapPage(i) \in Pages(KERNEL) /\ On(mem, KERNEL, HeapPage(i)) # 0
        BY <1>0, <4>1, HeapPages DEF HeapMapped
      <4> QED
        BY <1>8, <4>1, <4>2
    <3>2. ASSUME NEW v \in V PROVE \E i \in I : v = f[i]
      <4>1. v \in Pages(KERNEL) /\ On(mem, KERNEL, v) # 0
        BY <1>8
      <4>2. PICK i \in 0..HEAP_MAX - 1 : v = HeapPage(i)
        BY <4>1, HeapPages
      <4>3. i < heapEnd
        BY <1>0, <4>1, <4>2 DEF HeapMapped
      <4>4. i \in I
        BY <2>3, <4>3
      <4> QED
        BY <4>2, <4>4
    <3> HIDE DEF I, f, V
    <3> QED
      BY <3>1, <3>2
  <2> HIDE DEF I, f, V
  <2>8. Cardinality(V) = heapEnd
    BY <2>4, <2>6, <2>7, ImageCount
  <2>9. Cardinality(B) \in Nat
    BY <1>4, FS_CardinalityType
  <2>10. Cardinality(A) = 0 /\ Cardinality(C) = heapEnd
    BY <1>2, <1>5, <1>8, <2>8
  <2> QED
    BY <1>1, <1>7, <2>1, <2>2, <2>3, <2>9, <2>10
<1>9. CASE d # KERNEL
  <2>1. Half(d) = 0..USER_TABLES - 1 /\ Pages(d) = UserPages
    BY <1>9 DEF Half, Pages
  <2>2. T = {t \in 0..USER_TABLES - 1 : mem[d][t] # 0}
    BY <2>1
  <2>3. V = {v \in UserPages : ToPhysical(Machine, d, v) # 0}
    BY <2>1, PhysicalIsOn
  <2> HIDE DEF T, V
  <2>4. Mappings(d) = 1 + Cardinality(T) + Cardinality(V)
    BY <1>9, <2>2, <2>3, Zenon DEF Mappings
  <2>5. Cardinality(A) = 1
    BY <1>2, <1>9
  <2> QED
    BY <1>1, <1>4, <1>5, <1>7, <2>4, <2>5
<1> QED
  BY <1>8, <1>9

(* In memory that is in order every frame has one owner. *)
LEMMA OwnedOnce ==
    ASSUME AddressInv
    PROVE  FramesAccounted
<1> SUFFICES ASSUME ~halted, MemoryInv
             PROVE  /\ \A d, e \in {KERNEL} \cup Directories : d # e => OwnedBy(d) \cap OwnedBy(e) = {}
                    /\ \A d \in {KERNEL} \cup Directories : Cardinality(OwnedBy(d)) = Mappings(d)
                    /\ used = lost \cup UNION {OwnedBy(d) : d \in {KERNEL} \cup Directories}
                    /\ \A d \in {KERNEL} \cup Directories : OwnedBy(d) \cap lost = {}
  BY DEF FramesAccounted, AddressInv, Astray
<1>1. {KERNEL} \cup Directories = Dirs
  BY DEF Directories, Dirs, DirsOf
<1>2. Sound(used, mem, Dirs) /\ lost = Loose(used, mem, Dirs) /\ Dirs \subseteq Word
  BY DEF MemoryInv, Sound
<1> DEFINE f == Uses(mem, Dirs)
           S == Slots(Dirs)
<1>3. Placed(f, S, used) /\ lost = used \ Refs(f, S)
  BY <1>2 DEF Sound, Loose
<1>4. \A d \in Dirs : OwnedBy(d) = {At(mem, s) : s \in SlotsOf(d)} \ {0}
  BY <1>2, OwnedParts, PlacesOf
<1>5. \A d \in Dirs : \A s \in SlotsOf(d) : s \in S /\ f[s] = At(mem, s) /\ s[1] = d
  <2> SUFFICES ASSUME NEW d \in Dirs, NEW s \in SlotsOf(d) PROVE s \in S /\ f[s] = At(mem, s) /\ s[1] = d
    OBVIOUS
  <2>1. s[1] = d
    BY DEF SlotsOf, DirSlot, TabSlot, PagSlot
  <2>2. s \in S
    BY DEF Slots
  <2> QED
    BY <2>1, <2>2 DEF Uses
<1>6. \A s \in S : \E d \in Dirs : s \in SlotsOf(d)
  BY DEF Slots
<1> HIDE DEF f, S
<1>7. \A d \in Dirs : \A x : x \in OwnedBy(d) <=> x # 0 /\ \E s \in SlotsOf(d) : s \in S /\ x = f[s]
  BY <1>4, <1>5
<1>8. ASSUME NEW d \in Dirs, NEW e \in Dirs, d # e PROVE OwnedBy(d) \cap OwnedBy(e) = {}
  <2> SUFFICES ASSUME NEW x \in OwnedBy(d), x \in OwnedBy(e) PROVE FALSE
    OBVIOUS
  <2>1. PICK s \in SlotsOf(d) : s \in S /\ x = f[s] /\ x # 0
    BY <1>7
  <2>2. PICK r \in SlotsOf(e) : r \in S /\ x = f[r]
    BY <1>7
  <2>3. r = s
    BY <1>3, <2>1, <2>2 DEF Placed
  <2> QED
    BY <1>5, <1>8, <2>3
<1>9. \A x : x \in UNION {OwnedBy(d) : d \in Dirs} <=> x \in Refs(f, S)
  <2>1. \A x : x \in Refs(f, S) <=> x # 0 /\ \E s \in S : x = f[s]
    BY DEF Refs
  <2>2. \A x : x \in UNION {OwnedBy(d) : d \in Dirs} <=> \E d \in Dirs : x \in OwnedBy(d)
    OBVIOUS
  <2> QED
    BY <1>6, <1>7, <2>1, <2>2
<1>10. Refs(f, S) \subseteq used
  BY <1>3 DEF Placed, Refs
<1>11. used = lost \cup UNION {OwnedBy(d) : d \in Dirs}
  BY <1>3, <1>9, <1>10
<1>12. \A d \in Dirs : OwnedBy(d) \cap lost = {}
  <2> SUFFICES ASSUME NEW d \in Dirs, NEW x \in OwnedBy(d), x \in lost PROVE FALSE
    OBVIOUS
  <2>1. x \in Refs(f, S)
    BY <1>9
  <2> QED
    BY <1>3, <2>1
<1> QED
  BY <1>1, <1>8, <1>11, <1>12, OwnedCount

-----------------------------------------------------------------------------
(* vmmngr_free_page_directory frees what a process owns and no more, even when   *)
(* process_delete and scheduler_spawn both call it: a frame in use has one owner *)
(* and one use, a free one none, and the only frames forgotten are those of a    *)
(* program that could not be loaded for lack of memory, up to the first          *)
(* heap_expand or heap_contract that does not find the heap's table.             *)
THEOREM FramesAreAccounted == Spec => []FramesAccounted
<1>1. AddressInv => FramesAccounted
  BY OwnedOnce
<1>2. Spec => []AddressInv
  BY MemoryInOrder
<1> QED
  BY <1>1, <1>2, PTL

(* When page_fault_handler finds the entry to copy: the tables of the kernel    *)
(* heap are the same in every directory, or not there yet, and the kernel's has *)
(* all of them, exactly as long as heap_expand has found the table of each page *)
(* in the directory it runs under, or could make it in the kernel's.            *)
THEOREM KernelHalfIsShared == Spec => []KernelHalfShared
<1>1. AddressInv => KernelHalfShared
  BY HalfIsShared
<1>2. Spec => []AddressInv
  BY MemoryInOrder
<1> QED
  BY <1>1, <1>2, PTL

(* The processor is never on a freed page directory, and a process that can run *)
(* has every page of its program, as _elf_load counts them, and of its stack,   *)
(* the step by which the heap goes amiss included.                              *)
THEOREM RunnableIsComplete == Spec => []RunnableComplete
<1>1. AddressInv => RunnableComplete
  BY RunnableHas
<1>2. Spec => []AddressInv
  BY MemoryInOrder
<1> QED
  BY <1>1, <1>2, PTL
=============================================================================
