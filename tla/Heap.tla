-------------------------------- MODULE Heap --------------------------------
(***************************************************************************)
(* The heap of kernel/src/mem/heap.c, of which the kernel has one          *)
(* (kmalloc, kfree) and the ramfs another: regions, each behind a header,  *)
(* from the end of the heap's own structure to heap->end; allocation is    *)
(* first fit, freeing merges a region with its neighbours.                 *)
(*                                                                         *)
(* Addresses are relative to the heap's structure, which is at 0.  No      *)
(* caller passes page_align.  Headers that a merge leaves inside a region  *)
(* are dropped from region: nothing reads them again.                      *)
(***************************************************************************)
EXTENDS Integers, FiniteSets

CONSTANTS
    Owner,           \* callers' pointers: one owner holds one block
    Sizes,           \* sizes asked for
    HEAP_SIZE,       \* sizeof(heap_t)
    HEADER_SIZE,     \* sizeof(heap_header_t)
    MIN_REGION_SIZE,
    MMNGR_PAGE_SIZE,
    InitialPages,    \* size given to heap_new, in pages
    MaxPages,        \* max_size given to heap_new, in pages
    WORD             \* size_t and addresses are modulo WORD: 2^32 in the code

(* What heap_new is given. *)
HeapAssumption ==
    /\ Sizes \subseteq Nat
    /\ {HEAP_SIZE, HEADER_SIZE, MIN_REGION_SIZE, MMNGR_PAGE_SIZE} \subseteq Nat \ {0}
    /\ InitialPages \in 1..MaxPages
    /\ HEAP_SIZE + HEADER_SIZE + MIN_REGION_SIZE <= InitialPages * MMNGR_PAGE_SIZE
    /\ WORD \in Nat \ {0}
    /\ WORD % MMNGR_PAGE_SIZE = 0
    /\ (MaxPages + 1) * MMNGR_PAGE_SIZE < WORD

NULL == 0
FirstHeader == HEAP_SIZE
MinSize == InitialPages * MMNGR_PAGE_SIZE
Addr == 0..WORD - 1

VARIABLES
    end,       \* heap->end
    region,    \* headers: address -> used (the magic number), size, prev
    block      \* history: address and size of each owner's block, NULL if it has none

vars == <<end, region, block>>

NoBlock == [addr |-> NULL, size |-> 0]

NextHeader(h, r) == (h + HEADER_SIZE + r[h].size) % WORD

(* heap_new *)
Init ==
    /\ end = MinSize
    /\ region = [h \in {FirstHeader} |->
                    [used |-> FALSE, size |-> MinSize - FirstHeader - HEADER_SIZE, prev |-> NULL]]
    /\ block = [o \in Owner |-> NoBlock]

-----------------------------------------------------------------------------
(* The headers a walk from the first one meets, in the order of their       *)
(* addresses (Tiled says so).                                               *)
Headers == DOMAIN region

LastHeader == CHOOSE h \in Headers : NextHeader(h, region) >= end

Fits(h, size) == ~region[h].used /\ region[h].size >= size + HEADER_SIZE

(* r with the prev field of h set, if h is a header of the heap. *)
SetPrev(r, h, e, prev) ==
    IF h < e /\ h \in DOMAIN r THEN [r EXCEPT ![h].prev = prev] ELSE r

(* The last part of heap_alloc: o's block is in region h, whose tail        *)
(* becomes a free region unless it is too small.  The subtraction wraps.    *)
Place(r, e, h, size, o) ==
    LET spare == (r[h].size - size - HEADER_SIZE) % WORD
        newh  == (h + HEADER_SIZE + size) % WORD
        split == [a \in DOMAIN r \cup {newh} |->
                    IF a = newh THEN [used |-> FALSE, size |-> spare, prev |-> h]
                    ELSE IF a = h THEN [r[h] EXCEPT !.size = size] ELSE r[a]]
        cut   == IF spare >= MIN_REGION_SIZE
                 THEN SetPrev(split, NextHeader(newh, split), e, newh)
                 ELSE r
    IN /\ region' = [cut EXCEPT ![h].used = TRUE]
       /\ block' = [block EXCEPT ![o] = [addr |-> h + HEADER_SIZE, size |-> size]]
       /\ end' = e

(* heap_alloc when a region fits *)
AllocFit(o, size) ==
    /\ block[o] = NoBlock
    /\ \E h \in Headers :
          /\ Fits(h, size)
          /\ \A g \in Headers : g < h => ~Fits(g, size)
          /\ Place(region, end, h, size, o)

(* How many pages heap_alloc asks heap_expand for. *)
NeededPages(size) ==
    LET last   == region[LastHeader]
        needed == IF last.used THEN size + HEADER_SIZE ELSE (size - last.size) % WORD
    IN ((needed + MMNGR_PAGE_SIZE - 1) \div MMNGR_PAGE_SIZE) % (WORD \div MMNGR_PAGE_SIZE)

NothingFits(size) == \A h \in Headers : ~Fits(h, size)

(* heap_expand fails: past max_addr, or no frames (none are given for 0     *)
(* pages).  heap_alloc returns 0.                                           *)
AllocFails(o, size) ==
    /\ block[o] = NoBlock
    /\ NothingFits(size)
    /\ UNCHANGED vars

(* heap_expand succeeds, and heap_alloc goes on with the last header. *)
AllocExpand(o, size) ==
    LET pages == NeededPages(size)
        e     == end + pages * MMNGR_PAGE_SIZE
        l     == LastHeader
        grown == IF region[l].used
                 THEN [a \in Headers \cup {end} |->
                          IF a = end
                          THEN [used |-> FALSE, size |-> pages * MMNGR_PAGE_SIZE - HEADER_SIZE,
                                prev |-> l]
                          ELSE region[a]]
                 ELSE [region EXCEPT ![l].size = @ + pages * MMNGR_PAGE_SIZE]
    IN /\ block[o] = NoBlock
       /\ NothingFits(size)
       /\ pages > 0
       /\ e <= MaxPages * MMNGR_PAGE_SIZE
       /\ Place(grown, e, l, size, o)

-----------------------------------------------------------------------------
(* r with region h and the one behind it made one. *)
Merge_noPrev(r, h) ==     \* mutant: the header behind them is not told
    LET n == NextHeader(h, r)
    IN [a \in DOMAIN r \ {n} |->
          IF a = h THEN [r[h] EXCEPT !.size = @ + r[n].size + HEADER_SIZE] ELSE r[a]]

Merge(r, h) ==
    LET n == NextHeader(h, r)
        m == [a \in DOMAIN r \ {n} |->
                IF a = h THEN [r[h] EXCEPT !.size = @ + r[n].size + HEADER_SIZE] ELSE r[a]]
    IN SetPrev(m, NextHeader(h, m), end, h)

(* heap_free's merging of region h, just freed, with the next one and then  *)
(* with the one before; header is the region that results.                  *)
Coalesce(r, h) ==
    LET withNext == IF NextHeader(h, r) < end /\ ~r[NextHeader(h, r)].used THEN Merge(r, h) ELSE r
        prev     == r[h].prev
    IN IF prev # NULL /\ ~r[prev].used
       THEN [regions |-> Merge(withNext, prev), header |-> prev]
       ELSE [regions |-> withNext, header |-> h]

(* How many pages heap_free would like to give back: two fifths. *)
Ideal(size) == ((size * 2) \div 5) \div MMNGR_PAGE_SIZE

(* heap_contract: pages are cut off region h, but not below min_size. *)
Contract(r, h, ideal) ==
    LET remain == end - ideal * MMNGR_PAGE_SIZE
        pages  == IF remain < MinSize THEN (end - MinSize) \div MMNGR_PAGE_SIZE ELSE ideal
    IN /\ region' = [r EXCEPT ![h].size = (@ - pages * MMNGR_PAGE_SIZE) % WORD]
       /\ end' = end - pages * MMNGR_PAGE_SIZE

(* heap_free; the subtraction that decides whether to contract wraps. *)
Free(o) ==
    LET h      == block[o].addr - HEADER_SIZE
        merged == Coalesce([region EXCEPT ![h].used = FALSE], h)
        ideal  == Ideal(end)
        left   == (merged.regions[merged.header].size - ideal * MMNGR_PAGE_SIZE) % WORD
    IN /\ block[o] # NoBlock
       /\ block' = [block EXCEPT ![o] = NoBlock]
       /\ IF ~region[h].used
          THEN UNCHANGED <<region, end>>
          ELSE IF /\ NextHeader(merged.header, merged.regions) >= end
                  /\ ideal > 0
                  /\ left >= MIN_REGION_SIZE
          THEN Contract(merged.regions, merged.header, ideal)
          ELSE region' = merged.regions /\ UNCHANGED end

Next ==
    \/ \E o \in Owner, size \in Sizes : AllocFit(o, size)
    \/ \E o \in Owner, size \in Sizes : AllocFails(o, size)
    \/ \E o \in Owner, size \in Sizes : AllocExpand(o, size)
    \/ \E o \in Owner : Free(o)

Spec == Init /\ [][Next]_vars

-----------------------------------------------------------------------------
(* Every variable has its type; the heap ends between its two limits. *)
TypeOK ==
    /\ end \in MinSize..MaxPages * MMNGR_PAGE_SIZE
    /\ end % MMNGR_PAGE_SIZE = 0
    /\ Headers \subseteq Addr
    /\ region \in [Headers -> [used : BOOLEAN, size : Addr, prev : Addr]]
    /\ block \in [Owner -> [addr : Addr, size : Sizes \cup {0}]]

(* The regions lie end to end from the first header to the end of the heap  *)
(* and prev leads back the same way, whatever was split, merged, added or   *)
(* cut off (heap_alloc, heap_free): nothing is lost and no walk goes astray. *)
Tiled ==
    /\ FirstHeader \in Headers
    /\ region[FirstHeader].prev = NULL
    /\ \A h \in Headers :
          /\ NextHeader(h, region) \in Headers \cup {end}
          /\ h # FirstHeader =>
                /\ region[h].prev \in Headers
                /\ NextHeader(region[h].prev, region) = h

Cells(o) == block[o].addr..block[o].addr + block[o].size - 1

(* A block belongs to one owner: the blocks handed out and the headers are  *)
(* disjoint, and each block is behind a header that marks it used and is    *)
(* large enough.                                                            *)
BlocksDisjoint ==
    \A o \in Owner : block[o] # NoBlock =>
        /\ block[o].addr - HEADER_SIZE \in Headers
        /\ region[block[o].addr - HEADER_SIZE].used
        /\ region[block[o].addr - HEADER_SIZE].size >= block[o].size
        /\ \A h \in Headers : (h..h + HEADER_SIZE - 1) \cap Cells(o) = {}
        /\ \A p \in Owner \ {o} : block[p] # NoBlock => block[p].addr # block[o].addr

(* No memory is lost: a used region is somebody's block, and two free       *)
(* regions never lie side by side, so that memory comes back in one piece   *)
(* (heap_free's merging).                                                   *)
Coalesced ==
    \A h \in Headers :
        IF region[h].used
        THEN \E o \in Owner : block[o].addr = h + HEADER_SIZE
        ELSE NextHeader(h, region) \in Headers => region[NextHeader(h, region)].used

(* The pages of a block stay mapped: contracting cuts off free memory only  *)
(* ("ensure that after contracting, the final region will have at least the *)
(* size of MIN_REGION_SIZE").                                               *)
BlocksMapped == \A o \in Owner : block[o].addr + block[o].size <= end

(* "final_header->size must be smaller than size since the slot finder code *)
(* above skip this region".                                                 *)
SkippedIsSmaller ==
    \A size \in Sizes :
        NothingFits(size) /\ ~region[LastHeader].used => region[LastHeader].size < size
=============================================================================
