----------------------------- MODULE KernelData -----------------------------
(***************************************************************************)
(* The data structures the kernel keeps by hand: the bitmap of frames      *)
(* (Pmm), the regions of heaps (Heap), one that cannot grow any further    *)
(* (full) and one that can (growing), and the lists threaded through the   *)
(* control blocks (ProcessLists).  What a heap asks of the frames may be   *)
(* refused; they share nothing else, so a behaviour exercises one of them. *)
(***************************************************************************)
EXTENDS Pmm
LOCAL INSTANCE TLC

CONSTANTS
    Owner, HEAP_SIZE, HEADER_SIZE, MIN_REGION_SIZE,                  \* see Heap
    FullSizes, FullPage, FullPages,                                  \* ... of the full heap
    GrowSizes, GrowPage, GrowPages, GrowLimit,                       \* ... of the growing heap
    Proc, Idle, Kmain, Nil, SleepRequests, SLEEP_BOUND, AnyPreempt  \* see ProcessLists

VARIABLES
    part,       \* the part that this behaviour exercises
    end, region, block,
    lists, cur, sleep_ticks, global_sleep_ticks, adding, queued, everyone

Full == INSTANCE Heap WITH
            Sizes <- FullSizes, MMNGR_PAGE_SIZE <- FullPage,
            InitialPages <- FullPages, MaxPages <- FullPages, WORD <- 64 * FullPage
Growing == INSTANCE Heap WITH
            Sizes <- GrowSizes, MMNGR_PAGE_SIZE <- GrowPage,
            InitialPages <- GrowPages, MaxPages <- GrowLimit, WORD <- 64 * GrowPage

Links == INSTANCE ProcessLists

ASSUME HeapsAssumption == Full!HeapAssumption /\ Growing!HeapAssumption
ASSUME LinksAssumption == Links!ListsAssumption

heapVars == <<end, region, block>>
listVars == <<lists, cur, sleep_ticks, global_sleep_ticks, adding, queued, everyone>>
dataVars == <<part, vars, heapVars, listVars>>

DataInit ==
    /\ part \in {"frames", "full", "growing", "lists"}
    /\ Init /\ (part # "frames" => bitmap = {0} \cup 0..KernelBlocks - 1)
    /\ IF part = "growing" THEN Growing!Init ELSE Full!Init
    /\ Links!Init

FramesStep(A) == part = "frames" /\ A /\ UNCHANGED <<part, heapVars, listVars>>
FullStep(A) == part = "full" /\ A /\ UNCHANGED <<part, vars, listVars>>
GrowingStep(A) == part = "growing" /\ A /\ UNCHANGED <<part, vars, listVars>>
ListsStep(A) == part = "lists" /\ A /\ UNCHANGED <<part, vars, heapVars>>

DataNext ==
    \/ FramesStep(Next)
    \/ FullStep(Full!Next) \/ GrowingStep(Growing!Next)
    \/ ListsStep(Links!Next)

DataSpec == DataInit /\ [][DataNext]_dataVars

(* Callers of the heap are interchangeable: for TLC. *)
Symmetry == Permutations(Owner)

-----------------------------------------------------------------------------
(* The count of frames in use is the number of bits set, in spite of the    *)
(* bits past the end of memory, and a search finds the first frame, or run  *)
(* of frames, there is: see Pmm.                                            *)
FramesSound == UsageIsExact /\ FirstFit

(* A heap is sound after any calls (heap_alloc, heap_free): its regions lie *)
(* end to end and know their neighbours, free neighbours are merged, blocks *)
(* of different owners do not overlap, and their pages are mapped.  Of the  *)
(* heap that grows and shrinks, the first and the last: see Heap.           *)
HeapSound ==
    IF part = "growing"
    THEN Growing!Tiled /\ Growing!BlocksMapped
    ELSE Full!Tiled /\ Full!Coalesced /\ Full!BlocksDisjoint /\ Full!BlocksMapped

(* The links spell the queues that were pushed and popped, in order, and    *)
(* the global list every live process once: see ProcessLists.               *)
ListsAgree == Links!QueuesAgree /\ Links!GlobalListAgrees
=============================================================================
