-------------------------------- MODULE Pmm --------------------------------
(***************************************************************************)
(* The physical memory manager of kernel/src/mem/pmmngr.c: a bitmap of     *)
(* frames in chunks of 32 bits and a count of the used ones.  The bitmap   *)
(* is the set of its 1 bits; its last chunk may reach past the end of      *)
(* memory.  Those bits may be 0: total_block comes from the sum of the     *)
(* lengths in the memory map, so a usable region behind a hole of the map  *)
(* can lie past it.                                                        *)
(***************************************************************************)
EXTENDS Integers, FiniteSets, FiniteSetsExt

CONSTANTS
    TotalBlock,     \* total_block
    ChunkBits,      \* bits of a bitmap word: 32 in the code
    KernelBlocks,   \* frames below 4 MiB, taken out by mem_init
    Counts          \* sizes of allocation requests

ASSUME PmmAssumption ==
    /\ TotalBlock \in Nat \ {0}
    /\ ChunkBits \in Nat \ {0}
    /\ KernelBlocks \in 1..TotalBlock
    /\ Counts \subseteq Nat

NumChunks == (TotalBlock + ChunkBits - 1) \div ChunkBits
Frame == 0..TotalBlock - 1
Chunk(i) == i * ChunkBits..i * ChunkBits + ChunkBits - 1
Bits == 0..NumChunks * ChunkBits - 1

VARIABLES
    bitmap,      \* bits that are 1: frames in use, and padding
    usedBlock,   \* used_block
    owned,       \* history: frames the callers have been given
    result       \* history: what the last request asked for and the frame it
                 \* was given, 0 for failure

vars == <<bitmap, usedBlock, owned, result>>

-----------------------------------------------------------------------------
(* find_first_free_block: skip the words that are all ones, take the first  *)
(* zero of the next one unless it is past the end of memory.                *)
FindFirstFreeBlock(bm) ==
    LET open == {i \in 0..NumChunks - 1 : ~(Chunk(i) \subseteq bm)}
        bit  == Min(Chunk(Min(open)) \ bm)
    IN IF open = {} \/ bit >= TotalBlock THEN -1 ELSE bit

(* The length of the run of zeros at i, cnt at most. *)
RunAt(bm, i, cnt) == Min({k \in 1..cnt : k = cnt \/ i + k \in bm})

(* find_first_free: look at i, i + 1, ..., but jump behind the frame that   *)
(* ended a run that was too short.                                          *)
FindFirstFree_jump(bm, cnt) ==    \* mutant: the jump goes one frame too far
    LET Scan[i \in 0..2 * TotalBlock + 2] ==
            IF i > TotalBlock - cnt THEN -1
            ELSE IF i \in bm THEN Scan[i + 1]
            ELSE IF RunAt(bm, i, cnt) = cnt THEN i
            ELSE Scan[i + RunAt(bm, i, cnt) + 2]
    IN IF cnt = 0 THEN -1
       ELSE IF cnt = 1 THEN FindFirstFreeBlock(bm)
       ELSE Scan[0]

FindFirstFree(bm, cnt) ==
    LET Scan[i \in 0..2 * TotalBlock + 2] ==
            IF i > TotalBlock - cnt THEN -1
            ELSE IF i \in bm THEN Scan[i + 1]
            ELSE IF RunAt(bm, i, cnt) = cnt THEN i
            ELSE Scan[i + RunAt(bm, i, cnt) + 1]
    IN IF cnt = 0 THEN -1
       ELSE IF cnt = 1 THEN FindFirstFreeBlock(bm)
       ELSE Scan[0]

(* pmmngr_update_usage: whole words at once, except the last one when it    *)
(* has padding.                                                             *)
UsedIn_padding(bm, i) ==     \* mutant: padding bits of a full word are counted
    IF Chunk(i) \subseteq bm THEN ChunkBits ELSE Cardinality({b \in Chunk(i) : b \in bm})

UsedIn(bm, i) ==
    LET inLast == IF TotalBlock % ChunkBits = 0 THEN ChunkBits ELSE TotalBlock % ChunkBits
        inThis == IF i = NumChunks - 1 THEN inLast ELSE ChunkBits
    IN IF Chunk(i) \subseteq bm /\ inThis = ChunkBits
       THEN ChunkBits
       ELSE Cardinality({b \in Chunk(i) : b < TotalBlock /\ b \in bm})

UpdateUsage(bm) == SumFunction([i \in 0..NumChunks - 1 |-> UsedIn(bm, i)])

-----------------------------------------------------------------------------
(* pmmngr_init_region: the frames of a usable region, but never frame 0. *)
InitRegion(bm, frames) == (bm \ frames) \cup {0}

(* pmmngr_deinit_region *)
DeinitRegion(bm, frames) == bm \cup frames

(* mem_init: pmmngr_init, pmmngr_init_region for the usable regions of the  *)
(* memory map, pmmngr_deinit_region for the kernel, pmmngr_update_usage.    *)
Init ==
    /\ \E usable \in SUBSET Bits :
          bitmap = DeinitRegion(InitRegion(Bits, usable), 0..KernelBlocks - 1)
    /\ usedBlock = UpdateUsage(bitmap)
    /\ owned = {}
    /\ result = [cnt |-> 0, frame |-> 0]

Failed(cnt) ==
    /\ result' = [cnt |-> cnt, frame |-> 0]
    /\ UNCHANGED <<bitmap, usedBlock, owned>>

Take(frame, cnt) ==
    LET run == frame..frame + cnt - 1
    IN /\ bitmap' = bitmap \cup run
       /\ usedBlock' = usedBlock + cnt
       /\ owned' = owned \cup run
       /\ result' = [cnt |-> cnt, frame |-> frame]

(* pmmngr_alloc_block *)
AllocBlock ==
    LET frame == FindFirstFreeBlock(bitmap)
    IN IF TotalBlock = usedBlock \/ frame = -1 THEN Failed(1) ELSE Take(frame, 1)

(* pmmngr_alloc_multi_block *)
AllocMultiBlock(cnt) ==
    LET frame == FindFirstFree(bitmap, cnt)
    IN IF usedBlock + cnt > TotalBlock \/ frame = -1 THEN Failed(cnt) ELSE Take(frame, cnt)

(* Clear the 1 bits among frames and count them. *)
Clear(frames) ==
    /\ bitmap' = bitmap \ frames
    /\ usedBlock' = usedBlock - Cardinality(frames \cap bitmap)

(* Callers give back what they were given, the address 0 of a request that  *)
(* failed, or a frame they have given back already.                         *)
MayFree(frame) == frame \in owned \cup {0} \cup (Frame \ bitmap)

(* pmmngr_free_block *)
FreeBlock(frame) ==
    /\ MayFree(frame)
    /\ IF frame = 0 THEN UNCHANGED <<bitmap, usedBlock>> ELSE Clear({frame})
    /\ owned' = owned \ {frame}
    /\ UNCHANGED result

(* pmmngr_free_multi_block: frames past the end of memory are left alone. *)
FreeMultiBlock(frame, cnt) ==
    LET frames == {f \in frame..frame + cnt - 1 : f < TotalBlock}
    IN /\ MayFree(frame)
       /\ \A f \in frames \ {0} : MayFree(f)
       /\ IF frame = 0
          THEN UNCHANGED <<bitmap, usedBlock, owned>>
          ELSE Clear(frames) /\ owned' = owned \ frames
       /\ UNCHANGED result

Next ==
    \/ AllocBlock
    \/ \E cnt \in Counts : AllocMultiBlock(cnt)
    \/ \E frame \in Frame : FreeBlock(frame)
    \/ \E frame \in Frame, cnt \in Counts : FreeMultiBlock(frame, cnt)

Spec == Init /\ [][Next]_vars

-----------------------------------------------------------------------------
(* Every variable has its type; used_block, unsigned, never wraps. *)
TypeOK ==
    /\ bitmap \subseteq Bits
    /\ usedBlock \in 0..TotalBlock
    /\ owned \subseteq Frame
    /\ result \in [cnt : Counts \cup {0, 1}, frame : Frame]

(* used_block, which is kept incrementally and makes allocations fail       *)
(* early, is the number of frames in use, and recounting it word by word    *)
(* gives the same (pmmngr_update_usage).                                    *)
UsageIsExact ==
    /\ usedBlock = Cardinality(bitmap \cap Frame)
    /\ usedBlock = UpdateUsage(bitmap)

(* find_first_free, with its jumps, finds the lowest run of free frames if  *)
(* there is one and nothing otherwise.                                      *)
FirstFit ==
    \A cnt \in Counts \ {0} :
        LET fits == {f \in Frame : /\ f + cnt <= TotalBlock
                                   /\ (f..f + cnt - 1) \cap bitmap = {}}
        IN FindFirstFree(bitmap, cnt) = IF fits = {} THEN -1 ELSE Min(fits)

(* The bitmap implements an allocator that gives a frame to one owner at a  *)
(* time and fails only when there is no run of free frames.                 *)
Abstract == INSTANCE FrameAllocator WITH Counts <- Counts \cup {1}, free <- Frame \ bitmap
IsFrameAllocator == Abstract!Spec
=============================================================================
