-------------------------- MODULE KernelDataProofs --------------------------
(***************************************************************************)
(* Proofs about KernelData.                                                *)
(*                                                                         *)
(* The frames of Pmm, for every number of frames, every word size and      *)
(* every memory map: used_block is the number of frames in use, recounting *)
(* it word by word gives the same number, find_first_free with its jumps is*)
(* first fit, and the bitmap implements FrameAllocator.  FrameInv is       *)
(* inductive.  What the two searches and the recount compute is shown by   *)
(* induction over frames and words; with that a call is a step of the      *)
(* allocator because the early refusals, which look at used_block only,    *)
(* agree with what the search would have found (CountRefuses).             *)
(*                                                                         *)
(* The heap that cannot grow, for any sizes of blocks, headers and pages.  *)
(* HeapInv is inductive: the regions lie end to end below the end of the   *)
(* heap, in the order of their addresses (Chain), free ones are apart      *)
(* (Apart), and used ones and blocks correspond.  Split and Merged say what*)
(* heap_alloc and heap_free do to the headers, and SplitChain and          *)
(* MergedChain that the chain stays one.  As nothing exceeds the end of the*)
(* heap no address wraps.                                                  *)
(*                                                                         *)
(* The lists of ProcessLists, for any finite set of blocks, as long as no  *)
(* tick comes in the middle of kmain's push.  ListsInv is inductive: the   *)
(* head and the links of every queue spell what is in it (Threaded), no    *)
(* block is in two places of the queues, so a store to the link of one     *)
(* block disturbs one queue only (ThreadsUpdate), everybody alive runs or  *)
(* is in a queue and the idle process is never put away, so there is       *)
(* always one to run (NextOk), the sleepers are in the order of their      *)
(* times, so those to wake up come first (SortedPrefix), and the global    *)
(* list is linked both ways (Global).  The loops of scheduler_switch are   *)
(* followed turn by turn (ReapOk, WakeUpOk).  In the middle of kmain's     *)
(* push the invariant speaks of the lists as its last two stores will      *)
(* leave them (Finished).                                                  *)
(***************************************************************************)
EXTENDS KernelData, DataLemmas

-----------------------------------------------------------------------------
(* The words of the bitmap. *)
LEMMA ChunkGeometry ==
    /\ NumChunks \in Nat \ {0}
    /\ (NumChunks - 1) * ChunkBits < TotalBlock
    /\ TotalBlock <= NumChunks * ChunkBits
    /\ TotalBlock % ChunkBits = 0 => NumChunks * ChunkBits = TotalBlock
    /\ NumChunks * ChunkBits \in Nat
<1> DEFINE C == ChunkBits
           N == NumChunks
           T == TotalBlock
           x == T + C - 1
<1>1. C \in Nat \ {0} /\ T \in Nat \ {0} /\ x \in Int
  BY PmmAssumption
<1>2. x = C * (x \div C) + (x % C) /\ x % C \in 0..C - 1 /\ x \div C \in Int
  <2> HIDE DEF x, C
  <2> QED
    BY <1>1, DivMod
<1>3. N = x \div C
  BY DEF NumChunks
<1> DEFINE r == x % C
           y == C * N
<1>4. N \in Int /\ y \in Int /\ r \in 0..C - 1 /\ T + C - 1 = y + r
  BY <1>1, <1>2, <1>3
<1>5. (N - 1) * C = y - C /\ N * C = y
  <2> HIDE DEF N, C
  <2> QED
    BY <1>1, <1>4
<1>6. N > 0
  <2> SUFFICES ASSUME N <= 0 PROVE FALSE
    BY <1>4
  <2>1. y <= 0
    <3> DEFINE m == 0 - N
    <3>1. m \in Nat /\ N = 0 - m
      BY <1>4
    <3> HIDE DEF m, N, C
    <3>2. C * m \in Nat /\ C * (0 - m) = 0 - C * m
      BY <1>1, <3>1
    <3> QED
      BY <3>1, <3>2
  <2> HIDE DEF y, r
  <2> QED
    BY <1>1, <1>4, <2>1
<1>7. T % C = 0 => y = T
  <2> SUFFICES ASSUME T % C = 0 PROVE y = T
    OBVIOUS
  <2> DEFINE k == T \div C
             a == C - 1
  <2>1. T = C * k /\ k \in Int
    <3>1. T = C * (T \div C) + (T % C) /\ T \div C \in Int
      BY <1>1, DivMod
    <3> QED
      BY <1>1, <3>1
  <2>2. a \in 0..C - 1 /\ x = a + C * k
    <3> HIDE DEF k
    <3> QED
      BY <1>1, <2>1
  <2>3. (a + C * k) \div C = k
    <3> HIDE DEF k, a
    <3> QED
      BY <1>1, <2>1, <2>2, ModUnique
  <2>4. N = k
    BY <1>3, <2>2, <2>3
  <2> QED
    BY <2>1, <2>4
<1>8. y - C < T /\ T <= y /\ y \in Nat
  <2> HIDE DEF y, r
  <2> QED
    BY <1>1, <1>4
<1> HIDE DEF y
<1> QED
  BY <1>4, <1>5, <1>6, <1>7, <1>8

(* Chunk i lies in memory unless it is the last one and has padding. *)
LEMMA ChunkPlace ==
    ASSUME NEW i \in 0..NumChunks - 1
    PROVE  /\ i * ChunkBits \in Nat
           /\ (i + 1) * ChunkBits = i * ChunkBits + ChunkBits
           /\ i < NumChunks - 1 => (i + 1) * ChunkBits < TotalBlock
           /\ (i + 1) * ChunkBits <= NumChunks * ChunkBits
<1>1. ChunkBits \in Nat \ {0} /\ NumChunks \in Nat /\ i \in Nat
  BY PmmAssumption, ChunkGeometry
<1>2. i * ChunkBits \in Nat /\ (i + 1) * ChunkBits = i * ChunkBits + ChunkBits
  BY <1>1
<1>3. \A m \in Nat : i + 1 <= m => (i + 1) * ChunkBits <= m * ChunkBits
  <2> SUFFICES ASSUME NEW m \in Nat, i + 1 <= m PROVE (i + 1) * ChunkBits <= m * ChunkBits
    OBVIOUS
  <2> DEFINE d == m - (i + 1)
  <2>1. d \in Nat /\ m = (i + 1) + d
    BY <1>1
  <2> HIDE DEF d
  <2>2. d * ChunkBits \in Nat /\ ((i + 1) + d) * ChunkBits = (i + 1) * ChunkBits + d * ChunkBits
    BY <1>1, <2>1
  <2> QED
    BY <1>1, <1>2, <2>1, <2>2
<1>4. ASSUME i < NumChunks - 1 PROVE (i + 1) * ChunkBits < TotalBlock
  <2> DEFINE a == (i + 1) * ChunkBits
             b == (NumChunks - 1) * ChunkBits
  <2>1. NumChunks - 1 \in Nat /\ i + 1 <= NumChunks - 1
    BY <1>1, <1>4
  <2>2. a <= b /\ b < TotalBlock
    BY <1>3, <2>1, ChunkGeometry
  <2>3. a \in Int /\ b \in Int /\ TotalBlock \in Int
    BY <1>1, PmmAssumption
  <2> HIDE DEF a, b
  <2>4. a < TotalBlock
    BY <2>2, <2>3
  <2> QED
    BY <2>4 DEF a
<1>5. (i + 1) * ChunkBits <= NumChunks * ChunkBits
  BY <1>1, <1>3
<1> QED
  BY <1>2, <1>4, <1>5

(* A word is counted right, whole or bit by bit. *)
LEMMA UsedInCounts ==
    ASSUME NEW bm \in SUBSET Bits, NEW i \in 0..NumChunks - 1
    PROVE  UsedIn(bm, i) = Cardinality((bm \cap Frame) \cap Chunk(i))
<1> DEFINE C == ChunkBits
           T == TotalBlock
           s == i * C
           inLast == IF T % C = 0 THEN C ELSE T % C
           inThis == IF i = NumChunks - 1 THEN inLast ELSE C
<1>1. C \in Nat \ {0} /\ T \in Nat \ {0} /\ s \in Nat /\ Chunk(i) = s..s + C - 1
  BY PmmAssumption, ChunkPlace DEF Chunk
<1>2. CASE Chunk(i) \subseteq bm /\ inThis = C
  <2>1. UsedIn(bm, i) = C
    BY <1>2 DEF UsedIn
  <2>2. s + C <= T
    <3>1. CASE i # NumChunks - 1
      <4>1. i < NumChunks - 1
        BY <3>1, ChunkGeometry
      <4>2. (i + 1) * C = s + C /\ (i + 1) * C < T
        BY <4>1, ChunkPlace
      <4> HIDE DEF s
      <4> QED
        BY <1>1, <4>2
    <3>2. CASE i = NumChunks - 1
      <4>1. T % C = 0
        <5>1. T % C \in 0..C - 1
          BY <1>1, DivMod
        <5> QED
          BY <1>1, <1>2, <3>2, <5>1
      <4>2. NumChunks * C = T /\ (i + 1) * C = s + C /\ i + 1 = NumChunks
        BY <3>2, <4>1, ChunkPlace, ChunkGeometry
      <4>3. s + C = T
        BY <4>2
      <4> HIDE DEF s
      <4> QED
        BY <1>1, <4>3
    <3> QED
      BY <3>1, <3>2
  <2>3. (bm \cap Frame) \cap Chunk(i) = s..s + C - 1
    <3> HIDE DEF s, C, T
    <3>1. \A b \in s..s + C - 1 : b \in 0..T - 1
      BY <1>1, <2>2
    <3>2. 0..T - 1 = Frame
      BY DEF Frame, T
    <3> QED
      BY <1>1, <1>2, <3>1, <3>2
  <2>4. Cardinality(s..s + C - 1) = C
    <3> HIDE DEF s, C
    <3>1. s + C - 1 \in Int /\ s \in Int /\ ~(s > s + C - 1) /\ (s + C - 1) - s + 1 = C
      BY <1>1
    <3> QED
      BY <3>1, FS_Interval
  <2>5. Cardinality((bm \cap Frame) \cap Chunk(i)) = Cardinality(s..s + C - 1)
    BY <2>3, Zenon
  <2> QED
    BY <2>1, <2>4, <2>5
<1>3. CASE ~(Chunk(i) \subseteq bm /\ inThis = C)
  <2>1. UsedIn(bm, i) = Cardinality({b \in Chunk(i) : b < T /\ b \in bm})
    BY <1>3 DEF UsedIn
  <2>2. {b \in Chunk(i) : b < T /\ b \in bm} = (bm \cap Frame) \cap Chunk(i)
    <3> HIDE DEF s
    <3>1. \A b \in Chunk(i) : b \in Nat
      BY <1>1
    <3> QED
      BY <1>1, <3>1 DEF Frame
  <2> QED
    BY <2>1, <2>2
<1> QED
  BY <1>2, <1>3

(* Counting word by word. *)
LEMMA CountByWords ==
    ASSUME NEW A \in SUBSET Nat, IsFiniteSet(A), NEW n \in Nat,
           NEW f, \A i \in 0..n - 1 : f[i] = Cardinality(A \cap Chunk(i))
    PROVE  SumFunctionOnSet(f, 0..n - 1) = Cardinality(A \cap 0..n * ChunkBits - 1)
<1> DEFINE C == ChunkBits
           G == {k \in Nat : k <= n => SumFunctionOnSet(f, 0..k - 1) = Cardinality(A \cap 0..k * C - 1)}
<1>1. C \in Nat \ {0}
  BY PmmAssumption
<1>2. 0 \in G
  <2>1. 0..0 - 1 = {} /\ A \cap 0..0 * C - 1 = {}
    BY <1>1
  <2> QED
    BY <2>1, SumEmpty, FS_EmptySet
<1>3. ASSUME NEW k \in Nat, k \in G PROVE k + 1 \in G
  <2> SUFFICES ASSUME k + 1 <= n
               PROVE  SumFunctionOnSet(f, 0..(k + 1) - 1) = Cardinality(A \cap 0..(k + 1) * C - 1)
    OBVIOUS
  <2> DEFINE S == 0..k
             a == A \cap 0..k * C - 1
             b == A \cap Chunk(k)
  <2>1. (k + 1) - 1 = k /\ S = 0..(k + 1) - 1 /\ S \ {k} = 0..k - 1 /\ k \in S /\ IsFiniteSet(S)
    <3>1. S \ {k} = 0..k - 1 /\ k \in S
      OBVIOUS
    <3>2. (k + 1) - 1 = k /\ k \in Int /\ 0 \in Int
      OBVIOUS
    <3>3. IsFiniteSet(0..k)
      BY <3>2, FS_Interval
    <3> QED
      BY <3>1, <3>2, <3>3
  <2>2. SumFunctionOnSet(f, 0..k - 1) = Cardinality(a)
    BY <1>3
  <2>3. IsFiniteSet(a) /\ IsFiniteSet(b)
    BY FS_Intersection
  <2>4. \A i \in S : f[i] \in Int
    <3> SUFFICES ASSUME NEW i \in S PROVE f[i] \in Int
      OBVIOUS
    <3>1. f[i] = Cardinality(A \cap Chunk(i))
      OBVIOUS
    <3>2. IsFiniteSet(A \cap Chunk(i))
      BY FS_Intersection
    <3>3. Cardinality(A \cap Chunk(i)) \in Nat
      BY <3>2, FS_CardinalityType
    <3> QED
      BY <3>1, <3>3
  <2>5. SumFunctionOnSet(f, S) = f[k] + SumFunctionOnSet(f, S \ {k})
    <3> HIDE DEF S
    <3> QED
      BY <2>1, <2>4, SumRemove
  <2>6. f[k] = Cardinality(b)
    OBVIOUS
  <2>7. k * C \in Nat /\ (k + 1) * C = k * C + C
    BY <1>1
  <2> DEFINE s == k * C
             t == (k + 1) * C
  <2>8. s \in Nat /\ t = s + C /\ Chunk(k) = s..s + C - 1
    BY <2>7 DEF Chunk
  <2> HIDE DEF s, t
  <2>9. A \cap 0..t - 1 = a \cup b /\ a \cap b = {}
    <3>1. a = A \cap 0..s - 1
      BY DEF s
    <3> HIDE DEF a
    <3> QED
      BY <1>1, <2>8, <3>1
  <2>10. Cardinality(a \cup b) = Cardinality(a) + Cardinality(b)
    <3> HIDE DEF a, b
    <3>1. Cardinality(a \cup b) = Cardinality(a) + Cardinality(b) - Cardinality(a \cap b)
      BY <2>3, FS_Union
    <3>2. Cardinality(a \cap b) = 0
      BY <2>9, FS_EmptySet
    <3>3. Cardinality(a) \in Nat /\ Cardinality(b) \in Nat
      BY <2>3, FS_CardinalityType
    <3> QED
      BY <3>1, <3>2, <3>3
  <2>11. Cardinality(a) \in Nat /\ Cardinality(b) \in Nat
    BY <2>3, FS_CardinalityType
  <2>12. Cardinality(A \cap 0..t - 1) = Cardinality(a \cup b)
    <3> HIDE DEF a, b
    <3> QED
      BY <2>9, Zenon
  <2>13. SumFunctionOnSet(f, 0..(k + 1) - 1) = SumFunctionOnSet(f, S)
    <3> HIDE DEF S
    <3> QED
      BY <2>1, Zenon
  <2>14. SumFunctionOnSet(f, S \ {k}) = Cardinality(a)
    <3> HIDE DEF S, a
    <3> QED
      BY <2>1, <2>2, Zenon
  <2>15. SumFunctionOnSet(f, 0..(k + 1) - 1) = Cardinality(A \cap 0..t - 1)
    <3> HIDE DEF S, a, b
    <3> QED
      BY <2>5, <2>6, <2>10, <2>11, <2>12, <2>13, <2>14
  <2> QED
    BY <2>15 DEF t
<1>4. \A k \in Nat : k \in G => k + 1 \in G
  BY <1>3
<1> HIDE DEF G
<1>5. Nat \subseteq G
  BY <1>2, <1>4, NatSetInduction
<1>6. n \in G
  BY <1>5
<1> QED
  BY <1>6 DEF G

(* pmmngr_update_usage counts the frames in use, whatever the padding is.   *)
LEMMA Recount ==
    ASSUME NEW bm \in SUBSET Bits
    PROVE  UpdateUsage(bm) = Cardinality(bm \cap Frame)
<1> DEFINE A == bm \cap Frame
           N == NumChunks
           f == [i \in 0..N - 1 |-> UsedIn(bm, i)]
<1>1. N \in Nat /\ TotalBlock \in Nat /\ TotalBlock <= N * ChunkBits /\ N * ChunkBits \in Nat
  BY ChunkGeometry, PmmAssumption
<1>2. IsFiniteSet(A) /\ A \in SUBSET Nat
  <2>1. IsFiniteSet(Frame) /\ Frame \subseteq Nat
    BY <1>1, FS_Interval DEF Frame
  <2> QED
    BY <2>1, FS_Intersection
<1>3. \A i \in 0..N - 1 : f[i] = Cardinality(A \cap Chunk(i))
  BY UsedInCounts
<1>4. UpdateUsage(bm) = SumFunctionOnSet(f, 0..N - 1)
  BY DEF UpdateUsage, SumFunction
<1>5. SumFunctionOnSet(f, 0..N - 1) = Cardinality(A \cap 0..N * ChunkBits - 1)
  <2> HIDE DEF A, f, N
  <2> QED
    BY <1>1, <1>2, <1>3, CountByWords
<1>6. A \cap 0..N * ChunkBits - 1 = A
  <2> DEFINE y == N * ChunkBits
  <2>1. y \in Nat /\ TotalBlock <= y
    BY <1>1
  <2> HIDE DEF y
  <2>2. A \cap 0..y - 1 = A
    BY <1>1, <2>1 DEF Frame
  <2> QED
    BY <2>2 DEF y
<1> QED
  BY <1>4, <1>5, <1>6

(* Where a request of cnt frames fits, from i on. *)
FitsFrom(bm, cnt, i) ==
    {f \in Frame : f >= i /\ f + cnt <= TotalBlock /\ (f..f + cnt - 1) \cap bm = {}}

FirstFrom(bm, cnt, i) ==
    IF FitsFrom(bm, cnt, i) = {} THEN -1 ELSE Min(FitsFrom(bm, cnt, i))

(* RunAt stops at the first frame in use. *)
LEMMA RunEnds ==
    ASSUME NEW bm, NEW i \in Nat, NEW cnt \in Nat \ {0}, i \notin bm
    PROVE  LET r == RunAt(bm, i, cnt)
           IN  /\ r \in 1..cnt
               /\ r < cnt => i + r \in bm
               /\ \A j \in i..i + r - 1 : j \notin bm
<1> DEFINE S == {k \in 1..cnt : k = cnt \/ i + k \in bm}
           r == RunAt(bm, i, cnt)
<1>1. S \in SUBSET Nat /\ cnt \in S
  OBVIOUS
<1>2. r = Min(S)
  BY DEF RunAt
<1>3. r \in S /\ \A x \in S : r <= x
  <2> HIDE DEF S, r
  <2> QED
    BY <1>1, <1>2, LeastNat
<1> HIDE DEF r
<1>4. ASSUME NEW j \in i..i + r - 1, j \in bm PROVE FALSE
  <2> DEFINE k == j - i
  <2>1. k \in 1..cnt /\ i + k = j /\ k < r /\ k \in Nat /\ r \in Nat
    BY <1>3, <1>4
  <2> HIDE DEF k
  <2>2. k \in S
    BY <1>4, <2>1
  <2> QED
    BY <1>3, <2>1, <2>2
<1>5. r \in 1..cnt /\ (r < cnt => i + r \in bm)
  BY <1>3
<1> QED
  BY <1>4, <1>5 DEF r

(* The jumps of find_first_free pass over no run that is long enough. *)
LEMMA JumpSkipsNothing ==
    ASSUME NEW bm, NEW i \in Nat, NEW cnt \in Nat \ {0}
    PROVE  /\ i > TotalBlock - cnt => FitsFrom(bm, cnt, i) = {}
           /\ i \in bm => FitsFrom(bm, cnt, i) = FitsFrom(bm, cnt, i + 1)
           /\ i \notin bm /\ i <= TotalBlock - cnt /\ RunAt(bm, i, cnt) = cnt =>
                 FitsFrom(bm, cnt, i) # {} /\ Min(FitsFrom(bm, cnt, i)) = i
           /\ i \notin bm /\ RunAt(bm, i, cnt) # cnt =>
                 FitsFrom(bm, cnt, i) = FitsFrom(bm, cnt, i + RunAt(bm, i, cnt) + 1)
<1> DEFINE T == TotalBlock
           F(j) == FitsFrom(bm, cnt, j)
<1>1. T \in Nat \ {0} /\ cnt \in Nat /\ cnt > 0
  BY PmmAssumption
<1>2. \A j \in Nat : \A f : f \in F(j) <=> /\ f \in 0..T - 1 /\ f >= j /\ f + cnt <= T
                                           /\ \A x \in f..f + cnt - 1 : x \notin bm
  BY DEF FitsFrom, Frame
<1> HIDE DEF F
<1>3. ASSUME i > T - cnt PROVE F(i) = {}
  <2> SUFFICES ASSUME NEW f \in F(i) PROVE FALSE
    OBVIOUS
  <2>1. f \in Int /\ f >= i /\ f + cnt <= T
    BY <1>2
  <2> QED
    BY <1>1, <1>3, <2>1
<1>4. ASSUME i \in bm PROVE F(i) = F(i + 1)
  <2>1. \A f \in F(i) : f # i
    <3> SUFFICES ASSUME i \in F(i) PROVE FALSE
      OBVIOUS
    <3>1. i \in i..i + cnt - 1
      BY <1>1
    <3> QED
      BY <1>2, <1>4, <3>1
  <2>2. i + 1 \in Nat /\ \A f \in 0..T - 1 : f >= i + 1 <=> f >= i /\ f # i
    BY <1>1
  <2>3. \A f : f \in F(i) <=> f \in F(i + 1)
    BY <1>2, <2>1, <2>2
  <2> QED
    BY <2>3
<1>5. ASSUME i \notin bm, i <= T - cnt, RunAt(bm, i, cnt) = cnt
      PROVE  F(i) # {} /\ Min(F(i)) = i
  <2>1. \A j \in i..i + cnt - 1 : j \notin bm
    BY <1>5, RunEnds
  <2>2. i \in 0..T - 1 /\ i >= i /\ i + cnt <= T
    BY <1>1, <1>5
  <2>3. i \in F(i)
    BY <1>2, <2>1, <2>2
  <2>4. F(i) \in SUBSET Nat /\ \A f \in F(i) : f >= i
    BY <1>1, <1>2
  <2>5. Min(F(i)) \in F(i) /\ Min(F(i)) <= i
    BY <2>3, <2>4, LeastNat
  <2>6. Min(F(i)) \in Nat /\ Min(F(i)) >= i
    BY <2>4, <2>5
  <2> QED
    BY <2>3, <2>5, <2>6
<1>6. ASSUME i \notin bm, RunAt(bm, i, cnt) # cnt
      PROVE  F(i) = F(i + RunAt(bm, i, cnt) + 1)
  <2> DEFINE r == RunAt(bm, i, cnt)
  <2>1. r \in 1..cnt /\ (r < cnt => i + r \in bm)
    BY <1>6, RunEnds
  <2> HIDE DEF r
  <2>2. r < cnt /\ r # cnt /\ r \in Nat /\ i + r \in bm /\ i + r + 1 \in Nat
    BY <1>6, <2>1 DEF r
  <2>3. ASSUME NEW f \in F(i) PROVE f >= i + r + 1
    <3>1. f \in Nat /\ f >= i /\ \A x \in f..f + cnt - 1 : x \notin bm
      BY <1>1, <1>2
    <3> SUFFICES ASSUME f < i + r + 1 PROVE FALSE
      BY <2>2, <3>1
    <3>2. i + r \in f..f + cnt - 1
      BY <1>1, <2>2, <3>1
    <3> QED
      BY <2>2, <3>1, <3>2
  <2>4. \A f \in 0..T - 1 : f >= i + r + 1 => f >= i
    BY <1>1, <2>2
  <2>5. \A f : f \in F(i) <=> f \in F(i + r + 1)
    <3> DEFINE j == i + r + 1
    <3>1. j \in Nat
      BY <2>2
    <3> HIDE DEF j
    <3> QED
      BY <1>2, <2>3, <2>4, <3>1 DEF j
  <2> QED
    BY <2>5 DEF r
<1> QED
  BY <1>3, <1>4, <1>5, <1>6 DEF F

(* find_first_free's loop, from the frame i on, ends with the first fit. *)
LEMMA ScanFinds ==
    ASSUME NEW bm, NEW cnt \in Nat \ {0, 1}
    PROVE  FindFirstFree(bm, cnt) = FirstFrom(bm, cnt, 0)
<1> DEFINE T == TotalBlock
           D == 0..2 * T + 2
           Turn(h, i) == IF i > T - cnt THEN -1
                         ELSE IF i \in bm THEN h[i + 1]
                         ELSE IF RunAt(bm, i, cnt) = cnt THEN i
                         ELSE h[i + RunAt(bm, i, cnt) + 1]
           Is(h) == h = [i \in D |-> Turn(h, i)]
           scan == CHOOSE h : Is(h)
           g == [i \in D |-> FirstFrom(bm, cnt, i)]
<1>1. T \in Nat \ {0} /\ cnt \in Nat \ {0} /\ cnt > 1
  BY PmmAssumption
<1>2. \A i \in D : i \in Nat /\ (i <= T - cnt => i + 1 \in D)
  BY <1>1
<1>3. \A i \in D : i <= T - cnt /\ i \notin bm /\ RunAt(bm, i, cnt) # cnt =>
         RunAt(bm, i, cnt) \in Nat /\ i + RunAt(bm, i, cnt) + 1 \in D
  <2> SUFFICES ASSUME NEW i \in D, i <= T - cnt, i \notin bm, RunAt(bm, i, cnt) # cnt
               PROVE  RunAt(bm, i, cnt) \in Nat /\ i + RunAt(bm, i, cnt) + 1 \in D
    OBVIOUS
  <2>1. RunAt(bm, i, cnt) \in 1..cnt
    BY <1>1, <1>2, RunEnds
  <2> QED
    BY <1>1, <2>1
<1>4. \A i \in D : g[i] = Turn(g, i)
  <2> SUFFICES ASSUME NEW i \in D PROVE g[i] = Turn(g, i)
    OBVIOUS
  <2>1. g[i] = FirstFrom(bm, cnt, i) /\ i \in Nat /\ T - cnt \in Int
    BY <1>1, <1>2
  <2>2. CASE i > T - cnt
    BY <1>1, <2>1, <2>2, JumpSkipsNothing DEF FirstFrom
  <2>3. CASE i <= T - cnt /\ i \in bm
    <3>1. g[i + 1] = FirstFrom(bm, cnt, i + 1)
      BY <1>2, <2>3
    <3>2. FitsFrom(bm, cnt, i) = FitsFrom(bm, cnt, i + 1)
      BY <1>1, <2>1, <2>3, JumpSkipsNothing
    <3>3. Turn(g, i) = g[i + 1]
      BY <2>1, <2>3
    <3> QED
      BY <2>1, <3>1, <3>2, <3>3 DEF FirstFrom
  <2>4. CASE i <= T - cnt /\ i \notin bm /\ RunAt(bm, i, cnt) = cnt
    <3>1. FirstFrom(bm, cnt, i) = i
      BY <1>1, <2>1, <2>4, JumpSkipsNothing DEF FirstFrom
    <3> QED
      BY <2>1, <2>4, <3>1
  <2>5. CASE i <= T - cnt /\ i \notin bm /\ RunAt(bm, i, cnt) # cnt
    <3> DEFINE j == i + RunAt(bm, i, cnt) + 1
    <3>1. g[j] = FirstFrom(bm, cnt, j)
      BY <1>3, <2>5
    <3>2. FitsFrom(bm, cnt, i) = FitsFrom(bm, cnt, j)
      BY <1>1, <2>1, <2>5, JumpSkipsNothing
    <3>3. Turn(g, i) = g[j]
      BY <2>1, <2>5
    <3> HIDE DEF j
    <3> QED
      BY <2>1, <3>1, <3>2, <3>3 DEF FirstFrom
  <2> QED
    BY <2>1, <2>2, <2>3, <2>4, <2>5
<1>5. Is(g)
  BY <1>4
<1>6. Is(scan)
  BY <1>5
<1>7. FindFirstFree(bm, cnt) = scan[0]
  BY <1>1 DEF FindFirstFree
<1> HIDE DEF scan
<1>8. \A i \in D : scan[i] = Turn(scan, i)
  BY <1>6
<1> DEFINE Ind == {k \in Nat : \A i \in D : i + k > T => scan[i] = g[i]}
<1> HIDE DEF g
<1>9. 0 \in Ind
  <2> SUFFICES ASSUME NEW i \in D, i + 0 > T PROVE scan[i] = g[i]
    OBVIOUS
  <2>1. i > T - cnt
    BY <1>1
  <2>2. Turn(scan, i) = -1 /\ Turn(g, i) = -1
    BY <2>1
  <2> QED
    BY <1>4, <1>8, <2>2
<1>10. ASSUME NEW k \in Nat, k \in Ind PROVE k + 1 \in Ind
  <2> SUFFICES ASSUME NEW i \in D, i + (k + 1) > T PROVE scan[i] = g[i]
    OBVIOUS
  <2>1. scan[i] = Turn(scan, i) /\ g[i] = Turn(g, i)
    BY <1>4, <1>8
  <2>2. CASE i <= T - cnt /\ i \in bm
    <3>1. i + 1 \in D /\ (i + 1) + k > T
      BY <1>1, <1>2, <2>2
    <3>2. scan[i + 1] = g[i + 1]
      BY <1>10, <3>1
    <3>3. Turn(scan, i) = scan[i + 1] /\ Turn(g, i) = g[i + 1]
      BY <1>1, <1>2, <2>2
    <3> QED
      BY <2>1, <3>2, <3>3
  <2>3. CASE i <= T - cnt /\ i \notin bm /\ RunAt(bm, i, cnt) # cnt
    <3> DEFINE r == RunAt(bm, i, cnt)
    <3>1. r \in Nat /\ i + r + 1 \in D
      BY <1>3, <2>3
    <3>2. Turn(scan, i) = scan[i + r + 1] /\ Turn(g, i) = g[i + r + 1]
      BY <1>1, <1>2, <2>3
    <3> HIDE DEF r
    <3>3. (i + r + 1) + k > T
      BY <1>1, <1>2, <3>1
    <3>4. scan[i + r + 1] = g[i + r + 1]
      BY <1>10, <3>1, <3>3
    <3> QED
      BY <2>1, <3>2, <3>4
  <2>4. CASE i > T - cnt \/ (i \notin bm /\ RunAt(bm, i, cnt) = cnt)
    <3>1. Turn(scan, i) = Turn(g, i)
      BY <2>4
    <3> QED
      BY <2>1, <3>1
  <2> QED
    BY <1>1, <1>2, <2>2, <2>3, <2>4
<1>11. \A k \in Nat : k \in Ind => k + 1 \in Ind
  BY <1>10
<1>12. 0 \in D /\ T + 1 \in Nat /\ 0 + (T + 1) > T
  BY <1>1
<1>13. T + 1 \in Ind
  <2> HIDE DEF Ind
  <2> QED
    BY <1>9, <1>11, <1>12, NatSetInduction
<1>14. scan[0] = g[0]
  BY <1>12, <1>13
<1> QED
  BY <1>7, <1>12, <1>14 DEF g

(* Multiplication is monotonic. *)
LEMMA TimesMono ==
    ASSUME NEW a \in Nat, NEW b \in Nat, NEW c \in Nat, a <= b
    PROVE  a * c <= b * c /\ a * c \in Nat /\ b * c \in Nat
<1> DEFINE d == b - a
<1>1. d \in Nat /\ b = a + d
  OBVIOUS
<1> HIDE DEF d
<1>2. d * c \in Nat /\ (a + d) * c = a * c + d * c /\ a * c \in Nat
  BY <1>1
<1> QED
  BY <1>1, <1>2

(* A smallest element is Min. *)
LEMMA LeastUnique ==
    ASSUME NEW S \in SUBSET Nat, NEW x \in S, \A y \in S : x <= y
    PROVE  Min(S) = x
<1>1. S # {}
  OBVIOUS
<1>2. Min(S) \in S /\ Min(S) <= x
  BY <1>1, LeastNat
<1>3. x <= Min(S) /\ x \in Nat /\ Min(S) \in Nat
  BY <1>2
<1> QED
  BY <1>2, <1>3

(* Every frame is in some word. *)
LEMMA WordOf ==
    ASSUME NEW f \in Frame
    PROVE  \E j \in 0..NumChunks - 1 : f \in Chunk(j)
<1> DEFINE C == ChunkBits
           T == TotalBlock
           N == NumChunks
           j == f \div C
           r == f % C
<1>1. C \in Nat \ {0} /\ T \in Nat \ {0} /\ N \in Nat \ {0} /\ f \in Nat /\ f < T
  BY PmmAssumption, ChunkGeometry DEF Frame
<1>2. f = C * j + r /\ r \in 0..C - 1 /\ j \in Int
  <2> HIDE DEF C
  <2> QED
    BY <1>1, DivMod
<1> HIDE DEF j, r
<1>3. j >= 0
  <2> SUFFICES ASSUME j <= -1 PROVE FALSE
    BY <1>2
  <2> DEFINE m == (0 - j) - 1
             y == C * m
  <2>1. m \in Nat /\ j = (0 - 1) - m
    BY <1>2
  <2> HIDE DEF m, C
  <2>2. C * m \in Nat /\ C * ((0 - 1) - m) = (0 - C) - C * m
    BY <1>1, <2>1
  <2> HIDE DEF y
  <2>3. y \in Nat /\ f = ((0 - C) - y) + r
    BY <1>2, <2>1, <2>2 DEF y
  <2> QED
    BY <1>1, <1>2, <2>3
<1>4. j * C = C * j /\ j * C \in Nat
  <2> HIDE DEF C
  <2> QED
    BY <1>1, <1>2, <1>3
<1> DEFINE s == j * C
<1>5. f = s + r /\ s \in Nat
  BY <1>2, <1>4
<1>6. j <= N - 1
  <2> SUFFICES ASSUME j > N - 1 PROVE FALSE
    BY <1>1, <1>2
  <2>1. N \in Nat /\ j \in Nat /\ N <= j
    BY <1>1, <1>2, <1>3
  <2> DEFINE y == N * C
  <2>2. y <= s /\ y \in Nat
    <3> HIDE DEF N, C
    <3> QED
      BY <1>1, <2>1, TimesMono
  <2>3. T <= y
    BY ChunkGeometry
  <2> HIDE DEF s, y
  <2> QED
    BY <1>1, <1>2, <1>5, <2>2, <2>3
<1>7. f \in Chunk(j)
  <2> HIDE DEF s
  <2>1. f \in s..s + C - 1
    BY <1>1, <1>2, <1>5
  <2> QED
    BY <2>1 DEF Chunk, s
<1>8. j \in 0..N - 1
  BY <1>1, <1>2, <1>3, <1>6
<1> QED
  BY <1>7, <1>8

(* Words are in the order of their numbers. *)
LEMMA WordsInOrder ==
    ASSUME NEW i \in Nat, NEW j \in Nat, i < j, NEW a \in Chunk(i), NEW b \in Chunk(j)
    PROVE  a < b
<1> DEFINE C == ChunkBits
           s == i * C
           t == j * C
<1>1. C \in Nat \ {0}
  BY PmmAssumption
<1>2. i + 1 \in Nat /\ i + 1 <= j
  OBVIOUS
<1>3. s \in Nat /\ t \in Nat /\ (i + 1) * C = s + C
  <2> HIDE DEF C
  <2> QED
    BY <1>1
<1>4. (i + 1) * C <= t
  <2> HIDE DEF C
  <2> QED
    BY <1>1, <1>2, TimesMono
<1>5. a \in s..s + C - 1 /\ b \in t..t + C - 1
  BY DEF Chunk
<1> HIDE DEF s, t
<1> QED
  BY <1>1, <1>3, <1>4, <1>5

(* find_first_free_block finds the first free frame, word by word. *)
LEMMA FirstOfWords ==
    ASSUME NEW bm
    PROVE  FindFirstFreeBlock(bm) = FirstFrom(bm, 1, 0)
<1> DEFINE T == TotalBlock
           N == NumChunks
           open == {i \in 0..N - 1 : ~(Chunk(i) \subseteq bm)}
           o == Min(open)
           bit == Min(Chunk(o) \ bm)
           F == FitsFrom(bm, 1, 0)
<1>1. T \in Nat \ {0} /\ N \in Nat
  BY PmmAssumption, ChunkGeometry
<1>2. F = Frame \ bm
  <2>1. \A f \in Frame : f >= 0 /\ f + 1 <= T /\ f..f + 1 - 1 = {f}
    BY <1>1 DEF Frame
  <2> QED
    BY <2>1 DEF FitsFrom
<1>3. F \in SUBSET Nat
  BY <1>1, <1>2 DEF Frame
<1>4. FindFirstFreeBlock(bm) = IF open = {} \/ bit >= T THEN -1 ELSE bit
  BY DEF FindFirstFreeBlock
<1>5. \A f \in F : \E j \in open : f \in Chunk(j)
  BY <1>2, WordOf
<1>6. FirstFrom(bm, 1, 0) = IF F = {} THEN -1 ELSE Min(F)
  BY DEF FirstFrom
<1>7. CASE open = {}
  <2>1. F = {}
    BY <1>5, <1>7
  <2> QED
    BY <1>4, <1>6, <1>7, <2>1
<1>8. CASE open # {}
  <2>1. open \in SUBSET Nat
    BY <1>1
  <2>2. o \in open /\ \A j \in open : o <= j
    <3> HIDE DEF open
    <3> QED
      BY <1>8, <2>1, LeastNat
  <2>3. Chunk(o) \in SUBSET Nat /\ Chunk(o) \ bm # {}
    <3> HIDE DEF o
    <3>1. o * ChunkBits \in Nat /\ ChunkBits \in Nat
      BY <2>2, ChunkPlace, PmmAssumption
    <3> QED
      BY <2>2, <3>1 DEF Chunk
  <2> DEFINE B == Chunk(o) \ bm
  <2>4. bit \in B /\ \A b \in B : bit <= b
    <3>1. B \in SUBSET Nat /\ B # {} /\ bit = Min(B)
      BY <2>3
    <3> HIDE DEF B, bit
    <3> QED
      BY <3>1, LeastNat
  <2> HIDE DEF bit, o
  <2>5. bit \in Nat
    BY <2>3, <2>4
  <2>6. ASSUME NEW f \in F PROVE bit <= f
    <3>1. PICK j \in open : f \in Chunk(j)
      BY <1>5
    <3>2. o \in Nat /\ j \in Nat /\ o <= j /\ f \in Nat
      BY <1>3, <2>1, <2>2
    <3>3. CASE o = j
      BY <1>2, <2>4, <3>1, <3>3
    <3>4. CASE o < j
      <4>1. bit < f
        BY <2>4, <3>1, <3>2, <3>4, WordsInOrder
      <4> QED
        BY <2>5, <3>2, <4>1
    <3> QED
      BY <3>2, <3>3, <3>4
  <2>7. CASE bit >= T
    <3>1. F = {}
      <4> SUFFICES ASSUME NEW f \in F PROVE FALSE
        OBVIOUS
      <4>1. f \in 0..T - 1 /\ bit <= f
        BY <1>2, <2>6 DEF Frame
      <4> QED
        BY <1>1, <2>5, <2>7, <4>1
    <3> QED
      BY <1>4, <1>6, <2>7, <3>1
  <2>8. CASE ~(bit >= T)
    <3>1. bit \in F
      <4>1. bit \in Frame
        BY <1>1, <2>5, <2>8 DEF Frame
      <4> QED
        BY <1>2, <2>4, <4>1
    <3>2. Min(F) = bit
      <4> HIDE DEF F
      <4> QED
        BY <1>3, <2>6, <3>1, LeastUnique
    <3>3. FindFirstFreeBlock(bm) = bit
      BY <1>4, <1>8, <2>8
    <3> QED
      BY <1>6, <3>1, <3>2, <3>3
  <2> QED
    BY <2>7, <2>8
<1> QED
  BY <1>7, <1>8

(* find_first_free is first fit. *)
LEMMA SearchIsFirstFit ==
    ASSUME NEW bm, NEW cnt \in Nat \ {0}
    PROVE  FindFirstFree(bm, cnt) = FirstFrom(bm, cnt, 0)
<1>1. CASE cnt = 1
  <2>1. FindFirstFree(bm, cnt) = FindFirstFreeBlock(bm)
    BY <1>1 DEF FindFirstFree
  <2> QED
    BY <1>1, <2>1, FirstOfWords
<1>2. CASE cnt # 1
  BY <1>2, ScanFinds
<1> QED
  BY <1>1, <1>2

-----------------------------------------------------------------------------
(* The inductive invariant: bits past the end of memory may be 0, frame 0   *)
(* is in use and nobody's, the count is right, and what callers hold is in  *)
(* use.                                                                     *)
FrameInv ==
    /\ bitmap \in SUBSET Bits
    /\ 0 \in bitmap
    /\ usedBlock = Cardinality(bitmap \cap Frame)
    /\ owned \subseteq (bitmap \cap Frame) \ {0}

(* The frames are the first bits of the bitmap, TotalBlock of them. *)
LEMMA FrameFacts ==
    /\ TotalBlock \in Nat \ {0}
    /\ Frame \subseteq Nat /\ Frame \subseteq Bits /\ 0 \in Frame
    /\ IsFiniteSet(Frame) /\ Cardinality(Frame) = TotalBlock
<1> DEFINE y == NumChunks * ChunkBits
<1>1. TotalBlock \in Nat \ {0} /\ y \in Nat /\ TotalBlock <= y
  BY ChunkGeometry, PmmAssumption
<1> HIDE DEF y
<1>2. Frame \subseteq 0..y - 1 /\ Frame \subseteq Nat /\ 0 \in Frame
  BY <1>1 DEF Frame
<1>3. Bits = 0..y - 1
  BY DEF Bits, y
<1>4. IsFiniteSet(Frame) /\ Cardinality(Frame) = TotalBlock
  <2>1. 0 \in Int /\ TotalBlock - 1 \in Int /\ ~(0 > TotalBlock - 1) /\ (TotalBlock - 1) - 0 + 1 = TotalBlock
    BY <1>1
  <2> QED
    BY <2>1, FS_Interval DEF Frame
<1> QED
  BY <1>1, <1>2, <1>3, <1>4

(* A run that was found. *)
LEMMA FoundRun ==
    ASSUME NEW bm, NEW cnt \in Nat \ {0}, NEW first, first = FirstFrom(bm, cnt, 0), first # -1
    PROVE  LET run == first..first + cnt - 1
           IN  /\ first \in Frame /\ first \in run
               /\ run \subseteq Frame /\ run \cap bm = {}
               /\ IsFiniteSet(run) /\ Cardinality(run) = cnt
<1> DEFINE F == FitsFrom(bm, cnt, 0)
           run == first..first + cnt - 1
<1>1. F \in SUBSET Nat /\ F # {} /\ first = Min(F)
  BY FrameFacts DEF FirstFrom, FitsFrom
<1>2. first \in F
  <2> HIDE DEF F
  <2> QED
    BY <1>1, LeastNat
<1>3. /\ first \in Frame /\ first \in Nat /\ first + cnt <= TotalBlock
      /\ run \cap bm = {}
  BY <1>2, FrameFacts DEF FitsFrom
<1>4. first \in run /\ run \subseteq Frame
  BY <1>3, FrameFacts DEF Frame
<1>5. first \in Int /\ first + cnt - 1 \in Int /\ ~(first > first + cnt - 1)
      /\ (first + cnt - 1) - first + 1 = cnt
  BY <1>3
<1>6. IsFiniteSet(run) /\ Cardinality(run) = cnt
  BY <1>5, FS_Interval
<1> QED
  BY <1>3, <1>4, <1>6

(* What fits, in the words of FrameAllocator. *)
LEMMA FitsAgree ==
    ASSUME NEW cnt \in Nat \ {0}
    PROVE  Abstract!Fits(cnt) = FitsFrom(bitmap, cnt, 0)
<1>1. ASSUME NEW f \in Frame
      PROVE  f..f + cnt - 1 \subseteq Frame <=> f + cnt <= TotalBlock
  <2>1. f \in Nat /\ TotalBlock \in Nat
    BY FrameFacts
  <2>2. ASSUME f..f + cnt - 1 \subseteq Frame PROVE f + cnt <= TotalBlock
    <3>1. f + cnt - 1 \in f..f + cnt - 1
      BY <2>1
    <3>2. f + cnt - 1 \in 0..TotalBlock - 1
      BY <2>2, <3>1 DEF Frame
    <3> QED
      BY <2>1, <3>2
  <2>3. ASSUME f + cnt <= TotalBlock PROVE f..f + cnt - 1 \subseteq Frame
    BY <2>1, <2>3 DEF Frame
  <2> QED
    BY <2>2, <2>3
<1>2. ASSUME NEW f \in Frame PROVE f >= 0 /\ f \in f..f + cnt - 1
  BY FrameFacts
<1> QED
  BY <1>1, <1>2 DEF Abstract!Fits, Abstract!Run, FitsFrom

(* The first fit is one of those, and there is none if none fit. *)
LEMMA FirstMeansFits ==
    ASSUME NEW cnt \in Nat \ {0}
    PROVE  LET first == FirstFrom(bitmap, cnt, 0)
           IN  IF first = -1 THEN Abstract!Fits(cnt) = {} ELSE first \in Abstract!Fits(cnt)
<1> DEFINE F == FitsFrom(bitmap, cnt, 0)
<1>1. F \in SUBSET Nat
  BY FrameFacts DEF FitsFrom
<1>2. Abstract!Fits(cnt) = F
  BY FitsAgree
<1>3. FirstFrom(bitmap, cnt, 0) = IF F = {} THEN -1 ELSE Min(F)
  BY DEF FirstFrom
<1> HIDE DEF F
<1>4. F # {} => Min(F) \in F /\ Min(F) # -1
  BY <1>1, LeastNat
<1> QED
  BY <1>2, <1>3, <1>4

(* A request that does not fit into the count does not fit at all. *)
LEMMA CountRefuses ==
    ASSUME FrameInv, NEW cnt \in Nat \ {0}, usedBlock + cnt > TotalBlock
    PROVE  FirstFrom(bitmap, cnt, 0) = -1
<1> SUFFICES ASSUME FirstFrom(bitmap, cnt, 0) # -1 PROVE FALSE
  OBVIOUS
<1> DEFINE first == FirstFrom(bitmap, cnt, 0)
           run == first..first + cnt - 1
           A == bitmap \cap Frame
<1>1. /\ run \subseteq Frame /\ run \cap bitmap = {}
      /\ IsFiniteSet(run) /\ Cardinality(run) = cnt
  BY FoundRun
<1> HIDE DEF first, run
<1>2. IsFiniteSet(A) /\ A \cup run \in SUBSET Frame /\ A \cap run = {}
  BY <1>1, FrameFacts, FS_Intersection
<1>3. usedBlock = Cardinality(A)
  BY DEF FrameInv
<1> HIDE DEF A
<1>4. Cardinality(A) \in Nat /\ Cardinality(A \cap run) = 0
  BY <1>2, FS_CardinalityType, FS_EmptySet
<1>5. Cardinality(A \cup run) = Cardinality(A) + Cardinality(run) - Cardinality(A \cap run)
  BY <1>1, <1>2, FS_Union
<1>6. Cardinality(A \cup run) <= TotalBlock
  BY <1>2, FrameFacts, FS_Subset
<1> QED
  BY <1>1, <1>3, <1>4, <1>5, <1>6, FrameFacts

(* Giving out a run that was found: pmmngr_alloc_block,                     *)
(* pmmngr_alloc_multi_block.                                                *)
LEMMA TakeStep ==
    ASSUME FrameInv, NEW cnt \in Nat \ {0}, NEW first,
           first = FirstFrom(bitmap, cnt, 0), first # -1, Take(first, cnt)
    PROVE  FrameInv' /\ Abstract!Alloc(cnt)
<1> DEFINE run == first..first + cnt - 1
           A == bitmap \cap Frame
<1>1. /\ first \in Frame /\ first \in run
      /\ run \subseteq Frame /\ run \cap bitmap = {}
      /\ IsFiniteSet(run) /\ Cardinality(run) = cnt
  BY FoundRun
<1>2. /\ bitmap' = bitmap \cup run /\ usedBlock' = usedBlock + cnt
      /\ owned' = owned \cup run /\ result' = [cnt |-> cnt, frame |-> first]
  BY DEF Take
<1>3. first \in Abstract!Fits(cnt) /\ Abstract!Run(first, cnt) = run
  BY FirstMeansFits DEF Abstract!Run
<1> HIDE DEF run
<1>4. usedBlock' = Cardinality(bitmap' \cap Frame)
  <2>1. bitmap' \cap Frame = A \cup run /\ A \cap run = {}
    BY <1>1, <1>2
  <2>2. IsFiniteSet(A) /\ usedBlock = Cardinality(A)
    BY FrameFacts, FS_Intersection DEF FrameInv
  <2> HIDE DEF A
  <2>3. Cardinality(A) \in Nat /\ Cardinality(A \cap run) = 0
    BY <2>1, <2>2, FS_CardinalityType, FS_EmptySet
  <2>4. Cardinality(A \cup run) = Cardinality(A) + Cardinality(run) - Cardinality(A \cap run)
    BY <1>1, <2>2, FS_Union
  <2>5. Cardinality(bitmap' \cap Frame) = Cardinality(A \cup run)
    BY <2>1, Zenon
  <2> QED
    BY <1>1, <1>2, <2>2, <2>3, <2>4, <2>5
<1>5. FrameInv'
  <2>1. bitmap' \in SUBSET Bits /\ 0 \in bitmap' /\ owned' \subseteq (bitmap' \cap Frame) \ {0}
    BY <1>1, <1>2, FrameFacts DEF FrameInv
  <2> QED
    BY <1>4, <2>1 DEF FrameInv
<1>6. Frame \ bitmap' = (Frame \ bitmap) \ run
  BY <1>2
<1>7. Abstract!Alloc(cnt)
  BY <1>2, <1>3, <1>6 DEF Abstract!Alloc
<1> QED
  BY <1>5, <1>7

(* A request that is refused because nothing fits. *)
LEMMA FailStep ==
    ASSUME FrameInv, NEW cnt \in Nat, Failed(cnt), cnt = 0 \/ FirstFrom(bitmap, cnt, 0) = -1
    PROVE  FrameInv' /\ Abstract!Alloc(cnt)
<1>1. cnt = 0 \/ Abstract!Fits(cnt) = {}
  BY FirstMeansFits
<1>2. result' = [cnt |-> cnt, frame |-> 0] /\ bitmap' = bitmap /\ usedBlock' = usedBlock /\ owned' = owned
  BY DEF Failed
<1>3. Abstract!Alloc(cnt)
  BY <1>1, <1>2 DEF Abstract!Alloc
<1> QED
  BY <1>2, <1>3 DEF FrameInv

(* Giving frames back: pmmngr_free_block, pmmngr_free_multi_block. *)
LEMMA ClearStep ==
    ASSUME FrameInv, NEW frames \in SUBSET Frame, frames \subseteq owned \cup (Frame \ bitmap),
           Clear(frames), owned' = owned \ frames, result' = result
    PROVE  FrameInv' /\ Abstract!Free(frames \cap owned)
<1> DEFINE A == bitmap \cap Frame
<1>1. bitmap' = bitmap \ frames /\ usedBlock' = usedBlock - Cardinality(frames \cap bitmap)
  BY DEF Clear
<1>2. 0 \notin frames /\ owned \subseteq (bitmap \cap Frame) \ {0}
  BY DEF FrameInv
<1>3. usedBlock' = Cardinality(bitmap' \cap Frame)
  <2>1. bitmap' \cap Frame = A \ frames /\ frames \cap bitmap = A \cap frames
    BY <1>1
  <2>2. IsFiniteSet(A) /\ usedBlock = Cardinality(A)
    BY FrameFacts, FS_Intersection DEF FrameInv
  <2> HIDE DEF A
  <2>3. Cardinality(A \ frames) = Cardinality(A) - Cardinality(A \cap frames)
    BY <2>2, FS_Difference
  <2>4. Cardinality(bitmap' \cap Frame) = Cardinality(A \ frames)
    BY <2>1, Zenon
  <2>5. Cardinality(frames \cap bitmap) = Cardinality(A \cap frames)
    BY <2>1, Zenon
  <2> QED
    BY <1>1, <2>2, <2>3, <2>4, <2>5
<1>4. FrameInv'
  <2>1. bitmap' \in SUBSET Bits /\ 0 \in bitmap' /\ owned' \subseteq (bitmap' \cap Frame) \ {0}
    BY <1>1, <1>2 DEF FrameInv
  <2> QED
    BY <1>3, <2>1 DEF FrameInv
<1>5. Frame \ bitmap' = (Frame \ bitmap) \cup (frames \cap owned)
  BY <1>1, <1>2
<1>6. owned' = owned \ (frames \cap owned)
  OBVIOUS
<1>7. Abstract!Free(frames \cap owned)
  BY <1>5, <1>6 DEF Abstract!Free
<1> QED
  BY <1>4, <1>7

(* Every call keeps the invariant and is a step of the allocator. *)
LEMMA FrameStep ==
    ASSUME FrameInv, Next
    PROVE  FrameInv' /\ [Abstract!Next]_(Abstract!vars)
<1>1. ASSUME NEW cnt \in Counts \cup {1}, Abstract!Alloc(cnt) PROVE Abstract!Next
  BY <1>1 DEF Abstract!Next
<1>2. ASSUME NEW frames \in SUBSET owned, Abstract!Free(frames) PROVE Abstract!Next
  BY <1>2 DEF Abstract!Next
<1>3. CASE AllocBlock
  <2> DEFINE first == FirstFrom(bitmap, 1, 0)
  <2>1. FindFirstFreeBlock(bitmap) = first
    BY FirstOfWords
  <2>2. TotalBlock = usedBlock => first = -1
    <3> SUFFICES ASSUME TotalBlock = usedBlock PROVE first = -1
      OBVIOUS
    <3> DEFINE one == 1
    <3>1. one \in Nat \ {0} /\ usedBlock + one > TotalBlock
      BY FrameFacts
    <3> HIDE DEF one
    <3>2. FirstFrom(bitmap, one, 0) = -1
      BY <3>1, CountRefuses
    <3> QED
      BY <3>2 DEF one
  <2>3. first = -1 \/ Take(first, 1)
    BY <1>3, <2>1, <2>2 DEF AllocBlock
  <2>4. first # -1 \/ Failed(1)
    BY <1>3, <2>1 DEF AllocBlock
  <2>5. FrameInv' /\ Abstract!Alloc(1)
    <3>1. 1 \in Nat \ {0} /\ 1 \in Nat
      OBVIOUS
    <3>2. CASE first = -1
      BY <2>4, <3>1, <3>2, FailStep
    <3>3. CASE first # -1
      <4> HIDE DEF first
      <4> QED
        BY <2>3, <3>1, <3>3, TakeStep DEF first
    <3> QED
      BY <3>2, <3>3
  <2> QED
    BY <1>1, <2>5
<1>4. ASSUME NEW cnt \in Counts, AllocMultiBlock(cnt)
      PROVE  FrameInv' /\ Abstract!Alloc(cnt)
  <2> DEFINE found == FindFirstFree(bitmap, cnt)
             first == FirstFrom(bitmap, cnt, 0)
  <2>1. cnt \in Nat
    BY PmmAssumption
  <2>2. \/ (usedBlock + cnt > TotalBlock \/ found = -1) /\ Failed(cnt)
        \/ found # -1 /\ Take(found, cnt)
    BY <1>4 DEF AllocMultiBlock
  <2>3. CASE cnt = 0
    <3>1. found = -1
      BY <2>3 DEF FindFirstFree
    <3>2. Failed(cnt)
      BY <2>2, <3>1
    <3> QED
      BY <2>1, <2>3, <3>2, FailStep
  <2>4. CASE cnt # 0
    <3>1. cnt \in Nat \ {0} /\ found = first
      BY <2>1, <2>4, SearchIsFirstFit
    <3>2. CASE (usedBlock + cnt > TotalBlock \/ found = -1) /\ Failed(cnt)
      <4>1. first = -1
        BY <3>1, <3>2, CountRefuses
      <4> QED
        BY <2>1, <3>2, <4>1, FailStep
    <3>3. CASE found # -1 /\ Take(found, cnt)
      <4> HIDE DEF found
      <4> QED
        BY <3>1, <3>3, TakeStep
    <3> QED
      BY <2>2, <3>2, <3>3
  <2> QED
    BY <2>3, <2>4
<1>5. ASSUME NEW frame \in Frame, FreeBlock(frame)
      PROVE  FrameInv' /\ [Abstract!Next]_(Abstract!vars)
  <2>1. MayFree(frame) /\ owned' = owned \ {frame} /\ result' = result
    BY <1>5 DEF FreeBlock
  <2>2. CASE frame = 0
    <3>1. bitmap' = bitmap /\ usedBlock' = usedBlock
      BY <1>5, <2>2 DEF FreeBlock
    <3>2. owned' = owned
      BY <2>1, <2>2 DEF FrameInv
    <3> QED
      BY <2>1, <3>1, <3>2 DEF FrameInv, Abstract!vars
  <2>3. CASE frame # 0
    <3>1. Clear({frame}) /\ {frame} \in SUBSET Frame
      BY <1>5, <2>3 DEF FreeBlock
    <3>2. {frame} \subseteq owned \cup (Frame \ bitmap)
      BY <2>1, <2>3 DEF MayFree
    <3>3. FrameInv' /\ Abstract!Free({frame} \cap owned)
      BY <2>1, <3>1, <3>2, ClearStep
    <3> QED
      BY <1>2, <3>3
  <2> QED
    BY <2>2, <2>3
<1>6. ASSUME NEW frame \in Frame, NEW cnt \in Counts, FreeMultiBlock(frame, cnt)
      PROVE  FrameInv' /\ [Abstract!Next]_(Abstract!vars)
  <2> DEFINE frames == {f \in frame..frame + cnt - 1 : f < TotalBlock}
  <2>1. /\ \A f \in frames \ {0} : MayFree(f)
        /\ IF frame = 0 THEN UNCHANGED <<bitmap, usedBlock, owned>>
           ELSE Clear(frames) /\ owned' = owned \ frames
        /\ result' = result
    BY <1>6 DEF FreeMultiBlock
  <2>2. CASE frame = 0
    BY <2>1, <2>2 DEF FrameInv, Abstract!vars
  <2>3. CASE frame # 0
    <3>1. frames \in SUBSET Frame /\ 0 \notin frames
      <4>1. frame \in Nat /\ cnt \in Nat /\ TotalBlock \in Nat
        BY PmmAssumption, FrameFacts
      <4> QED
        BY <2>3, <4>1 DEF Frame
    <3> HIDE DEF frames
    <3>2. frames \subseteq owned \cup (Frame \ bitmap)
      BY <2>1, <3>1 DEF MayFree
    <3>3. FrameInv' /\ Abstract!Free(frames \cap owned)
      BY <2>1, <2>3, <3>1, <3>2, ClearStep
    <3> QED
      BY <1>2, <3>3
  <2> QED
    BY <2>2, <2>3
<1> QED
  BY <1>1, <1>3, <1>4, <1>5, <1>6 DEF Next

(* mem_init leaves frame 0 in use and the count right. *)
LEMMA FrameStart ==
    ASSUME Init
    PROVE  FrameInv /\ Abstract!Init
<1>1. PICK usable \in SUBSET Bits :
         bitmap = DeinitRegion(InitRegion(Bits, usable), 0..KernelBlocks - 1)
  BY DEF Init
<1>2. usedBlock = UpdateUsage(bitmap) /\ owned = {} /\ result = [cnt |-> 0, frame |-> 0]
  BY DEF Init
<1>3. 0..KernelBlocks - 1 \subseteq Bits
  <2>1. 0..KernelBlocks - 1 \subseteq Frame
    BY PmmAssumption DEF Frame
  <2> QED
    BY <2>1, FrameFacts
<1>4. bitmap \in SUBSET Bits /\ 0 \in bitmap
  BY <1>1, <1>3, FrameFacts DEF DeinitRegion, InitRegion
<1>5. UpdateUsage(bitmap) = Cardinality(bitmap \cap Frame)
  BY <1>4, Recount
<1> QED
  BY <1>2, <1>4, <1>5 DEF FrameInv, Abstract!Init

(* The calls on frames are the only steps that change them. *)
LEMMA FramesOnly ==
    ASSUME [DataNext]_dataVars
    PROVE  [Next]_vars
BY DEF DataNext, dataVars, FramesStep, FullStep, GrowingStep, ListsStep

(* FramesOnly, with FrameStep and stuttering. *)
LEMMA FrameKept ==
    ASSUME FrameInv, [Next]_vars
    PROVE  FrameInv' /\ [Abstract!Next]_(Abstract!vars)
<1>1. CASE Next
  BY <1>1, FrameStep
<1>2. CASE UNCHANGED vars
  BY <1>2 DEF vars, FrameInv, Abstract!vars
<1> QED
  BY <1>1, <1>2

(* The invariant holds in every state of the kernel data. *)
LEMMA FrameInvariant == DataSpec => []FrameInv
<1>1. DataInit => FrameInv
  BY FrameStart DEF DataInit
<1>2. FrameInv /\ [DataNext]_dataVars => FrameInv'
  BY FramesOnly, FrameKept
<1> QED
  BY <1>1, <1>2, PTL DEF DataSpec

(* The count that is kept incrementally is the number of bits set below the *)
(* end of memory, pmmngr_update_usage would recount the same, and           *)
(* find_first_free finds the lowest run of free frames or, only if there is *)
(* none, nothing: for every memory size, word size and memory map.          *)
THEOREM FramesAreSound == DataSpec => []FramesSound
<1>1. FrameInv => FramesSound
  <2> SUFFICES ASSUME FrameInv PROVE FramesSound
    OBVIOUS
  <2>1. UsageIsExact
    BY Recount DEF FrameInv, UsageIsExact
  <2>2. ASSUME NEW cnt \in Counts \ {0}
        PROVE  LET fits == {f \in Frame : /\ f + cnt <= TotalBlock
                                         /\ (f..f + cnt - 1) \cap bitmap = {}}
               IN FindFirstFree(bitmap, cnt) = IF fits = {} THEN -1 ELSE Min(fits)
    <3> DEFINE fits == {f \in Frame : /\ f + cnt <= TotalBlock
                                      /\ (f..f + cnt - 1) \cap bitmap = {}}
    <3>1. cnt \in Nat \ {0}
      BY PmmAssumption
    <3>2. FitsFrom(bitmap, cnt, 0) = fits
      <4>1. \A f \in Frame : f >= 0
        BY FrameFacts
      <4> QED
        BY <4>1 DEF FitsFrom
    <3>3. FindFirstFree(bitmap, cnt) = FirstFrom(bitmap, cnt, 0)
      BY <3>1, SearchIsFirstFit
    <3> QED
      BY <3>2, <3>3 DEF FirstFrom
  <2>3. FirstFit
    BY <2>2 DEF FirstFit
  <2> QED
    BY <2>1, <2>3 DEF FramesSound
<1> QED
  BY <1>1, FrameInvariant, PTL

(* Every call of pmmngr_alloc_block, pmmngr_alloc_multi_block,              *)
(* pmmngr_free_block and pmmngr_free_multi_block is a step of an allocator  *)
(* that gives a frame to one owner at a time, never frame 0, and fails only *)
(* when no run of free frames is long enough.                               *)
THEOREM ImplementsAllocator == DataSpec => IsFrameAllocator
<1>1. DataInit => Abstract!Init
  BY FrameStart DEF DataInit
<1>2. FrameInv /\ [DataNext]_dataVars => [Abstract!Next]_(Abstract!vars)
  BY FramesOnly, FrameKept
<1> QED
  BY <1>1, <1>2, FrameInvariant, PTL DEF DataSpec, IsFrameAllocator, Abstract!Spec

-----------------------------------------------------------------------------
(* The heap that cannot grow: it ends at E. *)
E == FullPages * FullPage
W == 64 * FullPage
First == HEAP_SIZE
Rec == [used : BOOLEAN, size : Nat, prev : Nat]

(* Where region h ends, without the width of addresses. *)
Nxt(r, h) == h + HEADER_SIZE + r[h].size

(* The regions r lie end to end between the heap's structure and E. *)
Chain(r) ==
    /\ r \in [DOMAIN r -> Rec] /\ DOMAIN r \subseteq Nat
    /\ First \in DOMAIN r /\ r[First].prev = 0
    /\ \A h \in DOMAIN r : /\ h >= First /\ Nxt(r, h) <= E
                           /\ Nxt(r, h) \in DOMAIN r \/ Nxt(r, h) = E
                           /\ h # First => r[h].prev \in DOMAIN r /\ Nxt(r, r[h].prev) = h
    /\ \A g, h \in DOMAIN r : g < h => Nxt(r, g) <= h

(* What heap_new is given, as far as the proofs need it. *)
LEMMA HeapFacts ==
    /\ HEAP_SIZE \in Nat /\ HEAP_SIZE > 0 /\ HEADER_SIZE \in Nat /\ HEADER_SIZE > 0
    /\ MIN_REGION_SIZE \in Nat /\ MIN_REGION_SIZE > 0 /\ FullPage \in Nat /\ FullPage > 0
    /\ FullPages \in Nat /\ E \in Nat /\ W \in Nat /\ E < W /\ W > 0
    /\ First \in Nat /\ First > 0 /\ First + HEADER_SIZE < E /\ FullSizes \subseteq Nat
    /\ Full!MinSize = E /\ Full!FirstHeader = First /\ Full!NULL = 0
<1>1. /\ FullSizes \subseteq Nat
      /\ {HEAP_SIZE, HEADER_SIZE, MIN_REGION_SIZE, FullPage} \subseteq Nat \ {0}
      /\ FullPages \in 1..FullPages
      /\ HEAP_SIZE + HEADER_SIZE + MIN_REGION_SIZE <= FullPages * FullPage
      /\ (FullPages + 1) * FullPage < 64 * FullPage
  BY HeapsAssumption DEF Full!HeapAssumption
<1>2. /\ HEAP_SIZE \in Nat /\ HEAP_SIZE > 0 /\ HEADER_SIZE \in Nat /\ HEADER_SIZE > 0
      /\ MIN_REGION_SIZE \in Nat /\ MIN_REGION_SIZE > 0 /\ FullPage \in Nat /\ FullPage > 0
  BY <1>1
<1>3. FullPages \in Nat
  <2>1. FullPages \in 1..FullPages
    BY <1>1
  <2> QED
    BY <2>1
<1>4. (FullPages + 1) * FullPage = FullPages * FullPage + FullPage /\ FullPages * FullPage \in Nat
  BY <1>2, <1>3
<1> QED
  BY <1>1, <1>2, <1>3, <1>4 DEF E, W, First, Full!MinSize, Full!FirstHeader, Full!NULL

(* Addresses of the heap do not wrap. *)
LEMMA NoWrap ==
    ASSUME NEW x \in Nat, x <= E
    PROVE  x % (64 * FullPage) = x
<1>1. W \in Nat /\ x < W
  BY HeapFacts
<1>2. \A w \in Nat : x < w => x % w = x
  OBVIOUS
<1> QED
  BY <1>1, <1>2 DEF W

(* The fields of a header. *)
LEMMA ChainFields ==
    ASSUME NEW r, Chain(r), NEW h \in DOMAIN r
    PROVE  /\ r[h] \in Rec /\ r[h].used \in BOOLEAN /\ r[h].size \in Nat /\ r[h].prev \in Nat
           /\ h \in Nat /\ h >= First /\ Nxt(r, h) \in Nat /\ Nxt(r, h) > h /\ Nxt(r, h) <= E /\ h > 0
           /\ h + HEADER_SIZE <= Nxt(r, h)
           /\ Nxt(r, h) < E => Nxt(r, h) \in DOMAIN r
<1>1. r \in [DOMAIN r -> Rec] /\ h \in Nat /\ h >= First /\ Nxt(r, h) <= E
      /\ (Nxt(r, h) \in DOMAIN r \/ Nxt(r, h) = E)
  BY DEF Chain
<1>2. r[h] \in Rec
  BY <1>1
<1>3. r[h].used \in BOOLEAN /\ r[h].size \in Nat /\ r[h].prev \in Nat
  BY <1>2 DEF Rec
<1> QED
  BY <1>1, <1>2, <1>3, HeapFacts DEF Nxt

(* The width of addresses makes no difference. *)
LEMMA NextHeaderIsNxt ==
    ASSUME NEW r, Chain(r), NEW h \in DOMAIN r
    PROVE  Full!NextHeader(h, r) = Nxt(r, h)
<1>1. Nxt(r, h) \in Nat /\ Nxt(r, h) <= E
  BY ChainFields
<1> QED
  BY <1>1, NoWrap DEF Full!NextHeader, Nxt

(* Two regions do not end at the same address. *)
LEMMA NxtInjective ==
    ASSUME NEW r, Chain(r), NEW g \in DOMAIN r, NEW h \in DOMAIN r, Nxt(r, g) = Nxt(r, h)
    PROVE  g = h
<1>1. /\ g \in Nat /\ h \in Nat /\ Nxt(r, g) \in Nat /\ Nxt(r, h) \in Nat
      /\ Nxt(r, g) > g /\ Nxt(r, h) > h
  BY ChainFields
<1>2. (g < h => Nxt(r, g) <= h) /\ (h < g => Nxt(r, h) <= g)
  BY DEF Chain
<1> QED
  BY <1>1, <1>2

-----------------------------------------------------------------------------
(* m is r with region h and the one behind it made one. *)
Merged(r, h, m) ==
    LET n == Nxt(r, h)
    IN /\ n \in DOMAIN r
       /\ m \in [DOMAIN r \ {n} -> Rec]
       /\ \A a \in DOMAIN r \ {n} :
             /\ m[a].used = r[a].used
             /\ m[a].size = IF a = h THEN r[h].size + r[n].size + HEADER_SIZE ELSE r[a].size
             /\ m[a].prev = IF a = Nxt(r, n) THEN h ELSE r[a].prev

(* SetPrev changes one field. *)
LEMMA SetPrevFacts ==
    ASSUME NEW D \in SUBSET Nat, NEW m \in [D -> Rec], NEW k \in Nat, k \in D \/ k = E, NEW p \in Nat,
           \A a \in D : a < E
    PROVE  LET s == Full!SetPrev(m, k, E, p)
           IN /\ s \in [D -> Rec]
              /\ \A a \in D : /\ s[a].used = m[a].used /\ s[a].size = m[a].size
                              /\ s[a].prev = IF a = k THEN p ELSE m[a].prev
<1> DEFINE s == Full!SetPrev(m, k, E, p)
<1>1. E \in Nat
  BY HeapFacts
<1>2. CASE k < E /\ k \in D
  <2>1. s = [m EXCEPT ![k].prev = p]
    BY <1>2 DEF Full!SetPrev
  <2> HIDE DEF s
  <2>2. m[k] \in Rec
    BY <1>2
  <2>3. [m[k] EXCEPT !.prev = p] \in Rec
    BY <2>2 DEF Rec
  <2>4. s \in [D -> Rec] /\ \A a \in D : s[a] = IF a = k THEN [m[k] EXCEPT !.prev = p] ELSE m[a]
    BY <1>2, <2>1, <2>3
  <2>5. /\ [m[k] EXCEPT !.prev = p].used = m[k].used /\ [m[k] EXCEPT !.prev = p].size = m[k].size
        /\ [m[k] EXCEPT !.prev = p].prev = p
    BY <2>2 DEF Rec
  <2>6. ASSUME NEW a \in D
        PROVE  /\ s[a].used = m[a].used /\ s[a].size = m[a].size
               /\ s[a].prev = IF a = k THEN p ELSE m[a].prev
    <3>1. CASE a = k
      BY <2>4, <2>5, <3>1
    <3>2. CASE a # k
      BY <2>4, <3>2
    <3> QED
      BY <3>1, <3>2
  <2> QED
    BY <2>4, <2>6 DEF s
<1>3. CASE ~(k < E /\ k \in D)
  <2>1. s = m
    BY <1>3 DEF Full!SetPrev
  <2>2. k \notin D
    BY <1>3
  <2> QED
    BY <2>1, <2>2
<1> QED
  BY <1>2, <1>3

(* Merge does that. *)
LEMMA MergeFacts ==
    ASSUME NEW r, Chain(r), NEW h \in DOMAIN r, Nxt(r, h) < E, end = E
    PROVE  Merged(r, h, Full!Merge(r, h))
<1> DEFINE n == Nxt(r, h)
           D == DOMAIN r \ {n}
           one == [r[h] EXCEPT !.size = @ + r[n].size + HEADER_SIZE]
           m == [a \in D |-> IF a = h THEN one ELSE r[a]]
           k == Nxt(r, n)
<1>1. n \in DOMAIN r /\ n > h /\ h \in Nat /\ n \in Nat /\ h \in D
  BY ChainFields
<1>2. /\ r[h] \in Rec /\ r[n] \in Rec /\ r[h].size \in Nat /\ r[n].size \in Nat
      /\ k \in Nat /\ k > n /\ k <= E /\ k \in DOMAIN r \cup {E}
  BY <1>1, ChainFields DEF Chain
<1>3. Full!NextHeader(h, r) = n
  BY NextHeaderIsNxt
<1>4. HEADER_SIZE \in Nat /\ r \in [DOMAIN r -> Rec] /\ D \in SUBSET Nat
  BY HeapFacts DEF Chain
<1>5. /\ one \in Rec /\ one.used = r[h].used /\ one.prev = r[h].prev
      /\ one.size = r[h].size + r[n].size + HEADER_SIZE
  BY <1>2, <1>4 DEF Rec
<1>6. \A a \in D : a < E
  <2> TAKE a \in D
  <2>1. a \in DOMAIN r
    OBVIOUS
  <2>2. a \in Nat /\ Nxt(r, a) \in Nat /\ a < Nxt(r, a) /\ Nxt(r, a) <= E
    BY <2>1, ChainFields
  <2> QED
    BY <2>2, HeapFacts
<1>7. Nxt(m, h) = k
  <2>1. m[h] = one
    BY <1>1
  <2> HIDE DEF one, m
  <2> QED
    BY <1>1, <1>2, <1>4, <1>5, <2>1 DEF Nxt
<1>8. Full!NextHeader(h, m) = k
  <2>1. Full!NextHeader(h, m) = Nxt(m, h) % (64 * FullPage)
    BY DEF Full!NextHeader, Nxt
  <2> HIDE DEF m, k
  <2> QED
    BY <1>2, <1>7, <2>1, NoWrap
<1>9. Full!Merge(r, h) = Full!SetPrev(m, k, E, h)
  BY <1>3, <1>8 DEF Full!Merge
<1>10. m \in [D -> Rec] /\ \A a \in D : m[a] = IF a = h THEN one ELSE r[a]
  <2>1. \A a \in D : r[a] \in Rec
    BY <1>4
  <2> HIDE DEF one, D
  <2> QED
    BY <1>5, <2>1
<1>11. k \in D \/ k = E
  BY <1>1, <1>2
<1>12. n = Nxt(r, h) /\ k = Nxt(r, n) /\ D = DOMAIN r \ {n}
  OBVIOUS
<1> HIDE DEF m, k, D, one, n
<1> DEFINE s == Full!SetPrev(m, k, E, h)
<1>13. /\ s \in [D -> Rec]
       /\ \A a \in D : /\ s[a].used = m[a].used /\ s[a].size = m[a].size
                       /\ s[a].prev = IF a = k THEN h ELSE m[a].prev
  BY <1>1, <1>2, <1>4, <1>6, <1>10, <1>11, SetPrevFacts
<1> HIDE DEF s
<1>14. ASSUME NEW a \in D
       PROVE  /\ s[a].used = r[a].used
              /\ s[a].size = IF a = h THEN r[h].size + r[n].size + HEADER_SIZE ELSE r[a].size
              /\ s[a].prev = IF a = k THEN h ELSE r[a].prev
  <2>1. CASE a = h
    <3>1. m[a] = one
      BY <1>10, <2>1
    <3> QED
      BY <1>5, <1>13, <2>1, <3>1
  <2>2. CASE a # h
    <3>1. m[a] = r[a]
      BY <1>10, <2>2
    <3> QED
      BY <1>13, <2>2, <3>1
  <2> QED
    BY <2>1, <2>2
<1>15. Full!Merge(r, h) = s
  BY <1>9 DEF s
<1> QED
  BY <1>1, <1>12, <1>13, <1>14, <1>15 DEF Merged

(* What Merged says, region by region. *)
Grown(r, h, m) ==
    /\ Nxt(r, h) \in DOMAIN r /\ DOMAIN m = DOMAIN r \ {Nxt(r, h)} /\ h \in DOMAIN m
    /\ Nxt(m, h) = Nxt(r, Nxt(r, h))
    /\ \A a \in DOMAIN m \ {h} : Nxt(m, a) = Nxt(r, a)

(* Merged says so. *)
LEMMA MergedNxt ==
    ASSUME NEW r, Chain(r), NEW h \in DOMAIN r, NEW m, Merged(r, h, m)
    PROVE  Grown(r, h, m)
<1> DEFINE n == Nxt(r, h)
<1>1. n \in DOMAIN r /\ DOMAIN m = DOMAIN r \ {n}
  BY DEF Merged
<1>2. h # n
  BY ChainFields
<1>3. /\ m[h].size = r[h].size + r[n].size + HEADER_SIZE
      /\ \A a \in DOMAIN m \ {h} : m[a].size = r[a].size
  BY <1>1, <1>2 DEF Merged
<1>4. r[h].size \in Nat /\ r[n].size \in Nat /\ h \in Nat /\ HEADER_SIZE \in Nat
  BY <1>1, ChainFields, HeapFacts
<1>5. Nxt(m, h) = Nxt(r, n)
  BY <1>3, <1>4 DEF Nxt
<1>6. \A a \in DOMAIN m \ {h} : Nxt(m, a) = Nxt(r, a)
  BY <1>3 DEF Nxt
<1> QED
  BY <1>1, <1>2, <1>5, <1>6 DEF Grown

(* Merging two regions leaves the others end to end. *)
LEMMA MergedChain ==
    ASSUME NEW r, Chain(r), NEW h \in DOMAIN r, NEW m, Merged(r, h, m)
    PROVE  Chain(m)
<1> DEFINE n == Nxt(r, h)
           D == DOMAIN r \ {n}
<1>1. /\ n \in DOMAIN r /\ DOMAIN m = D /\ h \in D /\ Nxt(m, h) = Nxt(r, n)
      /\ \A a \in D \ {h} : Nxt(m, a) = Nxt(r, a)
  <2>1. Grown(r, h, m)
    BY MergedNxt
  <2> QED
    BY <2>1 DEF Grown
<1>2. /\ m \in [D -> Rec]
      /\ \A a \in D : m[a].prev = IF a = Nxt(r, n) THEN h ELSE r[a].prev
  BY DEF Merged
<1>3. /\ h \in Nat /\ n \in Nat /\ h < n /\ h >= First /\ First \in Nat
      /\ Nxt(r, n) \in Nat /\ Nxt(r, n) > n /\ Nxt(r, n) <= E
      /\ (Nxt(r, n) \in DOMAIN r \/ Nxt(r, n) = E)
  BY <1>1, ChainFields, HeapFacts DEF Chain
<1>4. First \in D /\ First # Nxt(r, n) /\ First # n
  BY <1>3 DEF Chain
<1>5. D \subseteq Nat /\ m[First].prev = 0
  BY <1>2, <1>4 DEF Chain
<1>6. n = Nxt(r, h) /\ D \subseteq DOMAIN r /\ n \notin D /\ \A a \in DOMAIN r : a # n => a \in D
  OBVIOUS
<1> HIDE DEF n, D
<1>7. ASSUME NEW a \in D
      PROVE  /\ a >= First /\ Nxt(m, a) <= E
             /\ Nxt(m, a) \in D \/ Nxt(m, a) = E
             /\ a # First => m[a].prev \in D /\ Nxt(m, m[a].prev) = a
  <2>1. /\ a \in DOMAIN r /\ a >= First /\ Nxt(r, a) <= E
        /\ (Nxt(r, a) \in DOMAIN r \/ Nxt(r, a) = E)
    BY <1>6 DEF Chain
  <2>2. Nxt(m, a) <= E /\ (Nxt(m, a) \in D \/ Nxt(m, a) = E)
    <3>1. CASE a = h
      BY <1>1, <1>3, <1>6, <3>1
    <3>2. CASE a # h
      <4>1. Nxt(m, a) = Nxt(r, a)
        BY <1>1, <3>2
      <4>2. Nxt(r, a) # n
        BY <1>6, <2>1, <3>2, NxtInjective
      <4> QED
        BY <1>6, <2>1, <4>1, <4>2
    <3> QED
      BY <3>1, <3>2
  <2>3. ASSUME a # First PROVE m[a].prev \in D /\ Nxt(m, m[a].prev) = a
    <3>1. CASE a = Nxt(r, n)
      BY <1>1, <1>2, <3>1
    <3>2. CASE a # Nxt(r, n)
      <4>1. m[a].prev = r[a].prev
        BY <1>2, <3>2
      <4>2. r[a].prev \in DOMAIN r /\ Nxt(r, r[a].prev) = a
        BY <2>1, <2>3 DEF Chain
      <4>3. r[a].prev # n /\ r[a].prev # h
        BY <1>6, <3>2, <4>2
      <4> QED
        BY <1>1, <1>6, <4>1, <4>2, <4>3
    <3> QED
      BY <3>1, <3>2
  <2> QED
    BY <2>1, <2>2, <2>3
<1>8. ASSUME NEW g \in D, NEW k \in D, g < k PROVE Nxt(m, g) <= k
  <2>1. /\ g \in DOMAIN r /\ k \in DOMAIN r /\ k \in Nat /\ Nxt(r, g) <= k
        /\ n < k => Nxt(r, n) <= k
    BY <1>1, <1>5, <1>6, <1>8 DEF Chain
  <2>2. CASE g = h
    <3>1. n <= k /\ n # k
      BY <1>6, <2>1, <2>2
    <3> QED
      BY <1>1, <1>3, <2>1, <2>2, <3>1
  <2>3. CASE g # h
    BY <1>1, <2>1, <2>3
  <2> QED
    BY <2>2, <2>3
<1> QED
  BY <1>1, <1>2, <1>4, <1>5, <1>7, <1>8 DEF Chain

(* m is r with the magic number of header h set or cleared. *)
Marked(r, h, u, m) ==
    /\ m \in [DOMAIN r -> Rec]
    /\ \A a \in DOMAIN r : /\ m[a].size = r[a].size /\ m[a].prev = r[a].prev
                           /\ m[a].used = IF a = h THEN u ELSE r[a].used

(* Writing the magic number does that. *)
LEMMA MarkFacts ==
    ASSUME NEW r, Chain(r), NEW h \in DOMAIN r, NEW u \in BOOLEAN
    PROVE  Marked(r, h, u, [r EXCEPT ![h].used = u])
<1> DEFINE D == DOMAIN r
           m == [r EXCEPT ![h].used = u]
           one == [r[h] EXCEPT !.used = u]
<1>1. r \in [D -> Rec] /\ r[h] \in Rec
  BY ChainFields DEF Chain
<1>2. one \in Rec /\ one.used = u /\ one.size = r[h].size /\ one.prev = r[h].prev
  BY <1>1 DEF Rec
<1>3. h \in D /\ D = DOMAIN r /\ m = [r EXCEPT ![h] = one]
  OBVIOUS
<1> HIDE DEF D, m, one
<1>4. m \in [D -> Rec] /\ \A a \in D : m[a] = IF a = h THEN one ELSE r[a]
  BY <1>1, <1>2, <1>3
<1>5. ASSUME NEW a \in D
      PROVE  /\ m[a].size = r[a].size /\ m[a].prev = r[a].prev
             /\ m[a].used = IF a = h THEN u ELSE r[a].used
  <2>1. CASE a = h
    BY <1>2, <1>4, <2>1
  <2>2. CASE a # h
    BY <1>4, <2>2
  <2> QED
    BY <2>1, <2>2
<1>6. Marked(r, h, u, m)
  BY <1>3, <1>4, <1>5 DEF Marked
<1> QED
  BY <1>6 DEF m

(* The chain stays as it is. *)
SameChain(r, m) == DOMAIN m = DOMAIN r /\ \A a \in DOMAIN r : Nxt(m, a) = Nxt(r, a)

(* So it does. *)
LEMMA MarkedChain ==
    ASSUME NEW r, Chain(r), NEW h \in DOMAIN r, NEW u, NEW m, Marked(r, h, u, m)
    PROVE  Chain(m) /\ SameChain(r, m)
<1>1. DOMAIN m = DOMAIN r /\ m \in [DOMAIN r -> Rec]
  BY DEF Marked
<1>2. \A a \in DOMAIN r : m[a].size = r[a].size /\ m[a].prev = r[a].prev
  BY DEF Marked
<1>3. \A a \in DOMAIN r : Nxt(m, a) = Nxt(r, a)
  BY <1>2 DEF Nxt
<1>4. First \in DOMAIN r /\ r[First].prev = 0 /\ DOMAIN r \subseteq Nat
  BY DEF Chain
<1>5. ASSUME NEW a \in DOMAIN m
      PROVE  /\ a >= First /\ Nxt(m, a) <= E
             /\ Nxt(m, a) \in DOMAIN m \/ Nxt(m, a) = E
             /\ a # First => m[a].prev \in DOMAIN m /\ Nxt(m, m[a].prev) = a
  BY <1>1, <1>2, <1>3 DEF Chain
<1>6. \A g, k \in DOMAIN m : g < k => Nxt(m, g) <= k
  BY <1>1, <1>3 DEF Chain
<1>7. m[First].prev = 0
  BY <1>2, <1>4
<1> QED
  BY <1>1, <1>3, <1>4, <1>5, <1>6, <1>7 DEF Chain, SameChain

-----------------------------------------------------------------------------
(* m is r with a free region made of what size leaves of region h. *)
Split(r, h, size, m) ==
    LET newh == h + HEADER_SIZE + size
    IN /\ m \in [DOMAIN r \cup {newh} -> Rec]
       /\ m[newh].used = FALSE /\ m[newh].size = r[h].size - size - HEADER_SIZE /\ m[newh].prev = h
       /\ \A a \in DOMAIN r :
             /\ m[a].used = r[a].used
             /\ m[a].size = IF a = h THEN size ELSE r[a].size
             /\ m[a].prev = IF a = Nxt(r, h) THEN newh ELSE r[a].prev

(* The new header is inside region h. *)
LEMMA NewHeader ==
    ASSUME NEW r, Chain(r), NEW h \in DOMAIN r, NEW size \in Nat, size + HEADER_SIZE <= r[h].size,
           NEW n, n = h + HEADER_SIZE + size
    PROVE  /\ n \in Nat /\ n > h /\ n < Nxt(r, h) /\ n < E /\ n \notin DOMAIN r /\ n > First
           /\ r[h].size - size - HEADER_SIZE \in Nat /\ r[h].size - size - HEADER_SIZE <= E
           /\ n + HEADER_SIZE + (r[h].size - size - HEADER_SIZE) = Nxt(r, h)
<1>1. /\ h \in Nat /\ r[h].size \in Nat /\ Nxt(r, h) \in Nat /\ Nxt(r, h) <= E /\ h >= First
      /\ HEADER_SIZE \in Nat /\ HEADER_SIZE > 0 /\ E \in Nat /\ First \in Nat
  BY ChainFields, HeapFacts
<1>2. Nxt(r, h) = h + HEADER_SIZE + r[h].size
  BY DEF Nxt
<1>3. n \in Nat /\ n > h /\ n < Nxt(r, h)
  BY <1>1, <1>2
<1>4. n \notin DOMAIN r
  <2>1. n \in DOMAIN r => Nxt(r, h) <= n
    BY <1>3 DEF Chain
  <2> QED
    BY <1>1, <1>3, <2>1
<1> QED
  BY <1>1, <1>2, <1>3, <1>4

(* The region behind the two is told of the new header. *)
LEMMA SplitPrev ==
    ASSUME NEW r, Chain(r), NEW h \in DOMAIN r, NEW size \in Nat, size + HEADER_SIZE <= r[h].size,
           NEW newh, newh = h + HEADER_SIZE + size, NEW D, D = DOMAIN r \cup {newh},
           NEW s \in [D -> Rec],
           s[newh].used = FALSE, s[newh].size = r[h].size - size - HEADER_SIZE, s[newh].prev = h,
           \A a \in DOMAIN r : /\ s[a].used = r[a].used /\ s[a].prev = r[a].prev
                               /\ s[a].size = IF a = h THEN size ELSE r[a].size
    PROVE  Split(r, h, size, Full!SetPrev(s, Full!NextHeader(newh, s), E, newh))
<1> DEFINE k == Nxt(r, h)
           m == Full!SetPrev(s, k, E, newh)
<1>1. /\ newh \in Nat /\ newh > h /\ newh < k /\ newh < E /\ newh \notin DOMAIN r
      /\ newh + HEADER_SIZE + (r[h].size - size - HEADER_SIZE) = k
  BY NewHeader
<1>2. /\ h \in Nat /\ k \in Nat /\ k <= E /\ (k \in DOMAIN r \/ k = E) /\ DOMAIN r \subseteq Nat
  BY ChainFields DEF Chain
<1>3. \A a \in D : a < E
  <2> TAKE a \in D
  <2>1. CASE a = newh
    BY <1>1, <2>1
  <2>2. CASE a \in DOMAIN r
    <3>1. a \in Nat /\ Nxt(r, a) \in Nat /\ a < Nxt(r, a) /\ Nxt(r, a) <= E
      BY <2>2, ChainFields
    <3> QED
      BY <3>1, HeapFacts
  <2> QED
    BY <2>1, <2>2
<1>4. D \in SUBSET Nat /\ newh \in D /\ DOMAIN r \subseteq D /\ (k \in D \/ k = E)
  BY <1>1, <1>2
<1>5. k = Nxt(r, h)
  OBVIOUS
<1> HIDE DEF k
<1>6. Full!NextHeader(newh, s) = k
  <2>1. Full!NextHeader(newh, s) = (newh + HEADER_SIZE + (r[h].size - size - HEADER_SIZE)) % (64 * FullPage)
    BY DEF Full!NextHeader
  <2> QED
    BY <1>1, <1>2, <2>1, NoWrap
<1>7. /\ m \in [D -> Rec]
      /\ \A a \in D : /\ m[a].used = s[a].used /\ m[a].size = s[a].size
                      /\ m[a].prev = IF a = k THEN newh ELSE s[a].prev
  BY <1>1, <1>2, <1>3, <1>4, SetPrevFacts
<1>8. Full!SetPrev(s, Full!NextHeader(newh, s), E, newh) = m
  BY <1>6
<1> HIDE DEF m
<1>9. newh # k
  BY <1>1, <1>2
<1> QED
  BY <1>4, <1>5, <1>7, <1>8, <1>9 DEF Split

(* The headers before that. *)
Made(r, h, newh, fresh, one, D, s) ==
    s = [a \in D |-> IF a = newh THEN fresh ELSE IF a = h THEN one ELSE r[a]]

(* Their fields. *)
Fields(r, h, size, newh, fresh, s) ==
    /\ s \in [DOMAIN r \cup {newh} -> Rec] /\ s[newh] = fresh
    /\ \A a \in DOMAIN r : /\ s[a].used = r[a].used /\ s[a].prev = r[a].prev
                           /\ s[a].size = IF a = h THEN size ELSE r[a].size

(* They are those. *)
LEMMA SplitFields ==
    ASSUME NEW r, Chain(r), NEW h \in DOMAIN r, NEW size \in Nat, NEW newh, newh \notin DOMAIN r,
           NEW D, D = DOMAIN r \cup {newh},
           NEW fresh \in Rec, NEW one \in Rec,
           one.used = r[h].used, one.size = size, one.prev = r[h].prev,
           NEW s, Made(r, h, newh, fresh, one, D, s)
    PROVE  Fields(r, h, size, newh, fresh, s)
<1>1. newh \in D /\ h \in D /\ h # newh /\ DOMAIN r \subseteq D
      /\ \A a \in D : a # newh => a \in DOMAIN r
  OBVIOUS
<1>2. \A a \in DOMAIN r : r[a] \in Rec
  BY ChainFields
<1>3. s \in [D -> Rec]
  BY <1>1, <1>2 DEF Made
<1>4. s[newh] = fresh /\ s[h] = one
  BY <1>1 DEF Made
<1>5. ASSUME NEW a \in DOMAIN r
      PROVE  /\ s[a].used = r[a].used /\ s[a].prev = r[a].prev
             /\ s[a].size = IF a = h THEN size ELSE r[a].size
  <2>1. CASE a = h
    BY <1>4, <2>1
  <2>2. CASE a # h
    <3>1. s[a] = r[a]
      BY <1>1, <2>2 DEF Made
    <3> QED
      BY <2>2, <3>1
  <2> QED
    BY <2>1, <2>2
<1> QED
  BY <1>3, <1>4, <1>5 DEF Fields

(* The last part of heap_alloc does that. *)
LEMMA SplitFacts ==
    ASSUME NEW r, Chain(r), NEW h \in DOMAIN r, NEW size \in Nat, size + HEADER_SIZE <= r[h].size,
           NEW newh, newh = h + HEADER_SIZE + size,
           NEW spare, spare = r[h].size - size - HEADER_SIZE,
           NEW one, one = [r[h] EXCEPT !.size = size],
           NEW fresh, fresh = [used |-> FALSE, size |-> spare, prev |-> h],
           NEW D, D = DOMAIN r \cup {newh},
           NEW s, Made(r, h, newh, fresh, one, D, s)
    PROVE  Split(r, h, size, Full!SetPrev(s, Full!NextHeader(newh, s), E, newh))
<1>1. newh \in Nat /\ newh \notin DOMAIN r /\ spare \in Nat
  BY NewHeader
<1>2. h \in Nat /\ r[h] \in Rec
  BY ChainFields
<1>3. fresh \in Rec /\ fresh.used = FALSE /\ fresh.size = spare /\ fresh.prev = h
  BY <1>1, <1>2 DEF Rec
<1>4. one \in Rec /\ one.used = r[h].used /\ one.size = size /\ one.prev = r[h].prev
  BY <1>2 DEF Rec
<1>5. /\ s \in [D -> Rec] /\ s[newh] = fresh
      /\ \A a \in DOMAIN r : /\ s[a].used = r[a].used /\ s[a].prev = r[a].prev
                             /\ s[a].size = IF a = h THEN size ELSE r[a].size
  <2>1. Fields(r, h, size, newh, fresh, s)
    BY <1>1, <1>3, <1>4, SplitFields
  <2> QED
    BY <2>1 DEF Fields
<1>6. s[newh].used = FALSE /\ s[newh].size = r[h].size - size - HEADER_SIZE /\ s[newh].prev = h
  BY <1>3, <1>5
<1> QED
  BY <1>5, <1>6, SplitPrev

(* Splitting a region leaves the others end to end. *)
LEMMA SplitChain ==
    ASSUME NEW r, Chain(r), NEW h \in DOMAIN r, NEW size \in Nat, size + HEADER_SIZE <= r[h].size,
           NEW newh, newh = h + HEADER_SIZE + size, NEW m, Split(r, h, size, m)
    PROVE  /\ Chain(m) /\ DOMAIN m = DOMAIN r \cup {newh}
           /\ Nxt(m, newh) = Nxt(r, h) /\ Nxt(m, h) = newh
           /\ \A a \in DOMAIN r \ {h} : Nxt(m, a) = Nxt(r, a)
<1> DEFINE D == DOMAIN r \cup {newh}
           k == Nxt(r, h)
<1>1. /\ newh \in Nat /\ newh > h /\ newh < k /\ newh < E /\ newh \notin DOMAIN r /\ newh > First
      /\ r[h].size - size - HEADER_SIZE \in Nat
      /\ newh + HEADER_SIZE + (r[h].size - size - HEADER_SIZE) = k
  BY NewHeader
<1>2. /\ h \in Nat /\ k \in Nat /\ k <= E /\ (k \in DOMAIN r \/ k = E) /\ DOMAIN r \subseteq Nat
      /\ First \in DOMAIN r /\ r[First].prev = 0 /\ h >= First /\ First \in Nat
  BY ChainFields, HeapFacts DEF Chain
<1>3. /\ m \in [D -> Rec] /\ DOMAIN m = D
      /\ m[newh].size = r[h].size - size - HEADER_SIZE /\ m[newh].prev = h
      /\ \A a \in DOMAIN r : /\ m[a].size = IF a = h THEN size ELSE r[a].size
                             /\ m[a].prev = IF a = k THEN newh ELSE r[a].prev
  BY DEF Split
<1>4. /\ Nxt(m, newh) = k /\ Nxt(m, h) = newh
      /\ \A a \in DOMAIN r \ {h} : Nxt(m, a) = Nxt(r, a)
  <2>1. Nxt(m, newh) = k
    BY <1>1, <1>3 DEF Nxt
  <2>2. Nxt(m, h) = newh
    BY <1>3 DEF Nxt
  <2>3. \A a \in DOMAIN r \ {h} : Nxt(m, a) = Nxt(r, a)
    BY <1>3 DEF Nxt
  <2> QED
    BY <2>1, <2>2, <2>3
<1>5. /\ DOMAIN r \subseteq D /\ newh \in D /\ k = Nxt(r, h) /\ D \subseteq Nat
      /\ \A a \in D : a = newh \/ a \in DOMAIN r
  BY <1>1, <1>2
<1>6. D = DOMAIN r \cup {newh}
  OBVIOUS
<1> HIDE DEF D, k
<1>7. ASSUME NEW a \in D
      PROVE  /\ a >= First /\ Nxt(m, a) <= E
             /\ Nxt(m, a) \in D \/ Nxt(m, a) = E
             /\ a # First => m[a].prev \in D /\ Nxt(m, m[a].prev) = a
  <2>1. CASE a = newh
    BY <1>1, <1>2, <1>3, <1>4, <1>5, <2>1
  <2>2. CASE a = h
    <3>1. m[h].prev = r[h].prev
      BY <1>1, <1>2, <1>3
    <3>2. h # First => r[h].prev \in DOMAIN r /\ Nxt(r, r[h].prev) = h
      BY DEF Chain
    <3>3. h # First => r[h].prev # h
      BY <1>1, <1>2, <1>5, <3>2
    <3>4. newh <= E
      BY <1>1, HeapFacts
    <3> QED
      BY <1>2, <1>4, <1>5, <2>2, <3>1, <3>2, <3>3, <3>4
  <2>3. CASE a \in DOMAIN r /\ a # h
    <3>1. /\ a >= First /\ Nxt(r, a) <= E /\ (Nxt(r, a) \in DOMAIN r \/ Nxt(r, a) = E)
          /\ a # First => r[a].prev \in DOMAIN r /\ Nxt(r, r[a].prev) = a
      BY <2>3 DEF Chain
    <3>2. Nxt(m, a) = Nxt(r, a)
      BY <1>4, <2>3
    <3>3. ASSUME a # First PROVE m[a].prev \in D /\ Nxt(m, m[a].prev) = a
      <4>1. CASE a = k
        BY <1>3, <1>4, <1>5, <2>3, <4>1
      <4>2. CASE a # k
        <5>1. m[a].prev = r[a].prev /\ r[a].prev # h
          BY <1>3, <1>5, <2>3, <3>1, <3>3, <4>2
        <5> QED
          BY <1>4, <1>5, <3>1, <3>3, <5>1
      <4> QED
        BY <4>1, <4>2
    <3> QED
      BY <1>5, <3>1, <3>2, <3>3
  <2> QED
    BY <1>5, <2>1, <2>2, <2>3
<1>8. ASSUME NEW g \in D, NEW j \in D, g < j PROVE Nxt(m, g) <= j
  <2>0. g \in Nat /\ j \in Nat
    BY <1>5
  <2>1. CASE g = newh
    <3>1. j \in DOMAIN r
      BY <1>5, <1>8, <2>0, <2>1
    <3>2. h < j
      BY <1>1, <1>2, <1>8, <2>0, <2>1
    <3>3. k <= j
      BY <1>5, <3>1, <3>2 DEF Chain
    <3> QED
      BY <1>4, <2>1, <3>3
  <2>2. CASE g \in DOMAIN r /\ j = newh
    <3>1. CASE g = h
      BY <1>1, <1>4, <2>2, <3>1
    <3>2. CASE g # h
      <4>1. ~(h < g)
        <5>1. h < g => k <= g
          BY <1>5, <2>2 DEF Chain
        <5> QED
          BY <1>1, <1>2, <1>8, <2>0, <2>2, <5>1
      <4>2. g < h
        BY <1>2, <2>0, <3>2, <4>1
      <4>3. Nxt(r, g) <= h /\ Nxt(r, g) \in Nat
        BY <2>2, <4>2, ChainFields DEF Chain
      <4> QED
        BY <1>1, <1>2, <1>4, <2>2, <3>2, <4>3
    <3> QED
      BY <3>1, <3>2
  <2>3. CASE g \in DOMAIN r /\ j \in DOMAIN r
    <3>1. Nxt(r, g) <= j
      BY <1>8, <2>3 DEF Chain
    <3>2. CASE g = h
      BY <1>1, <1>2, <1>4, <1>5, <2>0, <3>1, <3>2
    <3>3. CASE g # h
      BY <1>4, <2>3, <3>1, <3>3
    <3> QED
      BY <3>2, <3>3
  <2> QED
    BY <1>5, <2>1, <2>2, <2>3
<1>9. m[First].prev = 0 /\ First \in D
  <2>1. First # k
    BY <1>1, <1>2
  <2> QED
    BY <1>2, <1>3, <1>5, <2>1
<1>10. Chain(m)
  BY <1>3, <1>5, <1>7, <1>8, <1>9 DEF Chain
<1> QED
  BY <1>3, <1>4, <1>5, <1>6, <1>10

-----------------------------------------------------------------------------
(* Free regions do not lie side by side. *)
Apart(r) ==
    \A a \in DOMAIN r : r[a].used = FALSE /\ Nxt(r, a) \in DOMAIN r => r[Nxt(r, a)].used = TRUE

(* m is r with region h taken for size bytes. *)
Taken(r, h, size, m) ==
    /\ Chain(m) /\ Apart(m) /\ DOMAIN r \subseteq DOMAIN m
    /\ m[h].used = TRUE /\ m[h].size >= size
    /\ \A a \in DOMAIN r \ {h} : m[a].used = r[a].used /\ m[a].size = r[a].size
    /\ \A a \in DOMAIN m \ DOMAIN r : m[a].used = FALSE

(* The whole region is taken. *)
LEMMA TakeWhole ==
    ASSUME NEW r, Chain(r), Apart(r), NEW h \in DOMAIN r, NEW size \in Nat,
           size + HEADER_SIZE <= r[h].size, NEW m, Marked(r, h, TRUE, m)
    PROVE  Taken(r, h, size, m)
<1>1. Chain(m) /\ DOMAIN m = DOMAIN r /\ \A a \in DOMAIN r : Nxt(m, a) = Nxt(r, a)
  BY MarkedChain DEF SameChain
<1>2. /\ m[h].used = TRUE /\ m[h].size = r[h].size
      /\ \A a \in DOMAIN r \ {h} : m[a].used = r[a].used /\ m[a].size = r[a].size
  BY DEF Marked
<1>3. m[h].size >= size
  <2>1. r[h].size \in Nat /\ HEADER_SIZE \in Nat
    BY ChainFields, HeapFacts
  <2> QED
    BY <1>2, <2>1
<1>4. Apart(m)
  <2> SUFFICES ASSUME NEW a \in DOMAIN m, m[a].used = FALSE, Nxt(m, a) \in DOMAIN m
               PROVE  m[Nxt(m, a)].used = TRUE
    BY DEF Apart
  <2>1. a # h /\ a \in DOMAIN r /\ Nxt(m, a) = Nxt(r, a) /\ Nxt(r, a) \in DOMAIN r
    BY <1>1, <1>2
  <2>2. r[Nxt(r, a)].used = TRUE
    BY <1>2, <2>1 DEF Apart
  <2> QED
    BY <1>2, <2>1, <2>2
<1> QED
  BY <1>1, <1>2, <1>3, <1>4 DEF Taken

(* The rest of the region becomes one of its own. *)
LEMMA TakePart ==
    ASSUME NEW r, Chain(r), Apart(r), NEW h \in DOMAIN r, r[h].used = FALSE, NEW size \in Nat,
           size + HEADER_SIZE <= r[h].size, NEW s, Split(r, h, size, s), NEW m, Marked(s, h, TRUE, m)
    PROVE  Taken(r, h, size, m)
<1> DEFINE newh == h + HEADER_SIZE + size
<1>1. newh \notin DOMAIN r /\ newh \in Nat /\ newh < E
  BY NewHeader
<1>2. /\ s[newh].used = FALSE
      /\ \A a \in DOMAIN r : /\ s[a].used = r[a].used
                             /\ s[a].size = IF a = h THEN size ELSE r[a].size
  BY DEF Split
<1> HIDE DEF newh
<1>3. /\ Chain(s) /\ DOMAIN s = DOMAIN r \cup {newh}
      /\ Nxt(s, newh) = Nxt(r, h) /\ Nxt(s, h) = newh
      /\ \A a \in DOMAIN r \ {h} : Nxt(s, a) = Nxt(r, a)
  BY SplitChain DEF newh
<1>4. h \in DOMAIN s /\ h # newh
  BY <1>1, <1>3
<1>5. Chain(m) /\ DOMAIN m = DOMAIN s /\ \A a \in DOMAIN s : Nxt(m, a) = Nxt(s, a)
  <2>1. Chain(m) /\ SameChain(s, m)
    BY <1>3, <1>4, MarkedChain
  <2> QED
    BY <2>1 DEF SameChain
<1>6. \A a \in DOMAIN s : m[a].size = s[a].size /\ m[a].used = IF a = h THEN TRUE ELSE s[a].used
  BY DEF Marked
<1>7. m[h].used = TRUE /\ m[h].size >= size
  <2>1. m[h].used = TRUE /\ m[h].size = s[h].size /\ s[h].size = size
    BY <1>2, <1>4, <1>6
  <2> QED
    BY <2>1
<1>8. \A a \in DOMAIN r \ {h} : m[a].used = r[a].used /\ m[a].size = r[a].size
  BY <1>2, <1>3, <1>6
<1>9. \A a \in DOMAIN m \ DOMAIN r : m[a].used = FALSE
  BY <1>2, <1>3, <1>4, <1>5, <1>6
<1>10. Apart(m)
  <2> SUFFICES ASSUME NEW a \in DOMAIN m, m[a].used = FALSE, Nxt(m, a) \in DOMAIN m
               PROVE  m[Nxt(m, a)].used = TRUE
    BY DEF Apart
  <2>1. a # h /\ Nxt(m, a) = Nxt(s, a)
    BY <1>5, <1>7
  <2>2. PICK b \in DOMAIN r : Nxt(m, a) = Nxt(r, b) /\ r[b].used = FALSE
    <3>1. CASE a = newh
      BY <1>3, <2>1, <3>1
    <3>2. CASE a # newh
      BY <1>3, <1>5, <1>8, <2>1, <3>2
    <3> QED
      BY <3>1, <3>2
  <2>3. Nxt(r, b) \in DOMAIN r
    <3>1. Nxt(r, b) \in DOMAIN r \/ Nxt(r, b) = E
      BY DEF Chain
    <3>2. E \notin DOMAIN m
      <4>1. E \in DOMAIN m => Nxt(m, E) > E /\ Nxt(m, E) <= E /\ Nxt(m, E) \in Nat
        BY <1>5, ChainFields
      <4> QED
        BY <4>1, HeapFacts
    <3> QED
      BY <2>2, <3>1, <3>2
  <2>4. r[Nxt(r, b)].used = TRUE
    BY <2>2, <2>3 DEF Apart
  <2> QED
    BY <1>7, <1>8, <2>2, <2>3, <2>4
<1> QED
  BY <1>3, <1>5, <1>7, <1>8, <1>9, <1>10 DEF Taken

(* heap_alloc, when region h fits. *)
LEMMA PlaceStep ==
    ASSUME Chain(region), Apart(region), end = E, NEW h \in DOMAIN region, region[h].used = FALSE,
           NEW size \in Nat, size + HEADER_SIZE <= region[h].size, NEW o,
           Full!Place(region, end, h, size, o)
    PROVE  /\ Taken(region, h, size, region') /\ end' = E
           /\ block' = [block EXCEPT ![o] = [addr |-> h + HEADER_SIZE, size |-> size]]
<1> DEFINE x == region[h].size - size - HEADER_SIZE
           n == h + HEADER_SIZE + size
           D == DOMAIN region \cup {n}
           fresh == [used |-> FALSE, size |-> x, prev |-> h]
           one == [region[h] EXCEPT !.size = size]
           split == [a \in D |-> IF a = n THEN fresh ELSE IF a = h THEN one ELSE region[a]]
           s == Full!SetPrev(split, Full!NextHeader(n, split), E, n)
           yes == TRUE
<1>1. x \in Nat /\ x <= E /\ n \in Nat /\ n <= E
  BY NewHeader, HeapFacts
<1>2. x % (64 * FullPage) = x /\ n % (64 * FullPage) = n
  <2> HIDE DEF x, n
  <2> QED
    BY <1>1, NoWrap
<1>3. /\ region' = [(IF x >= MIN_REGION_SIZE THEN s ELSE region) EXCEPT ![h].used = yes]
      /\ end' = E /\ block' = [block EXCEPT ![o] = [addr |-> h + HEADER_SIZE, size |-> size]]
  BY <1>2, Zenon DEF Full!Place
<1>4. yes \in BOOLEAN /\ yes = TRUE
  OBVIOUS
<1>5. Split(region, h, size, s)
  <2>1. Made(region, h, n, fresh, one, D, split)
    BY DEF Made
  <2>2. /\ n = h + HEADER_SIZE + size /\ x = region[h].size - size - HEADER_SIZE
        /\ one = [region[h] EXCEPT !.size = size] /\ fresh = [used |-> FALSE, size |-> x, prev |-> h]
        /\ D = DOMAIN region \cup {n}
    OBVIOUS
  <2> HIDE DEF x, n, D, fresh, one, split
  <2> QED
    BY <2>1, <2>2, SplitFacts
<1> HIDE DEF s, yes
<1>6. CASE x >= MIN_REGION_SIZE
  <2>1. Chain(s) /\ h \in DOMAIN s
    <3>1. n = h + HEADER_SIZE + size
      OBVIOUS
    <3> HIDE DEF n
    <3>2. Chain(s) /\ DOMAIN s = DOMAIN region \cup {n}
      BY <1>5, <3>1, SplitChain
    <3> QED
      BY <3>2
  <2>2. region' = [s EXCEPT ![h].used = yes]
    BY <1>3, <1>6
  <2>3. Marked(s, h, TRUE, region')
    BY <1>4, <2>1, <2>2, MarkFacts
  <2> QED
    BY <1>3, <1>5, <2>3, TakePart
<1>7. CASE ~(x >= MIN_REGION_SIZE)
  <2>1. region' = [region EXCEPT ![h].used = yes]
    BY <1>3, <1>7
  <2>2. Marked(region, h, TRUE, region')
    BY <1>4, <2>1, MarkFacts
  <2> QED
    BY <1>3, <2>2, TakeWhole
<1> QED
  BY <1>6, <1>7

-----------------------------------------------------------------------------
(* m is r with region h given back. *)
Released(r, h, m) ==
    /\ Chain(m) /\ Apart(m)
    /\ \A a \in DOMAIN r : r[a].used = TRUE /\ a # h =>
          a \in DOMAIN m /\ m[a].used = TRUE /\ m[a].size = r[a].size
    /\ \A a \in DOMAIN m : m[a].used = TRUE => a \in DOMAIN r /\ r[a].used = TRUE /\ a # h

(* Regions other than h do not lie side by side, except perhaps with h. *)
Beside(r, h) ==
    \A a \in DOMAIN r \ {h} :
        r[a].used = FALSE /\ Nxt(r, a) \in DOMAIN r \ {h} => r[Nxt(r, a)].used = TRUE

(* From r with h free to q: q is merged with what follows h. *)
Onward(r, h, q) ==
    /\ Chain(q) /\ Beside(q, h) /\ h \in DOMAIN q /\ DOMAIN q \subseteq DOMAIN r
    /\ q[h].used = FALSE /\ q[h].prev = r[h].prev
    /\ Nxt(q, h) \in DOMAIN q => q[Nxt(q, h)].used = TRUE
    /\ \A a \in DOMAIN r : r[a].used = TRUE => a \in DOMAIN q
    /\ \A a \in DOMAIN q \ {h} : /\ q[a].used = r[a].used /\ q[a].size = r[a].size
                                 /\ Nxt(q, a) = Nxt(r, a)
    /\ \A a \in DOMAIN r \ DOMAIN q : a > h

(* Nothing to merge behind h. *)
LEMMA KeepNext ==
    ASSUME NEW r, Chain(r), NEW h \in DOMAIN r, r[h].used = FALSE, Beside(r, h),
           Nxt(r, h) \in DOMAIN r => r[Nxt(r, h)].used = TRUE
    PROVE  Onward(r, h, r)
BY DEF Onward

(* The region behind h is merged with it. *)
LEMMA MergeNext ==
    ASSUME NEW r, Chain(r), NEW h \in DOMAIN r, r[h].used = FALSE, Beside(r, h),
           Nxt(r, h) \in DOMAIN r, r[Nxt(r, h)].used = FALSE, NEW q, Merged(r, h, q)
    PROVE  Onward(r, h, q)
<1> DEFINE n == Nxt(r, h)
<1>1. /\ n \in DOMAIN r /\ DOMAIN q = DOMAIN r \ {n} /\ h \in DOMAIN q
      /\ Nxt(q, h) = Nxt(r, n)
      /\ \A a \in DOMAIN q \ {h} : Nxt(q, a) = Nxt(r, a)
  <2>1. Grown(r, h, q)
    BY MergedNxt
  <2> QED
    BY <2>1 DEF Grown
<1>2. Chain(q)
  BY MergedChain
<1>3. \A a \in DOMAIN r \ {n} :
             /\ q[a].used = r[a].used
             /\ q[a].size = IF a = h THEN r[h].size + r[n].size + HEADER_SIZE ELSE r[a].size
             /\ q[a].prev = IF a = Nxt(r, n) THEN h ELSE r[a].prev
  BY DEF Merged
<1>4. /\ h \in Nat /\ n \in Nat /\ n > h /\ Nxt(r, n) \in Nat /\ Nxt(r, n) > n
  BY <1>1, ChainFields
<1>5. q[h].used = FALSE /\ q[h].prev = r[h].prev
  BY <1>1, <1>3, <1>4
<1>6. \A a \in DOMAIN q \ {h} : q[a].used = r[a].used /\ q[a].size = r[a].size
  BY <1>1, <1>3
<1>7. n = Nxt(r, h) /\ r[n].used = FALSE
  OBVIOUS
<1> HIDE DEF n
<1>8. Nxt(q, h) \in DOMAIN q => q[Nxt(q, h)].used = TRUE
  <2> SUFFICES ASSUME Nxt(q, h) \in DOMAIN q PROVE q[Nxt(q, h)].used = TRUE
    OBVIOUS
  <2>1. Nxt(r, n) \in DOMAIN r \ {h} /\ n \in DOMAIN r \ {h} /\ Nxt(r, n) # h
    BY <1>1, <1>4
  <2>2. r[Nxt(r, n)].used = TRUE
    BY <1>7, <2>1 DEF Beside
  <2> QED
    BY <1>1, <1>6, <2>1, <2>2
<1>9. Beside(q, h)
  <2> SUFFICES ASSUME NEW a \in DOMAIN q \ {h}, q[a].used = FALSE, Nxt(q, a) \in DOMAIN q \ {h}
               PROVE  q[Nxt(q, a)].used = TRUE
    BY DEF Beside
  <2>1. a \in DOMAIN r \ {h} /\ r[a].used = FALSE /\ Nxt(q, a) = Nxt(r, a) /\ Nxt(r, a) \in DOMAIN r \ {h}
    BY <1>1, <1>6
  <2>2. r[Nxt(r, a)].used = TRUE
    BY <2>1 DEF Beside
  <2> QED
    BY <1>6, <2>1, <2>2
<1>10. \A a \in DOMAIN r : r[a].used = TRUE => a \in DOMAIN q
  BY <1>1, <1>7
<1>11. \A a \in DOMAIN r \ DOMAIN q : a > h
  BY <1>1, <1>4
<1> QED
  BY <1>1, <1>2, <1>5, <1>6, <1>8, <1>9, <1>10, <1>11 DEF Onward

(* Nothing to merge before h. *)
LEMMA KeepPrev ==
    ASSUME NEW r, Chain(r), NEW h \in DOMAIN r, r[h].used = FALSE, NEW q, Onward(r, h, q),
           h # First => r[r[h].prev].used = TRUE
    PROVE  Released(r, h, q)
<1>1. Chain(q) /\ h \in DOMAIN q /\ DOMAIN q \subseteq DOMAIN r
  BY DEF Onward
<1>2. Apart(q)
  <2> SUFFICES ASSUME NEW a \in DOMAIN q, q[a].used = FALSE, Nxt(q, a) \in DOMAIN q
               PROVE  q[Nxt(q, a)].used = TRUE
    BY DEF Apart
  <2>1. CASE a = h
    BY <2>1 DEF Onward
  <2>2. CASE a # h /\ Nxt(q, a) # h
    <3>1. Beside(q, h)
      BY DEF Onward
    <3> QED
      BY <2>2, <3>1 DEF Beside
  <2>3. CASE a # h /\ Nxt(q, a) = h
    <3>1. Nxt(r, a) = h /\ r[a].used = FALSE /\ a \in DOMAIN r
      BY <1>1, <2>3 DEF Onward
    <3>2. h # First
      <4>1. a \in Nat /\ a >= First /\ h > a /\ First \in Nat /\ h \in Nat
        BY <3>1, ChainFields, HeapFacts
      <4> QED
        BY <4>1
    <3>3. r[h].prev \in DOMAIN r /\ Nxt(r, r[h].prev) = h
      BY <3>2 DEF Chain
    <3>4. r[h].prev = a
      BY <3>1, <3>3, NxtInjective
    <3> QED
      BY <3>1, <3>2, <3>4
  <2> QED
    BY <2>1, <2>2, <2>3
<1>3. \A a \in DOMAIN r : r[a].used = TRUE /\ a # h =>
          a \in DOMAIN q /\ q[a].used = TRUE /\ q[a].size = r[a].size
  BY DEF Onward
<1>4. \A a \in DOMAIN q : q[a].used = TRUE => a \in DOMAIN r /\ r[a].used = TRUE /\ a # h
  BY DEF Onward
<1> QED
  BY <1>1, <1>2, <1>3, <1>4 DEF Released

(* Region h is merged with the free one before it. *)
LEMMA MergePrev ==
    ASSUME NEW r, Chain(r), NEW h \in DOMAIN r, r[h].used = FALSE, NEW q, Onward(r, h, q),
           h # First, NEW p, p = r[h].prev, r[p].used = FALSE, NEW m, Merged(q, p, m)
    PROVE  Released(r, h, m)
<1>1. Chain(q) /\ h \in DOMAIN q /\ DOMAIN q \subseteq DOMAIN r /\ q[h].used = FALSE
  BY DEF Onward
<1>2. /\ \A a \in DOMAIN r : r[a].used = TRUE => a \in DOMAIN q
      /\ \A a \in DOMAIN q \ {h} : /\ q[a].used = r[a].used /\ q[a].size = r[a].size
                                   /\ Nxt(q, a) = Nxt(r, a)
  BY DEF Onward
<1>3. p \in DOMAIN r /\ Nxt(r, p) = h
  BY DEF Chain
<1>4. p < h /\ p # h /\ p \in Nat /\ h \in Nat
  BY <1>3, ChainFields
<1>5. p \in DOMAIN q
  <2>1. p \in DOMAIN r \ DOMAIN q => p > h
    BY DEF Onward
  <2> QED
    BY <1>3, <1>4, <2>1
<1>6. Nxt(q, p) = h /\ q[p].used = FALSE
  BY <1>2, <1>3, <1>4, <1>5
<1>7. /\ DOMAIN m = DOMAIN q \ {h} /\ p \in DOMAIN m /\ Nxt(m, p) = Nxt(q, h)
      /\ \A a \in DOMAIN m \ {p} : Nxt(m, a) = Nxt(q, a)
  <2>1. Grown(q, p, m)
    BY <1>1, <1>5, MergedNxt
  <2> QED
    BY <1>6, <2>1 DEF Grown
<1>8. Chain(m)
  BY <1>1, <1>5, MergedChain
<1>9. /\ \A a \in DOMAIN m : m[a].used = q[a].used
      /\ \A a \in DOMAIN m \ {p} : m[a].size = q[a].size
  BY <1>6, <1>7 DEF Merged
<1>10. Apart(m)
  <2> SUFFICES ASSUME NEW a \in DOMAIN m, m[a].used = FALSE, Nxt(m, a) \in DOMAIN m
               PROVE  m[Nxt(m, a)].used = TRUE
    BY DEF Apart
  <2>1. CASE a = p
    <3>1. Nxt(q, h) \in DOMAIN q => q[Nxt(q, h)].used = TRUE
      BY DEF Onward
    <3> QED
      BY <1>7, <1>9, <2>1, <3>1
  <2>2. CASE a # p
    <3>1. a \in DOMAIN q \ {h} /\ q[a].used = FALSE /\ Nxt(m, a) = Nxt(q, a) /\ Nxt(q, a) \in DOMAIN q \ {h}
      BY <1>7, <1>9, <2>2
    <3>2. Beside(q, h)
      BY DEF Onward
    <3>3. q[Nxt(q, a)].used = TRUE
      BY <3>1, <3>2 DEF Beside
    <3> QED
      BY <1>9, <3>1, <3>3
  <2> QED
    BY <2>1, <2>2
<1>11. ASSUME NEW a \in DOMAIN r, r[a].used = TRUE, a # h
       PROVE  a \in DOMAIN m /\ m[a].used = TRUE /\ m[a].size = r[a].size
  <2>1. a \in DOMAIN q \ {h} /\ a # p
    BY <1>2, <1>11
  <2> QED
    BY <1>2, <1>7, <1>9, <1>11, <2>1
<1>12. ASSUME NEW a \in DOMAIN m, m[a].used = TRUE
       PROVE  a \in DOMAIN r /\ r[a].used = TRUE /\ a # h
  BY <1>1, <1>2, <1>7, <1>9, <1>12
<1> QED
  BY <1>8, <1>10, <1>11, <1>12 DEF Released

(* heap_free's merging. *)
LEMMA CoalesceFacts ==
    ASSUME NEW r, Chain(r), NEW h \in DOMAIN r, r[h].used = FALSE, Beside(r, h), end = E
    PROVE  /\ Released(r, h, Full!Coalesce(r, h).regions)
           /\ Full!Coalesce(r, h).header \in DOMAIN Full!Coalesce(r, h).regions
<1> DEFINE q == IF Full!NextHeader(h, r) < end /\ ~r[Full!NextHeader(h, r)].used
                THEN Full!Merge(r, h) ELSE r
           p == r[h].prev
           c == Full!Coalesce(r, h)
<1>1. c = IF p # 0 /\ ~r[p].used THEN [regions |-> Full!Merge(q, p), header |-> p]
          ELSE [regions |-> q, header |-> h]
  BY Zenon DEF Full!Coalesce, Full!NULL
<1>2. /\ Full!NextHeader(h, r) = Nxt(r, h) /\ Nxt(r, h) \in Nat
      /\ Nxt(r, h) < E => Nxt(r, h) \in DOMAIN r
      /\ Nxt(r, h) \in DOMAIN r => Nxt(r, h) < E
  <2>1. /\ Full!NextHeader(h, r) = Nxt(r, h) /\ Nxt(r, h) \in Nat
        /\ Nxt(r, h) < E => Nxt(r, h) \in DOMAIN r
    BY ChainFields, NextHeaderIsNxt
  <2>2. ASSUME Nxt(r, h) \in DOMAIN r PROVE Nxt(r, h) < E
    <3> DEFINE n == Nxt(r, h)
    <3>1. n \in DOMAIN r
      BY <2>2
    <3> HIDE DEF n
    <3>2. n \in Nat /\ Nxt(r, n) \in Nat /\ Nxt(r, n) > n /\ Nxt(r, n) <= E
      BY <3>1, ChainFields
    <3>3. n < E
      BY <3>2, HeapFacts
    <3> QED
      BY <3>3 DEF n
  <2> QED
    BY <2>1, <2>2
<1>3. Onward(r, h, q)
  <2>1. CASE Nxt(r, h) < E /\ ~r[Nxt(r, h)].used
    <3>1. q = Full!Merge(r, h)
      BY <1>2, <2>1
    <3>2. Merged(r, h, q)
      BY <2>1, <3>1, MergeFacts
    <3>3. r[Nxt(r, h)].used = FALSE
      BY <1>2, <2>1, ChainFields
    <3> HIDE DEF q
    <3> QED
      BY <1>2, <2>1, <3>2, <3>3, MergeNext
  <2>2. CASE ~(Nxt(r, h) < E /\ ~r[Nxt(r, h)].used)
    <3>1. q = r
      BY <1>2, <2>2
    <3>2. Nxt(r, h) \in DOMAIN r => r[Nxt(r, h)].used = TRUE
      BY <1>2, <2>2, ChainFields
    <3> HIDE DEF q
    <3> QED
      BY <3>1, <3>2, KeepNext
  <2> QED
    BY <2>1, <2>2
<1> HIDE DEF q, c
<1>4. /\ p \in Nat /\ (h = First => p = 0)
      /\ (h # First => p \in DOMAIN r /\ p # 0 /\ Nxt(r, p) = h)
  <2>1. p \in Nat
    BY ChainFields
  <2>2. h = First => p = 0
    BY DEF Chain
  <2>3. h # First => p \in DOMAIN r /\ Nxt(r, p) = h
    BY DEF Chain
  <2>4. 0 \notin DOMAIN r
    BY ChainFields
  <2> QED
    BY <2>1, <2>2, <2>3, <2>4
<1>5. CASE p # 0 /\ ~r[p].used
  <2>1. c.regions = Full!Merge(q, p) /\ c.header = p
    BY <1>1, <1>5
  <2>2. h # First /\ p \in DOMAIN r /\ Nxt(r, p) = h
    BY <1>4, <1>5
  <2>3. r[p].used = FALSE
    BY <1>5, <2>2, ChainFields
  <2>4. Chain(q) /\ h \in DOMAIN q
    BY <1>3 DEF Onward
  <2>5. p \in DOMAIN q /\ Nxt(q, p) = h /\ h < E
    <3>1. p \in Nat /\ p < h /\ h \in Nat
      BY <2>2, ChainFields
    <3>2. p \in DOMAIN r \ DOMAIN q => p > h
      BY <1>3 DEF Onward
    <3>3. p \in DOMAIN q \ {h}
      BY <2>2, <3>1, <3>2
    <3>4. Nxt(q, p) = Nxt(r, p)
      BY <1>3, <3>3 DEF Onward
    <3>5. Nxt(r, h) > h /\ Nxt(r, h) <= E
      BY ChainFields
    <3> QED
      BY <1>2, <2>2, <3>1, <3>3, <3>4, <3>5, HeapFacts
  <2>6. Merged(q, p, c.regions)
    BY <2>1, <2>4, <2>5, MergeFacts
  <2>7. Released(r, h, c.regions)
    BY <1>3, <2>2, <2>3, <2>6, MergePrev
  <2>8. p \in DOMAIN c.regions
    <3>1. Grown(q, p, c.regions)
      BY <2>4, <2>5, <2>6, MergedNxt
    <3> QED
      BY <3>1 DEF Grown
  <2> QED
    BY <2>1, <2>7, <2>8 DEF c
<1>6. CASE ~(p # 0 /\ ~r[p].used)
  <2>1. c.regions = q /\ c.header = h
    BY <1>1, <1>6
  <2>2. h # First => r[r[h].prev].used = TRUE
    BY <1>4, <1>6, ChainFields
  <2>3. Released(r, h, q)
    BY <1>3, <2>2, KeepPrev
  <2>4. h \in DOMAIN q
    BY <1>3 DEF Onward
  <2> QED
    BY <2>1, <2>3, <2>4 DEF c
<1> QED
  BY <1>5, <1>6

-----------------------------------------------------------------------------
(* The block b is in a used region of r. *)
Backed(r, b) ==
    \E h \in DOMAIN r : b.addr = h + HEADER_SIZE /\ r[h].used = TRUE /\ r[h].size >= b.size

(* The inductive invariant of the heap that cannot grow. *)
HeapInv ==
    /\ end = E /\ Chain(region) /\ Apart(region)
    /\ block \in [Owner -> [addr : Nat, size : Nat]]
    /\ \A o \in Owner : IF block[o].addr = 0 THEN block[o].size = 0 ELSE Backed(region, block[o])
    /\ \A o, p \in Owner : block[o].addr # 0 /\ block[o].addr = block[p].addr => o = p
    /\ \A h \in DOMAIN region : region[h].used = TRUE =>
          \E o \in Owner : block[o].addr = h + HEADER_SIZE

(* heap_new makes one free region. *)
LEMMA HeapStart ==
    ASSUME Full!Init
    PROVE  HeapInv
<1> DEFINE one == [used |-> FALSE, size |-> E - First - HEADER_SIZE, prev |-> 0]
<1>1. /\ First \in Nat /\ HEADER_SIZE \in Nat /\ E \in Nat /\ First + HEADER_SIZE < E
  BY HeapFacts
<1>2. /\ end = E /\ region = [h \in {First} |-> one]
      /\ block = [o \in Owner |-> [addr |-> 0, size |-> 0]]
  BY HeapFacts DEF Full!Init, Full!NoBlock
<1>3. E - First - HEADER_SIZE \in Nat
  BY <1>1
<1>4. one \in Rec /\ one.used = FALSE /\ one.size = E - First - HEADER_SIZE /\ one.prev = 0
  BY <1>3 DEF Rec
<1> HIDE DEF one
<1>5. DOMAIN region = {First} /\ region[First] = one /\ region \in [{First} -> Rec]
  BY <1>2, <1>4
<1>6. Nxt(region, First) = E
  BY <1>1, <1>4, <1>5 DEF Nxt
<1>7. Chain(region)
  BY <1>1, <1>4, <1>5, <1>6 DEF Chain
<1>8. Apart(region)
  BY <1>1, <1>5, <1>6 DEF Apart
<1>9. /\ block \in [Owner -> [addr : Nat, size : Nat]]
      /\ \A o \in Owner : block[o].addr = 0 /\ block[o].size = 0
  BY <1>2
<1> QED
  BY <1>2, <1>4, <1>5, <1>7, <1>8, <1>9 DEF HeapInv

(* heap_alloc with a region that fits. *)
LEMMA AllocStep ==
    ASSUME HeapInv, NEW o \in Owner, NEW size \in FullSizes, Full!AllocFit(o, size)
    PROVE  HeapInv'
<1>1. size \in Nat /\ HEADER_SIZE \in Nat /\ HEADER_SIZE > 0
  BY HeapFacts
<1>2. PICK h \in DOMAIN region : Full!Fits(h, size) /\ Full!Place(region, end, h, size, o)
  BY DEF Full!AllocFit, Full!Headers
<1>3. Chain(region) /\ Apart(region) /\ end = E
  BY DEF HeapInv
<1>4. region[h].used = FALSE /\ size + HEADER_SIZE <= region[h].size /\ h \in Nat
  BY <1>1, <1>2, <1>3, ChainFields DEF Full!Fits
<1>5. /\ Taken(region, h, size, region') /\ end' = E
      /\ block' = [block EXCEPT ![o] = [addr |-> h + HEADER_SIZE, size |-> size]]
  BY <1>1, <1>2, <1>3, <1>4, PlaceStep
<1> DEFINE b == [addr |-> h + HEADER_SIZE, size |-> size]
<1>6. b \in [addr : Nat, size : Nat] /\ b.addr = h + HEADER_SIZE /\ b.addr # 0 /\ b.size = size
  BY <1>1, <1>4
<1>7. block \in [Owner -> [addr : Nat, size : Nat]]
  BY DEF HeapInv
<1>8. block' = [block EXCEPT ![o] = b]
  BY <1>5
<1> HIDE DEF b
<1>9. /\ block' \in [Owner -> [addr : Nat, size : Nat]] /\ block'[o] = b
      /\ \A p \in Owner \ {o} : block'[p] = block[p]
  BY <1>6, <1>7, <1>8
<1>10. block[o].addr = 0
  BY DEF Full!AllocFit, Full!NoBlock, Full!NULL
<1>11. /\ Chain(region') /\ Apart(region') /\ DOMAIN region \subseteq DOMAIN region'
       /\ region'[h].used = TRUE /\ region'[h].size >= size
       /\ \A a \in DOMAIN region \ {h} : region'[a].used = region[a].used /\ region'[a].size = region[a].size
       /\ \A a \in DOMAIN region' \ DOMAIN region : region'[a].used = FALSE
  BY <1>5 DEF Taken
<1>12. ASSUME NEW p \in Owner, p # o, block[p].addr # 0
       PROVE  Backed(region', block[p]) /\ block[p].addr # h + HEADER_SIZE
  <2>1. Backed(region, block[p])
    BY <1>12 DEF HeapInv
  <2>2. PICK g \in DOMAIN region : /\ block[p].addr = g + HEADER_SIZE /\ region[g].used = TRUE
                                   /\ region[g].size >= block[p].size
    BY <2>1 DEF Backed
  <2>3. g # h /\ g \in Nat
    BY <1>3, <1>4, <2>2, ChainFields
  <2>4. g \in DOMAIN region' /\ region'[g].used = TRUE /\ region'[g].size >= block[p].size
    BY <1>11, <2>2, <2>3
  <2> QED
    BY <1>1, <1>4, <2>2, <2>3, <2>4 DEF Backed
<1>13. ASSUME NEW p \in Owner
       PROVE  IF block'[p].addr = 0 THEN block'[p].size = 0 ELSE Backed(region', block'[p])
  <2>1. CASE p = o
    <3>1. h \in DOMAIN region'
      BY <1>11
    <3>2. Backed(region', b)
      BY <1>6, <1>11, <3>1 DEF Backed
    <3> QED
      BY <1>6, <1>9, <2>1, <3>2
  <2>2. CASE p # o
    <3>1. block[p].addr = 0 => block[p].size = 0
      BY DEF HeapInv
    <3> QED
      BY <1>9, <1>12, <2>2, <3>1
  <2> QED
    BY <2>1, <2>2
<1>14. ASSUME NEW p \in Owner, NEW q \in Owner, block'[p].addr # 0, block'[p].addr = block'[q].addr
       PROVE  p = q
  <2>1. CASE p # o /\ q # o
    BY <1>9, <1>14, <2>1 DEF HeapInv
  <2>2. CASE p = o /\ q # o
    BY <1>6, <1>9, <1>12, <1>14, <2>2
  <2>3. CASE p # o /\ q = o
    BY <1>6, <1>9, <1>12, <1>14, <2>3
  <2> QED
    BY <2>1, <2>2, <2>3
<1>15. ASSUME NEW a \in DOMAIN region', region'[a].used = TRUE
       PROVE  \E p \in Owner : block'[p].addr = a + HEADER_SIZE
  <2>1. CASE a = h
    BY <1>6, <1>9, <2>1
  <2>2. CASE a # h
    <3>1. a \in DOMAIN region /\ region[a].used = TRUE
      BY <1>11, <1>15, <2>2
    <3>2. PICK p \in Owner : block[p].addr = a + HEADER_SIZE
      BY <3>1 DEF HeapInv
    <3>3. p # o
      BY <1>1, <1>3, <1>10, <3>1, <3>2, ChainFields
    <3> QED
      BY <1>9, <3>2, <3>3
  <2> QED
    BY <2>1, <2>2
<1> QED
  BY <1>5, <1>9, <1>11, <1>13, <1>14, <1>15 DEF HeapInv

(* heap_contract does nothing, the heap being as small as it was made. *)
LEMMA ContractStep ==
    ASSUME end = E, NEW r, Chain(r), NEW h \in DOMAIN r, NEW ideal \in Nat, ideal > 0,
           Full!Contract(r, h, ideal)
    PROVE  region' = r /\ end' = E
<1>1. FullPage \in Nat /\ FullPage > 0 /\ E \in Nat /\ Full!MinSize = E
  BY HeapFacts
<1>2. ideal * FullPage \in Nat /\ ideal * FullPage > 0
  BY <1>1
<1>3. end - ideal * FullPage < E
  BY <1>1, <1>2
<1>4. (E - E) \div FullPage = 0 /\ 0 * FullPage = 0
  BY <1>1
<1>5. /\ region' = [r EXCEPT ![h].size = (@ - 0) % (64 * FullPage)]
      /\ end' = E - 0
  BY <1>1, <1>3, <1>4 DEF Full!Contract
<1>6. r[h].size \in Nat /\ r[h].size <= E /\ r[h] \in Rec /\ r \in [DOMAIN r -> Rec]
  <2>1. r[h].size \in Nat /\ r[h] \in Rec /\ h \in Nat /\ Nxt(r, h) <= E
    BY ChainFields
  <2> QED
    BY <1>1, <2>1, HeapFacts DEF Nxt, Chain
<1>7. (r[h].size - 0) % (64 * FullPage) = r[h].size
  BY <1>6, NoWrap
<1>8. [r[h] EXCEPT !.size = r[h].size] = r[h]
  BY <1>6 DEF Rec
<1>9. region' = [r EXCEPT ![h] = r[h]]
  BY <1>5, <1>7, <1>8
<1> QED
  BY <1>1, <1>5, <1>6, <1>9

(* heap_free. *)
LEMMA FreeStep ==
    ASSUME HeapInv, NEW o \in Owner, Full!Free(o)
    PROVE  HeapInv'
<1> DEFINE h == block[o].addr - HEADER_SIZE
           r == [region EXCEPT ![h].used = FALSE]
           c == Full!Coalesce(r, h)
           ideal == Full!Ideal(end)
           nothing == [addr |-> 0, size |-> 0]
<1>1. Chain(region) /\ Apart(region) /\ end = E /\ block \in [Owner -> [addr : Nat, size : Nat]]
  BY DEF HeapInv
<1>2. block[o] # nothing /\ block' = [block EXCEPT ![o] = nothing]
  BY DEF Full!Free, Full!NoBlock, Full!NULL
<1>3. block[o].addr # 0 /\ Backed(region, block[o])
  <2>1. block[o] \in [addr : Nat, size : Nat]
    BY <1>1
  <2>2. block[o].addr # 0
    <3>1. block[o].addr = 0 => block[o].size = 0
      BY DEF HeapInv
    <3>2. block[o] = [addr |-> block[o].addr, size |-> block[o].size]
      BY <2>1
    <3> QED
      BY <1>2, <3>1, <3>2
  <2> QED
    BY <2>2 DEF HeapInv
<1>4. /\ h \in DOMAIN region /\ region[h].used = TRUE /\ block[o].addr = h + HEADER_SIZE
      /\ region[h].size >= block[o].size
  <2>1. PICK g \in DOMAIN region : /\ block[o].addr = g + HEADER_SIZE /\ region[g].used = TRUE
                                   /\ region[g].size >= block[o].size
    BY <1>3 DEF Backed
  <2>2. g \in Nat /\ HEADER_SIZE \in Nat
    BY <1>1, ChainFields, HeapFacts
  <2>3. h = g
    BY <2>1, <2>2
  <2> QED
    BY <2>1, <2>3
<1>5. \/ Full!Contract(c.regions, c.header, ideal) /\ ideal > 0
      \/ region' = c.regions /\ end' = end
  BY <1>4, Zenon DEF Full!Free
<1> DEFINE no == FALSE
<1>6. Marked(region, h, FALSE, r)
  <2>1. no \in BOOLEAN /\ no = FALSE /\ r = [region EXCEPT ![h].used = no]
    OBVIOUS
  <2> HIDE DEF no, h, r
  <2>2. Marked(region, h, no, r)
    BY <1>1, <1>4, <2>1, MarkFacts
  <2> QED
    BY <2>1, <2>2
<1> HIDE DEF h, r, c, ideal, nothing
<1>7. Chain(r) /\ DOMAIN r = DOMAIN region /\ \A a \in DOMAIN region : Nxt(r, a) = Nxt(region, a)
  <2>1. Chain(r) /\ SameChain(region, r)
    BY <1>1, <1>4, <1>6, MarkedChain
  <2> QED
    BY <2>1 DEF SameChain
<1>8. \A a \in DOMAIN region : /\ r[a].size = region[a].size
                               /\ r[a].used = IF a = h THEN FALSE ELSE region[a].used
  BY <1>6 DEF Marked
<1>9. Beside(r, h)
  <2> SUFFICES ASSUME NEW a \in DOMAIN r \ {h}, r[a].used = FALSE, Nxt(r, a) \in DOMAIN r \ {h}
               PROVE  r[Nxt(r, a)].used = TRUE
    BY DEF Beside
  <2>1. /\ a \in DOMAIN region /\ region[a].used = FALSE /\ Nxt(r, a) = Nxt(region, a)
        /\ Nxt(region, a) \in DOMAIN region /\ Nxt(region, a) # h
    BY <1>7, <1>8
  <2>2. region[Nxt(region, a)].used = TRUE
    BY <1>1, <2>1 DEF Apart
  <2> QED
    BY <1>8, <2>1, <2>2
<1>10. Released(r, h, c.regions) /\ c.header \in DOMAIN c.regions
  <2>1. h \in DOMAIN r /\ r[h].used = FALSE
    BY <1>4, <1>7, <1>8
  <2> QED
    BY <1>1, <1>7, <1>9, <2>1, CoalesceFacts DEF c
<1>11. region' = c.regions /\ end' = E
  <2>1. CASE Full!Contract(c.regions, c.header, ideal) /\ ideal > 0
    <3>1. ideal \in Nat
      <4>1. end \in Nat /\ FullPage \in Nat /\ FullPage > 0
        BY <1>1, HeapFacts
      <4> QED
        BY <4>1 DEF ideal, Full!Ideal
    <3>2. Chain(c.regions)
      BY <1>10 DEF Released
    <3> QED
      BY <1>1, <1>10, <2>1, <3>1, <3>2, ContractStep
  <2>2. CASE region' = c.regions /\ end' = end
    BY <1>1, <2>2
  <2> QED
    BY <1>5, <2>1, <2>2
<1>12. /\ Chain(region') /\ Apart(region')
       /\ \A a \in DOMAIN region : region[a].used = TRUE /\ a # h =>
             a \in DOMAIN region' /\ region'[a].used = TRUE /\ region'[a].size = region[a].size
       /\ \A a \in DOMAIN region' : region'[a].used = TRUE =>
             a \in DOMAIN region /\ region[a].used = TRUE /\ a # h
  <2>1. Released(r, h, region')
    BY <1>10, <1>11
  <2> QED
    BY <1>7, <1>8, <2>1 DEF Released
<1>13. nothing \in [addr : Nat, size : Nat] /\ nothing.addr = 0 /\ nothing.size = 0
  BY DEF nothing
<1>14. /\ block' \in [Owner -> [addr : Nat, size : Nat]] /\ block'[o] = nothing
       /\ \A p \in Owner \ {o} : block'[p] = block[p]
  BY <1>1, <1>2, <1>13
<1>15. ASSUME NEW p \in Owner
       PROVE  IF block'[p].addr = 0 THEN block'[p].size = 0 ELSE Backed(region', block'[p])
  <2>1. CASE p = o
    BY <1>13, <1>14, <2>1
  <2>2. CASE p # o /\ block[p].addr = 0
    <3>1. block[p].size = 0
      BY <2>2 DEF HeapInv
    <3> QED
      BY <1>14, <2>2, <3>1
  <2>3. CASE p # o /\ block[p].addr # 0
    <3>1. Backed(region, block[p])
      BY <2>3 DEF HeapInv
    <3>2. PICK g \in DOMAIN region : /\ block[p].addr = g + HEADER_SIZE /\ region[g].used = TRUE
                                     /\ region[g].size >= block[p].size
      BY <3>1 DEF Backed
    <3>3. block[p].addr # block[o].addr
      BY <2>3 DEF HeapInv
    <3>4. g # h
      BY <1>4, <3>2, <3>3
    <3>5. Backed(region', block[p])
      BY <1>12, <3>2, <3>4 DEF Backed
    <3> QED
      BY <1>14, <2>3, <3>5
  <2> QED
    BY <2>1, <2>2, <2>3
<1>16. ASSUME NEW p \in Owner, NEW q \in Owner, block'[p].addr # 0, block'[p].addr = block'[q].addr
       PROVE  p = q
  <2>1. p # o /\ q # o
    BY <1>13, <1>14, <1>16
  <2>2. block'[p] = block[p] /\ block'[q] = block[q]
    BY <1>14, <2>1
  <2> QED
    BY <1>16, <2>2 DEF HeapInv
<1>17. ASSUME NEW a \in DOMAIN region', region'[a].used = TRUE
       PROVE  \E p \in Owner : block'[p].addr = a + HEADER_SIZE
  <2>1. a \in DOMAIN region /\ region[a].used = TRUE /\ a # h
    BY <1>12, <1>17
  <2>2. PICK p \in Owner : block[p].addr = a + HEADER_SIZE
    BY <2>1 DEF HeapInv
  <2>3. p # o
    <3>1. a \in Nat /\ h \in Nat /\ HEADER_SIZE \in Nat
      BY <1>1, <1>4, <2>1, ChainFields, HeapFacts
    <3> QED
      BY <1>4, <2>1, <2>2, <3>1
  <2> QED
    BY <1>14, <2>2, <2>3
<1> QED
  BY <1>11, <1>12, <1>14, <1>15, <1>16, <1>17 DEF HeapInv

(* The last region ends where the heap does. *)
LEMMA LastExists ==
    ASSUME NEW r, Chain(r)
    PROVE  \E h \in DOMAIN r : Nxt(r, h) = E
<1> SUFFICES ASSUME \A h \in DOMAIN r : Nxt(r, h) # E PROVE FALSE
  OBVIOUS
<1> DEFINE S == {n \in Nat : \E h \in DOMAIN r : h >= n}
<1>1. 0 \in S
  <2>1. First \in DOMAIN r /\ First >= 0
    BY HeapFacts DEF Chain
  <2> QED
    BY <2>1
<1>2. ASSUME NEW n \in Nat, n \in S PROVE n + 1 \in S
  <2>1. PICK h \in DOMAIN r : h >= n
    BY <1>2
  <2>2. h \in Nat /\ Nxt(r, h) \in Nat /\ Nxt(r, h) > h /\ Nxt(r, h) \in DOMAIN r
    BY ChainFields DEF Chain
  <2>3. Nxt(r, h) >= n + 1 /\ n + 1 \in Nat
    BY <2>1, <2>2
  <2> QED
    BY <2>2, <2>3
<1> HIDE DEF S
<1>3. E \in S
  BY <1>1, <1>2, NatSetInduction, HeapFacts
<1>4. PICK h \in DOMAIN r : h >= E
  BY <1>3 DEF S
<1>5. h \in Nat /\ Nxt(r, h) \in Nat /\ Nxt(r, h) > h /\ Nxt(r, h) <= E /\ E \in Nat
  BY ChainFields, HeapFacts
<1> QED
  BY <1>4, <1>5

(* heap_expand is past max_addr. *)
LEMMA NoExpand ==
    ASSUME HeapInv, NEW o \in Owner, NEW size \in FullSizes, Full!AllocExpand(o, size)
    PROVE  FALSE
<1> DEFINE pages == Full!NeededPages(size)
           last == Full!LastHeader
<1>1. Chain(region) /\ end = E
  BY DEF HeapInv
<1>2. /\ FullPage \in Nat /\ FullPage > 0 /\ E \in Nat /\ size \in Nat /\ HEADER_SIZE \in Nat
  BY HeapFacts
<1>3. last \in DOMAIN region
  <2>1. PICK h \in DOMAIN region : Nxt(region, h) = E
    BY <1>1, LastExists
  <2>2. Full!NextHeader(h, region) >= end
    BY <1>1, <1>2, <2>1, NextHeaderIsNxt
  <2>3. \E g \in DOMAIN region : Full!NextHeader(g, region) >= end
    BY <2>2
  <2> QED
    BY <2>3, Zenon DEF Full!LastHeader, Full!Headers
<1>4. region[last].size \in Nat
  BY <1>1, <1>3, ChainFields
<1> DEFINE needed == IF region[last].used THEN size + HEADER_SIZE
                     ELSE (size - region[last].size) % (64 * FullPage)
           q == (needed + FullPage - 1) \div FullPage
           w == (64 * FullPage) \div FullPage
<1> HIDE DEF last
<1>5. 64 * FullPage \in Nat /\ 64 * FullPage > 0
  BY <1>2
<1>6. needed \in Nat
  <2>1. size - region[last].size \in Int
    BY <1>2, <1>4
  <2>2. (size - region[last].size) % (64 * FullPage) \in Nat
    BY <1>5, <2>1
  <2> QED
    BY <1>2, <2>2
<1>7. pages = q % w
  BY DEF Full!NeededPages, last
<1> HIDE DEF needed
<1>8. q \in Nat
  BY <1>2, <1>6
<1>9. w = 64
  BY <1>2
<1> HIDE DEF q, w, pages
<1>10. pages \in Nat
  BY <1>7, <1>8, <1>9
<1>11. pages > 0 /\ end + pages * FullPage <= FullPages * FullPage
  BY DEF Full!AllocExpand, pages
<1>12. pages * FullPage > 0 /\ pages * FullPage \in Nat
  BY <1>2, <1>10, <1>11
<1> QED
  BY <1>1, <1>2, <1>11, <1>12 DEF E

(* What the invariant says of the heap. *)
LEMMA HeapInvSound ==
    ASSUME HeapInv
    PROVE  Full!Tiled /\ Full!Coalesced /\ Full!BlocksDisjoint /\ Full!BlocksMapped
<1>1. Chain(region) /\ Apart(region) /\ end = E /\ block \in [Owner -> [addr : Nat, size : Nat]]
  BY DEF HeapInv
<1>2. \A h \in DOMAIN region : Full!NextHeader(h, region) = Nxt(region, h)
  BY <1>1, NextHeaderIsNxt
<1>3. Full!Tiled
  <2>1. First \in DOMAIN region /\ region[First].prev = 0
    BY <1>1 DEF Chain
  <2>2. ASSUME NEW h \in DOMAIN region
        PROVE  /\ Full!NextHeader(h, region) \in DOMAIN region \cup {end}
               /\ h # First => /\ region[h].prev \in DOMAIN region
                               /\ Full!NextHeader(region[h].prev, region) = h
    BY <1>1, <1>2 DEF Chain
  <2> QED
    BY <2>1, <2>2, HeapFacts DEF Full!Tiled, Full!Headers
<1>4. Full!Coalesced
  <2> SUFFICES ASSUME NEW h \in DOMAIN region
               PROVE  IF region[h].used
                      THEN \E o \in Owner : block[o].addr = h + HEADER_SIZE
                      ELSE Full!NextHeader(h, region) \in DOMAIN region =>
                             region[Full!NextHeader(h, region)].used
    BY DEF Full!Coalesced, Full!Headers
  <2>1. region[h].used \in BOOLEAN
    BY <1>1, ChainFields
  <2>2. CASE region[h].used = TRUE
    BY <2>2 DEF HeapInv
  <2>3. CASE region[h].used = FALSE
    BY <1>1, <1>2, <2>3 DEF Apart
  <2> QED
    BY <2>1, <2>2, <2>3
<1>5. ASSUME NEW o \in Owner, block[o].addr # 0
      PROVE  \E h \in DOMAIN region :
                /\ block[o].addr = h + HEADER_SIZE /\ block[o].addr - HEADER_SIZE = h
                /\ region[h].used = TRUE /\ region[h].size >= block[o].size
                /\ block[o].addr + block[o].size <= Nxt(region, h)
                /\ h \in Nat /\ Nxt(region, h) \in Nat
  <2>1. Backed(region, block[o])
    BY <1>5 DEF HeapInv
  <2>2. PICK h \in DOMAIN region : /\ block[o].addr = h + HEADER_SIZE /\ region[h].used = TRUE
                                   /\ region[h].size >= block[o].size
    BY <2>1 DEF Backed
  <2>3. h \in Nat /\ region[h].size \in Nat /\ HEADER_SIZE \in Nat /\ Nxt(region, h) \in Nat
    BY <1>1, ChainFields, HeapFacts
  <2>4. block[o] \in [addr : Nat, size : Nat]
    BY <1>1
  <2>5. block[o].size \in Nat
    BY <2>4
  <2>6. block[o].addr + block[o].size <= Nxt(region, h) /\ block[o].addr - HEADER_SIZE = h
    BY <2>2, <2>3, <2>5 DEF Nxt
  <2> QED
    BY <2>2, <2>3, <2>6
<1>6. \A o \in Owner : block[o].addr \in Nat /\ block[o].size \in Nat
  <2> TAKE o \in Owner
  <2>1. block[o] \in [addr : Nat, size : Nat]
    BY <1>1
  <2> QED
    BY <2>1
<1>7. Full!BlocksMapped
  <2> SUFFICES ASSUME NEW o \in Owner PROVE block[o].addr + block[o].size <= end
    BY DEF Full!BlocksMapped
  <2>1. CASE block[o].addr = 0
    <3>1. block[o].size = 0
      BY <2>1 DEF HeapInv
    <3> QED
      BY <1>1, <2>1, <3>1, HeapFacts
  <2>2. CASE block[o].addr # 0
    <3>1. PICK h \in DOMAIN region : block[o].addr + block[o].size <= Nxt(region, h) /\ Nxt(region, h) \in Nat
      BY <1>5, <2>2
    <3>2. Nxt(region, h) <= E /\ E \in Nat
      BY <1>1, ChainFields, HeapFacts
    <3> QED
      BY <1>1, <1>6, <3>1, <3>2
  <2> QED
    BY <2>1, <2>2
<1>8. Full!BlocksDisjoint
  <2> SUFFICES ASSUME NEW o \in Owner, block[o] # Full!NoBlock
               PROVE  /\ block[o].addr - HEADER_SIZE \in DOMAIN region
                      /\ region[block[o].addr - HEADER_SIZE].used
                      /\ region[block[o].addr - HEADER_SIZE].size >= block[o].size
                      /\ \A h \in DOMAIN region : (h..h + HEADER_SIZE - 1) \cap Full!Cells(o) = {}
                      /\ \A p \in Owner \ {o} : block[p] # Full!NoBlock => block[p].addr # block[o].addr
    BY DEF Full!BlocksDisjoint, Full!Headers
  <2>1. block[o].addr # 0
    <3>1. block[o].addr = 0 => block[o].size = 0
      BY DEF HeapInv
    <3>2. block[o] \in [addr : Nat, size : Nat]
      BY <1>1
    <3>3. block[o] = [addr |-> block[o].addr, size |-> block[o].size]
      BY <3>2
    <3> QED
      BY <3>1, <3>3 DEF Full!NoBlock, Full!NULL
  <2>2. PICK h \in DOMAIN region :
                /\ block[o].addr = h + HEADER_SIZE /\ block[o].addr - HEADER_SIZE = h
                /\ region[h].used = TRUE /\ region[h].size >= block[o].size
                /\ block[o].addr + block[o].size <= Nxt(region, h)
                /\ h \in Nat /\ Nxt(region, h) \in Nat
    BY <1>5, <2>1
  <2>3. ASSUME NEW g \in DOMAIN region PROVE (g..g + HEADER_SIZE - 1) \cap Full!Cells(o) = {}
    <3>1. /\ g \in Nat /\ Nxt(region, g) \in Nat /\ g + HEADER_SIZE <= Nxt(region, g)
          /\ HEADER_SIZE \in Nat /\ block[o].addr \in Nat /\ block[o].size \in Nat
      BY <1>1, <1>6, ChainFields, HeapFacts
    <3>2. (g < h => Nxt(region, g) <= h) /\ (h < g => Nxt(region, h) <= g)
      BY <1>1 DEF Chain
    <3>3. g + HEADER_SIZE <= block[o].addr \/ block[o].addr + block[o].size <= g
      BY <2>2, <3>1, <3>2
    <3>4. Full!Cells(o) = block[o].addr..block[o].addr + block[o].size - 1
      BY DEF Full!Cells
    <3> QED
      BY <3>1, <3>3, <3>4, SMTT(30)
  <2>4. \A p \in Owner \ {o} : block[p].addr # block[o].addr
    BY <2>1 DEF HeapInv
  <2> QED
    BY <2>2, <2>3, <2>4
<1> QED
  BY <1>3, <1>4, <1>7, <1>8

(* A heap that has reached its limit stays sound for any sizes of blocks,   *)
(* headers and pages and any calls: its regions tile it and know their      *)
(* neighbours, free neighbours are merged, no block overlaps a header or    *)
(* another block, each is large enough and its pages are mapped             *)
(* (heap_alloc, heap_free and heap_contract of heap.c).                     *)
THEOREM HeapIsSound == DataSpec => [](part # "growing" => HeapSound)
<1> DEFINE Inv == part # "growing" => HeapInv
<1>1. DataInit => Inv
  BY HeapStart DEF DataInit
<1>2. Inv /\ [DataNext]_dataVars => Inv'
  <2> SUFFICES ASSUME Inv, [DataNext]_dataVars, part' # "growing" PROVE HeapInv'
    OBVIOUS
  <2>1. part' = part /\ HeapInv
    BY DEF DataNext, FramesStep, FullStep, GrowingStep, ListsStep, dataVars
  <2>2. Full!Next \/ UNCHANGED <<end, region, block>>
    BY <2>1 DEF DataNext, FramesStep, FullStep, GrowingStep, ListsStep, dataVars, heapVars
  <2>3. CASE UNCHANGED <<end, region, block>>
    BY <2>1, <2>3 DEF HeapInv, Chain, Apart, Backed, Nxt
  <2>4. ASSUME NEW o \in Owner, NEW size \in FullSizes, Full!AllocFit(o, size) PROVE HeapInv'
    BY <2>1, <2>4, AllocStep
  <2>5. ASSUME NEW o \in Owner, NEW size \in FullSizes, Full!AllocFails(o, size) PROVE HeapInv'
    BY <2>3, <2>5 DEF Full!AllocFails, Full!vars
  <2>6. ASSUME NEW o \in Owner, NEW size \in FullSizes, Full!AllocExpand(o, size) PROVE HeapInv'
    BY <2>1, <2>6, NoExpand
  <2>7. ASSUME NEW o \in Owner, Full!Free(o) PROVE HeapInv'
    BY <2>1, <2>7, FreeStep
  <2> QED
    BY <2>2, <2>3, <2>4, <2>5, <2>6, <2>7 DEF Full!Next
<1>3. Inv => (part # "growing" => HeapSound)
  BY HeapInvSound DEF HeapSound
<1> QED
  BY <1>1, <1>2, <1>3, PTL DEF DataSpec

-----------------------------------------------------------------------------
(* The lists threaded through the control blocks. *)

(* The operators ProcessLists takes from the libraries. *)
LEMMA LinksCardinality ==
    ASSUME NEW S
    PROVE  Links!Cardinality(S) = Cardinality(S)
BY DEF Links!Cardinality, Cardinality

(* Finite sets. *)
LEMMA LinksFinite ==
    ASSUME NEW S
    PROVE  Links!IsFiniteSet(S) = IsFiniteSet(S)
BY DEF Links!IsFiniteSet, IsFiniteSet

(* The elements of a sequence. *)
LEMMA LinksRange ==
    ASSUME NEW f
    PROVE  Links!Range(f) = Range(f)
BY DEF Links!Range, Range

(* The largest of some numbers. *)
LEMMA LinksMax ==
    ASSUME NEW S
    PROVE  Links!Max(S) = Max(S)
BY DEF Links!Max, Max

(* A sequence backwards. *)
LEMMA LinksReverse ==
    ASSUME NEW s
    PROVE  Links!Reverse(s) = [i \in 1..Len(s) |-> s[(Len(s) - i) + 1]]
BY DEF Links!Reverse

(* The last element. *)
LEMMA LinksLast ==
    ASSUME NEW s
    PROVE  Links!Last(s) = s[Len(s)]
BY DEF Links!Last

Block == Proc \cup {Nil}
QueueHead == [top : Block, bottom : Block, size : Int]
Lists == [next : [Proc -> Block], q : [Links!Queue -> QueueHead],
          gnext : [Proc -> Block], gprev : [Proc -> Block], gbottom : Proc, gsize : Int]

(* The head h and the links nx spell the sequence s. *)
Threaded(nx, h, s) ==
    /\ h.size = Len(s)
    /\ h.top = IF s = <<>> THEN Nil ELSE s[1]
    /\ s # <<>> => h.bottom = s[Len(s)] /\ nx[s[Len(s)]] = Nil
    /\ \A i \in 1..Len(s) - 1 : nx[s[i]] = s[i + 1]

(* No block is in two queues, or twice in one. *)
Once(qs) ==
    /\ \A k \in Links!Queue : IsInjective(qs[k])
    /\ \A j, k \in Links!Queue : j # k => Range(qs[j]) \cap Range(qs[k]) = {}

Held(qs) == UNION {Range(qs[k]) : k \in Links!Queue}

Queues == [Links!Queue -> Seq(Proc)]

Threads(l, qs) ==
    /\ l \in Lists /\ qs \in Queues /\ Once(qs)
    /\ \A k \in Links!Queue : Threaded(l.next, l.q[k], qs[k])

SameGlobal(l, m) ==
    m.gnext = l.gnext /\ m.gprev = l.gprev /\ m.gbottom = l.gbottom /\ m.gsize = l.gsize

(* Queue k holds s instead. *)
With(qs, k, s) == [qs EXCEPT ![k] = s]

(* What is assumed of the control blocks and of the sleep requests. *)
LEMMA ListsFacts ==
    /\ IsFiniteSet(Proc) /\ Idle \in Proc /\ Kmain \in Proc /\ Kmain # Idle /\ Nil \notin Proc
    /\ SleepRequests \subseteq Nat
    /\ Cardinality(Proc) \in Nat
<1>1. /\ IsFiniteSet(Proc) /\ Idle \in Proc /\ Kmain \in Proc /\ Kmain # Idle /\ Nil \notin Proc
      /\ SleepRequests \subseteq Nat
  BY LinksAssumption, LinksFinite, Zenon DEF Links!ListsAssumption
<1> QED
  BY <1>1, FS_CardinalityType

-----------------------------------------------------------------------------
(* process_queue_push and process_queue_pop. *)

(* process_queue_push, on the fields. *)
LEMMA PushFields ==
    ASSUME NEW l \in Lists, NEW k \in Links!Queue, NEW p \in Proc
    PROVE  LET h == l.q[k]
               end0 == [l.next EXCEPT ![p] = Nil]
               m == Links!Push(l, k, p)
           IN /\ m \in Lists
              /\ m.next = IF h.top = Nil THEN end0 ELSE [end0 EXCEPT ![h.bottom] = p]
              /\ m.q[k] = [top |-> IF h.top = Nil THEN p ELSE h.top, bottom |-> p, size |-> h.size + 1]
              /\ \A j \in Links!Queue \ {k} : m.q[j] = l.q[j]
              /\ SameGlobal(l, m)
<1> DEFINE h == l.q[k]
           end0 == [l.next EXCEPT ![p] = Nil]
           nx == IF h.top = Nil THEN end0 ELSE [end0 EXCEPT ![h.bottom] = p]
           hd == [top |-> IF h.top = Nil THEN p ELSE h.top, bottom |-> p, size |-> h.size + 1]
           m == Links!Push(l, k, p)
<1>1. m = [l EXCEPT !.next = nx, !.q[k] = hd]
  BY DEF Links!Push
<1>2. /\ l.q \in [Links!Queue -> QueueHead] /\ l.next \in [Proc -> Block] /\ h \in QueueHead
      /\ l.gnext \in [Proc -> Block] /\ l.gprev \in [Proc -> Block] /\ l.gbottom \in Proc /\ l.gsize \in Int
  BY DEF Lists
<1>3. hd \in QueueHead
  BY <1>2 DEF QueueHead, Block
<1>4. nx \in [Proc -> Block]
  BY <1>2 DEF Block
<1> HIDE DEF nx, hd
<1> DEFINE a == [l EXCEPT !.next = nx]
           Q == [l.q EXCEPT ![k] = hd]
<1>a. a \in Lists /\ a.q = l.q /\ a.next = nx /\ SameGlobal(l, a)
  BY <1>2, <1>4 DEF Lists, SameGlobal
<1>b. Q \in [Links!Queue -> QueueHead]
  BY <1>2, <1>3
<1> HIDE DEF a
<1>c. m = [a EXCEPT !.q = Q]
  BY <1>1, <1>a DEF a
<1> HIDE DEF Q, m
<1>5. m.next = nx /\ m.q = Q /\ SameGlobal(l, m)
  BY <1>a, <1>b, <1>c DEF Lists, SameGlobal
<1>6. m \in Lists
  BY <1>a, <1>b, <1>c DEF Lists
<1>7. m.q[k] = hd /\ \A j \in Links!Queue \ {k} : m.q[j] = l.q[j]
  BY <1>2, <1>5 DEF Q
<1> QED
  BY <1>5, <1>6, <1>7 DEF nx, hd, m

(* Places and elements of a sequence. *)
LEMMA SeqFacts ==
    ASSUME NEW S, NEW s \in Seq(S)
    PROVE  /\ Len(s) \in Nat /\ DOMAIN s = 1..Len(s)
           /\ \A i \in 1..Len(s) : s[i] \in S /\ s[i] \in Range(s)
           /\ \A x \in Range(s) : \E i \in 1..Len(s) : s[i] = x
           /\ Range(s) \subseteq S
           /\ s = <<>> <=> Len(s) = 0
<1>1. Len(s) \in Nat /\ DOMAIN s = 1..Len(s) /\ (s = <<>> <=> Len(s) = 0)
  BY LenProperties, EmptySeq
<1>2. \A i \in 1..Len(s) : s[i] \in S
  BY ElementOfSeq
<1> QED
  BY <1>1, <1>2 DEF Range

(* Two places of a sequence without repetitions hold two elements. *)
LEMMA Injective ==
    ASSUME NEW S, NEW s \in Seq(S), IsInjective(s), NEW i \in 1..Len(s), NEW j \in 1..Len(s), s[i] = s[j]
    PROVE  i = j
BY SeqFacts DEF IsInjective

(* The head and the links of a queue that is left alone. *)
LEMMA ThreadedSame ==
    ASSUME NEW s \in Seq(Proc), NEW nx, NEW mx, NEW h, Threaded(nx, h, s),
           \A x \in Range(s) : mx[x] = nx[x]
    PROVE  Threaded(mx, h, s)
<1>1. /\ Len(s) \in Nat /\ \A i \in 1..Len(s) : s[i] \in Range(s)
      /\ s = <<>> <=> Len(s) = 0
  BY SeqFacts
<1>2. \A i \in 1..Len(s) : mx[s[i]] = nx[s[i]]
  BY <1>1
<1>3. \A i \in 1..Len(s) - 1 : i \in 1..Len(s)
  BY <1>1
<1>4. s # <<>> => Len(s) \in 1..Len(s)
  BY <1>1
<1> QED
  BY <1>2, <1>3, <1>4, Zenon DEF Threaded

Untouched(l, m, qs, k) ==
    /\ \A j \in Links!Queue \ {k} : m.q[j] = l.q[j]
    /\ \A x \in Held(qs) \ Range(qs[k]) : m.next[x] = l.next[x]

CanHold(s, qs, k) ==
    s \in Seq(Proc) /\ IsInjective(s) /\ Range(s) \cap (Held(qs) \ Range(qs[k])) = {}

(* An operation on one queue. *)
LEMMA ThreadsUpdate ==
    ASSUME NEW l, NEW qs, Threads(l, qs), NEW m \in Lists, NEW k \in Links!Queue, NEW s,
           CanHold(s, qs, k), Threaded(m.next, m.q[k], s), Untouched(l, m, qs, k)
    PROVE  /\ Threads(m, With(qs, k, s))
           /\ Held(With(qs, k, s)) = (Held(qs) \ Range(qs[k])) \cup Range(s)
<1> DEFINE rs == With(qs, k, s)
<1>1. qs \in Queues /\ Once(qs) /\ \A j \in Links!Queue : Threaded(l.next, l.q[j], qs[j])
  BY DEF Threads
<1>2. s \in Seq(Proc) /\ IsInjective(s) /\ Range(s) \cap (Held(qs) \ Range(qs[k])) = {}
  BY DEF CanHold
<1>3. rs \in Queues /\ rs[k] = s /\ \A j \in Links!Queue \ {k} : rs[j] = qs[j]
  BY <1>1, <1>2 DEF Queues, With
<1> HIDE DEF rs
<1>4. ASSUME NEW j \in Links!Queue \ {k} PROVE Range(qs[j]) \subseteq Held(qs) \ Range(qs[k])
  BY <1>1 DEF Held, Once
<1>5. Once(rs)
  <2>1. \A j \in Links!Queue : IsInjective(rs[j])
    BY <1>1, <1>2, <1>3 DEF Once
  <2>2. ASSUME NEW j \in Links!Queue, NEW i \in Links!Queue, i # j PROVE Range(rs[j]) \cap Range(rs[i]) = {}
    <3>1. CASE j = k
      BY <1>2, <1>3, <1>4, <2>2, <3>1
    <3>2. CASE i = k
      BY <1>2, <1>3, <1>4, <2>2, <3>2
    <3>3. CASE i # k /\ j # k
      BY <1>1, <1>3, <2>2, <3>3 DEF Once
    <3> QED
      BY <3>1, <3>2, <3>3
  <2> QED
    BY <2>1, <2>2 DEF Once
<1>6. ASSUME NEW j \in Links!Queue PROVE Threaded(m.next, m.q[j], rs[j])
  <2>1. CASE j = k
    BY <1>3, <2>1
  <2>2. CASE j # k
    <3>1. m.q[j] = l.q[j] /\ rs[j] = qs[j] /\ qs[j] \in Seq(Proc)
      BY <1>1, <1>3, <2>2 DEF Untouched, Queues
    <3>2. \A x \in Range(qs[j]) : m.next[x] = l.next[x]
      BY <1>4, <2>2 DEF Untouched
    <3> QED
      BY <1>1, <3>1, <3>2, ThreadedSame
  <2> QED
    BY <2>1, <2>2
<1>7. Threads(m, rs)
  BY <1>3, <1>5, <1>6 DEF Threads
<1>8. Held(rs) = (Held(qs) \ Range(qs[k])) \cup Range(s)
  <2>1. ASSUME NEW x \in Held(rs) PROVE x \in (Held(qs) \ Range(qs[k])) \cup Range(s)
    <3>1. PICK j \in Links!Queue : x \in Range(rs[j])
      BY DEF Held
    <3> QED
      BY <1>3, <1>4, <3>1
  <2>2. ASSUME NEW x \in Held(qs) \ Range(qs[k]) PROVE x \in Held(rs)
    <3>1. PICK j \in Links!Queue : x \in Range(qs[j])
      BY DEF Held
    <3>2. j # k
      BY <3>1
    <3> QED
      BY <1>3, <3>1, <3>2 DEF Held
  <2>3. Range(s) \subseteq Held(rs)
    BY <1>3 DEF Held
  <2> QED
    BY <2>1, <2>2, <2>3
<1> QED
  BY <1>7, <1>8 DEF rs

(* process_queue_push *)
LEMMA PushThreads ==
    ASSUME NEW l, NEW qs, Threads(l, qs), NEW k \in Links!Queue, NEW p \in Proc, p \notin Held(qs)
    PROVE  LET m == Links!Push(l, k, p)
               rs == With(qs, k, Append(qs[k], p))
           IN Threads(m, rs) /\ Held(rs) = Held(qs) \cup {p} /\ SameGlobal(l, m)
<1> DEFINE m == Links!Push(l, k, p)
           s == qs[k]
           t == Append(s, p)
           h == l.q[k]
           end0 == [l.next EXCEPT ![p] = Nil]
           n == Len(s)
<1>1. /\ l \in Lists /\ s \in Seq(Proc) /\ IsInjective(s) /\ Threaded(l.next, h, s)
      /\ Range(s) \subseteq Held(qs) /\ l.next \in [Proc -> Block]
  BY DEF Threads, Queues, Once, Held, Lists
<1>2. /\ m \in Lists
      /\ m.next = IF h.top = Nil THEN end0 ELSE [end0 EXCEPT ![h.bottom] = p]
      /\ m.q[k] = [top |-> IF h.top = Nil THEN p ELSE h.top, bottom |-> p, size |-> h.size + 1]
      /\ \A j \in Links!Queue \ {k} : m.q[j] = l.q[j]
      /\ SameGlobal(l, m)
  BY <1>1, PushFields, Zenon
<1>3. p \notin Range(s)
  BY <1>1
<1>4. /\ t \in Seq(Proc) /\ IsInjective(t) /\ Range(t) = Range(s) \cup {p} /\ t # <<>>
  BY <1>1, <1>3, AppendNew
<1>5. /\ n \in Nat /\ \A i \in 1..n : s[i] \in Proc /\ s[i] \in Range(s)
      /\ s = <<>> <=> n = 0
  BY <1>1, SeqFacts
<1>6. Len(t) = n + 1 /\ t[n + 1] = p /\ \A i \in 1..n : t[i] = s[i]
  BY <1>1, AppendProperties
<1> HIDE DEF m, t
<1>7. CanHold(t, qs, k)
  BY <1>1, <1>4 DEF CanHold
<1>8. CASE n = 0
  <2>1. h.top = Nil /\ h.size = 0
    BY <1>1, <1>5, <1>8, Zenon DEF Threaded
  <2>2. m.next = end0 /\ m.q[k] = [top |-> p, bottom |-> p, size |-> 1]
    BY <1>2, <2>1
  <2>3. m.next[p] = Nil /\ \A x \in Proc \ {p} : m.next[x] = l.next[x]
    BY <1>1, <2>2
  <2>4. Len(t) = 1 /\ t[1] = p
    BY <1>6, <1>8
  <2>5. Threaded(m.next, m.q[k], t)
    BY <1>4, <2>2, <2>3, <2>4 DEF Threaded
  <2>6. Untouched(l, m, qs, k)
    <3>1. Held(qs) \subseteq Proc \ {p}
      <4>1. \A j \in Links!Queue : qs[j] \in Seq(Proc)
        BY DEF Threads, Queues
      <4> QED
        BY <4>1, SeqFacts DEF Held
    <3> QED
      BY <1>2, <2>3, <3>1 DEF Untouched
  <2> QED
    <3>1. Threads(m, With(qs, k, t)) /\ Held(With(qs, k, t)) = (Held(qs) \ Range(s)) \cup Range(t)
      BY <1>2, <1>7, <2>5, <2>6, ThreadsUpdate
    <3>2. (Held(qs) \ Range(s)) \cup Range(t) = Held(qs) \cup {p}
      BY <1>1, <1>4
    <3> QED
      BY <1>2, <3>1, <3>2 DEF m, t
<1>9. CASE n # 0
  <2>0. n \in 1..n /\ 1 \in 1..n
    BY <1>5, <1>9
  <2>1. /\ h.top = s[1] /\ h.size = n /\ h.bottom = s[n] /\ l.next[s[n]] = Nil
        /\ \A i \in 1..n - 1 : l.next[s[i]] = s[i + 1]
    BY <1>1, <1>5, <1>9 DEF Threaded
  <2>2. h.top # Nil /\ s[n] \in Proc /\ s[n] # p
    BY <1>3, <1>5, <2>0, <2>1, ListsFacts
  <2>3. m.next = [end0 EXCEPT ![s[n]] = p] /\ m.q[k] = [top |-> s[1], bottom |-> p, size |-> n + 1]
    BY <1>2, <2>1, <2>2
  <2>4. m.next[s[n]] = p /\ m.next[p] = Nil /\ \A x \in Proc \ {p, s[n]} : m.next[x] = l.next[x]
    BY <1>1, <2>2, <2>3
  <2>5. ASSUME NEW i \in 1..n PROVE m.next[t[i]] = t[i + 1]
    <3>1. CASE i = n
      BY <1>6, <2>0, <2>4, <3>1
    <3>2. CASE i # n
      <4>1. i \in 1..n - 1 /\ i + 1 \in 1..n
        BY <1>5, <3>2
      <4>2. s[i] # s[n]
        BY <1>1, <2>0, <3>2, Injective
      <4>3. s[i] \in Proc \ {p, s[n]}
        BY <1>3, <1>5, <4>2
      <4>4. m.next[s[i]] = s[i + 1]
        BY <2>1, <2>4, <4>1, <4>3
      <4> QED
        BY <1>6, <4>1, <4>4
    <3> QED
      BY <3>1, <3>2
  <2>6. t[1] = s[1]
    BY <1>6, <2>0
  <2>7. Threaded(m.next, m.q[k], t)
    <3>1. /\ m.q[k].top = t[1] /\ m.q[k].bottom = p /\ m.q[k].size = Len(t)
          /\ t[Len(t)] = p /\ Len(t) - 1 = n
      BY <1>5, <1>6, <2>3, <2>6
    <3> QED
      BY <1>4, <2>4, <2>5, <3>1 DEF Threaded
  <2>8. Untouched(l, m, qs, k)
    <3>1. Held(qs) \ Range(s) \subseteq Proc \ {p, s[n]}
      <4>1. \A j \in Links!Queue : qs[j] \in Seq(Proc)
        BY DEF Threads, Queues
      <4>2. Held(qs) \subseteq Proc
        BY <4>1, SeqFacts DEF Held
      <4> QED
        BY <1>5, <2>0, <4>2
    <3> QED
      BY <1>2, <2>4, <3>1 DEF Untouched
  <2> QED
    <3>1. Threads(m, With(qs, k, t)) /\ Held(With(qs, k, t)) = (Held(qs) \ Range(s)) \cup Range(t)
      BY <1>2, <1>7, <2>7, <2>8, ThreadsUpdate
    <3>2. (Held(qs) \ Range(s)) \cup Range(t) = Held(qs) \cup {p}
      BY <1>1, <1>4
    <3> QED
      BY <1>2, <3>1, <3>2 DEF m, t
<1> QED
  BY <1>8, <1>9

(* process_queue_pop *)
LEMMA PopThreads ==
    ASSUME NEW l, NEW qs, Threads(l, qs), NEW k \in Links!Queue, qs[k] # <<>>
    PROVE  LET m == Links!Pop(l, k)
               rs == With(qs, k, Tail(qs[k]))
               p == Head(qs[k])
           IN /\ l.q[k].top = p /\ p \in Proc /\ p \in Range(qs[k])
              /\ Threads(m, rs) /\ Held(rs) = Held(qs) \ {p} /\ p \in Held(qs) /\ SameGlobal(l, m)
<1> DEFINE m == Links!Pop(l, k)
           s == qs[k]
           t == Tail(s)
           h == l.q[k]
           n == Len(s)
           p == Head(s)
<1>1. /\ l \in Lists /\ s \in Seq(Proc) /\ IsInjective(s) /\ Threaded(l.next, h, s)
      /\ Range(s) \subseteq Held(qs) /\ l.next \in [Proc -> Block]
      /\ \A j \in Links!Queue \ {k} : Range(qs[j]) \cap Range(s) = {}
  BY DEF Threads, Queues, Once, Held, Lists
<1>2. /\ p \in Proc /\ p \in Range(s) /\ t \in Seq(Proc) /\ IsInjective(t) /\ Range(t) = Range(s) \ {p}
  BY <1>1, PopFirst
<1>3. /\ n \in Nat \ {0} /\ \A i \in 1..n : s[i] \in Proc /\ s[i] \in Range(s)
  BY <1>1, SeqFacts
<1>4. /\ p = s[1] /\ Len(t) = n - 1 /\ \A i \in 1..n - 1 : t[i] = s[i + 1]
  BY <1>1, HeadTailProperties
<1>5. /\ h.top = p /\ h.size = n /\ h.bottom = s[n] /\ l.next[s[n]] = Nil
      /\ \A i \in 1..n - 1 : l.next[s[i]] = s[i + 1]
  BY <1>1, <1>4 DEF Threaded
<1>6. h \in QueueHead /\ l.q \in [Links!Queue -> QueueHead]
  BY <1>1 DEF Lists
<1> DEFINE hd == [h EXCEPT !.top = IF @ = h.bottom THEN Nil ELSE l.next[@], !.size = @ - 1]
           Q == [l.q EXCEPT ![k] = hd]
<1>7. m = [l EXCEPT !.q = Q]
  BY DEF Links!Pop
<1>8. /\ hd \in QueueHead /\ hd.size = n - 1 /\ hd.bottom = s[n]
      /\ hd.top = IF n = 1 THEN Nil ELSE s[2]
  <2>1. p = s[n] <=> n = 1
    <3>1. 1 \in 1..n /\ n \in 1..n
      BY <1>3
    <3> QED
      BY <1>1, <1>4, <3>1, Injective
  <2>2. n # 1 => l.next[p] = s[2]
    <3>1. n # 1 => 1 \in 1..n - 1
      <4>1. n \in Nat \ {0}
        BY <1>3
      <4> HIDE DEF n
      <4> QED
        BY <4>1
    <3>2. n # 1 => l.next[s[1]] = s[2]
      <4> HIDE DEF n, s, p
      <4>1. \A i \in 1..n - 1 : i = 1 => l.next[s[i]] = s[2]
        BY <1>5
      <4> QED
        BY <3>1, <4>1
    <3> QED
      <4> HIDE DEF s, p, n
      <4> QED
        BY <1>4, <3>2
  <2>3. l.next[p] \in Block /\ Nil \in Block
    BY <1>1, <1>2 DEF Block
  <2> QED
    <3>1. /\ hd.size = n - 1 /\ hd.bottom = s[n] /\ hd = [top |-> hd.top, bottom |-> s[n], size |-> n - 1]
          /\ hd.top = IF p = s[n] THEN Nil ELSE l.next[p]
      <4> HIDE DEF h, s, n, p
      <4>1. h = [top |-> p, bottom |-> s[n], size |-> n]
        BY <1>5, <1>6 DEF QueueHead
      <4>2. hd = [h EXCEPT !.top = IF h.top = h.bottom THEN Nil ELSE l.next[h.top], !.size = h.size - 1]
        OBVIOUS
      <4> HIDE DEF hd
      <4> QED
        BY <4>1, <4>2
    <3>2. s[n] \in Block /\ n - 1 \in Int
      BY <1>3 DEF Block
    <3> HIDE DEF hd, s, n, p
    <3>3. hd.top = (IF n = 1 THEN Nil ELSE s[2]) /\ hd.top \in Block
      BY <2>1, <2>2, <2>3, <3>1
    <3>4. hd \in QueueHead
      BY <3>1, <3>2, <3>3 DEF QueueHead
    <3> QED
      BY <3>1, <3>3, <3>4
<1> HIDE DEF hd, m, t
<1>9. Q \in [Links!Queue -> QueueHead] /\ Q[k] = hd /\ \A j \in Links!Queue \ {k} : Q[j] = l.q[j]
  BY <1>6, <1>8
<1> HIDE DEF Q
<1>10. m \in Lists /\ m.q = Q /\ m.next = l.next /\ SameGlobal(l, m)
  BY <1>1, <1>7, <1>9 DEF Lists, SameGlobal
<1>11. Threaded(m.next, m.q[k], t)
  <2>1. CASE n = 1
    <3>1. Len(t) = 0 /\ t = <<>>
      BY <1>2, <1>4, <2>1, EmptySeq
    <3> QED
      BY <1>8, <1>9, <1>10, <2>1, <3>1 DEF Threaded
  <2>2. CASE n # 1
    <3>1. /\ Len(t) = n - 1 /\ t # <<>> /\ n - 1 \in 1..n - 1 /\ 1 \in 1..n - 1
      <4>1. t = <<>> => Len(t) = 0
        BY EmptySeq
      <4>2. n - 1 # 0
        BY <1>3, <2>2
      <4> QED
        BY <1>3, <1>4, <4>1, <4>2
    <3>2. t[1] = s[2] /\ t[n - 1] = s[n]
      BY <1>3, <1>4, <3>1
    <3>3. ASSUME NEW i \in 1..(n - 1) - 1 PROVE l.next[t[i]] = t[i + 1]
      <4>1. i \in 1..n - 1 /\ i + 1 \in 1..n - 1
        BY <1>3
      <4> QED
        BY <1>4, <1>5, <4>1
    <3> QED
      BY <1>5, <1>8, <1>9, <1>10, <2>2, <3>1, <3>2, <3>3 DEF Threaded
  <2> QED
    BY <2>1, <2>2
<1>12. CanHold(t, qs, k)
  BY <1>1, <1>2 DEF CanHold
<1>13. Untouched(l, m, qs, k)
  BY <1>9, <1>10 DEF Untouched
<1>14. Threads(m, With(qs, k, t)) /\ Held(With(qs, k, t)) = (Held(qs) \ Range(s)) \cup Range(t)
  BY <1>10, <1>11, <1>12, <1>13, ThreadsUpdate
<1>15. (Held(qs) \ Range(s)) \cup Range(t) = Held(qs) \ {p} /\ p \in Held(qs)
  BY <1>1, <1>2
<1> QED
  BY <1>2, <1>5, <1>10, <1>14, <1>15 DEF m, t

-----------------------------------------------------------------------------
(* A walk along the links. *)

(* From x the links nx lead through s. *)
Chained(nx, x, s) ==
    /\ x = IF s = <<>> THEN Nil ELSE s[1]
    /\ s # <<>> => nx[s[Len(s)]] = Nil
    /\ \A i \in 1..Len(s) - 1 : nx[s[i]] = s[i + 1]

IsWalk(g, nx, x) ==
    g = [i \in 0..Links!Cardinality(Proc) + 1 |->
            IF i = 0 THEN x ELSE IF g[i - 1] = Nil THEN Nil ELSE nx[g[i - 1]]]

(* The walk is a recursive function of the number of steps. *)
LEMMA WalkUnfold ==
    ASSUME NEW nx, NEW x
    PROVE  LET at == CHOOSE g : IsWalk(g, nx, x)
           IN Links!Walk(nx, x) =
                [i \in 1..Links!Cardinality({i \in DOMAIN at : at[i] # Nil}) |-> at[i - 1]]
BY Zenon DEF Links!Walk, IsWalk

(* A walk along the links reads the sequence they spell. *)
LEMMA WalkReads ==
    ASSUME NEW s \in Seq(Proc), Len(s) <= Cardinality(Proc), NEW nx, NEW x, Chained(nx, x, s)
    PROVE  Links!Walk(nx, x) = s
<1> DEFINE C == Cardinality(Proc)
           n == Len(s)
           path == [i \in 0..C + 1 |-> IF i < n THEN s[i + 1] ELSE Nil]
           at == CHOOSE g : IsWalk(g, nx, x)
<1>1. /\ C \in Nat /\ Links!Cardinality(Proc) = C /\ Nil \notin Proc
      /\ n \in Nat /\ n <= C /\ \A i \in 1..n : s[i] \in Proc
      /\ s = <<>> <=> n = 0
  BY ListsFacts, LinksCardinality, SeqFacts
<1>2. /\ x = (IF n = 0 THEN Nil ELSE s[1]) /\ (n # 0 => nx[s[n]] = Nil)
      /\ \A i \in 1..n - 1 : nx[s[i]] = s[i + 1]
  BY <1>1 DEF Chained
<1> HIDE DEF C, n
<1>3. ASSUME NEW i \in 1..C + 1 PROVE path[i] = IF path[i - 1] = Nil THEN Nil ELSE nx[path[i - 1]]
  <2>1. i \in 0..C + 1 /\ i - 1 \in 0..C + 1
    BY <1>1
  <2>2. path[i] = (IF i < n THEN s[i + 1] ELSE Nil) /\ path[i - 1] = (IF i - 1 < n THEN s[(i - 1) + 1] ELSE Nil)
    BY <2>1
  <2>3. path[i - 1] = IF i <= n THEN s[i] ELSE Nil
    BY <1>1, <2>2
  <2> HIDE DEF path
  <2>4. CASE i < n
    <3>1. i \in 1..n - 1 /\ i \in 1..n
      BY <1>1, <2>4
    <3>2. s[i] # Nil /\ nx[s[i]] = s[i + 1]
      BY <1>1, <1>2, <3>1
    <3>3. path[i - 1] = s[i] /\ path[i] = s[i + 1]
      BY <1>1, <2>2, <2>3, <2>4
    <3> QED
      BY <3>2, <3>3
  <2>5. CASE i = n
    <3>1. path[i] = Nil /\ path[i - 1] = s[n] /\ n # 0
      BY <1>1, <2>2, <2>3, <2>5
    <3> QED
      BY <1>2, <3>1
  <2>6. CASE i > n
    <3>1. path[i] = Nil /\ path[i - 1] = Nil
      BY <1>1, <2>2, <2>3, <2>6
    <3> QED
      BY <3>1
  <2> QED
    BY <1>1, <2>4, <2>5, <2>6
<1>4. path[0] = x
  <2>1. 0 \in 0..C + 1
    BY <1>1
  <2>2. path[0] = IF n = 0 THEN Nil ELSE s[1]
    BY <1>1, <2>1
  <2> QED
    BY <1>2, <2>2
<1>5. path = [i \in 0..C + 1 |-> path[i]]
  OBVIOUS
<1> HIDE DEF path
<1>6. IsWalk(path, nx, x)
  <2>1. \A i \in 0..C + 1 : i # 0 => i \in 1..C + 1
    BY <1>1
  <2>2. \A i \in 0..C + 1 : path[i] = IF i = 0 THEN x ELSE IF path[i - 1] = Nil THEN Nil ELSE nx[path[i - 1]]
    BY <1>3, <1>4, <2>1
  <2>3. path = [i \in 0..C + 1 |-> IF i = 0 THEN x ELSE IF path[i - 1] = Nil THEN Nil ELSE nx[path[i - 1]]]
    BY <1>5, <2>2
  <2> QED
    BY <1>1, <2>3 DEF IsWalk
<1>7. IsWalk(at, nx, x)
  BY <1>6, Zenon
<1> HIDE DEF at
<1>8. at = [i \in 0..C + 1 |-> IF i = 0 THEN x ELSE IF at[i - 1] = Nil THEN Nil ELSE nx[at[i - 1]]]
  BY <1>1, <1>7 DEF IsWalk
<1>9. DOMAIN at = 0..C + 1 /\ at[0] = x
  BY <1>1, <1>8
<1>10. \A i \in 1..C + 1 : at[i] = IF at[i - 1] = Nil THEN Nil ELSE nx[at[i - 1]]
  <2> SUFFICES ASSUME NEW i \in 1..C + 1 PROVE at[i] = IF at[i - 1] = Nil THEN Nil ELSE nx[at[i - 1]]
    OBVIOUS
  <2>1. i \in 0..C + 1 /\ i # 0
    BY <1>1
  <2> QED
    BY <1>8, <2>1
<1>11. \A i \in 0..C + 1 : at[i] = path[i]
  <2> DEFINE Ind == {i \in Nat : i <= C + 1 => at[i] = path[i]}
  <2>1. 0 \in Ind
    BY <1>4, <1>9
  <2>2. ASSUME NEW i \in Nat, i \in Ind PROVE i + 1 \in Ind
    <3> SUFFICES ASSUME i + 1 <= C + 1 PROVE at[i + 1] = path[i + 1]
      OBVIOUS
    <3>1. i + 1 \in 1..C + 1 /\ (i + 1) - 1 = i /\ at[i] = path[i]
      BY <1>1, <2>2
    <3>2. at[i + 1] = IF at[(i + 1) - 1] = Nil THEN Nil ELSE nx[at[(i + 1) - 1]]
      BY <1>10, <3>1
    <3>3. path[i + 1] = IF path[(i + 1) - 1] = Nil THEN Nil ELSE nx[path[(i + 1) - 1]]
      BY <1>3, <3>1
    <3> QED
      BY <3>1, <3>2, <3>3
  <2> HIDE DEF Ind
  <2>3. Nat \subseteq Ind
    BY <2>1, <2>2, NatSetInduction
  <2> QED
    BY <1>1, <2>3 DEF Ind
<1>12. {i \in DOMAIN at : at[i] # Nil} = 0..n - 1
  <2>1. ASSUME NEW i \in 0..C + 1 PROVE at[i] # Nil <=> i < n
    <3>1. at[i] = IF i < n THEN s[i + 1] ELSE Nil
      BY <1>11 DEF path
    <3>2. i < n => i + 1 \in 1..n
      BY <1>1
    <3> QED
      BY <1>1, <3>1, <3>2
  <2> QED
    BY <1>1, <1>9, <2>1
<1>13. Links!Cardinality(0..n - 1) = n
  <2>1. Cardinality(0..n - 1) = IF 0 > n - 1 THEN 0 ELSE (n - 1) - 0 + 1
    BY <1>1, FS_Interval
  <2> QED
    BY <1>1, <2>1, LinksCardinality
<1>14. Links!Walk(nx, x) = [i \in 1..n |-> at[i - 1]]
  BY <1>12, <1>13, WalkUnfold DEF at
<1>15. ASSUME NEW i \in 1..n PROVE at[i - 1] = s[i]
  <2>1. i - 1 \in 0..C + 1 /\ i - 1 < n /\ (i - 1) + 1 = i
    BY <1>1
  <2>2. at[i - 1] = s[(i - 1) + 1]
    BY <1>11, <2>1 DEF path
  <2> QED
    BY <2>1, <2>2
<1>16. [i \in 1..n |-> at[i - 1]] = [i \in 1..n |-> s[i]]
  BY <1>15
<1>17. s = [i \in 1..n |-> s[i]]
  BY SeqFacts DEF n
<1> QED
  BY <1>14, <1>16, <1>17

(* The global list has the processes ev, forwards and backwards. *)
Global(l, ev) ==
    /\ ev \in Seq(Proc) /\ IsInjective(ev) /\ ev # <<>> /\ ev[1] = Idle
    /\ l.gsize = Len(ev) /\ l.gbottom = ev[Len(ev)]
    /\ \A i \in 1..Len(ev) - 1 : l.gnext[ev[i]] = ev[i + 1] /\ l.gprev[ev[i + 1]] = ev[i]
    /\ l.gnext[ev[Len(ev)]] = Nil /\ l.gprev[Idle] = Nil

(* The types of the fields. *)
LEMMA ListsFields ==
    ASSUME NEW l \in Lists
    PROVE  /\ l.next \in [Proc -> Block] /\ l.gnext \in [Proc -> Block] /\ l.gprev \in [Proc -> Block]
           /\ l.q \in [Links!Queue -> QueueHead] /\ l.gbottom \in Proc /\ l.gsize \in Int
BY DEF Lists

(* Nothing but these fields matters to the global list. *)
LEMMA GlobalSame ==
    ASSUME NEW l, NEW m, NEW ev, Global(l, ev), SameGlobal(l, m)
    PROVE  Global(m, ev)
BY DEF Global, SameGlobal

(* Stores to blocks that are in no queue leave the queues as they are. *)
LEMMA ThreadsSame ==
    ASSUME NEW l, NEW qs, Threads(l, qs), NEW m \in Lists, m.q = l.q,
           \A x \in Held(qs) : m.next[x] = l.next[x]
    PROVE  Threads(m, qs)
<1>1. qs \in Queues /\ Once(qs) /\ \A k \in Links!Queue : Threaded(l.next, l.q[k], qs[k]) /\ qs[k] \in Seq(Proc)
  BY DEF Threads, Queues
<1>2. ASSUME NEW k \in Links!Queue PROVE Threaded(m.next, m.q[k], qs[k])
  <2>1. \A x \in Range(qs[k]) : m.next[x] = l.next[x]
    BY DEF Held
  <2> QED
    BY <1>1, <2>1, ThreadedSame
<1> QED
  BY <1>1, <1>2 DEF Threads

(* A sequence without repetitions is not longer than there are processes. *)
LEMMA ShortEnough ==
    ASSUME NEW s \in Seq(Proc), IsInjective(s)
    PROVE  Len(s) <= Cardinality(Proc)
<1>1. Cardinality(Range(s)) = Len(s)
  BY RangeCardinality
<1>2. Range(s) \subseteq Proc
  BY SeqFacts
<1> QED
  BY <1>1, <1>2, FS_Subset, ListsFacts

(* What the links say of the global list. *)
LEMMA GlobalAgrees ==
    ASSUME NEW l \in Lists, NEW ev, Global(l, ev)
    PROVE  /\ Links!Walk(l.gnext, Idle) = ev
           /\ Links!Walk(l.gprev, l.gbottom) = Links!Reverse(ev)
           /\ l.gsize = Len(ev)
<1> DEFINE n == Len(ev)
           rv == Links!Reverse(ev)
<1>1. ev \in Seq(Proc) /\ IsInjective(ev) /\ ev # <<>> /\ ev[1] = Idle /\ l.gsize = n /\ l.gbottom = ev[n]
  BY DEF Global
<1>2. n \in Nat \ {0} /\ n <= Cardinality(Proc) /\ \A i \in 1..n : ev[i] \in Proc
  BY <1>1, SeqFacts, ShortEnough
<1>3. /\ \A i \in 1..n - 1 : l.gnext[ev[i]] = ev[i + 1] /\ l.gprev[ev[i + 1]] = ev[i]
      /\ l.gnext[ev[n]] = Nil /\ l.gprev[ev[1]] = Nil
  BY <1>1 DEF Global
<1>4. Chained(l.gnext, Idle, ev)
  BY <1>1, <1>3 DEF Chained
<1>5. rv = [i \in 1..n |-> ev[(n - i) + 1]]
  BY LinksReverse
<1> HIDE DEF n, rv
<1>6. rv \in Seq(Proc) /\ Len(rv) = n /\ \A i \in 1..n : rv[i] = ev[(n - i) + 1]
  <2>1. \A i \in 1..n : (n - i) + 1 \in 1..n
    BY <1>2
  <2>2. rv \in [1..n -> Proc]
    BY <1>2, <1>5, <2>1
  <2> QED
    BY <1>2, <1>5, <2>2
<1>7. Chained(l.gprev, l.gbottom, rv)
  <2>1. rv # <<>>
    BY <1>2, <1>6, EmptySeq
  <2>2. rv[1] = ev[n] /\ rv[n] = ev[1]
    <3>1. 1 \in 1..n /\ n \in 1..n /\ (n - 1) + 1 = n /\ (n - n) + 1 = 1
      BY <1>2
    <3>2. rv[1] = ev[(n - 1) + 1] /\ rv[n] = ev[(n - n) + 1]
      BY <1>6, <3>1
    <3> QED
      BY <3>1, <3>2
  <2>3. ASSUME NEW i \in 1..n - 1 PROVE l.gprev[rv[i]] = rv[i + 1]
    <3> DEFINE j == n - i
    <3>1. i \in 1..n /\ i + 1 \in 1..n /\ j \in 1..n - 1 /\ (n - i) + 1 = j + 1 /\ (n - (i + 1)) + 1 = j
      BY <1>2
    <3>2. rv[i] = ev[j + 1] /\ rv[i + 1] = ev[j]
      <4>1. rv[i] = ev[(n - i) + 1] /\ rv[i + 1] = ev[(n - (i + 1)) + 1]
        BY <1>6, <3>1
      <4> QED
        BY <3>1, <4>1
    <3> HIDE DEF j
    <3> QED
      BY <1>3, <3>1, <3>2
  <2> QED
    BY <1>1, <1>3, <1>6, <2>1, <2>2, <2>3 DEF Chained
<1>8. Links!Walk(l.gnext, Idle) = ev
  BY <1>1, <1>2, <1>4, WalkReads DEF n
<1>9. Links!Walk(l.gprev, l.gbottom) = rv
  BY <1>2, <1>6, <1>7, WalkReads
<1> QED
  BY <1>1, <1>8, <1>9 DEF rv, n

(* ... and of the queues. *)
LEMMA QueuesAgreeWith ==
    ASSUME NEW l, NEW qs, Threads(l, qs), NEW k \in Links!Queue
    PROVE  LET h == l.q[k]
           IN /\ Links!Walk(l.next, h.top) = qs[k]
              /\ h.size = Len(qs[k])
              /\ qs[k] # <<>> => h.bottom = Links!Last(qs[k])
<1>1. qs[k] \in Seq(Proc) /\ IsInjective(qs[k]) /\ Threaded(l.next, l.q[k], qs[k])
  BY DEF Threads, Queues, Once
<1>2. Chained(l.next, l.q[k].top, qs[k]) /\ Len(qs[k]) <= Cardinality(Proc)
  BY <1>1, ShortEnough DEF Chained, Threaded
<1>3. Links!Walk(l.next, l.q[k].top) = qs[k]
  BY <1>1, <1>2, WalkReads
<1> QED
  BY <1>1, <1>3, LinksLast DEF Threaded

-----------------------------------------------------------------------------
(* The global list. *)

(* global_list_push *)
LEMMA GlobalPushOk ==
    ASSUME NEW l \in Lists, NEW ev, Global(l, ev), NEW p \in Proc, p \notin Range(ev)
    PROVE  LET m == Links!GlobalPush(l, p)
           IN m \in Lists /\ Global(m, Append(ev, p)) /\ m.next = l.next /\ m.q = l.q
<1> DEFINE m == Links!GlobalPush(l, p)
           n == Len(ev)
           t == Append(ev, p)
           b == l.gbottom
           gn == [l.gnext EXCEPT ![b] = p, ![p] = Nil]
           gp == [l.gprev EXCEPT ![p] = b]
<1>1. /\ ev \in Seq(Proc) /\ IsInjective(ev) /\ ev # <<>> /\ ev[1] = Idle /\ l.gsize = n /\ b = ev[n]
      /\ l.gprev[Idle] = Nil
      /\ \A i \in 1..n - 1 : l.gnext[ev[i]] = ev[i + 1] /\ l.gprev[ev[i + 1]] = ev[i]
  BY DEF Global
<1>2. /\ l.next \in [Proc -> Block] /\ l.gnext \in [Proc -> Block] /\ l.gprev \in [Proc -> Block]
      /\ l.q \in [Links!Queue -> QueueHead] /\ b \in Proc /\ l.gsize \in Int
  BY ListsFields
<1>3. n \in Nat \ {0} /\ \A i \in 1..n : ev[i] \in Proc /\ ev[i] # p
  BY <1>1, SeqFacts
<1>4. gn \in [Proc -> Block] /\ gp \in [Proc -> Block]
  BY <1>2 DEF Block
<1>5. b # p
  <2>1. n \in 1..n
    BY <1>3
  <2> QED
    BY <1>1, <1>3, <2>1
<1>6. /\ gn[b] = p /\ gn[p] = Nil /\ gp[p] = b
      /\ \A x \in Proc \ {b, p} : gn[x] = l.gnext[x]
      /\ \A x \in Proc \ {p} : gp[x] = l.gprev[x]
  BY <1>2, <1>5
<1>7. m = [l EXCEPT !.gnext = gn, !.gprev = gp, !.gbottom = p, !.gsize = @ + 1]
  BY DEF Links!GlobalPush
<1> HIDE DEF m, gn, gp
<1>8. /\ m \in Lists /\ m.next = l.next /\ m.q = l.q
      /\ m.gnext = gn /\ m.gprev = gp /\ m.gbottom = p /\ m.gsize = n + 1
  <2> HIDE DEF n, b
  <2>1. m = [next |-> l.next, q |-> l.q, gnext |-> gn, gprev |-> gp, gbottom |-> p, gsize |-> l.gsize + 1]
    BY <1>7 DEF Lists
  <2> QED
    BY <1>1, <1>2, <1>4, <2>1 DEF Lists
<1>9. t \in Seq(Proc) /\ IsInjective(t) /\ t # <<>>
  BY <1>1, AppendNew
<1>10. Len(t) = n + 1 /\ t[n + 1] = p /\ \A i \in 1..n : t[i] = ev[i]
  BY <1>1, AppendProperties
<1> HIDE DEF t, n
<1>11. t[1] = Idle /\ Idle # p /\ n \in 1..n /\ t[n] = b
  <2>1. 1 \in 1..n /\ n \in 1..n
    BY <1>3
  <2> QED
    BY <1>1, <1>3, <1>10, <2>1
<1>12. ASSUME NEW i \in 1..n PROVE gn[t[i]] = t[i + 1] /\ gp[t[i + 1]] = t[i]
  <2>1. CASE i = n
    BY <1>6, <1>10, <1>11, <2>1
  <2>2. CASE i # n
    <3>1. i \in 1..n - 1 /\ i + 1 \in 1..n
      BY <1>3, <2>2
    <3>2. ev[i] # b
      BY <1>1, <1>11, <2>2, Injective DEF n
    <3>3. ev[i] \in Proc \ {b, p} /\ ev[i + 1] \in Proc \ {p}
      BY <1>3, <3>1, <3>2
    <3>4. gn[ev[i]] = ev[i + 1] /\ gp[ev[i + 1]] = ev[i]
      BY <1>1, <1>6, <3>1, <3>3
    <3> QED
      BY <1>10, <3>1, <3>4
  <2> QED
    BY <2>1, <2>2
<1>13. gp[Idle] = Nil
  BY <1>1, <1>6, <1>11, ListsFacts
<1>14. Global(m, t)
  <2>1. Len(t) - 1 = n
    BY <1>3, <1>10
  <2> QED
    BY <1>6, <1>8, <1>9, <1>10, <1>11, <1>12, <1>13, <2>1 DEF Global
<1> QED
  BY <1>8, <1>14 DEF m, t

(* The rest of a sequence from which one element has been cut. *)
LEMMA CutFacts ==
    ASSUME NEW a \in Seq(Proc), IsInjective(a), NEW m \in 1..Len(a)
    PROVE  /\ Cut(a, m) \in Seq(Proc) /\ Len(Cut(a, m)) = Len(a) - 1 /\ IsInjective(Cut(a, m))
           /\ \A i \in 1..Len(a) - 1 : Cut(a, m)[i] = IF i < m THEN a[i] ELSE a[i + 1]
           /\ Range(Cut(a, m)) = Range(a) \ {a[m]}
<1> DEFINE n == Len(a)
           c == Cut(a, m)
<1>1. n \in Nat /\ (\A i \in 1..n : a[i] \in Proc) /\ DOMAIN a = 1..n
  BY SeqFacts
<1>2. c = [i \in 1..n - 1 |-> IF i < m THEN a[i] ELSE a[i + 1]]
  BY DEF Cut
<1> HIDE DEF c, n
<1>0. m \in 1..n
  BY DEF n
<1>3. \A i \in 1..n - 1 : c[i] = IF i < m THEN a[i] ELSE a[i + 1]
  BY <1>2
<1>4. n - 1 \in Nat /\ \A i \in 1..n - 1 : i \in 1..n /\ i + 1 \in 1..n
  BY <1>0, <1>1
<1>5. c \in [1..n - 1 -> Proc]
  BY <1>1, <1>2, <1>4
<1>6. c \in Seq(Proc) /\ Len(c) = n - 1
  BY <1>4, <1>5
<1>7. DOMAIN c = 1..n - 1
  BY <1>5
<1>8. \A i, j \in 1..n : a[i] = a[j] => i = j
  BY Injective DEF n
<1>9. IsInjective(c)
  <2> SUFFICES ASSUME NEW i \in 1..n - 1, NEW j \in 1..n - 1, c[i] = c[j] PROVE i = j
    BY <1>7 DEF IsInjective
  <2> DEFINE i2 == IF i < m THEN i ELSE i + 1
             j2 == IF j < m THEN j ELSE j + 1
  <2>1. i2 \in 1..n /\ j2 \in 1..n /\ c[i] = a[i2] /\ c[j] = a[j2]
    BY <1>3, <1>4
  <2>2. i2 = j2 => i = j
    BY <1>0, <1>1
  <2> HIDE DEF i2, j2
  <2> QED
    BY <1>8, <2>1, <2>2
<1>10. ASSUME NEW x \in Range(c) PROVE x \in Range(a) \ {a[m]}
  <2>1. PICK i \in 1..n - 1 : c[i] = x
    BY <1>6, SeqFacts
  <2> DEFINE i2 == IF i < m THEN i ELSE i + 1
  <2>2. i2 \in 1..n /\ c[i] = a[i2] /\ i2 # m
    BY <1>0, <1>1, <1>3, <1>4
  <2> HIDE DEF i2
  <2> QED
    BY <1>0, <1>1, <1>8, <2>1, <2>2 DEF Range
<1>11. ASSUME NEW x \in Range(a) \ {a[m]} PROVE x \in Range(c)
  <2>1. PICK i \in 1..n : a[i] = x
    BY SeqFacts DEF n
  <2> DEFINE i2 == IF i < m THEN i ELSE i - 1
  <2>2. i # m
    BY <1>11, <2>1
  <2>3. i2 \in 1..n - 1 /\ (i2 < m => i2 = i) /\ (~(i2 < m) => i2 + 1 = i)
    BY <1>0, <1>1, <2>2
  <2> HIDE DEF i2
  <2>4. c[i2] = x
    BY <1>3, <2>1, <2>3
  <2> QED
    BY <1>7, <2>3, <2>4 DEF Range
<1> QED
  BY <1>3, <1>6, <1>9, <1>10, <1>11 DEF c, n

(* global_list_pop and process_delete, on the fields. *)
WithoutProcess(l, m, p, before, after) ==
    LET gp == IF after = Nil THEN l.gprev ELSE [l.gprev EXCEPT ![after] = before]
    IN /\ m \in Lists /\ m.q = l.q
       /\ m.next = [l.next EXCEPT ![p] = Idle]
       /\ m.gnext = [[l.gnext EXCEPT ![before] = after] EXCEPT ![p] = Idle]
       /\ m.gprev = [gp EXCEPT ![p] = Idle]
       /\ m.gbottom = IF p = l.gbottom THEN before ELSE l.gbottom
       /\ m.gsize = l.gsize - 1

(* global_list_pop and process_delete store just this. *)
LEMMA GlobalPopFields ==
    ASSUME NEW l \in Lists, NEW p \in Proc, NEW before \in Proc, NEW after \in Block,
           l.gprev[p] = before, l.gnext[p] = after
    PROVE  WithoutProcess(l, Links!Freed(Links!GlobalPop(l, p), p), p, before, after)
<1> DEFINE gp == IF after = Nil THEN l.gprev ELSE [l.gprev EXCEPT ![after] = before]
           gn == [l.gnext EXCEPT ![before] = after]
           gb == IF p = l.gbottom THEN before ELSE l.gbottom
           c == Links!GlobalPop(l, p)
           m == Links!Freed(c, p)
           next2 == [l.next EXCEPT ![p] = Idle]
           gn2 == [gn EXCEPT ![p] = Idle]
           gp2 == [gp EXCEPT ![p] = Idle]
<1>1. /\ l.next \in [Proc -> Block] /\ l.gnext \in [Proc -> Block] /\ l.gprev \in [Proc -> Block]
      /\ l.q \in [Links!Queue -> QueueHead] /\ l.gbottom \in Proc /\ l.gsize \in Int
  BY ListsFields
<1>2. gn \in [Proc -> Block] /\ gp \in [Proc -> Block] /\ gb \in Proc /\ l.gsize - 1 \in Int
  BY <1>1 DEF Block
<1>3. next2 \in [Proc -> Block] /\ gn2 \in [Proc -> Block] /\ gp2 \in [Proc -> Block]
  <2> HIDE DEF gn, gp
  <2> QED
    BY <1>1, <1>2, ListsFacts DEF Block
<1>4. c = [l EXCEPT !.gnext = gn, !.gprev = gp, !.gbottom = gb, !.gsize = l.gsize - 1]
  BY DEF Links!GlobalPop
<1> HIDE DEF gn, gp, gb, c
<1>5. c = [next |-> l.next, q |-> l.q, gnext |-> gn, gprev |-> gp, gbottom |-> gb, gsize |-> l.gsize - 1]
  BY <1>4 DEF Lists
<1>6. m = [next |-> next2, q |-> l.q, gnext |-> gn2, gprev |-> gp2, gbottom |-> gb, gsize |-> l.gsize - 1]
  <2>1. m = [c EXCEPT !.next = [c.next EXCEPT ![p] = Idle], !.gnext = [c.gnext EXCEPT ![p] = Idle],
                      !.gprev = [c.gprev EXCEPT ![p] = Idle]]
    BY <1>5 DEF Links!Freed
  <2>2. c.next = l.next /\ c.gnext = gn /\ c.gprev = gp
    BY <1>5
  <2>3. m = [c EXCEPT !.next = next2, !.gnext = gn2, !.gprev = gp2]
    BY <2>1, <2>2
  <2> HIDE DEF next2, gn2, gp2, m
  <2> QED
    BY <1>5, <2>3
<1> HIDE DEF next2, gn2, gp2, m
<1>7. /\ m \in Lists /\ m.q = l.q /\ m.next = next2 /\ m.gnext = gn2 /\ m.gprev = gp2 /\ m.gbottom = gb
      /\ m.gsize = l.gsize - 1
  BY <1>1, <1>2, <1>3, <1>6 DEF Lists
<1> QED
  BY <1>7 DEF WithoutProcess, m, c, next2, gn2, gp2, gn, gp, gb

(* A process other than the first leaves the global list. *)
LEMMA GlobalPopOk ==
    ASSUME NEW l \in Lists, NEW ev, Global(l, ev), NEW k \in 2..Len(ev)
    PROVE  LET p == ev[k]
               m == Links!Freed(Links!GlobalPop(l, p), p)
           IN /\ m \in Lists /\ Global(m, Cut(ev, k)) /\ m.q = l.q
              /\ \A x \in Proc \ {p} : m.next[x] = l.next[x]
<1> DEFINE p == ev[k]
           m == Links!Freed(Links!GlobalPop(l, p), p)
           n == Len(ev)
           c == Cut(ev, k)
           before == ev[k - 1]
           after == IF k = n THEN Nil ELSE ev[k + 1]
           gp0 == IF after = Nil THEN l.gprev ELSE [l.gprev EXCEPT ![after] = before]
           gn == m.gnext
           gp == m.gprev
<1>1. /\ ev \in Seq(Proc) /\ IsInjective(ev) /\ ev[1] = Idle /\ l.gsize = n /\ l.gbottom = ev[n]
      /\ \A i \in 1..n - 1 : l.gnext[ev[i]] = ev[i + 1] /\ l.gprev[ev[i + 1]] = ev[i]
      /\ l.gnext[ev[n]] = Nil /\ l.gprev[Idle] = Nil
  BY DEF Global
<1>2. n \in Nat /\ \A i \in 1..n : ev[i] \in Proc
  BY <1>1, SeqFacts
<1>3. \A i, j \in 1..n : ev[i] = ev[j] => i = j
  BY <1>1, Injective
<1> HIDE DEF n
<1>4. /\ k \in 2..n /\ k \in 1..n /\ k - 1 \in 1..n /\ k - 1 \in 1..n - 1 /\ 1 \in 1..n /\ n \in 1..n /\ (k - 1) + 1 = k
      /\ k # n => k \in 1..n - 1 /\ k + 1 \in 1..n
  BY <1>2 DEF n
<1>5. p \in Proc /\ before \in Proc /\ after \in Block /\ (after = Nil <=> k = n)
  BY <1>2, <1>4, ListsFacts DEF Block
<1>6. l.gprev[p] = before /\ l.gnext[p] = after
  <2>1. l.gprev[ev[(k - 1) + 1]] = ev[k - 1]
    BY <1>1, <1>4
  <2> QED
    BY <1>1, <1>4, <2>1
<1>7. /\ l.next \in [Proc -> Block] /\ l.gnext \in [Proc -> Block] /\ l.gprev \in [Proc -> Block]
  BY ListsFields
<1> HIDE DEF p, before, after
<1>8. /\ m \in Lists /\ m.q = l.q
      /\ m.next = [l.next EXCEPT ![p] = Idle]
      /\ gn = [[l.gnext EXCEPT ![before] = after] EXCEPT ![p] = Idle]
      /\ gp = [gp0 EXCEPT ![p] = Idle]
      /\ m.gbottom = IF p = l.gbottom THEN before ELSE l.gbottom
      /\ m.gsize = l.gsize - 1
  <2>1. WithoutProcess(l, m, p, before, after)
    BY <1>5, <1>6, GlobalPopFields
  <2> QED
    BY <2>1, Zenon DEF WithoutProcess
<1> HIDE DEF m
<1>9. \A x \in Proc \ {p} : m.next[x] = l.next[x]
  BY <1>7, <1>8
<1>10. p # before
  BY <1>2, <1>3, <1>4 DEF p, before
<1>11. gn[before] = after /\ \A x \in Proc \ {p, before} : gn[x] = l.gnext[x]
  <2> HIDE DEF gn
  <2> QED
    BY <1>5, <1>7, <1>8, <1>10
<1>12. /\ after # Nil => gp[after] = before
       /\ \A x \in Proc \ {p, after} : gp[x] = l.gprev[x]
  <2>1. after # Nil => after \in Proc /\ after # p
    BY <1>2, <1>3, <1>4 DEF after, p
  <2>2. gp0 \in [Proc -> Block] /\ (after # Nil => gp0[after] = before) /\ \A x \in Proc \ {after} : gp0[x] = l.gprev[x]
    BY <1>5, <1>7, <2>1 DEF Block
  <2> HIDE DEF gp, gp0
  <2> QED
    BY <1>8, <2>1, <2>2
<1> HIDE DEF gn, gp, gp0
<1>13. /\ c \in Seq(Proc) /\ Len(c) = n - 1 /\ IsInjective(c)
       /\ \A i \in 1..n - 1 : c[i] = IF i < k THEN ev[i] ELSE ev[i + 1]
  BY <1>1, <1>4, CutFacts DEF n
<1> HIDE DEF c
<1>14. c[1] = Idle /\ c # <<>> /\ c[n - 1] = (IF k = n THEN ev[n - 1] ELSE ev[n]) /\ n - 1 \in 1..n - 1
  <2>1. 1 \in 1..n - 1 /\ 1 < k /\ n - 1 \in 1..n - 1 /\ (n - 1 < k <=> k = n) /\ (n - 1) + 1 = n /\ Len(c) # 0
    BY <1>2, <1>4, <1>13
  <2>2. c[n - 1] = (IF n - 1 < k THEN ev[n - 1] ELSE ev[(n - 1) + 1]) /\ c[1] = ev[1]
    BY <1>13, <2>1
  <2> QED
    BY <1>1, <1>13, <2>1, <2>2, EmptySeq
<1>15. ASSUME NEW i \in 1..(n - 1) - 1 PROVE gn[c[i]] = c[i + 1] /\ gp[c[i + 1]] = c[i]
  <2>1. i \in 1..n - 1 /\ i + 1 \in 1..n - 1 /\ i \in 1..n /\ i + 1 \in 1..n /\ (i + 1) + 1 \in 1..n
    BY <1>2
  <2>2. c[i] = (IF i < k THEN ev[i] ELSE ev[i + 1]) /\ c[i + 1] = (IF i + 1 < k THEN ev[i + 1] ELSE ev[(i + 1) + 1])
    BY <1>13, <2>1
  <2>3. CASE i + 1 < k
    <3>1. c[i] = ev[i] /\ c[i + 1] = ev[i + 1]
      BY <2>1, <2>2, <2>3, <1>4
    <3>2. ev[i] # p /\ ev[i] # before /\ ev[i + 1] # p
      BY <1>2, <1>3, <1>4, <2>1, <2>3 DEF p, before
    <3>3. ev[i + 1] # after
      BY <1>2, <1>3, <1>4, <2>1, <2>3, ListsFacts DEF after
    <3>4. gn[ev[i]] = ev[i + 1] /\ gp[ev[i + 1]] = ev[i]
      <4> DEFINE x == ev[i]
                 y == ev[i + 1]
      <4>1. x \in Proc \ {p, before} /\ y \in Proc \ {p, after} /\ l.gnext[x] = y /\ l.gprev[y] = x
        BY <1>1, <1>2, <2>1, <3>2, <3>3
      <4> HIDE DEF x, y
      <4>2. gn[x] = y /\ gp[y] = x
        BY <1>11, <1>12, <4>1
      <4> QED
        BY <4>2 DEF x, y
    <3> QED
      BY <3>1, <3>4
  <2>4. CASE i + 1 = k
    <3>1. c[i] = ev[i] /\ c[i + 1] = ev[(i + 1) + 1] /\ k # n /\ i = k - 1
      BY <1>2, <1>4, <2>1, <2>2, <2>4
    <3>2. ev[i] = before /\ ev[(i + 1) + 1] = after
      BY <2>4, <3>1 DEF before, after
    <3> QED
      BY <1>5, <1>11, <1>12, <3>1, <3>2
  <2>5. CASE i + 1 > k
    <3> DEFINE j == i + 1
    <3>1. c[i] = ev[j] /\ c[i + 1] = ev[j + 1] /\ j \in 1..n - 1 /\ j \in 1..n /\ j + 1 \in 1..n
      BY <1>2, <1>4, <2>1, <2>2, <2>5
    <3>2. j > k /\ j + 1 > k /\ j # k - 1 /\ j + 1 # k + 1
      BY <1>2, <1>4, <2>5
    <3> HIDE DEF j
    <3>3. ev[j] # p /\ ev[j] # before /\ ev[j + 1] # p
      BY <1>2, <1>3, <1>4, <3>1, <3>2 DEF p, before
    <3>4. ev[j + 1] # after
      BY <1>2, <1>3, <1>4, <3>1, <3>2, ListsFacts DEF after
    <3>5. gn[ev[j]] = ev[j + 1] /\ gp[ev[j + 1]] = ev[j]
      BY <1>1, <1>2, <1>11, <1>12, <3>1, <3>3, <3>4
    <3> QED
      BY <3>1, <3>5
  <2> QED
    BY <1>2, <1>4, <2>3, <2>4, <2>5
<1>16. gn[c[n - 1]] = Nil /\ m.gbottom = c[n - 1]
  <2>1. CASE k = n
    <3>1. c[n - 1] = before /\ after = Nil /\ p = l.gbottom
      BY <1>1, <1>14, <2>1 DEF before, after, p
    <3> QED
      BY <1>8, <1>11, <3>1
  <2>2. CASE k # n
    <3>1. c[n - 1] = ev[n] /\ ev[n] \in Proc /\ ev[n] # p
      BY <1>2, <1>3, <1>4, <1>14, <2>2 DEF p
    <3>2. ev[n] # before
      BY <1>2, <1>3, <1>4, <2>2 DEF before
    <3> QED
      BY <1>1, <1>8, <1>11, <3>1, <3>2
  <2> QED
    BY <2>1, <2>2
<1>17. gp[Idle] = Nil
  <2>1. Idle # p /\ Idle # after
    BY <1>1, <1>2, <1>3, <1>4, ListsFacts DEF p, after
  <2> QED
    BY <1>1, <1>12, <2>1, ListsFacts
<1>18. Global(m, c)
  BY <1>1, <1>8, <1>13, <1>14, <1>15, <1>16, <1>17 DEF Global, gn, gp
<1> QED
  BY <1>8, <1>9, <1>18 DEF m, c, p

-----------------------------------------------------------------------------
(* The loop over the delete queue. *)

(* What is left of a queue after i pops, and what has been popped. *)
Rest(q, i) == SubSeq(q, i + 1, Len(q))
Popped(q, i) == SubSeq(q, 1, i)

(* No pops, and all of them. *)
LEMMA RestAll ==
    ASSUME NEW S, NEW q \in Seq(S)
    PROVE  Rest(q, 0) = q /\ Rest(q, Len(q)) = <<>> /\ Popped(q, 0) = <<>>
<1>1. Len(q) \in Nat
  BY LenProperties
<1>2. SubSeq(q, 1, Len(q)) = q
  OBVIOUS
<1>3. SubSeq(q, Len(q) + 1, Len(q)) = <<>> /\ SubSeq(q, 1, 0) = <<>>
  BY <1>1
<1> QED
  BY <1>2, <1>3 DEF Rest, Popped

(* Both are sequences of the elements in question. *)
LEMMA RestFacts ==
    ASSUME NEW S, NEW q \in Seq(S), NEW i \in 0..Len(q)
    PROVE  /\ Rest(q, i) \in Seq(S) /\ Len(Rest(q, i)) = Len(q) - i
           /\ \A j \in 1..Len(q) - i : Rest(q, i)[j] = q[i + j]
           /\ Popped(q, i) \in Seq(S) /\ Len(Popped(q, i)) = i
           /\ \A j \in 1..i : Popped(q, i)[j] = q[j]
<1>1. Len(q) \in Nat /\ i \in Nat
  BY LenProperties
<1> DEFINE n == Len(q)
           a == [j \in 1..n - i |-> q[i + j]]
           b == [j \in 1..i |-> q[j]]
<1>2. Rest(q, i) = a
  <2>1. n - (i + 1) + 1 = n - i /\ \A j \in 1..n - i : (i + 1) + j - 1 = i + j
    BY <1>1
  <2>2. SubSeq(q, i + 1, n) = [j \in 1..n - (i + 1) + 1 |-> q[(i + 1) + j - 1]]
    BY <1>1
  <2> QED
    BY <2>1, <2>2 DEF Rest
<1>3. Popped(q, i) = b
  <2>1. i - 1 + 1 = i /\ \A j \in 1..i : 1 + j - 1 = j
    BY <1>1
  <2>2. SubSeq(q, 1, i) = [j \in 1..i - 1 + 1 |-> q[1 + j - 1]]
    BY <1>1
  <2> QED
    BY <2>1, <2>2 DEF Popped
<1>4. a \in [1..n - i -> S] /\ n - i \in Nat
  <2>1. \A j \in 1..n - i : i + j \in 1..n
    BY <1>1
  <2>2. \A j \in 1..n : q[j] \in S
    BY ElementOfSeq
  <2> QED
    BY <1>1, <2>1, <2>2
<1>5. b \in [1..i -> S]
  <2>1. \A j \in 1..i : j \in 1..n
    BY <1>1
  <2>2. \A j \in 1..n : q[j] \in S
    BY ElementOfSeq
  <2> QED
    BY <2>1, <2>2
<1>6. a \in Seq(S) /\ Len(a) = n - i
  BY <1>4
<1>7. b \in Seq(S) /\ Len(b) = i
  BY <1>1, <1>5
<1>8. (\A j \in 1..n - i : a[j] = q[i + j]) /\ (\A j \in 1..i : b[j] = q[j])
  OBVIOUS
<1> HIDE DEF a, b
<1> QED
  BY <1>2, <1>3, <1>6, <1>7, <1>8 DEF n

RestIs(S, q, i) ==
    /\ Rest(q, i) \in Seq(S) /\ Len(Rest(q, i)) = Len(q) - i
    /\ \A j \in 1..Len(q) - i : Rest(q, i)[j] = q[i + j]
    /\ Popped(q, i) \in Seq(S) /\ Len(Popped(q, i)) = i
    /\ \A j \in 1..i : Popped(q, i)[j] = q[j]

(* The same, in one word. *)
LEMMA RestParts ==
    ASSUME NEW S, NEW q \in Seq(S), NEW i \in 0..Len(q)
    PROVE  RestIs(S, q, i)
BY RestFacts DEF RestIs

(* One more pop. *)
LEMMA RestStep ==
    ASSUME NEW S, NEW q \in Seq(S), NEW i \in 0..Len(q) - 1
    PROVE  /\ Rest(q, i) # <<>> /\ Head(Rest(q, i)) = q[i + 1] /\ Tail(Rest(q, i)) = Rest(q, i + 1)
           /\ Popped(q, i + 1) = Append(Popped(q, i), q[i + 1])
<1> DEFINE n == Len(q)
           r == Rest(q, i)
           t == Rest(q, i + 1)
           a == Popped(q, i)
           b == Popped(q, i + 1)
<1>1. n \in Nat /\ i \in 0..n /\ i + 1 \in 0..n /\ n - i \in Nat \ {0} /\ i + 1 \in 1..n /\ q[i + 1] \in S
  BY LenProperties, ElementOfSeq
<1>2. /\ r \in Seq(S) /\ Len(r) = n - i /\ \A j \in 1..n - i : r[j] = q[i + j]
      /\ a \in Seq(S) /\ Len(a) = i /\ \A j \in 1..i : a[j] = q[j]
  <2>1. RestIs(S, q, i)
    BY <1>1, RestParts
  <2> QED
    BY <2>1 DEF RestIs
<1>3. /\ t \in Seq(S) /\ Len(t) = n - (i + 1) /\ \A j \in 1..n - (i + 1) : t[j] = q[(i + 1) + j]
      /\ b \in Seq(S) /\ Len(b) = i + 1 /\ \A j \in 1..i + 1 : b[j] = q[j]
  <2>1. RestIs(S, q, i + 1)
    BY <1>1, RestParts
  <2> QED
    BY <2>1 DEF RestIs
<1> HIDE DEF n, r, t, a, b
<1>4. r # <<>>
  BY <1>1, <1>2, EmptySeq
<1>5. /\ Head(r) = r[1] /\ Tail(r) \in Seq(S) /\ Len(Tail(r)) = Len(r) - 1
      /\ \A j \in 1..Len(Tail(r)) : Tail(r)[j] = r[j + 1]
  BY <1>2, <1>4, HeadTailProperties
<1>6. r[1] = q[i + 1]
  BY <1>1, <1>2
<1>7. Tail(r) = t
  <2>1. Len(Tail(r)) = Len(t)
    BY <1>1, <1>2, <1>3, <1>5
  <2>2. ASSUME NEW j \in 1..Len(t) PROVE Tail(r)[j] = t[j]
    <3>1. j \in 1..n - (i + 1) /\ j + 1 \in 1..n - i /\ i + (j + 1) = (i + 1) + j /\ j \in 1..Len(Tail(r))
      BY <1>1, <1>3, <2>1
    <3>2. Tail(r)[j] = r[j + 1] /\ r[j + 1] = q[i + (j + 1)] /\ t[j] = q[(i + 1) + j]
      BY <1>2, <1>3, <1>5, <3>1
    <3> QED
      BY <3>1, <3>2
  <2> QED
    BY <1>3, <1>5, <2>1, <2>2, SeqEqual
<1>8. b = Append(a, q[i + 1])
  <2> DEFINE c == Append(a, q[i + 1])
  <2>1. c \in Seq(S) /\ Len(c) = i + 1 /\ c[i + 1] = q[i + 1] /\ \A j \in 1..i : c[j] = a[j]
    BY <1>1, <1>2, AppendProperties
  <2> HIDE DEF c
  <2>2. ASSUME NEW j \in 1..i + 1 PROVE b[j] = c[j]
    <3>1. CASE j = i + 1
      BY <1>1, <1>3, <2>1, <3>1
    <3>2. CASE j # i + 1
      <4>1. j \in 1..i
        BY <1>1, <3>2
      <4> QED
        BY <1>2, <1>3, <2>1, <4>1
    <3> QED
      BY <3>1, <3>2
  <2>3. b = c
    BY <1>3, <2>1, <2>2, SeqEqual
  <2> QED
    BY <2>3 DEF c
<1> QED
  BY <1>4, <1>5, <1>6, <1>7, <1>8 DEF r, t, a, b, n

(* The global list after some have been deleted. *)
LEMMA RemainingUnfold ==
    ASSUME NEW ev \in Seq(Proc), NEW gone
    PROVE  \E g : IsUnlinking(g, ev, gone) /\ Links!Remaining(ev, gone) = g[Len(ev)]
<1> DEFINE h == CHOOSE g : IsUnlinking(g, ev, gone)
<1>1. Links!Remaining(ev, gone) = h[Len(ev)]
  BY Zenon DEF Links!Remaining, IsUnlinking
<1>2. IsUnlinking(h, ev, gone)
  BY UnlinkingExists
<1> QED
  BY <1>1, <1>2

(* What is left is what was there, without those deleted. *)
LEMMA RemainingFacts ==
    ASSUME NEW ev \in Seq(Proc), IsInjective(ev), NEW gone
    PROVE  /\ Links!Remaining(ev, gone) \in Seq(Proc)
           /\ IsInjective(Links!Remaining(ev, gone))
           /\ Range(Links!Remaining(ev, gone)) = Range(ev) \ gone
<1>1. PICK g : IsUnlinking(g, ev, gone) /\ Links!Remaining(ev, gone) = g[Len(ev)]
  BY RemainingUnfold
<1>2. Len(ev) \in 0..Len(ev)
  BY LenProperties
<1>3. g[Len(ev)] \in Seq(Proc) /\ IsInjective(g[Len(ev)]) /\ Range(g[Len(ev)]) = Firsts(ev, Len(ev)) \ gone
  BY <1>1, <1>2, UnlinkingProperties
<1>4. Firsts(ev, Len(ev)) = Range(ev)
  BY LenProperties DEF Firsts, Range
<1> QED
  BY <1>1, <1>3, <1>4

(* Deleting one more cuts one more place. *)
LEMMA RemainingCut ==
    ASSUME NEW ev \in Seq(Proc), IsInjective(ev), NEW gone, NEW p \in Proc, p \notin gone
    PROVE  IsCut(Links!Remaining(ev, gone \cup {p}), Links!Remaining(ev, gone), p)
<1>1. PICK g : IsUnlinking(g, ev, gone) /\ Links!Remaining(ev, gone) = g[Len(ev)]
  BY RemainingUnfold
<1>2. PICK h : IsUnlinking(h, ev, gone \cup {p}) /\ Links!Remaining(ev, gone \cup {p}) = h[Len(ev)]
  BY RemainingUnfold
<1> QED
  BY <1>1, <1>2, UnlinkingCut

(* Nobody is deleted. *)
LEMMA RemainingAll ==
    ASSUME NEW ev \in Seq(Proc)
    PROVE  Links!Remaining(ev, {}) = ev
<1>1. PICK g : IsUnlinking(g, ev, {}) /\ Links!Remaining(ev, {}) = g[Len(ev)]
  BY RemainingUnfold
<1>2. \A i \in 0..Len(ev) : g[i] = IF i = 0 THEN << >> ELSE IF ev[i] \in {} THEN g[i - 1] ELSE Append(g[i - 1], ev[i])
  BY <1>1 DEF IsUnlinking
<1> DEFINE n == Len(ev)
           Ind == {i \in Nat : i <= n => g[i] = Popped(ev, i)}
<1>3. n \in Nat
  BY LenProperties
<1>4. 0 \in Ind
  BY <1>2, <1>3, RestAll
<1>5. ASSUME NEW i \in Nat, i \in Ind PROVE i + 1 \in Ind
  <2> SUFFICES ASSUME i + 1 <= n PROVE g[i + 1] = Popped(ev, i + 1)
    OBVIOUS
  <2>1. i \in 0..n - 1 /\ i + 1 \in 0..n /\ i + 1 # 0 /\ (i + 1) - 1 = i /\ g[i] = Popped(ev, i)
    BY <1>3, <1>5
  <2>2. g[i + 1] = Append(g[i], ev[i + 1])
    BY <1>2, <2>1
  <2>3. Popped(ev, i + 1) = Append(Popped(ev, i), ev[i + 1])
    BY <2>1, RestStep
  <2> QED
    BY <2>1, <2>2, <2>3
<1>6. g[n] = Popped(ev, n)
  <2> HIDE DEF Ind
  <2>1. n \in Ind
    BY <1>3, <1>4, <1>5, NatSetInduction
  <2> QED
    BY <1>3, <2>1 DEF Ind
<1>7. Popped(ev, n) = ev
  BY <1>3 DEF Popped
<1> QED
  BY <1>1, <1>6, <1>7

(* One turn of the loop over the delete queue. *)
LEMMA ReapOneOk ==
    ASSUME NEW l, NEW qs, Threads(l, qs), NEW ev, Global(l, ev), qs["delete"] # <<>>,
           Range(qs["delete"]) \subseteq Range(ev) \ {Idle}
    PROVE  LET m == Links!ReapOne(l)
               p == Head(qs["delete"])
           IN /\ Threads(m, With(qs, "delete", Tail(qs["delete"])))
              /\ \E k \in 1..Len(ev) : ev[k] = p /\ Global(m, Cut(ev, k))
<1> DEFINE m == Links!ReapOne(l)
           p == Head(qs["delete"])
           a == Links!Pop(l, "delete")
           rs == With(qs, "delete", Tail(qs["delete"]))
           b == Links!Freed(Links!GlobalPop(a, p), p)
<1>1. "delete" \in Links!Queue
  BY DEF Links!Queue
<1>2. /\ l.q["delete"].top = p /\ p \in Proc /\ p \in Range(qs["delete"])
      /\ Threads(a, rs) /\ Held(rs) = Held(qs) \ {p} /\ SameGlobal(l, a)
  BY <1>1, PopThreads
<1>3. m = b
  BY <1>2 DEF Links!ReapOne
<1>4. Global(a, ev) /\ a \in Lists
  BY <1>2, GlobalSame DEF Threads
<1>5. ev \in Seq(Proc) /\ ev[1] = Idle
  BY DEF Global
<1>6. PICK k \in 1..Len(ev) : ev[k] = p
  BY <1>2, <1>5, SeqFacts
<1>7. k \in 2..Len(ev)
  <2>1. k # 1 /\ Len(ev) \in Nat
    BY <1>2, <1>5, <1>6, SeqFacts
  <2> QED
    BY <2>1
<1>8. /\ b \in Lists /\ Global(b, Cut(ev, k)) /\ b.q = a.q
      /\ \A x \in Proc \ {p} : b.next[x] = a.next[x]
  <2> HIDE DEF p, a
  <2>1. LET r == ev[k]
            f == Links!Freed(Links!GlobalPop(a, r), r)
        IN /\ f \in Lists /\ Global(f, Cut(ev, k)) /\ f.q = a.q
           /\ \A x \in Proc \ {r} : f.next[x] = a.next[x]
    BY <1>4, <1>7, GlobalPopOk
  <2> QED
    BY <1>6, <2>1
<1> HIDE DEF m, b, rs, a, p
<1>9. Held(rs) \subseteq Proc \ {p}
  <2>1. \A k1 \in Links!Queue : rs[k1] \in Seq(Proc)
    BY <1>2 DEF Threads, Queues
  <2>2. Held(rs) \subseteq Proc
    BY <2>1, SeqFacts DEF Held
  <2> QED
    BY <1>2, <2>2
<1>10. Threads(b, rs)
  BY <1>2, <1>8, <1>9, ThreadsSame
<1> QED
  BY <1>3, <1>6, <1>8, <1>10 DEF m, b, rs, a, p

IsReaping(g, l) ==
    g = [i \in 0..l.q["delete"].size |-> IF i = 0 THEN l ELSE Links!ReapOne(g[i - 1])]

(* The loop has its turns. *)
LEMMA ReapingExists ==
    ASSUME NEW l, l.q["delete"].size \in Nat
    PROVE  \E g : IsReaping(g, l)
<1> DEFINE n == l.q["delete"].size
           Turns(g, k) == g = [i \in 0..k |-> IF i = 0 THEN l ELSE Links!ReapOne(g[i - 1])]
           Ind == {k \in Nat : \E g : Turns(g, k)}
<1>1. 0 \in Ind
  <2> DEFINE g == [i \in 0..0 |-> l]
  <2>1. Turns(g, 0)
    OBVIOUS
  <2> QED
    BY <2>1
<1>2. ASSUME NEW k \in Nat, k \in Ind PROVE k + 1 \in Ind
  <2>1. PICK g : Turns(g, k)
    BY <1>2
  <2> DEFINE v == Links!ReapOne(g[k])
             h == [i \in 0..k + 1 |-> IF i = k + 1 THEN v ELSE g[i]]
  <2>2. \A i \in 0..k : g[i] = IF i = 0 THEN l ELSE Links!ReapOne(g[i - 1])
    <3> DEFINE w == [i \in 0..k |-> IF i = 0 THEN l ELSE Links!ReapOne(g[i - 1])]
    <3>1. \A i \in 0..k : w[i] = IF i = 0 THEN l ELSE Links!ReapOne(g[i - 1])
      OBVIOUS
    <3>2. g = w
      BY <2>1
    <3> HIDE DEF w
    <3> QED
      BY <3>1, <3>2
  <2>3. ASSUME NEW i \in 0..k + 1 PROVE h[i] = IF i = 0 THEN l ELSE Links!ReapOne(h[i - 1])
    <3>1. CASE i = k + 1
      <4>1. i # 0 /\ i - 1 = k /\ k \in 0..k + 1 /\ k # k + 1
        BY <3>1
      <4>2. h[k] = g[k] /\ h[i] = v
        BY <3>1, <4>1
      <4> HIDE DEF h
      <4> QED
        BY <4>1, <4>2
    <3>2. CASE i # k + 1
      <4>1. i \in 0..k /\ h[i] = g[i]
        BY <3>2
      <4>2. i # 0 => i - 1 \in 0..k + 1 /\ i - 1 # k + 1
        BY <4>1
      <4>3. i # 0 => h[i - 1] = g[i - 1]
        BY <4>2
      <4> HIDE DEF h
      <4> QED
        BY <2>2, <4>1, <4>3
    <3> QED
      BY <3>1, <3>2
  <2>4. h = [i \in 0..k + 1 |-> h[i]]
    OBVIOUS
  <2> HIDE DEF h
  <2>5. Turns(h, k + 1)
    BY <2>3, <2>4
  <2> QED
    BY <2>5
<1>3. n \in Ind
  <2> HIDE DEF Ind
  <2> QED
    BY <1>1, <1>2, NatSetInduction
<1>4. PICK g : Turns(g, n)
  BY <1>3
<1> QED
  BY <1>4 DEF IsReaping

(* scheduler_switch empties the delete queue. *)
LEMMA ReapOk ==
    ASSUME NEW l, NEW qs, Threads(l, qs), NEW ev, Global(l, ev),
           Range(qs["delete"]) \subseteq Range(ev) \ {Idle}
    PROVE  LET m == Links!Reap(l)
           IN /\ Threads(m, With(qs, "delete", <<>>))
              /\ Global(m, Links!Remaining(ev, Range(qs["delete"])))
<1> DEFINE m == Links!Reap(l)
           d == qs["delete"]
           n == Len(d)
           turn == CHOOSE g : IsReaping(g, l)
           R(i) == Links!Remaining(ev, Firsts(d, i))
           Q(i) == With(qs, "delete", Rest(d, i))
           Ind == {i \in Nat : i <= n => Threads(turn[i], Q(i)) /\ Global(turn[i], R(i))}
<1>0. "delete" \in Links!Queue
  BY DEF Links!Queue
<1>1. /\ d \in Seq(Proc) /\ IsInjective(d) /\ Threaded(l.next, l.q["delete"], d)
      /\ qs \in Queues /\ ev \in Seq(Proc) /\ IsInjective(ev)
  BY <1>0 DEF Threads, Queues, Once, Global
<1>2. n \in Nat /\ l.q["delete"].size = n
  BY <1>1, SeqFacts DEF Threaded
<1>3. IsReaping(turn, l)
  BY <1>2, ReapingExists
<1>4. m = turn[n]
  <2>1. m = turn[l.q["delete"].size]
    BY Zenon DEF Links!Reap, IsReaping
  <2> QED
    BY <1>2, <2>1
<1> HIDE DEF turn, m
<1>5. turn[0] = l /\ \A i \in 0..n - 1 : turn[i + 1] = Links!ReapOne(turn[i])
  <2> HIDE DEF n
  <2>1. turn = [i \in 0..n |-> IF i = 0 THEN l ELSE Links!ReapOne(turn[i - 1])]
    BY <1>2, <1>3 DEF IsReaping
  <2>2. \A i \in 0..n : turn[i] = IF i = 0 THEN l ELSE Links!ReapOne(turn[i - 1])
    <3> DEFINE w == [i \in 0..n |-> IF i = 0 THEN l ELSE Links!ReapOne(turn[i - 1])]
    <3>1. \A i \in 0..n : w[i] = IF i = 0 THEN l ELSE Links!ReapOne(turn[i - 1])
      OBVIOUS
    <3>2. turn = w
      BY <2>1
    <3> HIDE DEF w
    <3> QED
      BY <3>1, <3>2
  <2>3. ASSUME NEW i \in 0..n - 1 PROVE turn[i + 1] = Links!ReapOne(turn[i])
    <3>1. i + 1 \in 0..n /\ i + 1 # 0 /\ (i + 1) - 1 = i
      BY <1>2
    <3>2. turn[i + 1] = Links!ReapOne(turn[(i + 1) - 1])
      BY <2>2, <3>1
    <3> QED
      BY <3>1, <3>2
  <2>4. 0 \in 0..n
    BY <1>2
  <2> QED
    BY <2>2, <2>3, <2>4
<1>6. With(qs, "delete", d) = qs
  BY <1>0, <1>1 DEF With, Queues
<1>7. 0 \in Ind
  <2>1. Rest(d, 0) = d
    BY <1>1, RestAll
  <2>2. Firsts(d, 0) = {}
    BY DEF Firsts
  <2>3. R(0) = ev
    BY <1>1, <2>2, RemainingAll
  <2>4. Q(0) = qs
    BY <1>6, <2>1
  <2> HIDE DEF R, Q
  <2> QED
    BY <1>5, <2>3, <2>4
<1>8. ASSUME NEW i \in Nat, i \in Ind PROVE i + 1 \in Ind
  <2> SUFFICES ASSUME i + 1 <= n PROVE Threads(turn[i + 1], Q(i + 1)) /\ Global(turn[i + 1], R(i + 1))
    OBVIOUS
  <2> DEFINE p == d[i + 1]
             s == Rest(d, i)
             gone == Firsts(d, i)
  <2>1. i \in 0..n - 1 /\ i \in 0..n /\ i <= n /\ i + 1 \in 1..n
    BY <1>2
  <2>2. s # <<>> /\ Head(s) = p /\ Tail(s) = Rest(d, i + 1)
    BY <1>1, <2>1, RestStep
  <2>3. Threads(turn[i], Q(i)) /\ Global(turn[i], R(i))
    BY <1>8, <2>1
  <2>4. Q(i)["delete"] = s /\ With(Q(i), "delete", Tail(s)) = Q(i + 1)
    <3>1. Q(i)["delete"] = s
      BY <1>0, <1>1 DEF With, Queues
    <3>2. With(Q(i), "delete", Tail(s)) = With(qs, "delete", Tail(s))
      BY <1>0, <1>1 DEF With, Queues
    <3> QED
      BY <2>2, <3>1, <3>2
  <2>5. p \in Proc /\ p \in Range(d) /\ p \notin gone
    <3>1. p \in Proc /\ p \in Range(d)
      BY <1>1, <2>1, SeqFacts
    <3>2. ASSUME NEW j \in 1..i, d[j] = p PROVE FALSE
      <4>1. j \in 1..n /\ j # i + 1
        BY <1>2, <2>1
      <4> QED
        BY <1>1, <2>1, <3>2, <4>1, Injective
    <3> QED
      BY <3>1, <3>2 DEF Firsts
  <2>6. Firsts(d, i + 1) = gone \cup {p}
    <3>1. 1..i + 1 = (1..i) \cup {i + 1}
      OBVIOUS
    <3> QED
      BY <3>1 DEF Firsts
  <2>7. R(i) \in Seq(Proc) /\ IsInjective(R(i)) /\ Range(R(i)) = Range(ev) \ gone
    BY <1>1, RemainingFacts
  <2>8. IsCut(R(i + 1), R(i), p)
    BY <1>1, <2>5, <2>6, RemainingCut
  <2>9. Range(s) \subseteq Range(R(i)) \ {Idle}
    <3>1. ASSUME NEW x \in Range(s) PROVE x \in Range(d) /\ x \notin gone
      <4>1. s \in Seq(Proc) /\ Len(s) = n - i /\ \A j \in 1..n - i : s[j] = d[i + j]
        <5>1. i \in 0..Len(d) /\ d \in Seq(Proc)
          BY <1>1, <1>2, <2>1
        <5> HIDE DEF d
        <5> QED
          BY <5>1, RestFacts
      <4>2. PICK j \in 1..n - i : s[j] = x
        BY <3>1, <4>1, SeqFacts
      <4>3. i + j \in 1..n /\ x = d[i + j]
        BY <1>2, <2>1, <4>1, <4>2
      <4>4. ASSUME NEW a \in 1..i, d[a] = x PROVE FALSE
        <5>1. a \in 1..n /\ a # i + j
          BY <1>2, <2>1, <4>2
        <5> QED
          BY <1>1, <4>3, <4>4, <5>1, Injective
      <4> QED
        BY <1>1, <4>3, <4>4, SeqFacts DEF Firsts
    <3> HIDE DEF s, d, gone, R
    <3> QED
      BY <2>7, <3>1 DEF d
  <2>10. turn[i + 1] = Links!ReapOne(turn[i])
    BY <1>5, <2>1
  <2> HIDE DEF Q, R, s, gone, p
  <2>11. /\ Threads(turn[i + 1], Q(i + 1))
         /\ \E k \in 1..Len(R(i)) : R(i)[k] = p /\ Global(turn[i + 1], Cut(R(i), k))
    BY <2>2, <2>3, <2>4, <2>9, <2>10, ReapOneOk
  <2>12. PICK k \in 1..Len(R(i)) : R(i)[k] = p /\ Global(turn[i + 1], Cut(R(i), k))
    BY <2>11
  <2>13. p \in Range(R(i))
    BY <2>7, <2>12, SeqFacts
  <2>14. PICK j \in 1..Len(R(i)) : R(i)[j] = p /\ R(i + 1) = Cut(R(i), j)
    BY <2>8, <2>13 DEF IsCut
  <2>15. j = k
    BY <2>7, <2>12, <2>14, Injective
  <2> QED
    BY <2>11, <2>12, <2>14, <2>15
<1>9. Threads(turn[n], Q(n)) /\ Global(turn[n], R(n))
  <2> HIDE DEF Ind
  <2>1. n \in Ind
    BY <1>2, <1>7, <1>8, NatSetInduction
  <2> QED
    BY <1>2, <2>1 DEF Ind
<1>10. Rest(d, n) = <<>> /\ Firsts(d, n) = Range(d)
  <2>1. Rest(d, n) = <<>>
    BY <1>1, RestAll
  <2> QED
    BY <1>1, <2>1, LenProperties DEF Firsts, Range
<1> QED
  BY <1>4, <1>9, <1>10 DEF m

-----------------------------------------------------------------------------
(* The loop over the sleepers. *)

Sorted(s, t) == \A i, j \in 1..Len(s) : i <= j => t[s[i]] <= t[s[j]]

(* Those of a sorted queue that are not above v come first. *)
LEMMA SortedPrefix ==
    ASSUME NEW s \in Seq(Proc), NEW t \in [Proc -> Int], Sorted(s, t), NEW v \in Int
    PROVE  LET A == {i \in DOMAIN s : t[s[i]] <= v}
               n == Links!Cardinality(A)
           IN n \in 0..Len(s) /\ A = 1..n
<1> DEFINE A == {i \in DOMAIN s : t[s[i]] <= v}
           N == Len(s)
           B == {i \in 1..N + 1 : i \notin A}
<1>1. N \in Nat /\ DOMAIN s = 1..N /\ \A i \in 1..N : t[s[i]] \in Int
  BY SeqFacts
<1>2. N + 1 \in B
  BY <1>1
<1>3. B \in SUBSET Nat /\ B # {}
  BY <1>1, <1>2
<1>4. PICK b \in B : \A i \in B : b <= i
  <2> HIDE DEF B
  <2> QED
    BY <1>3, LeastNat
<1>5. \A i, j \in 1..N : i <= j /\ j \in A => i \in A
  <2> SUFFICES ASSUME NEW i \in 1..N, NEW j \in 1..N, i <= j, j \in A PROVE i \in A
    OBVIOUS
  <2>1. t[s[i]] <= t[s[j]] /\ t[s[j]] <= v
    BY DEF Sorted
  <2> QED
    BY <1>1, <2>1
<1>6. A = 1..b - 1
  <2>1. b \in 1..N + 1 /\ b \notin A
    BY <1>4
  <2>2. ASSUME NEW i \in A PROVE i \in 1..b - 1
    <3>1. i \in 1..N
      BY <1>1
    <3> HIDE DEF A
    <3>2. ~(b <= i)
      <4> SUFFICES ASSUME b <= i PROVE FALSE
        OBVIOUS
      <4>1. b \in 1..N
        BY <1>1, <2>1, <3>1
      <4> QED
        BY <1>5, <2>1, <2>2, <3>1, <4>1
    <3> QED
      BY <1>1, <2>1, <3>1, <3>2
  <2>3. ASSUME NEW i \in 1..b - 1 PROVE i \in A
    <3>1. i \in 1..N + 1 /\ ~(b <= i)
      BY <1>1, <2>1
    <3>2. i \notin B
      BY <1>4, <3>1
    <3> QED
      BY <3>1, <3>2
  <2> QED
    BY <2>2, <2>3
<1>7. b - 1 \in 0..N
  BY <1>1, <1>4
<1> HIDE DEF A
<1>8. Links!Cardinality(A) = b - 1
  <2>1. Cardinality(1..b - 1) = IF 1 > b - 1 THEN 0 ELSE (b - 1) - 1 + 1
    BY <1>1, <1>7, FS_Interval
  <2> QED
    BY <1>1, <1>6, <1>7, <2>1, LinksCardinality
<1> QED
  BY <1>6, <1>7, <1>8 DEF A

(* The queues after the first m sleepers have woken up. *)
Awake(qs, m) ==
    With(With(qs, "sleep", Rest(qs["sleep"], m)), "ready", qs["ready"] \o Popped(qs["sleep"], m))

(* What the queues hold then. *)
LEMMA AwakeFacts ==
    ASSUME NEW qs \in Queues, NEW m \in 0..Len(qs["sleep"])
    PROVE  /\ Awake(qs, m) \in Queues
           /\ Awake(qs, m)["sleep"] = Rest(qs["sleep"], m)
           /\ Awake(qs, m)["ready"] = qs["ready"] \o Popped(qs["sleep"], m)
           /\ \A k \in Links!Queue \ {"sleep", "ready"} : Awake(qs, m)[k] = qs[k]
<1>1. "sleep" \in Links!Queue /\ "ready" \in Links!Queue
  BY DEF Links!Queue
<1>2. qs["sleep"] \in Seq(Proc) /\ qs["ready"] \in Seq(Proc) /\ DOMAIN qs = Links!Queue
  BY <1>1 DEF Queues
<1> DEFINE a == Rest(qs["sleep"], m)
           b == qs["ready"] \o Popped(qs["sleep"], m)
<1>3. a \in Seq(Proc) /\ b \in Seq(Proc)
  BY <1>2, RestFacts, ConcatProperties
<1>4. Awake(qs, m) = [[qs EXCEPT !["sleep"] = a] EXCEPT !["ready"] = b]
  BY DEF Awake, With
<1> HIDE DEF a, b
<1>5. /\ Awake(qs, m) \in Queues /\ Awake(qs, m)["sleep"] = a /\ Awake(qs, m)["ready"] = b
      /\ \A k \in Links!Queue \ {"sleep", "ready"} : Awake(qs, m)[k] = qs[k]
  BY <1>1, <1>3, <1>4 DEF Queues
<1> QED
  BY <1>5 DEF a, b

(* Moving one more. *)
LEMMA AwakeStep ==
    ASSUME NEW qs \in Queues, NEW m \in 0..Len(qs["sleep"]) - 1
    PROVE  LET rs == Awake(qs, m)
               p == qs["sleep"][m + 1]
               ps == With(rs, "sleep", Tail(rs["sleep"]))
           IN /\ rs["sleep"] # <<>> /\ Head(rs["sleep"]) = p
              /\ With(ps, "ready", Append(ps["ready"], p)) = Awake(qs, m + 1)
<1> DEFINE rs == Awake(qs, m)
           q == qs["sleep"]
           p == q[m + 1]
           ps == With(rs, "sleep", Tail(rs["sleep"]))
           vs == With(ps, "ready", Append(ps["ready"], p))
           ws == Awake(qs, m + 1)
<1>1. "sleep" \in Links!Queue /\ "ready" \in Links!Queue
  BY DEF Links!Queue
<1>2. q \in Seq(Proc) /\ qs["ready"] \in Seq(Proc)
  BY <1>1 DEF Queues
<1>3. m \in 0..Len(q) /\ m + 1 \in 0..Len(q) /\ m + 1 \in 1..Len(q) /\ Len(q) \in Nat
  BY <1>2, SeqFacts
<1>4. /\ Rest(q, m) # <<>> /\ Head(Rest(q, m)) = p /\ Tail(Rest(q, m)) = Rest(q, m + 1)
      /\ Popped(q, m + 1) = Append(Popped(q, m), p)
  BY <1>2, RestStep
<1>5. /\ rs \in Queues /\ rs["sleep"] = Rest(q, m) /\ rs["ready"] = qs["ready"] \o Popped(q, m)
      /\ \A k \in Links!Queue \ {"sleep", "ready"} : rs[k] = qs[k]
  BY <1>3, AwakeFacts
<1>6. /\ ws \in Queues /\ ws["sleep"] = Rest(q, m + 1) /\ ws["ready"] = qs["ready"] \o Popped(q, m + 1)
      /\ \A k \in Links!Queue \ {"sleep", "ready"} : ws[k] = qs[k]
  BY <1>3, AwakeFacts
<1> HIDE DEF rs, ws
<1>7. Append(rs["ready"], p) = ws["ready"]
  <2>1. p \in Proc /\ Popped(q, m) \in Seq(Proc)
    BY <1>2, <1>3, SeqFacts, RestFacts
  <2> DEFINE a == qs["ready"]
             b == Popped(q, m)
             c == Popped(q, m + 1)
  <2>2. a \in Seq(Proc) /\ b \in Seq(Proc) /\ c = Append(b, p) /\ rs["ready"] = a \o b /\ ws["ready"] = a \o c
    BY <1>2, <1>4, <1>5, <1>6, <2>1
  <2> HIDE DEF a, b, c, p, q
  <2>3. Append(a \o b, p) = a \o Append(b, p)
    <3>1. a \in Seq(Proc) /\ b \in Seq(Proc) /\ p \in Proc
      BY <2>1, <2>2
    <3> QED
      BY <3>1
  <2> QED
    BY <2>2, <2>3
<1>8. Tail(rs["sleep"]) = ws["sleep"]
  BY <1>4, <1>5, <1>6
<1>9. /\ DOMAIN rs = Links!Queue /\ DOMAIN ws = Links!Queue
      /\ ws = [k \in Links!Queue |-> ws[k]] /\ rs = [k \in Links!Queue |-> rs[k]]
  BY <1>5, <1>6 DEF Queues
<1> DEFINE x == Tail(rs["sleep"])
<1> HIDE DEF x, p
<1>10. ps = [k \in Links!Queue |-> IF k = "sleep" THEN x ELSE rs[k]]
  BY <1>1, <1>9 DEF With, x
<1> HIDE DEF ps
<1>11. ps["ready"] = rs["ready"]
  BY <1>1, <1>10
<1> DEFINE y == Append(ps["ready"], p)
<1> HIDE DEF y
<1>12. vs = [k \in Links!Queue |-> IF k = "ready" THEN y ELSE ps[k]]
  BY <1>1, <1>10 DEF With, y
<1> HIDE DEF vs
<1>13. y = ws["ready"] /\ x = ws["sleep"]
  BY <1>7, <1>8, <1>11 DEF x, y
<1>14. \A k \in Links!Queue : vs[k] = ws[k]
  BY <1>5, <1>6, <1>10, <1>12, <1>13
<1>15. vs = ws
  BY <1>9, <1>12, <1>14
<1> QED
  BY <1>4, <1>5, <1>15 DEF rs, ws, vs, ps, p

IsWaking(g, l, now) ==
    g = [i \in 0..Links!Cardinality(Proc) |-> IF i = 0 THEN l ELSE Links!WakeUpOne(g[i - 1], now)]

(* The loop has its turns. *)
LEMMA WakingExists ==
    ASSUME NEW l, NEW now
    PROVE  \E g : IsWaking(g, l, now)
<1> DEFINE n == Links!Cardinality(Proc)
           Turns(g, k) == g = [i \in 0..k |-> IF i = 0 THEN l ELSE Links!WakeUpOne(g[i - 1], now)]
           Ind == {k \in Nat : \E g : Turns(g, k)}
<1>1. 0 \in Ind
  <2> DEFINE g == [i \in 0..0 |-> l]
  <2>1. Turns(g, 0)
    OBVIOUS
  <2> QED
    BY <2>1
<1>2. ASSUME NEW k \in Nat, k \in Ind PROVE k + 1 \in Ind
  <2>1. PICK g : Turns(g, k)
    BY <1>2
  <2> DEFINE v == Links!WakeUpOne(g[k], now)
             h == [i \in 0..k + 1 |-> IF i = k + 1 THEN v ELSE g[i]]
  <2>2. \A i \in 0..k : g[i] = IF i = 0 THEN l ELSE Links!WakeUpOne(g[i - 1], now)
    <3> DEFINE w == [i \in 0..k |-> IF i = 0 THEN l ELSE Links!WakeUpOne(g[i - 1], now)]
    <3>1. \A i \in 0..k : w[i] = IF i = 0 THEN l ELSE Links!WakeUpOne(g[i - 1], now)
      OBVIOUS
    <3>2. g = w
      BY <2>1
    <3> HIDE DEF w
    <3> QED
      BY <3>1, <3>2
  <2>3. ASSUME NEW i \in 0..k + 1 PROVE h[i] = IF i = 0 THEN l ELSE Links!WakeUpOne(h[i - 1], now)
    <3>1. CASE i = k + 1
      <4>1. i # 0 /\ i - 1 = k /\ k \in 0..k + 1 /\ k # k + 1
        BY <3>1
      <4>2. h[k] = g[k] /\ h[i] = v
        BY <3>1, <4>1
      <4> HIDE DEF h
      <4> QED
        BY <4>1, <4>2
    <3>2. CASE i # k + 1
      <4>1. i \in 0..k /\ h[i] = g[i]
        BY <3>2
      <4>2. i # 0 => i - 1 \in 0..k + 1 /\ i - 1 # k + 1
        BY <4>1
      <4>3. i # 0 => h[i - 1] = g[i - 1]
        BY <4>2
      <4> HIDE DEF h
      <4> QED
        BY <2>2, <4>1, <4>3
    <3> QED
      BY <3>1, <3>2
  <2>4. h = [i \in 0..k + 1 |-> h[i]]
    OBVIOUS
  <2> HIDE DEF h
  <2>5. Turns(h, k + 1)
    BY <2>3, <2>4
  <2> QED
    BY <2>5
<1>3. n \in Ind
  <2> HIDE DEF Ind
  <2>1. n \in Nat
    BY ListsFacts, LinksCardinality
  <2> QED
    BY <1>1, <1>2, <2>1, NatSetInduction
<1>4. PICK g : Turns(g, n)
  BY <1>3
<1> QED
  BY <1>4 DEF IsWaking

(* One turn of the loop over the sleepers: m of them are awake, and there   *)
(* are n to wake up.                                                        *)
Wakes(qs, now, n) ==
    /\ n \in 0..Len(qs["sleep"])
    /\ \A i \in 1..Len(qs["sleep"]) : sleep_ticks[qs["sleep"][i]] <= now <=> i <= n

(* The turn wakes up one more, if there is one. *)
LEMMA WakeUpOneOk ==
    ASSUME NEW l, NEW qs \in Queues, NEW m, Threads(l, Awake(qs, m)), NEW now \in Int,
           sleep_ticks \in [Proc -> Int], NEW n, Wakes(qs, now, n), m \in 0..n
    PROVE  LET r == Links!WakeUpOne(l, now)
               k == IF m < n THEN m + 1 ELSE m
           IN /\ Threads(r, Awake(qs, k)) /\ Held(Awake(qs, k)) = Held(Awake(qs, m))
              /\ SameGlobal(l, r)
<1> DEFINE r == Links!WakeUpOne(l, now)
           q == qs["sleep"]
           rs == Awake(qs, m)
           N == Len(q)
           p == l.q["sleep"].top
<1>1. "sleep" \in Links!Queue /\ "ready" \in Links!Queue
  BY DEF Links!Queue
<1>2. /\ q \in Seq(Proc) /\ N \in Nat /\ n \in 0..N /\ m \in 0..N /\ m \in Nat /\ n \in Nat
      /\ \A i \in 1..N : q[i] \in Proc /\ sleep_ticks[q[i]] \in Int
      /\ \A i \in 1..N : sleep_ticks[q[i]] <= now <=> i <= n
  <2>1. q \in Seq(Proc)
    BY <1>1 DEF Queues
  <2>2. N \in Nat /\ \A i \in 1..N : q[i] \in Proc
    BY <2>1, SeqFacts
  <2>3. n \in 0..N /\ \A i \in 1..N : sleep_ticks[q[i]] <= now <=> i <= n
    BY DEF Wakes
  <2>4. m \in 0..N /\ m \in Nat /\ n \in Nat
    BY <2>2, <2>3
  <2> QED
    BY <2>1, <2>2, <2>3, <2>4
<1>3. r = IF p = Nil \/ sleep_ticks[p] > now THEN l ELSE Links!Push(Links!Pop(l, "sleep"), "ready", p)
  BY DEF Links!WakeUpOne
<1> HIDE DEF r
<1>4. CASE m < n
  <2>0. m \in 0..N - 1 /\ m + 1 \in 1..N /\ m + 1 <= n
    BY <1>2, <1>4
  <2> DEFINE ps == With(rs, "sleep", Tail(rs["sleep"]))
             a == Links!Pop(l, "sleep")
             x == q[m + 1]
             us == With(ps, "ready", Append(ps["ready"], x))
             b == Links!Push(a, "ready", x)
  <2>1. rs["sleep"] # <<>> /\ Head(rs["sleep"]) = x /\ us = Awake(qs, m + 1)
    BY <2>0, AwakeStep
  <2> HIDE DEF rs
  <2>2. /\ p = x /\ x \in Proc /\ x \in Held(rs)
        /\ Threads(a, ps) /\ Held(ps) = Held(rs) \ {x} /\ SameGlobal(l, a)
    <3>1. /\ p = Head(rs["sleep"]) /\ Head(rs["sleep"]) \in Proc
          /\ Threads(a, ps) /\ Held(ps) = Held(rs) \ {Head(rs["sleep"])} /\ Head(rs["sleep"]) \in Held(rs)
          /\ SameGlobal(l, a)
      BY <1>1, <2>1, PopThreads DEF rs
    <3> QED
      BY <2>1, <3>1
  <2>3. p # Nil /\ ~(sleep_ticks[p] > now)
    <3>1. sleep_ticks[x] <= now /\ sleep_ticks[x] \in Int
      BY <1>2, <2>0
    <3> QED
      BY <2>2, <3>1, ListsFacts
  <2>4. r = b
    BY <1>3, <2>2, <2>3
  <2> HIDE DEF ps, a, x
  <2>5. Threads(b, us) /\ Held(us) = Held(ps) \cup {x} /\ SameGlobal(a, b)
    BY <1>1, <2>2, PushThreads
  <2>6. Held(us) = Held(rs)
    BY <2>2, <2>5
  <2>7. SameGlobal(l, b)
    BY <2>2, <2>5 DEF SameGlobal
  <2>8. Threads(r, Awake(qs, m + 1)) /\ Held(Awake(qs, m + 1)) = Held(rs) /\ SameGlobal(l, r)
    BY <2>1, <2>4, <2>5, <2>6, <2>7
  <2> QED
    BY <1>4, <2>8 DEF rs, r
<1>5. CASE ~(m < n)
  <2>1. m = n
    BY <1>2, <1>5
  <2>2. p = Nil \/ sleep_ticks[p] > now
    <3>1. rs["sleep"] = Rest(q, m)
      BY <1>2, AwakeFacts
    <3>2. p = IF rs["sleep"] = <<>> THEN Nil ELSE rs["sleep"][1]
      BY <1>1 DEF Threads, Threaded
    <3>3. CASE m = N
      <4>1. Rest(q, m) = <<>>
        BY <1>2, <3>3, RestAll
      <4> QED
        BY <3>1, <3>2, <4>1
    <3>4. CASE m # N
      <4>1. m \in 0..N - 1 /\ m + 1 \in 1..N /\ ~(m + 1 <= n) /\ 1 \in 1..N - m
        BY <1>2, <2>1, <3>4
      <4>2. Rest(q, m) # <<>> /\ Rest(q, m)[1] = q[m + 1]
        BY <1>2, <4>1, RestStep, RestFacts
      <4>3. p = q[m + 1]
        BY <3>1, <3>2, <4>2
      <4>4. sleep_ticks[q[m + 1]] \in Int /\ ~(sleep_ticks[q[m + 1]] <= now)
        BY <1>2, <4>1
      <4> QED
        BY <4>3, <4>4
    <3> QED
      BY <3>3, <3>4
  <2>3. r = l
    BY <1>3, <2>2
  <2> QED
    BY <1>5, <2>3 DEF r, SameGlobal
<1> QED
  BY <1>4, <1>5

(* scheduler_switch wakes up those whose time has come. *)
LEMMA WakeUpOk ==
    ASSUME NEW l, NEW qs \in Queues, Threads(l, qs), NEW now \in Int,
           sleep_ticks \in [Proc -> Int], NEW n, Wakes(qs, now, n)
    PROVE  LET m == Links!WakeUp(l, now)
           IN Threads(m, Awake(qs, n)) /\ Held(Awake(qs, n)) = Held(qs) /\ SameGlobal(l, m)
<1> DEFINE m == Links!WakeUp(l, now)
           q == qs["sleep"]
           C == Links!Cardinality(Proc)
           turn == CHOOSE g : IsWaking(g, l, now)
           K(i) == IF i <= n THEN i ELSE n
           Good(i) == /\ Threads(turn[i], Awake(qs, K(i))) /\ Held(Awake(qs, K(i))) = Held(qs)
                      /\ SameGlobal(l, turn[i])
           Ind == {i \in Nat : i <= C => Good(i)}
<1>0. "sleep" \in Links!Queue /\ "ready" \in Links!Queue
  BY DEF Links!Queue
<1>1. C \in Nat /\ n \in 0..Len(q) /\ n \in Nat /\ n <= C /\ q \in Seq(Proc) /\ qs["ready"] \in Seq(Proc)
  <2>1. C = Cardinality(Proc) /\ C \in Nat
    BY ListsFacts, LinksCardinality
  <2>2. q \in Seq(Proc) /\ IsInjective(q) /\ qs["ready"] \in Seq(Proc)
    BY <1>0 DEF Threads, Queues, Once
  <2>3. Len(q) <= Cardinality(Proc) /\ Len(q) \in Nat
    BY <2>2, ShortEnough, SeqFacts
  <2>4. n \in 0..Len(q)
    BY DEF Wakes
  <2> QED
    BY <2>1, <2>2, <2>3, <2>4
<1>2. IsWaking(turn, l, now)
  BY WakingExists
<1>3. m = turn[C]
  BY Zenon DEF Links!WakeUp, IsWaking
<1> HIDE DEF turn, m
<1>4. turn[0] = l /\ \A i \in 0..C - 1 : turn[i + 1] = Links!WakeUpOne(turn[i], now)
  <2> HIDE DEF C
  <2>1. turn = [i \in 0..C |-> IF i = 0 THEN l ELSE Links!WakeUpOne(turn[i - 1], now)]
    BY <1>2 DEF IsWaking, C
  <2>2. \A i \in 0..C : turn[i] = IF i = 0 THEN l ELSE Links!WakeUpOne(turn[i - 1], now)
    <3> DEFINE w == [i \in 0..C |-> IF i = 0 THEN l ELSE Links!WakeUpOne(turn[i - 1], now)]
    <3>1. \A i \in 0..C : w[i] = IF i = 0 THEN l ELSE Links!WakeUpOne(turn[i - 1], now)
      OBVIOUS
    <3>2. turn = w
      BY <2>1
    <3> HIDE DEF w
    <3> QED
      BY <3>1, <3>2
  <2>3. ASSUME NEW i \in 0..C - 1 PROVE turn[i + 1] = Links!WakeUpOne(turn[i], now)
    <3>1. i + 1 \in 0..C /\ i + 1 # 0 /\ (i + 1) - 1 = i
      BY <1>1
    <3>2. turn[i + 1] = Links!WakeUpOne(turn[(i + 1) - 1], now)
      BY <2>2, <3>1
    <3> QED
      BY <3>1, <3>2
  <2>4. 0 \in 0..C
    BY <1>1
  <2> QED
    BY <2>2, <2>3, <2>4
<1> HIDE DEF C
<1>5. Awake(qs, 0) = qs
  <2>1. Rest(q, 0) = q /\ Popped(q, 0) = <<>>
    BY <1>1, RestAll
  <2>2. qs["ready"] \o <<>> = qs["ready"]
    BY <1>1
  <2>3. Awake(qs, 0) = With(With(qs, "sleep", q), "ready", qs["ready"])
    BY <2>1, <2>2 DEF Awake
  <2> QED
    BY <1>0, <2>3 DEF With, Queues
<1>6. 0 \in Ind
  <2>1. K(0) = 0
    BY <1>1
  <2> HIDE DEF K
  <2>2. Good(0)
    BY <1>4, <1>5, <2>1 DEF SameGlobal
  <2> QED
    BY <2>2
<1>7. ASSUME NEW i \in Nat, i \in Ind PROVE i + 1 \in Ind
  <2> SUFFICES ASSUME i + 1 <= C PROVE Good(i + 1)
    OBVIOUS
  <2>1. Good(i) /\ i \in 0..C - 1
    BY <1>1, <1>7
  <2>2. K(i) \in 0..n /\ K(i + 1) = IF K(i) < n THEN K(i) + 1 ELSE K(i)
    BY <1>1
  <2>3. turn[i + 1] = Links!WakeUpOne(turn[i], now)
    BY <1>4, <2>1
  <2> HIDE DEF K
  <2>4. /\ Threads(turn[i + 1], Awake(qs, K(i + 1))) /\ Held(Awake(qs, K(i + 1))) = Held(Awake(qs, K(i)))
        /\ SameGlobal(turn[i], turn[i + 1])
    BY <2>1, <2>2, <2>3, WakeUpOneOk
  <2> QED
    BY <2>1, <2>4 DEF SameGlobal
<1>8. Good(C)
  <2> HIDE DEF Ind
  <2>1. C \in Ind
    BY <1>1, <1>6, <1>7, NatSetInduction
  <2> QED
    BY <1>1, <2>1 DEF Ind
<1>9. K(C) = n
  BY <1>1
<1> HIDE DEF K
<1> QED
  BY <1>3, <1>8, <1>9 DEF m

-----------------------------------------------------------------------------
(* process_queue_sorted_push. *)

Insert(q, n, p) == SubSeq(q, 1, n) \o <<p>> \o SubSeq(q, n + 1, Len(q))

(* The sequence with p behind its first n elements. *)
LEMMA InsertFacts ==
    ASSUME NEW q \in Seq(Proc), NEW n \in 0..Len(q), NEW p \in Proc
    PROVE  /\ Insert(q, n, p) \in Seq(Proc) /\ Len(Insert(q, n, p)) = Len(q) + 1
           /\ \A i \in 1..Len(q) + 1 :
                Insert(q, n, p)[i] = IF i <= n THEN q[i] ELSE IF i = n + 1 THEN p ELSE q[i - 1]
<1> DEFINE N == Len(q)
           a == SubSeq(q, 1, n)
           b == SubSeq(q, n + 1, N)
           c == a \o <<p>>
           d == c \o b
<1>1. N \in Nat /\ n \in Nat /\ n <= N
  BY LenProperties
<1>2. /\ a \in Seq(Proc) /\ Len(a) = n /\ \A i \in 1..n : a[i] = q[i]
      /\ b \in Seq(Proc) /\ Len(b) = N - n /\ \A i \in 1..N - n : b[i] = q[n + i]
  BY RestFacts DEF Rest, Popped
<1> HIDE DEF a, b, N
<1>3. <<p>> \in Seq(Proc) /\ Len(<<p>>) = 1 /\ <<p>>[1] = p
  OBVIOUS
<1>4. c \in Seq(Proc) /\ Len(c) = n + 1 /\ \A i \in 1..n + 1 : c[i] = IF i <= n THEN a[i] ELSE p
  <2>1. /\ c \in Seq(Proc) /\ Len(c) = Len(a) + Len(<<p>>)
        /\ \A i \in 1..Len(a) + Len(<<p>>) : c[i] = IF i <= Len(a) THEN a[i] ELSE <<p>>[i - Len(a)]
    BY <1>2, <1>3, ConcatProperties
  <2>2. ASSUME NEW i \in 1..n + 1 PROVE c[i] = IF i <= n THEN a[i] ELSE p
    <3>1. i <= n \/ i - n = 1
      BY <1>1
    <3> QED
      BY <1>2, <1>3, <2>1, <3>1
  <2> QED
    BY <1>2, <1>3, <2>1, <2>2
<1> HIDE DEF c
<1>5. /\ d \in Seq(Proc) /\ Len(d) = (n + 1) + (N - n)
      /\ \A i \in 1..(n + 1) + (N - n) : d[i] = IF i <= n + 1 THEN c[i] ELSE b[i - (n + 1)]
  <2>1. /\ d \in Seq(Proc) /\ Len(d) = Len(c) + Len(b)
        /\ \A i \in 1..Len(c) + Len(b) : d[i] = IF i <= Len(c) THEN c[i] ELSE b[i - Len(c)]
    BY <1>2, <1>4, ConcatProperties
  <2> HIDE DEF d
  <2>2. Len(c) = n + 1 /\ Len(b) = N - n
    BY <1>2, <1>4
  <2> QED
    BY <2>1, <2>2
<1> HIDE DEF d
<1>6. (n + 1) + (N - n) = N + 1
  BY <1>1
<1>7. ASSUME NEW i \in 1..N + 1 PROVE d[i] = IF i <= n THEN q[i] ELSE IF i = n + 1 THEN p ELSE q[i - 1]
  <2>0. d[i] = IF i <= n + 1 THEN c[i] ELSE b[i - (n + 1)]
    BY <1>5, <1>6
  <2>1. CASE i <= n + 1
    <3>1. i \in 1..n + 1 /\ (i <= n => i \in 1..n) /\ (~(i <= n) => i = n + 1)
      BY <1>1, <2>1
    <3> QED
      BY <1>2, <1>4, <2>0, <2>1, <3>1
  <2>2. CASE ~(i <= n + 1)
    <3>1. i - (n + 1) \in 1..N - n /\ n + (i - (n + 1)) = i - 1 /\ ~(i <= n) /\ i # n + 1
      BY <1>1, <2>2
    <3>2. b[i - (n + 1)] = q[n + (i - (n + 1))]
      BY <1>2, <3>1
    <3> QED
      BY <2>0, <2>2, <3>1, <3>2
  <2> QED
    BY <2>1, <2>2
<1> QED
  BY <1>5, <1>6, <1>7 DEF d, c, a, b, N, Insert

(* It has p in addition, once. *)
LEMMA InsertOnce ==
    ASSUME NEW q \in Seq(Proc), IsInjective(q), NEW n \in 0..Len(q), NEW p \in Proc, p \notin Range(q)
    PROVE  /\ IsInjective(Insert(q, n, p))
           /\ Range(Insert(q, n, p)) = Range(q) \cup {p}
<1> DEFINE N == Len(q)
           s == Insert(q, n, p)
<1>1. N \in Nat /\ n \in Nat /\ n <= N /\ \A i \in 1..N : q[i] \in Range(q)
  BY SeqFacts
<1>2. /\ s \in Seq(Proc) /\ Len(s) = N + 1
      /\ \A i \in 1..N + 1 : s[i] = IF i <= n THEN q[i] ELSE IF i = n + 1 THEN p ELSE q[i - 1]
  BY InsertFacts
<1>3. DOMAIN s = 1..N + 1 /\ \A x \in Range(s) : \E i \in 1..N + 1 : s[i] = x
  BY <1>2, SeqFacts
<1>4. \A i, j \in 1..N : q[i] = q[j] => i = j
  BY Injective
<1> HIDE DEF N, s
<1>5. ASSUME NEW i \in 1..N + 1, i # n + 1
      PROVE  LET k == IF i <= n THEN i ELSE i - 1 IN k \in 1..N /\ s[i] = q[k]
  BY <1>1, <1>2, <1>5
<1>6. s[n + 1] = p /\ n + 1 \in 1..N + 1
  BY <1>1, <1>2
<1>7. IsInjective(s)
  <2> SUFFICES ASSUME NEW i \in 1..N + 1, NEW j \in 1..N + 1, s[i] = s[j] PROVE i = j
    BY <1>3 DEF IsInjective
  <2>1. CASE i = n + 1 /\ j # n + 1
    BY <1>1, <1>5, <1>6, <2>1
  <2>2. CASE j = n + 1 /\ i # n + 1
    BY <1>1, <1>5, <1>6, <2>2
  <2>3. CASE i # n + 1 /\ j # n + 1
    <3> DEFINE a == IF i <= n THEN i ELSE i - 1
               b == IF j <= n THEN j ELSE j - 1
    <3>1. a \in 1..N /\ b \in 1..N /\ q[a] = q[b]
      BY <1>5, <2>3
    <3>2. a = b => i = j
      BY <1>1, <2>3
    <3> HIDE DEF a, b
    <3> QED
      BY <1>4, <3>1, <3>2
  <2> QED
    BY <2>1, <2>2, <2>3
<1>8. ASSUME NEW x \in Range(s) PROVE x \in Range(q) \cup {p}
  <2>1. PICK i \in 1..N + 1 : s[i] = x
    BY <1>3
  <2> QED
    BY <1>1, <1>5, <1>6, <2>1
<1>9. ASSUME NEW x \in Range(q) PROVE x \in Range(s)
  <2>1. PICK j \in 1..N : q[j] = x
    BY SeqFacts DEF N
  <2> DEFINE i == IF j <= n THEN j ELSE j + 1
  <2>2. i \in 1..N + 1 /\ (i <= n => i = j) /\ (~(i <= n) => i # n + 1 /\ i - 1 = j)
    BY <1>1
  <2> HIDE DEF i
  <2>3. s[i] = x
    BY <1>2, <2>1, <2>2
  <2> QED
    BY <1>3, <2>2, <2>3 DEF Range
<1>10. p \in Range(s)
  BY <1>3, <1>6 DEF Range
<1> QED
  BY <1>7, <1>8, <1>9, <1>10 DEF s

(* It is sorted if p is put behind those below it. *)
LEMMA InsertSorted ==
    ASSUME NEW q \in Seq(Proc), NEW n \in 0..Len(q), NEW p \in Proc, NEW t \in [Proc -> Int], Sorted(q, t),
           \A i \in 1..Len(q) : t[q[i]] < t[p] <=> i <= n
    PROVE  Sorted(Insert(q, n, p), t)
<1> DEFINE N == Len(q)
           s == Insert(q, n, p)
<1>1. N \in Nat /\ n \in Nat /\ n <= N /\ (\A i \in 1..N : t[q[i]] \in Int) /\ t[p] \in Int
  BY SeqFacts
<1>2. /\ Len(s) = N + 1
      /\ \A i \in 1..N + 1 : s[i] = IF i <= n THEN q[i] ELSE IF i = n + 1 THEN p ELSE q[i - 1]
  BY InsertFacts
<1>3. \A i, j \in 1..N : i <= j => t[q[i]] <= t[q[j]]
  BY DEF Sorted
<1>4. \A i \in 1..N : t[q[i]] < t[p] <=> i <= n
  OBVIOUS
<1> HIDE DEF N, s
<1> SUFFICES ASSUME NEW i \in 1..N + 1, NEW j \in 1..N + 1, i <= j PROVE t[s[i]] <= t[s[j]]
  BY <1>2 DEF Sorted, s
<1> DEFINE a == IF i <= n THEN i ELSE i - 1
           b == IF j <= n THEN j ELSE j - 1
<1>5. i # n + 1 => a \in 1..N /\ s[i] = q[a] /\ (a <= n <=> i <= n)
  BY <1>1, <1>2
<1>6. j # n + 1 => b \in 1..N /\ s[j] = q[b] /\ (b <= n <=> j <= n)
  BY <1>1, <1>2
<1>7. i # n + 1 /\ j # n + 1 => a <= b
  BY <1>1
<1>8. i = n + 1 => s[i] = p
  BY <1>2
<1>9. j = n + 1 => s[j] = p
  BY <1>2
<1> HIDE DEF a, b
<1>10. CASE i = n + 1 /\ j = n + 1
  BY <1>1, <1>8, <1>9, <1>10
<1>11. CASE i = n + 1 /\ j # n + 1
  <2>1. ~(j <= n)
    BY <1>1, <1>11
  <2>2. ~(t[q[b]] < t[p]) /\ t[q[b]] \in Int
    BY <1>1, <1>4, <1>6, <1>11, <2>1
  <2> QED
    BY <1>1, <1>6, <1>8, <1>11, <2>2
<1>12. CASE i # n + 1 /\ j = n + 1
  <2>1. i <= n
    BY <1>1, <1>12
  <2>2. t[q[a]] < t[p] /\ t[q[a]] \in Int
    BY <1>1, <1>4, <1>5, <1>12, <2>1
  <2> QED
    BY <1>1, <1>5, <1>9, <1>12, <2>2
<1>13. CASE i # n + 1 /\ j # n + 1
  BY <1>3, <1>5, <1>6, <1>7, <1>13
<1> QED
  BY <1>10, <1>11, <1>12, <1>13

(* process_queue_sorted_push, on the fields: p comes behind the first n of  *)
(* the sleepers q.                                                          *)
Inserted(l, m, q, n, p) ==
    LET h == l.q["sleep"]
    IN /\ m \in Lists /\ SameGlobal(l, m)
       /\ m.q["sleep"] = [top |-> IF n = 0 THEN p ELSE h.top, bottom |-> IF n = Len(q) THEN p ELSE h.bottom,
                          size |-> h.size + 1]
       /\ \A j \in Links!Queue \ {"sleep"} : m.q[j] = l.q[j]
       /\ m.next[p] = IF n = Len(q) THEN Nil ELSE q[n + 1]
       /\ n # 0 => m.next[q[n]] = p
       /\ \A x \in Proc \ {p} : (n # 0 => x # q[n]) => m.next[x] = l.next[x]

(* Those that wake up before p are the first n. *)
Ahead(q, t, p, n) == \A i \in 1..Len(q) : t[q[i]] < t[p] <=> i <= n

(* The links and the head of the sleep queue are stored. *)
IsStored(l, m, nx, hd) == m = [l EXCEPT !.next = nx, !.q = [l.q EXCEPT !["sleep"] = hd]]

(* A head with another top. *)
LEMMA HeadTop ==
    ASSUME NEW h \in QueueHead, NEW p, NEW v
    PROVE  [h EXCEPT !.top = p, !.size = v] = [top |-> p, bottom |-> h.bottom, size |-> v]
<1> DEFINE a == [h EXCEPT !.top = p]
<1>1. a = [top |-> p, bottom |-> h.bottom, size |-> h.size]
  BY DEF QueueHead
<1> HIDE DEF a
<1>2. [a EXCEPT !.size = v] = [top |-> p, bottom |-> h.bottom, size |-> v]
  BY <1>1
<1> QED
  BY <1>2 DEF a

(* A head with another bottom. *)
LEMMA HeadBottom ==
    ASSUME NEW h \in QueueHead, NEW p, NEW v
    PROVE  [h EXCEPT !.bottom = p, !.size = v] = [top |-> h.top, bottom |-> p, size |-> v]
<1> DEFINE a == [h EXCEPT !.bottom = p]
<1>1. a = [top |-> h.top, bottom |-> p, size |-> h.size]
  BY DEF QueueHead
<1> HIDE DEF a
<1>2. [a EXCEPT !.size = v] = [top |-> h.top, bottom |-> p, size |-> v]
  BY <1>1
<1> QED
  BY <1>2 DEF a

(* Nothing else changes. *)
LEMMA Stored ==
    ASSUME NEW l \in Lists, NEW nx \in [Proc -> Block], NEW hd \in QueueHead, NEW m, IsStored(l, m, nx, hd)
    PROVE  /\ m \in Lists /\ SameGlobal(l, m) /\ m.next = nx /\ m.q["sleep"] = hd
           /\ \A j \in Links!Queue \ {"sleep"} : m.q[j] = l.q[j]
<1> DEFINE Q == [l.q EXCEPT !["sleep"] = hd]
<1>1. "sleep" \in Links!Queue
  BY DEF Links!Queue
<1>2. /\ l.next \in [Proc -> Block] /\ l.gnext \in [Proc -> Block] /\ l.gprev \in [Proc -> Block]
      /\ l.q \in [Links!Queue -> QueueHead] /\ l.gbottom \in Proc /\ l.gsize \in Int
  BY ListsFields
<1>3. Q \in [Links!Queue -> QueueHead] /\ Q["sleep"] = hd /\ \A j \in Links!Queue \ {"sleep"} : Q[j] = l.q[j]
  BY <1>1, <1>2
<1> HIDE DEF Q
<1>4. m = [next |-> nx, q |-> Q, gnext |-> l.gnext, gprev |-> l.gprev, gbottom |-> l.gbottom, gsize |-> l.gsize]
  BY DEF IsStored, Lists, Q
<1>5. m \in Lists
  BY <1>2, <1>3, <1>4 DEF Lists
<1>6. m.next = nx /\ m.q = Q /\ SameGlobal(l, m)
  <2>1. /\ m.next = nx /\ m.q = Q /\ m.gnext = l.gnext /\ m.gprev = l.gprev
        /\ m.gbottom = l.gbottom /\ m.gsize = l.gsize
    BY <1>4
  <2> QED
    BY <2>1 DEF SameGlobal
<1> QED
  BY <1>3, <1>5, <1>6

(* Of those in front, the ones that wake up earlier. *)
LEMMA AheadFacts ==
    ASSUME NEW q \in Seq(Proc), NEW n \in 0..Len(q), NEW p, NEW t,
           Ahead(q, t, p, n)
    PROVE  LET ahead == {i \in DOMAIN q : \A j \in 1..i : t[q[j]] < t[p]}
           IN ahead = 1..n /\ (n # 0 => Links!Max(ahead) = n)
<1> DEFINE N == Len(q)
           ahead == {i \in DOMAIN q : \A j \in 1..i : t[q[j]] < t[p]}
<1>1. N \in Nat /\ n \in 0..N /\ DOMAIN q = 1..N
  BY SeqFacts
<1>2. \A i \in 1..N : t[q[i]] < t[p] <=> i <= n
  BY DEF Ahead
<1> HIDE DEF N
<1>3. ASSUME NEW i \in 1..N PROVE (\A j \in 1..i : t[q[j]] < t[p]) <=> i <= n
  <2>1. ASSUME i <= n, NEW j \in 1..i PROVE t[q[j]] < t[p]
    <3>1. j \in 1..N /\ j <= n
      BY <1>1, <2>1
    <3> QED
      BY <1>2, <3>1
  <2>2. ASSUME \A j \in 1..i : t[q[j]] < t[p] PROVE i <= n
    <3>1. i \in 1..i
      BY <1>1
    <3>2. t[q[i]] < t[p]
      BY <2>2, <3>1
    <3> QED
      BY <1>2, <3>2
  <2> QED
    BY <2>1, <2>2
<1>4. ahead = 1..n
  <2>1. \A i \in 1..n : i \in 1..N /\ i <= n
    BY <1>1
  <2>2. \A i \in 1..N : i <= n => i \in 1..n
    BY <1>1
  <2>3. ASSUME NEW i \in ahead PROVE i \in 1..n
    BY <1>1, <1>3, <2>2
  <2>4. ASSUME NEW i \in 1..n PROVE i \in ahead
    BY <1>1, <1>3, <2>1
  <2> QED
    BY <2>3, <2>4
<1> HIDE DEF ahead
<1>5. n # 0 => Max(1..n) = n
  <2> SUFFICES ASSUME n # 0 PROVE Max(1..n) = n
    OBVIOUS
  <2>1. n \in 1..n /\ \A y \in 1..n : n >= y
    BY <1>1
  <2>2. Max(1..n) \in 1..n /\ \A y \in 1..n : Max(1..n) >= y
    BY <2>1 DEF Max
  <2>3. Max(1..n) >= n
    BY <2>1, <2>2
  <2> QED
    BY <1>1, <2>2, <2>3
<1> QED
  BY <1>4, <1>5, LinksMax DEF ahead

(* process_queue_sorted_push stores just this, in its three cases. *)
LEMMA SortedPushFields ==
    ASSUME NEW l, NEW qs, Threads(l, qs), NEW p \in Proc, p \notin Held(qs), NEW t,
           NEW n \in 0..Len(qs["sleep"]),
           Ahead(qs["sleep"], t, p, n)
    PROVE  Inserted(l, Links!SortedPush(l, "sleep", p, t), qs["sleep"], n, p)
<1> DEFINE q == qs["sleep"]
           N == Len(q)
           h == l.q["sleep"]
           m == Links!SortedPush(l, "sleep", p, t)
           ahead == {i \in DOMAIN q : \A j \in 1..i : t[q[j]] < t[p]}
<1>1. "sleep" \in Links!Queue
  BY DEF Links!Queue
<1>2. /\ l \in Lists /\ q \in Seq(Proc) /\ IsInjective(q) /\ Threaded(l.next, h, q) /\ Range(q) \subseteq Held(qs)
      /\ h \in QueueHead /\ l.next \in [Proc -> Block]
  BY <1>1 DEF Threads, Queues, Once, Held, Lists
<1>3. Links!Walk(l.next, h.top) = q
  BY <1>1, QueuesAgreeWith
<1>4. N \in Nat /\ (q = <<>> <=> N = 0) /\ \A i \in 1..N : q[i] \in Proc /\ q[i] \in Range(q)
  BY <1>2, SeqFacts
<1>5. ahead = 1..n /\ (n # 0 => Links!Max(ahead) = n)
  BY <1>2, AheadFacts
<1>6. /\ h.size = N /\ h.top = (IF N = 0 THEN Nil ELSE q[1]) /\ (N # 0 => h.bottom = q[N] /\ l.next[q[N]] = Nil)
      /\ \A i \in 1..N - 1 : l.next[q[i]] = q[i + 1]
  BY <1>2, <1>4 DEF Threaded
<1>7. h = [top |-> h.top, bottom |-> h.bottom, size |-> h.size] /\ h.top \in Block /\ h.bottom \in Block /\ h.size \in Int
  BY <1>2 DEF QueueHead
<1>8. m = CASE q = << >> ->
              [l EXCEPT !.next[p] = Nil, !.q["sleep"] = [top |-> p, bottom |-> p, size |-> h.size + 1]]
         [] q # << >> /\ ahead = {} ->
              [l EXCEPT !.next[p] = h.top, !.q["sleep"] = [h EXCEPT !.top = p, !.size = h.size + 1]]
         [] OTHER ->
              [l EXCEPT !.next = [@ EXCEPT ![p] = l.next[q[Links!Max(ahead)]], ![q[Links!Max(ahead)]] = p],
                        !.q["sleep"] = [h EXCEPT !.bottom = IF l.next[q[Links!Max(ahead)]] = Nil THEN p ELSE @,
                                           !.size = h.size + 1]]
  BY <1>3, Zenon DEF Links!SortedPush
<1> HIDE DEF m, ahead, q, h, N
<1>9. CASE N = 0
  <2> DEFINE nx == [l.next EXCEPT ![p] = Nil]
             hd == [top |-> p, bottom |-> p, size |-> h.size + 1]
  <2>1. m = [l EXCEPT !.next[p] = Nil, !.q["sleep"] = [top |-> p, bottom |-> p, size |-> h.size + 1]]
    BY <1>4, <1>8, <1>9
  <2>2. IsStored(l, m, nx, hd)
    BY <1>2, <2>1 DEF Lists, IsStored
  <2>3. nx \in [Proc -> Block] /\ hd \in QueueHead /\ nx[p] = Nil /\ \A x \in Proc \ {p} : nx[x] = l.next[x]
    BY <1>2, <1>7 DEF Block, QueueHead
  <2> HIDE DEF nx, hd
  <2>4. /\ m \in Lists /\ SameGlobal(l, m) /\ m.next = nx /\ m.q["sleep"] = hd
        /\ \A j \in Links!Queue \ {"sleep"} : m.q[j] = l.q[j]
    BY <1>2, <2>2, <2>3, Stored
  <2>5. n = 0
    BY <1>9 DEF N, q
  <2>6. Inserted(l, m, q, n, p)
    BY <1>9, <2>3, <2>4, <2>5 DEF Inserted, hd, N, h
  <2> QED
    BY <2>6 DEF m, q
<1>10. CASE N # 0 /\ n = 0
  <2> DEFINE nx == [l.next EXCEPT ![p] = h.top]
             hd == [h EXCEPT !.top = p, !.size = h.size + 1]
  <2>0. ahead = {}
    BY <1>5, <1>10
  <2>1. m = [l EXCEPT !.next[p] = h.top, !.q["sleep"] = [h EXCEPT !.top = p, !.size = h.size + 1]]
    BY <1>4, <1>8, <1>10, <2>0
  <2>2. IsStored(l, m, nx, hd)
    BY <1>2, <2>1 DEF Lists, IsStored
  <2>3. nx \in [Proc -> Block] /\ nx[p] = h.top /\ \A x \in Proc \ {p} : nx[x] = l.next[x]
    BY <1>2, <1>7 DEF Block
  <2>3a. hd = [top |-> p, bottom |-> h.bottom, size |-> h.size + 1]
    BY <1>2, HeadTop, Zenon
  <2> HIDE DEF nx, hd
  <2>3b. hd \in QueueHead
    BY <1>7, <2>3a DEF QueueHead, Block
  <2>4. /\ m \in Lists /\ SameGlobal(l, m) /\ m.next = nx /\ m.q["sleep"] = hd
        /\ \A j \in Links!Queue \ {"sleep"} : m.q[j] = l.q[j]
    BY <1>2, <2>2, <2>3, <2>3b, Stored
  <2>5. h.top = q[n + 1] /\ n # N
    BY <1>6, <1>10
  <2>6. Inserted(l, m, q, n, p)
    BY <1>10, <2>3, <2>3a, <2>4, <2>5 DEF Inserted, N, h
  <2> QED
    BY <2>6 DEF m, q
<1>11. CASE n # 0
  <2>0. n \in 1..N /\ N # 0 /\ n \in Int /\ (n # N => n \in 1..N - 1)
    BY <1>4, <1>11 DEF N, q
  <2> DEFINE prev == q[n]
             after == l.next[prev]
             nx == [l.next EXCEPT ![p] = after, ![prev] = p]
             hd == [h EXCEPT !.bottom = IF after = Nil THEN p ELSE h.bottom, !.size = h.size + 1]
  <2>1. ahead # {} /\ Links!Max(ahead) = n
    <3>1. n \in 1..n
      BY <1>11, <2>0
    <3> QED
      BY <1>5, <1>11, <3>1
  <2>2. m = [l EXCEPT !.next = [@ EXCEPT ![p] = l.next[q[n]], ![q[n]] = p],
                      !.q["sleep"] = [h EXCEPT !.bottom = IF l.next[q[n]] = Nil THEN p ELSE @,
                                               !.size = h.size + 1]]
    BY <1>4, <1>8, <2>0, <2>1
  <2>3. IsStored(l, m, nx, hd)
    BY <1>2, <2>2 DEF Lists, IsStored
  <2>4. prev \in Proc /\ prev # p
    BY <1>2, <1>4, <2>0
  <2>5. after = (IF n = N THEN Nil ELSE q[n + 1]) /\ (after = Nil <=> n = N) /\ after \in Block
    <3>1. n = N => after = Nil
      BY <1>6, <2>0
    <3>2. n # N => after = q[n + 1] /\ q[n + 1] \in Proc
      <4>1. n # N => n + 1 \in 1..N
        BY <1>4, <2>0
      <4> QED
        BY <1>4, <1>6, <2>0, <4>1
    <3> QED
      BY <3>1, <3>2, ListsFacts DEF Block
  <2> HIDE DEF prev, after
  <2>6. /\ nx \in [Proc -> Block] /\ nx[p] = after /\ nx[prev] = p
        /\ \A x \in Proc \ {p, prev} : nx[x] = l.next[x]
    BY <1>2, <2>4, <2>5 DEF Block
  <2>7. hd = [top |-> h.top, bottom |-> IF after = Nil THEN p ELSE h.bottom, size |-> h.size + 1]
    BY <1>2, HeadBottom, Zenon
  <2> HIDE DEF nx, hd
  <2>8. hd \in QueueHead
    BY <1>7, <2>7 DEF QueueHead, Block
  <2>9. /\ m \in Lists /\ SameGlobal(l, m) /\ m.next = nx /\ m.q["sleep"] = hd
        /\ \A j \in Links!Queue \ {"sleep"} : m.q[j] = l.q[j]
    BY <1>2, <2>3, <2>6, <2>8, Stored
  <2>10. Inserted(l, m, q, n, p)
    <3>1. m.q["sleep"] = [top |-> IF n = 0 THEN p ELSE h.top, bottom |-> IF n = N THEN p ELSE h.bottom,
                          size |-> h.size + 1]
      BY <1>11, <2>5, <2>7, <2>9
    <3>2. m.next[p] = (IF n = N THEN Nil ELSE q[n + 1]) /\ m.next[q[n]] = p
      BY <2>5, <2>6, <2>9 DEF prev
    <3>3. \A x \in Proc \ {p} : x # q[n] => m.next[x] = l.next[x]
      BY <2>6, <2>9 DEF prev
    <3> QED
      BY <1>11, <2>9, <3>1, <3>2, <3>3 DEF Inserted, N, h
  <2> QED
    BY <2>10 DEF m, q
<1> QED
  BY <1>9, <1>10, <1>11

(* process_queue_sorted_push *)
LEMMA SortedPushOk ==
    ASSUME NEW l, NEW qs, Threads(l, qs), NEW p \in Proc, p \notin Held(qs), NEW t,
           NEW n \in 0..Len(qs["sleep"]),
           Ahead(qs["sleep"], t, p, n)
    PROVE  LET m == Links!SortedPush(l, "sleep", p, t)
               rs == With(qs, "sleep", Insert(qs["sleep"], n, p))
           IN Threads(m, rs) /\ Held(rs) = Held(qs) \cup {p} /\ SameGlobal(l, m)
<1> DEFINE q == qs["sleep"]
           N == Len(q)
           h == l.q["sleep"]
           m == Links!SortedPush(l, "sleep", p, t)
           s == Insert(q, n, p)
<1>1. "sleep" \in Links!Queue
  BY DEF Links!Queue
<1>2. /\ l \in Lists /\ q \in Seq(Proc) /\ IsInjective(q) /\ Threaded(l.next, h, q) /\ Range(q) \subseteq Held(qs)
      /\ Held(qs) \subseteq Proc
  <2>1. l \in Lists /\ q \in Seq(Proc) /\ IsInjective(q) /\ Threaded(l.next, h, q) /\ Range(q) \subseteq Held(qs)
    BY <1>1 DEF Threads, Queues, Once, Held
  <2>2. \A k \in Links!Queue : qs[k] \in Seq(Proc)
    BY DEF Threads, Queues
  <2>3. Held(qs) \subseteq Proc
    BY <2>2, SeqFacts DEF Held
  <2> QED
    BY <2>1, <2>3
<1>3. Inserted(l, m, q, n, p)
  BY SortedPushFields
<1>4. /\ N \in Nat /\ n \in 0..N /\ n \in Int /\ (q = <<>> <=> N = 0)
      /\ \A i \in 1..N : q[i] \in Proc /\ q[i] \in Range(q) /\ q[i] # p
  BY <1>2, SeqFacts
<1>5. /\ h.size = N /\ h.top = (IF N = 0 THEN Nil ELSE q[1]) /\ (N # 0 => h.bottom = q[N] /\ l.next[q[N]] = Nil)
      /\ \A i \in 1..N - 1 : l.next[q[i]] = q[i + 1]
  BY <1>2, <1>4 DEF Threaded
<1>6. /\ s \in Seq(Proc) /\ Len(s) = N + 1
      /\ \A i \in 1..N + 1 : s[i] = IF i <= n THEN q[i] ELSE IF i = n + 1 THEN p ELSE q[i - 1]
  <2>1. n \in 0..Len(q)
    OBVIOUS
  <2> HIDE DEF q
  <2> QED
    BY <1>2, <2>1, InsertFacts
<1>7. IsInjective(s) /\ Range(s) = Range(q) \cup {p}
  BY <1>2, InsertOnce
<1>8. \A i, j \in 1..N : q[i] = q[j] => i = j
  BY <1>2, Injective
<1>9. /\ m \in Lists /\ SameGlobal(l, m)
      /\ m.q["sleep"] = [top |-> IF n = 0 THEN p ELSE h.top, bottom |-> IF n = N THEN p ELSE h.bottom,
                         size |-> h.size + 1]
      /\ \A j \in Links!Queue \ {"sleep"} : m.q[j] = l.q[j]
      /\ m.next[p] = IF n = N THEN Nil ELSE q[n + 1]
      /\ n # 0 => m.next[q[n]] = p
      /\ \A x \in Proc \ {p} : (n # 0 => x # q[n]) => m.next[x] = l.next[x]
  BY <1>3, Zenon DEF Inserted
<1> HIDE DEF m, s, N, q, h
<1>10. s # <<>> /\ s[1] = (IF n = 0 THEN p ELSE q[1]) /\ s[N + 1] = (IF n = N THEN p ELSE q[N])
  <2>1. 1 \in 1..N + 1 /\ N + 1 \in 1..N + 1 /\ (N + 1) - 1 = N /\ ~(N + 1 <= n)
    BY <1>4
  <2>2. s[1] = IF 1 <= n THEN q[1] ELSE IF 1 = n + 1 THEN p ELSE q[1 - 1]
    BY <1>6, <2>1
  <2>3. s[N + 1] = IF N + 1 <= n THEN q[N + 1] ELSE IF N + 1 = n + 1 THEN p ELSE q[(N + 1) - 1]
    BY <1>6, <2>1
  <2>4. s # <<>>
    BY <1>4, <1>6, EmptySeq
  <2> QED
    BY <1>4, <2>1, <2>2, <2>3, <2>4
<1>11. m.next[s[N + 1]] = Nil
  <2>1. CASE n = N
    BY <1>9, <1>10, <2>1
  <2>2. CASE n # N
    <3>1. N \in 1..N /\ N # 0 /\ (n # 0 => n \in 1..N)
      BY <1>4, <2>2
    <3>2. q[N] \in Proc \ {p} /\ (n # 0 => q[N] # q[n])
      BY <1>4, <1>8, <2>2, <3>1
    <3> QED
      BY <1>5, <1>9, <1>10, <2>2, <3>1, <3>2
  <2> QED
    BY <2>1, <2>2
<1>12. ASSUME NEW i \in 1..N PROVE m.next[s[i]] = s[i + 1]
  <2>0. i \in 1..N + 1 /\ i + 1 \in 1..N + 1 /\ (i + 1) - 1 = i
    BY <1>4
  <2>1. s[i] = IF i <= n THEN q[i] ELSE IF i = n + 1 THEN p ELSE q[i - 1]
    BY <1>6, <2>0
  <2>2. s[i + 1] = IF i + 1 <= n THEN q[i + 1] ELSE IF i + 1 = n + 1 THEN p ELSE q[i]
    BY <1>6, <2>0
  <2>3. CASE i < n
    <3>1. s[i] = q[i] /\ s[i + 1] = q[i + 1] /\ i \in 1..N - 1 /\ n \in 1..N /\ i # n /\ n # 0
      BY <1>4, <2>1, <2>2, <2>3
    <3>2. q[i] \in Proc \ {p} /\ q[i] # q[n]
      BY <1>4, <1>8, <3>1
    <3> QED
      BY <1>5, <1>9, <3>1, <3>2
  <2>4. CASE i = n
    <3>1. s[i] = q[n] /\ s[i + 1] = p /\ n # 0
      BY <1>4, <2>1, <2>2, <2>4
    <3> QED
      BY <1>9, <3>1
  <2>5. CASE i = n + 1
    <3>1. s[i] = p /\ s[i + 1] = q[n + 1] /\ n # N
      BY <1>4, <2>1, <2>2, <2>5
    <3> QED
      BY <1>9, <3>1
  <2>6. CASE i > n + 1
    <3> DEFINE j == i - 1
    <3>1. s[i] = q[j] /\ s[i + 1] = q[j + 1] /\ j \in 1..N - 1 /\ j \in 1..N /\ j # n /\ (n # 0 => n \in 1..N)
      BY <1>4, <2>1, <2>2, <2>6
    <3> HIDE DEF j
    <3>2. q[j] \in Proc \ {p} /\ (n # 0 => q[j] # q[n])
      BY <1>4, <1>8, <3>1
    <3>3. m.next[q[j]] = q[j + 1]
      BY <1>5, <1>9, <3>1, <3>2
    <3> QED
      BY <3>1, <3>3
  <2> QED
    BY <1>4, <2>3, <2>4, <2>5, <2>6
<1>13. Threaded(m.next, m.q["sleep"], s)
  <2>1. /\ m.q["sleep"].size = N + 1 /\ m.q["sleep"].top = IF n = 0 THEN p ELSE h.top
        /\ m.q["sleep"].bottom = IF n = N THEN p ELSE h.bottom
    BY <1>5, <1>9
  <2>2. m.q["sleep"].top = s[1] /\ m.q["sleep"].bottom = s[N + 1]
    BY <1>4, <1>5, <1>10, <2>1
  <2>3. Len(s) - 1 = N
    BY <1>4, <1>6
  <2> QED
    BY <1>6, <1>10, <1>11, <1>12, <2>1, <2>2, <2>3 DEF Threaded
<1>14. CanHold(s, qs, "sleep")
  BY <1>6, <1>7 DEF CanHold, q
<1>15. Untouched(l, m, qs, "sleep")
  <2>1. ASSUME NEW x \in Held(qs) \ Range(q) PROVE m.next[x] = l.next[x]
    <3>1. x \in Proc \ {p} /\ (n # 0 => n \in 1..N)
      BY <1>2, <1>4
    <3>2. n # 0 => x # q[n]
      BY <1>4, <3>1
    <3> QED
      BY <1>9, <3>1, <3>2
  <2> QED
    BY <1>9, <2>1 DEF Untouched, q
<1>16. Threads(m, With(qs, "sleep", s)) /\ Held(With(qs, "sleep", s)) = (Held(qs) \ Range(q)) \cup Range(s)
  BY <1>1, <1>9, <1>13, <1>14, <1>15, ThreadsUpdate DEF q
<1>17. (Held(qs) \ Range(q)) \cup Range(s) = Held(qs) \cup {p}
  BY <1>2, <1>7
<1> QED
  BY <1>9, <1>16, <1>17 DEF m, s, q

-----------------------------------------------------------------------------
(* The scheduler's operations. *)

(* The idle process runs or is ready. *)
IdleStays(qs) == \A k \in Links!Queue \ {"ready"} : Idle \notin Range(qs[k])

(* Every live process is in one queue when nobody runs ... *)
Parked(l, qs, ev, t) ==
    /\ Threads(l, qs) /\ Global(l, ev)
    /\ Held(qs) = Range(ev) /\ IdleStays(qs)
    /\ t \in [Proc -> Nat] /\ Sorted(qs["sleep"], t)

(* ... and in one or none when c does. *)
Running(l, qs, ev, c, t) ==
    /\ Threads(l, qs) /\ Global(l, ev)
    /\ c \notin Held(qs) /\ Held(qs) \cup {c} = Range(ev) /\ IdleStays(qs)
    /\ t \in [Proc -> Nat] /\ Sorted(qs["sleep"], t)

(* The other queues are as before. *)
LEMMA WithFacts ==
    ASSUME NEW qs \in Queues, NEW k \in Links!Queue, NEW s
    PROVE  /\ With(qs, k, s)[k] = s
           /\ \A j \in Links!Queue \ {k} : With(qs, k, s)[j] = qs[j]
BY DEF With, Queues

(* The queues by name. *)
LEMMA QueueNames ==
    /\ "ready" \in Links!Queue /\ "sleep" \in Links!Queue /\ "wait" \in Links!Queue /\ "delete" \in Links!Queue
    /\ "sleep" # "ready" /\ "wait" # "ready" /\ "delete" # "ready" /\ "wait" # "sleep" /\ "delete" # "sleep"
BY DEF Links!Queue

(* scheduler_add_process *)
LEMMA AddOk ==
    ASSUME NEW l, NEW qs, NEW ev, NEW c, NEW t, Running(l, qs, ev, c, t), NEW p \in Proc \ Range(ev)
    PROVE  Running(Links!Push(Links!GlobalPush(l, p), "ready", p),
                   With(qs, "ready", Append(qs["ready"], p)), Append(ev, p), c, t)
<1> DEFINE a == Links!GlobalPush(l, p)
           m == Links!Push(a, "ready", p)
           rs == With(qs, "ready", Append(qs["ready"], p))
           ew == Append(ev, p)
<1>1. /\ Threads(l, qs) /\ Global(l, ev) /\ c \notin Held(qs) /\ Held(qs) \cup {c} = Range(ev)
      /\ IdleStays(qs) /\ t \in [Proc -> Nat] /\ Sorted(qs["sleep"], t)
  BY DEF Running
<1>2. l \in Lists /\ qs \in Queues /\ ev \in Seq(Proc) /\ IsInjective(ev)
  BY <1>1 DEF Threads, Global
<1>3. a \in Lists /\ Global(a, ew) /\ a.next = l.next /\ a.q = l.q
  BY <1>1, <1>2, GlobalPushOk
<1> HIDE DEF a
<1>4. Threads(a, qs)
  BY <1>1, <1>3, ThreadsSame
<1>5. p \in Proc /\ p \notin Held(qs) /\ p # c
  BY <1>1
<1>6. Threads(m, rs) /\ Held(rs) = Held(qs) \cup {p} /\ SameGlobal(a, m)
  BY <1>4, <1>5, QueueNames, PushThreads
<1> HIDE DEF m
<1>7. Global(m, ew)
  BY <1>3, <1>6, GlobalSame
<1>8. Range(ew) = Range(ev) \cup {p}
  BY <1>2, <1>5, AppendNew
<1>9. rs["sleep"] = qs["sleep"] /\ \A j \in Links!Queue \ {"ready"} : rs[j] = qs[j]
  BY <1>2, QueueNames, WithFacts
<1> HIDE DEF rs, ew
<1>10. IdleStays(rs)
  BY <1>1, <1>9 DEF IdleStays
<1>11. c \notin Held(rs) /\ Held(rs) \cup {c} = Range(ew)
  BY <1>1, <1>5, <1>6, <1>8
<1>12. Running(m, rs, ew, c, t)
  BY <1>1, <1>6, <1>7, <1>9, <1>10, <1>11 DEF Running
<1> QED
  BY <1>12 DEF m, a, rs, ew

(* The running process is put into a queue. *)
LEMMA ParkOk ==
    ASSUME NEW l, NEW qs, NEW ev, NEW c, NEW t, Running(l, qs, ev, c, t),
           NEW k \in Links!Queue \ {"sleep"}, k = "ready" \/ c # Idle
    PROVE  Parked(Links!Push(l, k, c), With(qs, k, Append(qs[k], c)), ev, t)
<1> DEFINE m == Links!Push(l, k, c)
           rs == With(qs, k, Append(qs[k], c))
<1>1. /\ Threads(l, qs) /\ Global(l, ev) /\ c \notin Held(qs) /\ Held(qs) \cup {c} = Range(ev)
      /\ IdleStays(qs) /\ t \in [Proc -> Nat] /\ Sorted(qs["sleep"], t)
  BY DEF Running
<1>2. l \in Lists /\ qs \in Queues /\ ev \in Seq(Proc)
  BY <1>1 DEF Threads, Global
<1>3. c \in Proc
  BY <1>1, <1>2, SeqFacts
<1>4. Threads(m, rs) /\ Held(rs) = Held(qs) \cup {c} /\ SameGlobal(l, m)
  BY <1>1, <1>3, PushThreads
<1>5. Global(m, ev)
  BY <1>1, <1>4, GlobalSame
<1>6. rs[k] = Append(qs[k], c) /\ \A j \in Links!Queue \ {k} : rs[j] = qs[j]
  <2>1. k \in Links!Queue
    OBVIOUS
  <2> DEFINE s == Append(qs[k], c)
  <2> HIDE DEF s
  <2>2. With(qs, k, s)[k] = s /\ \A j \in Links!Queue \ {k} : With(qs, k, s)[j] = qs[j]
    BY <1>2, <2>1, WithFacts
  <2> QED
    BY <2>2 DEF s
<1>7. rs["sleep"] = qs["sleep"]
  BY <1>6, QueueNames
<1>8. ASSUME NEW j \in Links!Queue \ {"ready"} PROVE Idle \notin Range(rs[j])
  <2>1. CASE j # k
    BY <1>1, <1>6, <2>1 DEF IdleStays
  <2>2. CASE j = k
    <3>1. qs[k] \in Seq(Proc) /\ IsInjective(qs[k]) /\ Range(qs[k]) \subseteq Held(qs)
      BY <1>1 DEF Threads, Queues, Once, Held
    <3>2. Range(rs[k]) = Range(qs[k]) \cup {c}
      BY <1>1, <1>3, <1>6, <3>1, AppendNew
    <3>3. Idle \notin Range(qs[k])
      BY <1>1, <2>2 DEF IdleStays
    <3> QED
      BY <2>2, <3>2, <3>3
  <2> QED
    BY <2>1, <2>2
<1> HIDE DEF m, rs
<1>9. IdleStays(rs)
  BY <1>8 DEF IdleStays
<1>10. Parked(m, rs, ev, t)
  BY <1>1, <1>4, <1>5, <1>7, <1>9 DEF Parked
<1> QED
  BY <1>10 DEF m, rs

(* scheduler_to_next_process: there is a process to run, as the idle        *)
(* process is ready.                                                        *)
LEMMA NextOk ==
    ASSUME NEW l, NEW qs, NEW ev, NEW t, Parked(l, qs, ev, t)
    PROVE  Running(Links!Pop(l, "ready"), With(qs, "ready", Tail(qs["ready"])), ev, l.q["ready"].top, t)
<1> DEFINE m == Links!Pop(l, "ready")
           rs == With(qs, "ready", Tail(qs["ready"]))
           c == l.q["ready"].top
<1>1. /\ Threads(l, qs) /\ Global(l, ev) /\ Held(qs) = Range(ev) /\ IdleStays(qs)
      /\ t \in [Proc -> Nat] /\ Sorted(qs["sleep"], t)
  BY DEF Parked
<1>2. qs \in Queues /\ ev \in Seq(Proc) /\ ev # <<>> /\ ev[1] = Idle
  BY <1>1 DEF Threads, Global
<1>3. qs["ready"] # <<>>
  <2>1. Idle \in Range(ev)
    <3>1. Len(ev) \in Nat /\ Len(ev) # 0 /\ \A i \in 1..Len(ev) : ev[i] \in Range(ev)
      BY <1>2, SeqFacts
    <3>2. 1 \in 1..Len(ev)
      BY <3>1
    <3> QED
      BY <1>2, <3>1, <3>2
  <2>2. PICK k \in Links!Queue : Idle \in Range(qs[k])
    BY <1>1, <2>1 DEF Held
  <2>3. k = "ready"
    BY <1>1, <2>2 DEF IdleStays
  <2> QED
    BY <2>2, <2>3 DEF Range
<1>4. /\ Threads(m, rs) /\ Held(rs) = Held(qs) \ {c} /\ c \in Held(qs) /\ SameGlobal(l, m)
  <2>1. /\ c = Head(qs["ready"]) /\ Threads(m, rs) /\ Held(rs) = Held(qs) \ {Head(qs["ready"])}
        /\ Head(qs["ready"]) \in Held(qs) /\ SameGlobal(l, m)
    BY <1>1, <1>3, QueueNames, PopThreads
  <2> QED
    BY <2>1
<1>5. Global(m, ev)
  BY <1>1, <1>4, GlobalSame
<1>6. rs["sleep"] = qs["sleep"] /\ \A j \in Links!Queue \ {"ready"} : rs[j] = qs[j]
  BY <1>2, QueueNames, WithFacts
<1> HIDE DEF m, rs, c
<1>7. IdleStays(rs)
  BY <1>1, <1>6 DEF IdleStays
<1>8. c \notin Held(rs) /\ Held(rs) \cup {c} = Range(ev)
  BY <1>1, <1>4
<1>9. Running(m, rs, ev, c, t)
  BY <1>1, <1>4, <1>5, <1>6, <1>7, <1>8 DEF Running
<1> QED
  BY <1>9 DEF m, rs, c

(* semaphore_release *)
LEMMA ReleaseOk ==
    ASSUME NEW l, NEW qs, NEW ev, NEW c, NEW t, Running(l, qs, ev, c, t), qs["wait"] # <<>>
    PROVE  LET p == l.q["wait"].top
               ps == With(qs, "wait", Tail(qs["wait"]))
           IN /\ p = Head(qs["wait"])
              /\ Running(Links!Push(Links!Pop(l, "wait"), "ready", p), With(ps, "ready", Append(ps["ready"], p)), ev, c, t)
<1> DEFINE p == l.q["wait"].top
           ps == With(qs, "wait", Tail(qs["wait"]))
           rs == With(ps, "ready", Append(ps["ready"], p))
           a == Links!Pop(l, "wait")
           m == Links!Push(a, "ready", p)
<1>1. /\ Threads(l, qs) /\ Global(l, ev) /\ c \notin Held(qs) /\ Held(qs) \cup {c} = Range(ev)
      /\ IdleStays(qs) /\ t \in [Proc -> Nat] /\ Sorted(qs["sleep"], t)
  BY DEF Running
<1>2. qs \in Queues
  BY <1>1 DEF Threads
<1>3. /\ p = Head(qs["wait"]) /\ p \in Proc /\ p \in Held(qs)
      /\ Threads(a, ps) /\ Held(ps) = Held(qs) \ {p} /\ SameGlobal(l, a)
  <2>1. /\ p = Head(qs["wait"]) /\ Head(qs["wait"]) \in Proc /\ Threads(a, ps)
        /\ Held(ps) = Held(qs) \ {Head(qs["wait"])} /\ Head(qs["wait"]) \in Held(qs) /\ SameGlobal(l, a)
    BY <1>1, QueueNames, PopThreads
  <2> QED
    BY <2>1
<1>4. ps["wait"] = Tail(qs["wait"]) /\ \A j \in Links!Queue \ {"wait"} : ps[j] = qs[j]
  BY <1>2, QueueNames, WithFacts
<1>5. Range(Tail(qs["wait"])) \subseteq Range(qs["wait"])
  <2>1. qs["wait"] \in Seq(Proc)
    BY <1>2, QueueNames DEF Queues
  <2> DEFINE w == qs["wait"]
  <2>2. w \in Seq(Proc) /\ w # <<>>
    BY <2>1
  <2> HIDE DEF w
  <2>3. Tail(w) \in Seq(Proc) /\ Len(Tail(w)) = Len(w) - 1 /\ \A i \in 1..Len(Tail(w)) : Tail(w)[i] = w[i + 1]
    BY <2>2, HeadTailProperties
  <2>4. Len(w) \in Nat /\ \A i \in 1..Len(w) : w[i] \in Range(w)
    BY <2>2, SeqFacts
  <2>5. ASSUME NEW x \in Range(Tail(w)) PROVE x \in Range(w)
    <3>1. PICK i \in 1..Len(Tail(w)) : x = Tail(w)[i]
      <4> DEFINE v == Tail(w)
      <4>1. v \in Seq(Proc) /\ x \in Range(v)
        BY <2>3
      <4> HIDE DEF v
      <4>2. \E i \in 1..Len(v) : v[i] = x
        BY <4>1, SeqFacts
      <4> QED
        BY <4>2 DEF v
    <3>2. i + 1 \in 1..Len(w)
      BY <2>3, <2>4
    <3> QED
      BY <2>3, <2>4, <3>1, <3>2
  <2> QED
    BY <2>5 DEF w
<1> HIDE DEF ps, a, p
<1>6. Threads(m, rs) /\ Held(rs) = Held(ps) \cup {p} /\ SameGlobal(a, m)
  BY <1>3, QueueNames, PushThreads
<1>7. ps \in Queues
  BY <1>3 DEF Threads
<1>8. rs["sleep"] = ps["sleep"] /\ \A j \in Links!Queue \ {"ready"} : rs[j] = ps[j]
  BY <1>7, QueueNames, WithFacts
<1> HIDE DEF rs, m
<1>9. Global(m, ev)
  <2>1. Global(a, ev)
    BY <1>1, <1>3, GlobalSame
  <2> QED
    BY <1>6, <2>1, GlobalSame
<1>10. IdleStays(rs)
  BY <1>1, <1>4, <1>5, <1>8 DEF IdleStays
<1>11. c \notin Held(rs) /\ Held(rs) \cup {c} = Range(ev)
  BY <1>1, <1>3, <1>6
<1>12. rs["sleep"] = qs["sleep"]
  BY <1>4, <1>8, QueueNames
<1>13. Running(m, rs, ev, c, t)
  BY <1>1, <1>6, <1>9, <1>10, <1>11, <1>12 DEF Running
<1> QED
  BY <1>3, <1>13 DEF m, rs, ps, a, p

(* scheduler_set_sleep: the sleepers that wake up before the one that goes  *)
(* to sleep are the first ones.                                             *)
LEMMA EarlierFirst ==
    ASSUME NEW q \in Seq(Proc), NEW u \in [Proc -> Nat], Sorted(q, u), NEW c \in Proc
    PROVE  LET n == Links!Cardinality({i \in DOMAIN q : u[q[i]] < u[c]})
           IN n \in 0..Len(q) /\ Ahead(q, u, c, n)
<1> DEFINE A == {i \in DOMAIN q : u[q[i]] < u[c]}
           v == u[c] - 1
           B == {i \in DOMAIN q : u[q[i]] <= v}
           n == Links!Cardinality(B)
<1>1. Len(q) \in Nat /\ DOMAIN q = 1..Len(q) /\ \A i \in 1..Len(q) : q[i] \in Proc
  BY SeqFacts
<1>2. u \in [Proc -> Int] /\ u[c] \in Int /\ v \in Int /\ \A i \in 1..Len(q) : u[q[i]] \in Int
  BY <1>1
<1>3. \A i \in DOMAIN q : u[q[i]] <= v <=> u[q[i]] < u[c]
  BY <1>1, <1>2
<1>4. A = B
  BY <1>3
<1>5. n \in 0..Len(q) /\ B = 1..n
  <2> HIDE DEF v
  <2> QED
    BY <1>2, SortedPrefix
<1> HIDE DEF v, A, B, n
<1>6. ASSUME NEW i \in 1..Len(q) PROVE u[q[i]] < u[c] <=> i <= n
  <2>1. i \in B <=> i \in 1..n
    BY <1>5
  <2>2. i \in 1..n <=> i <= n
    BY <1>5
  <2>3. i \in A <=> u[q[i]] < u[c]
    BY <1>1 DEF A
  <2> QED
    BY <1>4, <2>1, <2>2, <2>3
<1>7. Ahead(q, u, c, n)
  BY <1>6 DEF Ahead
<1> QED
  BY <1>4, <1>5, <1>7 DEF A, n

(* scheduler_set_sleep sorts the running process into the sleep queue. *)
LEMMA SleepOk ==
    ASSUME NEW l, NEW qs, NEW ev, NEW c, NEW t, Running(l, qs, ev, c, t), c # Idle, NEW at \in Nat
    PROVE  LET q == qs["sleep"]
               u == [t EXCEPT ![c] = at]
               n == Links!Cardinality({i \in DOMAIN q : u[q[i]] < at})
           IN Parked(Links!SortedPush(l, "sleep", c, u), With(qs, "sleep", Insert(q, n, c)), ev, u)
<1> DEFINE q == qs["sleep"]
           u == [t EXCEPT ![c] = at]
           n == Links!Cardinality({i \in DOMAIN q : u[q[i]] < at})
           m == Links!SortedPush(l, "sleep", c, u)
           s == Insert(q, n, c)
           rs == With(qs, "sleep", s)
<1>1. /\ Threads(l, qs) /\ Global(l, ev) /\ c \notin Held(qs) /\ Held(qs) \cup {c} = Range(ev)
      /\ IdleStays(qs) /\ t \in [Proc -> Nat] /\ Sorted(q, t)
  BY DEF Running
<1>2. qs \in Queues /\ ev \in Seq(Proc) /\ q \in Seq(Proc) /\ IsInjective(q) /\ Range(q) \subseteq Held(qs)
  BY <1>1, QueueNames DEF Threads, Global, Queues, Once, Held
<1>3. c \in Proc /\ c \notin Range(q)
  BY <1>1, <1>2, SeqFacts
<1>4. u \in [Proc -> Nat] /\ u[c] = at /\ \A x \in Proc \ {c} : u[x] = t[x]
  BY <1>1, <1>3
<1>5. \A i \in 1..Len(q) : u[q[i]] = t[q[i]]
  <2>1. \A i \in 1..Len(q) : q[i] \in Proc /\ q[i] \in Range(q)
    BY <1>2, SeqFacts
  <2> HIDE DEF u
  <2> QED
    BY <1>3, <1>4, <2>1
<1> DEFINE k == Links!Cardinality({i \in DOMAIN q : u[q[i]] < u[c]})
<1>a. n = k
  BY <1>4
<1> HIDE DEF u, n
<1>6. Sorted(q, u)
  BY <1>1, <1>5 DEF Sorted
<1>7. n \in 0..Len(q) /\ Ahead(q, u, c, n)
  <2>1. k \in 0..Len(q) /\ Ahead(q, u, c, k)
    <3> HIDE DEF q
    <3> QED
      BY <1>2, <1>3, <1>4, <1>6, EarlierFirst
  <2> HIDE DEF k
  <2> QED
    BY <1>a, <2>1
<1> HIDE DEF k
<1>8. Threads(m, rs) /\ Held(rs) = Held(qs) \cup {c} /\ SameGlobal(l, m)
  BY <1>1, <1>3, <1>7, SortedPushOk
<1>9. Global(m, ev)
  BY <1>1, <1>8, GlobalSame
<1>10. IsInjective(s) /\ Range(s) = Range(q) \cup {c}
  <2> HIDE DEF q
  <2> QED
    BY <1>2, <1>3, <1>7, InsertOnce
<1>11. Sorted(s, u)
  <2>1. \A i \in 1..Len(q) : u[q[i]] < u[c] <=> i <= n
    BY <1>7 DEF Ahead
  <2>2. u \in [Proc -> Int]
    BY <1>4
  <2> HIDE DEF q
  <2> QED
    BY <1>2, <1>3, <1>6, <1>7, <2>1, <2>2, InsertSorted
<1> HIDE DEF s, m
<1>12. rs["sleep"] = s /\ \A j \in Links!Queue \ {"sleep"} : rs[j] = qs[j]
  BY <1>2, QueueNames, WithFacts
<1> HIDE DEF rs
<1>13. IdleStays(rs)
  <2>1. Idle \notin Range(q)
    BY <1>1, QueueNames DEF IdleStays
  <2> HIDE DEF q
  <2> QED
    BY <1>1, <1>10, <1>12, <2>1 DEF IdleStays
<1>14. Parked(m, rs, ev, u)
  BY <1>1, <1>4, <1>8, <1>9, <1>11, <1>12, <1>13 DEF Parked
<1> QED
  BY <1>14 DEF m, rs, s, n, u, q

(* The queues once those to be deleted are gone. *)
LEMMA EmptiedHeld ==
    ASSUME NEW qs \in Queues, Once(qs), NEW k \in Links!Queue
    PROVE  Held(With(qs, k, <<>>)) = Held(qs) \ Range(qs[k])
<1> DEFINE rs == With(qs, k, <<>>)
           none == <<>>
<1>1. rs[k] = none /\ \A j \in Links!Queue \ {k} : rs[j] = qs[j]
  BY DEF With, Queues
<1>2. Range(none) = {}
  BY DEF Range
<1>3. \A j \in Links!Queue \ {k} : Range(qs[j]) \cap Range(qs[k]) = {}
  BY DEF Once
<1> HIDE DEF rs, none
<1>4. ASSUME NEW x \in Held(rs) PROVE x \in Held(qs) \ Range(qs[k])
  <2>1. PICK j \in Links!Queue : x \in Range(rs[j])
    BY DEF Held
  <2>2. j # k
    BY <1>1, <1>2, <2>1
  <2> QED
    BY <1>1, <1>3, <2>1, <2>2 DEF Held
<1>5. ASSUME NEW x \in Held(qs) \ Range(qs[k]) PROVE x \in Held(rs)
  <2>1. PICK j \in Links!Queue : x \in Range(qs[j])
    BY DEF Held
  <2>2. j # k
    BY <2>1
  <2> QED
    BY <1>1, <2>1, <2>2 DEF Held
<1>6. Held(rs) = Held(qs) \ Range(qs[k])
  BY <1>4, <1>5
<1> QED
  BY <1>6 DEF rs, none

(* Those that sleep on do so in order, with the times they had. *)
LEMMA SleepOn ==
    ASSUME NEW q \in Seq(Proc), IsInjective(q), NEW t \in [Proc -> Nat], Sorted(q, t), NEW n \in 0..Len(q)
    PROVE  LET u == [p \in Proc |-> IF p \in Range(Popped(q, n)) THEN 0 ELSE t[p]]
           IN /\ u \in [Proc -> Nat] /\ Sorted(Rest(q, n), u)
              /\ Range(Rest(q, n)) \subseteq Range(q)
<1> DEFINE u == [p \in Proc |-> IF p \in Range(Popped(q, n)) THEN 0 ELSE t[p]]
           r == Rest(q, n)
           w == Popped(q, n)
           N == Len(q)
<1>1. N \in Nat /\ n \in 0..N /\ n \in Nat /\ \A i \in 1..N : q[i] \in Proc /\ q[i] \in Range(q)
  BY SeqFacts
<1>2. /\ r \in Seq(Proc) /\ Len(r) = N - n /\ \A j \in 1..N - n : r[j] = q[n + j]
      /\ w \in Seq(Proc) /\ Len(w) = n /\ \A j \in 1..n : w[j] = q[j]
  BY RestFacts
<1>3. u \in [Proc -> Nat] /\ \A p \in Proc \ Range(w) : u[p] = t[p]
  OBVIOUS
<1>4. \A i, j \in 1..N : (q[i] = q[j] => i = j) /\ (i <= j => t[q[i]] <= t[q[j]])
  BY Injective DEF Sorted
<1> HIDE DEF u, r, w, N
<1>5. ASSUME NEW j \in 1..N - n PROVE n + j \in 1..N /\ q[n + j] \notin Range(w) /\ u[r[j]] = t[q[n + j]]
  <2>1. n + j \in 1..N
    BY <1>1
  <2>2. ASSUME q[n + j] \in Range(w) PROVE FALSE
    <3>1. PICK i \in 1..n : w[i] = q[n + j]
      BY <1>2, <2>2, SeqFacts
    <3>2. i \in 1..N /\ i # n + j
      BY <1>1
    <3>3. q[i] = q[n + j]
      BY <1>2, <3>1
    <3> QED
      BY <1>4, <2>1, <3>2, <3>3
  <2> QED
    BY <1>1, <1>2, <1>3, <2>1, <2>2
<1>6. Sorted(r, u)
  <2> SUFFICES ASSUME NEW i \in 1..N - n, NEW j \in 1..N - n, i <= j PROVE u[r[i]] <= u[r[j]]
    BY <1>2 DEF Sorted
  <2>1. n + i \in 1..N /\ n + j \in 1..N /\ n + i <= n + j
    BY <1>1
  <2>2. t[q[n + i]] <= t[q[n + j]]
    BY <1>4, <2>1
  <2> QED
    BY <1>5, <2>2
<1>7. ASSUME NEW x \in Range(r) PROVE x \in Range(q)
  <2>1. PICK j \in 1..N - n : r[j] = x
    BY <1>2, SeqFacts
  <2> QED
    BY <1>1, <1>2, <1>5, <2>1
<1> QED
  BY <1>3, <1>6, <1>7 DEF u, r, w

(* scheduler_switch deletes, then wakes up; the running process runs on. *)
LEMMA TickOk ==
    ASSUME NEW l, NEW qs, NEW ev, NEW c, Running(l, qs, ev, c, sleep_ticks), NEW now \in Nat
    PROVE  LET reaped == Links!Reap(l)
               q == qs["sleep"]
               n == Links!Cardinality({i \in DOMAIN q : sleep_ticks[q[i]] <= now})
               m == IF reaped.q["sleep"].size > 0 THEN Links!WakeUp(reaped, now) ELSE reaped
               u == [p \in Proc |-> IF p \in Range(Popped(q, n)) THEN 0 ELSE sleep_ticks[p]]
           IN Running(m, Awake(With(qs, "delete", <<>>), n), Links!Remaining(ev, Range(qs["delete"])), c, u)
<1> DEFINE reaped == Links!Reap(l)
           q == qs["sleep"]
           d == qs["delete"]
           A == {i \in DOMAIN q : sleep_ticks[q[i]] <= now}
           n == Links!Cardinality(A)
           m == IF reaped.q["sleep"].size > 0 THEN Links!WakeUp(reaped, now) ELSE reaped
           u == [p \in Proc |-> IF p \in Range(Popped(q, n)) THEN 0 ELSE sleep_ticks[p]]
           ds == With(qs, "delete", <<>>)
           rs == Awake(ds, n)
           ew == Links!Remaining(ev, Range(d))
<1>1. /\ Threads(l, qs) /\ Global(l, ev) /\ c \notin Held(qs) /\ Held(qs) \cup {c} = Range(ev)
      /\ IdleStays(qs) /\ sleep_ticks \in [Proc -> Nat] /\ Sorted(q, sleep_ticks)
  BY DEF Running
<1>2. /\ qs \in Queues /\ Once(qs) /\ ev \in Seq(Proc) /\ IsInjective(ev) /\ q \in Seq(Proc) /\ IsInjective(q)
      /\ Range(q) \subseteq Held(qs) /\ Range(d) \subseteq Held(qs)
  BY <1>1, QueueNames DEF Threads, Global, Queues, Once, Held
<1>3. Idle \notin Range(d) /\ Idle \notin Range(q)
  BY <1>1, QueueNames DEF IdleStays
<1>4. Threads(reaped, ds) /\ Global(reaped, ew)
  <2>1. Range(qs["delete"]) \subseteq Range(ev) \ {Idle}
    BY <1>1, <1>2, <1>3
  <2> QED
    BY <1>1, <2>1, ReapOk
<1>5. Range(ew) = Range(ev) \ Range(d)
  BY <1>2, RemainingFacts
<1>6. Held(ds) = Held(qs) \ Range(d)
  BY <1>2, QueueNames, EmptiedHeld
<1>7. ds["delete"] = <<>> /\ \A j \in Links!Queue \ {"delete"} : ds[j] = qs[j]
  <2> DEFINE none == <<>>
  <2> HIDE DEF none
  <2>1. With(qs, "delete", none)["delete"] = none /\ \A j \in Links!Queue \ {"delete"} : With(qs, "delete", none)[j] = qs[j]
    BY <1>2, QueueNames, WithFacts
  <2> QED
    BY <2>1 DEF none
<1>8. ds \in Queues
  BY <1>4 DEF Threads
<1> HIDE DEF ds, ew, reaped
<1>9. ds["sleep"] = q
  BY <1>7, QueueNames
<1>10. n \in 0..Len(q) /\ A = 1..n /\ sleep_ticks \in [Proc -> Int]
  <2>1. sleep_ticks \in [Proc -> Int] /\ now \in Int
    BY <1>1
  <2> HIDE DEF q
  <2>2. n \in 0..Len(q) /\ A = 1..n
    BY <1>1, <1>2, <2>1, SortedPrefix
  <2> QED
    BY <2>1, <2>2
<1>11. u \in [Proc -> Nat] /\ Sorted(Rest(q, n), u) /\ Range(Rest(q, n)) \subseteq Range(q)
  <2>1. n \in 0..Len(q)
    BY <1>10
  <2> HIDE DEF q, n
  <2> QED
    BY <1>1, <1>2, <2>1, SleepOn
<1>12. Wakes(ds, now, n)
  <2>1. \A i \in 1..Len(q) : sleep_ticks[q[i]] <= now <=> i <= n
    <3>1. DOMAIN q = 1..Len(q)
      BY <1>2, SeqFacts
    <3>2. ASSUME NEW i \in 1..Len(q) PROVE sleep_ticks[q[i]] <= now <=> i <= n
      <4>1. i \in A <=> sleep_ticks[q[i]] <= now
        BY <3>1
      <4> HIDE DEF A, n
      <4>2. i \in 1..n <=> i <= n
        BY <1>10
      <4> QED
        BY <1>10, <4>1, <4>2
    <3> QED
      BY <3>2
  <2> HIDE DEF n, q
  <2> QED
    BY <1>9, <1>10, <2>1 DEF Wakes
<1> HIDE DEF n, A, u
<1>13. Threads(m, rs) /\ Held(rs) = Held(ds) /\ SameGlobal(reaped, m)
  <2>1. CASE reaped.q["sleep"].size > 0
    <3>1. m = Links!WakeUp(reaped, now)
      BY <2>1
    <3>2. now \in Int
      OBVIOUS
    <3> HIDE DEF m
    <3> QED
      BY <1>4, <1>8, <1>10, <1>12, <3>1, <3>2, WakeUpOk
  <2>2. CASE ~(reaped.q["sleep"].size > 0)
    <3>1. m = reaped
      BY <2>2
    <3>2. reaped.q["sleep"].size = Len(q) /\ Len(q) \in Nat
      BY <1>2, <1>4, <1>9, QueueNames, SeqFacts DEF Threads, Threaded
    <3>3. n = 0
      BY <1>10, <2>2, <3>2
    <3>4. Awake(ds, 0) = ds
      <4> DEFINE a == ds["sleep"]
                 b == ds["ready"]
      <4>1. a \in Seq(Proc) /\ b \in Seq(Proc)
        BY <1>8, QueueNames DEF Queues
      <4> HIDE DEF a, b
      <4>2. Rest(a, 0) = a /\ Popped(a, 0) = <<>>
        BY <4>1, RestAll
      <4>3. b \o <<>> = b
        BY <4>1
      <4>4. Awake(ds, 0) = With(With(ds, "sleep", ds["sleep"]), "ready", ds["ready"])
        BY <4>2, <4>3 DEF Awake, a, b
      <4> QED
        BY <1>8, <4>4, QueueNames DEF With, Queues
    <3> QED
      BY <1>4, <3>1, <3>3, <3>4 DEF SameGlobal
  <2> QED
    BY <2>1, <2>2
<1>14. Global(m, ew)
  BY <1>4, <1>13, GlobalSame
<1>15. rs["sleep"] = Rest(q, n) /\ \A j \in Links!Queue \ {"sleep", "ready"} : rs[j] = ds[j]
  <2>1. n \in 0..Len(ds["sleep"])
    BY <1>9, <1>10
  <2> HIDE DEF q
  <2> QED
    BY <1>8, <1>9, <2>1, AwakeFacts
<1> HIDE DEF rs, m
<1>16. IdleStays(rs)
  <2>1. ASSUME NEW j \in Links!Queue \ {"ready"} PROVE Idle \notin Range(rs[j])
    <3>1. CASE j = "sleep"
      BY <1>3, <1>11, <1>15, <3>1
    <3>2. CASE j = "delete"
      <4> DEFINE none == <<>>
      <4>1. Range(none) = {}
        BY DEF Range
      <4>2. rs[j] = none
        BY <1>7, <1>15, <3>2, QueueNames
      <4> QED
        BY <4>1, <4>2
    <3>3. CASE j # "sleep" /\ j # "delete"
      BY <1>1, <1>7, <1>15, <3>3 DEF IdleStays
    <3> QED
      BY <3>1, <3>2, <3>3
  <2> QED
    BY <2>1 DEF IdleStays
<1>17. c \notin Held(rs) /\ Held(rs) \cup {c} = Range(ew)
  <2> HIDE DEF q, d
  <2> QED
    BY <1>1, <1>2, <1>5, <1>6, <1>13
<1>18. Running(m, rs, ew, c, u)
  BY <1>11, <1>13, <1>14, <1>15, <1>16, <1>17 DEF Running
<1> QED
  BY <1>18 DEF m, rs, ew, u, n, A, ds, q, d, reaped

-----------------------------------------------------------------------------
(* The invariant. *)

(* The ready queue once kmain's push has become the bottom. *)
Finished(l, a) == [l EXCEPT !.q["ready"].bottom = a, !.q["ready"].size = @ + 1]

(* The inductive invariant. *)
ListsInv ==
    /\ global_sleep_ticks \in Nat
    /\ adding = Nil => Running(lists, queued, everyone, cur, sleep_ticks)
    /\ adding # Nil =>
         /\ lists \in Lists /\ cur = Kmain
         /\ Running(Finished(lists, adding), With(queued, "ready", Append(queued["ready"], adding)),
                    everyone, cur, sleep_ticks)

ReadyHead(l, m, b, v) ==
    m = [next |-> l.next, q |-> [l.q EXCEPT !["ready"] = [top |-> l.q["ready"].top, bottom |-> b, size |-> v]],
         gnext |-> l.gnext, gprev |-> l.gprev, gbottom |-> l.gbottom, gsize |-> l.gsize]

HeadStored(l, m, b, v) ==
    /\ m \in Lists /\ SameGlobal(l, m) /\ m.next = l.next
    /\ m.q = [l.q EXCEPT !["ready"] = [top |-> l.q["ready"].top, bottom |-> b, size |-> v]]

(* Two stores to the head of the ready queue, on the fields. *)
LEMMA ReadyHeadFacts ==
    ASSUME NEW l \in Lists, NEW m, NEW b \in Block, NEW v \in Int, ReadyHead(l, m, b, v)
    PROVE  HeadStored(l, m, b, v)
<1> DEFINE hd == [top |-> l.q["ready"].top, bottom |-> b, size |-> v]
           Q == [l.q EXCEPT !["ready"] = hd]
<1>1. /\ l.next \in [Proc -> Block] /\ l.gnext \in [Proc -> Block] /\ l.gprev \in [Proc -> Block]
      /\ l.q \in [Links!Queue -> QueueHead] /\ l.gbottom \in Proc /\ l.gsize \in Int
  BY ListsFields
<1>2. hd \in QueueHead
  <2>1. l.q["ready"] \in QueueHead
    BY <1>1, QueueNames
  <2>2. l.q["ready"].top \in Block
    BY <2>1 DEF QueueHead
  <2> QED
    BY <2>2 DEF QueueHead
<1> HIDE DEF hd
<1>3. Q \in [Links!Queue -> QueueHead]
  BY <1>1, <1>2
<1> HIDE DEF Q
<1>4. m = [next |-> l.next, q |-> Q, gnext |-> l.gnext, gprev |-> l.gprev, gbottom |-> l.gbottom, gsize |-> l.gsize]
  BY DEF ReadyHead, Q, hd
<1>5. m \in Lists
  BY <1>1, <1>3, <1>4 DEF Lists
<1>6. /\ m.next = l.next /\ m.q = Q /\ m.gnext = l.gnext /\ m.gprev = l.gprev
      /\ m.gbottom = l.gbottom /\ m.gsize = l.gsize
  BY <1>4
<1>7. SameGlobal(l, m)
  BY <1>6 DEF SameGlobal
<1> QED
  BY <1>5, <1>6, <1>7 DEF Q, hd, HeadStored

(* The stores to the bottom and to the size. *)
LEMMA SetReadyHead ==
    ASSUME NEW l \in Lists, NEW b, NEW d \in Int
    PROVE  ReadyHead(l, [l EXCEPT !.q["ready"].bottom = b, !.q["ready"].size = @ + d], b, l.q["ready"].size + d)
<1> DEFINE h == l.q["ready"]
           a == [l EXCEPT !.q["ready"].bottom = b]
           h1 == [top |-> h.top, bottom |-> b, size |-> h.size]
           h2 == [top |-> h.top, bottom |-> b, size |-> h.size + d]
           Q1 == [l.q EXCEPT !["ready"] = h1]
           Q2 == [l.q EXCEPT !["ready"] = h2]
           m == [a EXCEPT !.q["ready"].size = @ + d]
<1>1. l.q \in [Links!Queue -> QueueHead] /\ h \in QueueHead /\ DOMAIN l.q = Links!Queue
  BY ListsFields, QueueNames
<1>2. [h EXCEPT !.bottom = b] = h1
  BY <1>1 DEF QueueHead
<1>3. a = [l EXCEPT !.q = Q1]
  BY <1>2
<1> HIDE DEF a
<1>4. a = [next |-> l.next, q |-> Q1, gnext |-> l.gnext, gprev |-> l.gprev, gbottom |-> l.gbottom, gsize |-> l.gsize]
  <2> HIDE DEF Q1
  <2> QED
    BY <1>3 DEF Lists
<1>5. a.q = Q1 /\ Q1["ready"] = h1 /\ DOMAIN Q1 = Links!Queue
  <2>1. a.q = Q1
    <3> HIDE DEF Q1
    <3> QED
      BY <1>4
  <2>2. Q1["ready"] = h1 /\ DOMAIN Q1 = Links!Queue
    <3> HIDE DEF h1
    <3> QED
      BY <1>1, QueueNames
  <2> QED
    BY <2>1, <2>2
<1>6. [h1 EXCEPT !.size = @ + d] = h2
  OBVIOUS
<1>7. [Q1 EXCEPT !["ready"] = h2] = Q2
  <2> HIDE DEF h1, h2
  <2> QED
    BY <1>1
<1>8. m = [a EXCEPT !.q = Q2]
  <2>1. m = [a EXCEPT !.q = [a.q EXCEPT !["ready"] = [a.q["ready"] EXCEPT !.size = @ + d]]]
    OBVIOUS
  <2>2. a.q["ready"] = h1
    BY <1>5
  <2> HIDE DEF m, Q1, Q2, h1, h2
  <2>3. m = [a EXCEPT !.q = [Q1 EXCEPT !["ready"] = [h1 EXCEPT !.size = @ + d]]]
    BY <1>5, <2>1, <2>2
  <2> QED
    BY <1>6, <1>7, <2>3
<1>9. m = [next |-> l.next, q |-> Q2, gnext |-> l.gnext, gprev |-> l.gprev, gbottom |-> l.gbottom, gsize |-> l.gsize]
  <2> HIDE DEF Q1, Q2, m
  <2> QED
    BY <1>4, <1>8
<1>10. m = [l EXCEPT !.q["ready"].bottom = b, !.q["ready"].size = @ + d]
  BY DEF a
<1> HIDE DEF m
<1>11. ReadyHead(l, m, b, h.size + d)
  BY <1>9 DEF ReadyHead
<1> QED
  BY <1>10, <1>11

(* The last stores of the push. *)
LEMMA FinishedHead ==
    ASSUME NEW m \in Lists, NEW a
    PROVE  ReadyHead(m, Finished(m, a), a, m.q["ready"].size + 1)
<1>1. 1 \in Int
  OBVIOUS
<1> QED
  BY <1>1, SetReadyHead, Zenon DEF Finished

(* kmain's push, up to its last two stores: with them it is the whole push. *)
Unfinished(l, m, b) == m = [l EXCEPT !.q["ready"].bottom = b, !.q["ready"].size = @ - 1]

(* The last two stores are those that are missing. *)
LEMMA UnfinishedPush ==
    ASSUME NEW l \in Lists, NEW a, l.q["ready"].bottom = a, NEW b \in Block, NEW m, Unfinished(l, m, b)
    PROVE  m \in Lists /\ SameGlobal(l, m) /\ Finished(m, a) = l
<1> DEFINE h == l.q["ready"]
           h1 == [top |-> h.top, bottom |-> b, size |-> h.size - 1]
           x == [l EXCEPT !.q["ready"].bottom = b]
           f == Finished(m, a)
<1>1. l.q \in [Links!Queue -> QueueHead] /\ h \in QueueHead /\ DOMAIN l.q = Links!Queue
  BY ListsFields, QueueNames
<1>2. h.size \in Int /\ h = [top |-> h.top, bottom |-> h.bottom, size |-> h.size]
  BY <1>1 DEF QueueHead
<1>3. x.q["ready"].size = h.size
  <2>1. x = [l EXCEPT !.q = [l.q EXCEPT !["ready"] = [h EXCEPT !.bottom = b]]]
    OBVIOUS
  <2> DEFINE g == [h EXCEPT !.bottom = b]
             Q == [l.q EXCEPT !["ready"] = g]
  <2>2. g.size = h.size
    BY <1>1 DEF QueueHead
  <2>3. Q["ready"] = g
    BY <1>1, QueueNames
  <2>4. x.q = Q
    <3>1. x = [l EXCEPT !.q = Q]
      BY <2>1
    <3> HIDE DEF Q, x
    <3> QED
      BY <3>1 DEF Lists
  <2> QED
    BY <2>2, <2>3, <2>4
<1>4. ReadyHead(l, m, b, h.size - 1)
  <2>1. m = [x EXCEPT !.q["ready"].size = x.q["ready"].size - 1]
    BY DEF Unfinished
  <2>2. m = [x EXCEPT !.q["ready"].size = h.size - 1]
    <3> HIDE DEF x
    <3> QED
      BY <1>3, <2>1
  <2> DEFINE y == [l EXCEPT !.q["ready"].bottom = b, !.q["ready"].size = @ + (-1)]
  <2>3. y = [x EXCEPT !.q["ready"].size = x.q["ready"].size + (-1)]
    OBVIOUS
  <2>4. h.size - 1 = h.size + (-1)
    BY <1>2
  <2>5. y = [x EXCEPT !.q["ready"].size = h.size - 1]
    <3> HIDE DEF x, y, h
    <3> QED
      BY <1>3, <2>3, <2>4
  <2>6. ReadyHead(l, y, b, h.size + (-1))
    <3> HIDE DEF h
    <3>1. -1 \in Int
      OBVIOUS
    <3> QED
      BY <3>1, SetReadyHead DEF h
  <2> HIDE DEF y, x
  <2>7. m = y
    BY <2>2, <2>5
  <2> QED
    BY <2>4, <2>6, <2>7
<1> HIDE DEF x
<1>5. /\ m \in Lists /\ SameGlobal(l, m) /\ m.next = l.next
      /\ m.q = [l.q EXCEPT !["ready"] = h1]
  <2>1. h.size - 1 \in Int
    BY <1>2
  <2> DEFINE v == h.size - 1
  <2> HIDE DEF v
  <2>2. v \in Int /\ ReadyHead(l, m, b, v)
    BY <1>4, <2>1 DEF v
  <2>3. HeadStored(l, m, b, v)
    BY <2>2, ReadyHeadFacts
  <2> QED
    BY <2>3 DEF HeadStored, v
<1>6. m.q["ready"] = h1
  <2> HIDE DEF h1
  <2> QED
    BY <1>1, <1>5, QueueNames
<1>7. m.q["ready"].size + 1 = h.size /\ m.q["ready"].top = h.top
  BY <1>2, <1>6
<1>8. ReadyHead(m, f, a, m.q["ready"].size + 1)
  BY <1>5, FinishedHead
<1> HIDE DEF f
<1> DEFINE h2 == [top |-> m.q["ready"].top, bottom |-> a, size |-> m.q["ready"].size + 1]
<1>9. f = [next |-> m.next, q |-> [m.q EXCEPT !["ready"] = h2],
           gnext |-> m.gnext, gprev |-> m.gprev, gbottom |-> m.gbottom, gsize |-> m.gsize]
  BY <1>8 DEF ReadyHead
<1>10. h2 = h
  BY <1>2, <1>7
<1> HIDE DEF h2, h1
<1>11. [m.q EXCEPT !["ready"] = h2] = l.q
  BY <1>1, <1>5, <1>10
<1>12. f = [next |-> l.next, q |-> l.q, gnext |-> l.gnext, gprev |-> l.gprev, gbottom |-> l.gbottom, gsize |-> l.gsize]
  BY <1>5, <1>9, <1>11 DEF SameGlobal
<1>13. f = l
  BY <1>12 DEF Lists
<1> QED
  BY <1>5, <1>13 DEF f

(* scheduler_init, and kinit adds kmain. *)
LEMMA ListsStart ==
    ASSUME Links!Init
    PROVE  ListsInv
<1> DEFINE l == Links!SchedulerInit
           none == <<>>
           qs == [k \in Links!Queue |-> none]
           ev == <<Idle>>
           t == [p \in Proc |-> 0]
           hd == [top |-> Nil, bottom |-> Nil, size |-> 0]
           gn == [p \in Proc |-> IF p = Idle THEN Nil ELSE Idle]
<1>1. Idle \in Proc /\ Kmain \in Proc /\ Kmain # Idle
  BY ListsFacts
<1>2. l = [next |-> [p \in Proc |-> Idle], q |-> [k \in Links!Queue |-> hd], gnext |-> gn, gprev |-> gn,
           gbottom |-> Idle, gsize |-> 1]
  BY DEF Links!SchedulerInit
<1>3. hd \in QueueHead
  BY DEF QueueHead, Block
<1>4. gn \in [Proc -> Block] /\ [p \in Proc |-> Idle] \in [Proc -> Block] /\ gn[Idle] = Nil
  BY <1>1 DEF Block
<1>5. l \in Lists
  <2> DEFINE nx == [p \in Proc |-> Idle]
             Q == [k \in Links!Queue |-> hd]
  <2>1. Q \in [Links!Queue -> QueueHead] /\ nx \in [Proc -> Block]
    BY <1>3, <1>4
  <2>2. l = [next |-> nx, q |-> Q, gnext |-> gn, gprev |-> gn, gbottom |-> Idle, gsize |-> 1]
    BY <1>2
  <2> HIDE DEF nx, Q, gn, l
  <2> QED
    BY <1>1, <1>4, <2>1, <2>2 DEF Lists
<1>6. l.q = [k \in Links!Queue |-> hd] /\ l.gnext = gn /\ l.gprev = gn /\ l.gbottom = Idle /\ l.gsize = 1
  <2> DEFINE nx == [p \in Proc |-> Idle]
             Q == [k \in Links!Queue |-> hd]
  <2>2. l = [next |-> nx, q |-> Q, gnext |-> gn, gprev |-> gn, gbottom |-> Idle, gsize |-> 1]
    BY <1>2
  <2> HIDE DEF nx, gn, l, Q
  <2>3. l.q = Q /\ l.gnext = gn /\ l.gprev = gn /\ l.gbottom = Idle /\ l.gsize = 1
    BY <2>2
  <2> QED
    BY <2>3 DEF Q
<1> HIDE DEF l, gn
<1>7. none \in Seq(Proc) /\ Len(none) = 0 /\ Range(none) = {} /\ IsInjective(none)
  BY DEF Range, IsInjective
<1>8. qs \in Queues /\ \A k \in Links!Queue : qs[k] = none
  BY <1>7 DEF Queues
<1>9. Threads(l, qs)
  <2>1. Once(qs)
    <3> HIDE DEF none, qs
    <3> QED
      BY <1>7, <1>8 DEF Once
  <2>2. ASSUME NEW k \in Links!Queue PROVE Threaded(l.next, l.q[k], qs[k])
    <3>1. l.q[k] = hd /\ qs[k] = none
      BY <1>6
    <3>2. Threaded(l.next, hd, none)
      BY DEF Threaded
    <3> QED
      BY <3>1, <3>2
  <2> QED
    BY <1>5, <1>8, <2>1, <2>2 DEF Threads
<1>10. ev \in Seq(Proc) /\ Len(ev) = 1 /\ ev[1] = Idle /\ ev # <<>> /\ IsInjective(ev) /\ Range(ev) = {Idle}
  BY <1>1 DEF IsInjective, Range
<1>11. Global(l, ev)
  <2> HIDE DEF ev
  <2> QED
    BY <1>4, <1>6, <1>10 DEF Global
<1>12. Held(qs) = {}
  <2> HIDE DEF none, qs
  <2> QED
    BY <1>7, <1>8 DEF Held
<1>13. IdleStays(qs)
  <2> HIDE DEF none, qs
  <2> QED
    BY <1>7, <1>8 DEF IdleStays
<1>14. t \in [Proc -> Nat] /\ Sorted(qs["sleep"], t)
  <2>1. qs["sleep"] = none
    BY <1>8, QueueNames
  <2> HIDE DEF none, qs
  <2>2. Sorted(qs["sleep"], t)
    BY <1>7, <2>1 DEF Sorted
  <2> QED
    BY <2>2
<1>15. Running(l, qs, ev, Idle, t)
  <2> HIDE DEF qs, ev, t
  <2> QED
    BY <1>9, <1>10, <1>11, <1>12, <1>13, <1>14 DEF Running
<1>16. Kmain \in Proc \ Range(ev)
  BY <1>1, <1>10
<1>17. Running(Links!Push(Links!GlobalPush(l, Kmain), "ready", Kmain),
               With(qs, "ready", Append(qs["ready"], Kmain)), Append(ev, Kmain), Idle, t)
  <2> HIDE DEF qs, ev, t
  <2> QED
    BY <1>15, <1>16, AddOk
<1>18. With(qs, "ready", Append(qs["ready"], Kmain)) = [k \in Links!Queue |-> IF k = "ready" THEN <<Kmain>> ELSE << >>]
  <2>1. Append(qs["ready"], Kmain) = <<Kmain>>
    BY <1>8, QueueNames
  <2> DEFINE s == <<Kmain>>
  <2> HIDE DEF s, none
  <2>2. With(qs, "ready", s) = [k \in Links!Queue |-> IF k = "ready" THEN s ELSE none]
    BY QueueNames DEF With
  <2> QED
    BY <2>1, <2>2 DEF s, none
<1>19. Append(ev, Kmain) = <<Idle, Kmain>>
  <2> DEFINE s == Append(ev, Kmain)
             r == <<Idle, Kmain>>
  <2>1. s \in Seq(Proc) /\ Len(s) = 2 /\ s[1] = Idle /\ s[2] = Kmain
    <3>1. /\ s \in Seq(Proc) /\ Len(s) = Len(ev) + 1
          /\ (\A i \in 1..Len(ev) : s[i] = ev[i]) /\ s[Len(ev) + 1] = Kmain
      BY <1>1, <1>10, AppendProperties
    <3> HIDE DEF s, ev
    <3>2. 1 \in 1..1
      OBVIOUS
    <3> QED
      BY <1>10, <3>1, <3>2
  <2>2. r \in Seq(Proc) /\ Len(r) = 2 /\ r[1] = Idle /\ r[2] = Kmain
    BY <1>1
  <2> HIDE DEF s, r
  <2>3. \A i \in 1..2 : s[i] = r[i]
    <3>1. \A i \in 1..2 : i = 1 \/ i = 2
      OBVIOUS
    <3> QED
      BY <2>1, <2>2, <3>1
  <2>4. s = r
    BY <2>1, <2>2, <2>3, SeqEqual
  <2> QED
    BY <2>4 DEF s, r
<1>20. /\ cur = Idle /\ lists = Links!Push(Links!GlobalPush(l, Kmain), "ready", Kmain)
       /\ sleep_ticks = t /\ global_sleep_ticks = 0 /\ adding = Nil
       /\ queued = [k \in Links!Queue |-> IF k = "ready" THEN <<Kmain>> ELSE << >>]
       /\ everyone = <<Idle, Kmain>>
  BY DEF Links!Init, l
<1>21. Running(lists, queued, everyone, cur, sleep_ticks)
  BY <1>17, <1>18, <1>19, <1>20, Zenon
<1> QED
  BY <1>20, <1>21 DEF ListsInv

(* Between two pushes of kmain the invariant is that somebody runs. *)
LEMMA RunsOn ==
    ASSUME Running(lists', queued', everyone', cur', sleep_ticks'), adding' = Nil, global_sleep_ticks' \in Nat
    PROVE  ListsInv'
BY DEF ListsInv

(* scheduler_to_next_process *)
LEMMA ToNextOk ==
    ASSUME NEW l, NEW qs, NEW ev, NEW t, Parked(l, qs, ev, t), Links!ToNextProcess(l, qs)
    PROVE  Running(lists', queued', ev, cur', t)
<1>1. /\ cur' = l.q["ready"].top /\ lists' = Links!Pop(l, "ready")
      /\ queued' = With(qs, "ready", Tail(qs["ready"]))
  BY DEF Links!ToNextProcess, With
<1>2. Running(Links!Pop(l, "ready"), With(qs, "ready", Tail(qs["ready"])), ev, l.q["ready"].top, t)
  BY NextOk
<1> QED
  BY <1>1, <1>2

(* A process is made in a system call. *)
LEMMA AddProcessStep ==
    ASSUME ListsInv, adding = Nil, NEW p \in Proc, Links!AddProcess(p)
    PROVE  ListsInv'
<1>1. Running(lists, queued, everyone, cur, sleep_ticks) /\ global_sleep_ticks \in Nat
  BY DEF ListsInv
<1>2. /\ p \in Proc \ Range(everyone)
      /\ lists' = Links!Push(Links!GlobalPush(lists, p), "ready", p)
      /\ queued' = With(queued, "ready", Append(queued["ready"], p))
      /\ everyone' = Append(everyone, p) /\ cur' = cur /\ sleep_ticks' = sleep_ticks
      /\ global_sleep_ticks' = global_sleep_ticks /\ adding' = adding
  BY LinksRange DEF Links!AddProcess, Links!Processes, With
<1>3. Running(Links!Push(Links!GlobalPush(lists, p), "ready", p),
              With(queued, "ready", Append(queued["ready"], p)), Append(everyone, p), cur, sleep_ticks)
  BY <1>1, <1>2, AddOk
<1>4. Running(lists', queued', everyone', cur', sleep_ticks')
  BY <1>2, <1>3
<1> QED
  BY <1>1, <1>2, <1>4, RunsOn

(* process_queue_push makes the new block the bottom. *)
LEMMA PushedBottom ==
    ASSUME NEW l \in Lists, NEW p \in Proc
    PROVE  Links!Push(l, "ready", p) \in Lists /\ Links!Push(l, "ready", p).q["ready"].bottom = p
<1> DEFINE h == l.q["ready"]
           end0 == [l.next EXCEPT ![p] = Nil]
           m == Links!Push(l, "ready", p)
<1>0. "ready" \in Links!Queue
  BY QueueNames
<1>1. /\ m \in Lists
      /\ m.next = IF h.top = Nil THEN end0 ELSE [end0 EXCEPT ![h.bottom] = p]
      /\ m.q["ready"] = [top |-> IF h.top = Nil THEN p ELSE h.top, bottom |-> p, size |-> h.size + 1]
      /\ \A j \in Links!Queue \ {"ready"} : m.q[j] = l.q[j]
      /\ SameGlobal(l, m)
  BY <1>0, PushFields, Zenon
<1> DEFINE x == IF h.top = Nil THEN p ELSE h.top
           y == h.size + 1
<1>2. m.q["ready"] = [top |-> x, bottom |-> p, size |-> y]
  BY <1>1
<1> HIDE DEF m, x, y
<1>3. m.q["ready"].bottom = p
  BY <1>2
<1> QED
  BY <1>1, <1>3 DEF m

(* kmain has linked a process. *)
LEMMA KmainLinksStep ==
    ASSUME ListsInv, NEW p \in Proc, Links!KmainLinks(p)
    PROVE  ListsInv'
<1> DEFINE g == Links!GlobalPush(lists, p)
           l == Links!Push(g, "ready", p)
           b == lists.q["ready"].bottom
<1>0. adding = Nil /\ Running(lists, queued, everyone, cur, sleep_ticks) /\ global_sleep_ticks \in Nat
  BY DEF ListsInv, Links!KmainLinks
<1>2. /\ p \in Proc \ Range(everyone) /\ cur = Kmain
      /\ lists' = [l EXCEPT !.q["ready"].bottom = b, !.q["ready"].size = @ - 1]
      /\ queued' = queued
      /\ everyone' = Append(everyone, p) /\ cur' = cur /\ sleep_ticks' = sleep_ticks
      /\ global_sleep_ticks' = global_sleep_ticks /\ adding' = p
  BY LinksRange DEF Links!KmainLinks, Links!Processes
<1>3. Running(l, With(queued, "ready", Append(queued["ready"], p)), Append(everyone, p), cur, sleep_ticks)
  BY <1>0, <1>2, AddOk
<1>4. g \in Lists
  <2>1. lists \in Lists /\ Global(lists, everyone)
    BY <1>0 DEF Running, Threads
  <2> QED
    BY <1>2, <2>1, GlobalPushOk
<1>5. l \in Lists /\ l.q["ready"].bottom = p
  <2> HIDE DEF g
  <2> QED
    BY <1>4, PushedBottom
<1>6. b \in Block
  <2>1. lists \in Lists
    BY <1>0 DEF Running, Threads
  <2>2. lists.q["ready"] \in QueueHead
    BY <2>1, QueueNames, ListsFields
  <2> QED
    BY <2>2 DEF QueueHead
<1> HIDE DEF l, b
<1>7. lists' \in Lists /\ Finished(lists', p) = l
  <2>1. Unfinished(l, lists', b)
    BY <1>2 DEF Unfinished
  <2> DEFINE m == lists'
  <2>2. Unfinished(l, m, b)
    BY <2>1
  <2> HIDE DEF m
  <2>3. m \in Lists /\ Finished(m, p) = l
    BY <1>5, <1>6, <2>2, UnfinishedPush
  <2> QED
    BY <2>3 DEF m
<1>8. p # Nil
  BY ListsFacts
<1>9. /\ lists' \in Lists /\ cur' = Kmain
      /\ Running(Finished(lists', adding'), With(queued', "ready", Append(queued'["ready"], adding')),
                 everyone', cur', sleep_ticks')
  BY <1>2, <1>3, <1>7
<1> QED
  BY <1>0, <1>2, <1>8, <1>9 DEF ListsInv

(* kmain finishes its push. *)
LEMMA KmainSetsBottomStep ==
    ASSUME ListsInv, Links!KmainSetsBottom
    PROVE  ListsInv'
<1>1. /\ adding # Nil
      /\ lists' = Finished(lists, adding)
      /\ queued' = With(queued, "ready", Append(queued["ready"], adding))
      /\ everyone' = everyone /\ cur' = cur /\ sleep_ticks' = sleep_ticks
      /\ global_sleep_ticks' = global_sleep_ticks /\ adding' = Nil
  BY DEF Links!KmainSetsBottom, Finished, With
<1>2. /\ global_sleep_ticks \in Nat
      /\ Running(Finished(lists, adding), With(queued, "ready", Append(queued["ready"], adding)),
                 everyone, cur, sleep_ticks)
  BY <1>1 DEF ListsInv
<1>3. Running(lists', queued', everyone', cur', sleep_ticks')
  BY <1>1, <1>2
<1> QED
  BY <1>1, <1>2, <1>3, RunsOn

(* The running process yields, waits or ends. *)
LEMMA LeaveStep ==
    ASSUME ListsInv, adding = Nil, NEW k \in {"ready", "wait", "delete"}, Links!Leave(k)
    PROVE  ListsInv'
<1> DEFINE l == Links!Push(lists, k, cur)
           qs == With(queued, k, Append(queued[k], cur))
<1>1. Running(lists, queued, everyone, cur, sleep_ticks) /\ global_sleep_ticks \in Nat
  BY DEF ListsInv
<1>2. /\ cur # Idle /\ Links!ToNextProcess(l, qs)
      /\ everyone' = everyone /\ sleep_ticks' = sleep_ticks
      /\ global_sleep_ticks' = global_sleep_ticks /\ adding' = adding
  BY DEF Links!Leave, Links!Calls, With
<1>3. k \in Links!Queue \ {"sleep"}
  BY DEF Links!Queue
<1>4. Parked(l, qs, everyone, sleep_ticks)
  BY <1>1, <1>2, <1>3, ParkOk
<1> HIDE DEF l, qs
<1>5. Running(lists', queued', everyone, cur', sleep_ticks)
  BY <1>2, <1>4, ToNextOk
<1>6. Running(lists', queued', everyone', cur', sleep_ticks')
  BY <1>2, <1>5
<1> QED
  BY <1>1, <1>2, <1>6, RunsOn

(* The running process goes to sleep. *)
LEMMA SetSleepStep ==
    ASSUME ListsInv, adding = Nil, NEW ticks \in SleepRequests, Links!SetSleep(ticks)
    PROVE  ListsInv'
<1> DEFINE at == ticks + global_sleep_ticks
           q == queued["sleep"]
           t == [sleep_ticks EXCEPT ![cur] = at]
           n == Links!Cardinality({i \in DOMAIN q : t[q[i]] < at})
           l == Links!SortedPush(lists, "sleep", cur, t)
           qs == With(queued, "sleep", Insert(q, n, cur))
<1>1. Running(lists, queued, everyone, cur, sleep_ticks) /\ global_sleep_ticks \in Nat
  BY DEF ListsInv
<1>2. /\ cur # Idle /\ Links!ToNextProcess(l, qs)
      /\ everyone' = everyone /\ sleep_ticks' = t
      /\ global_sleep_ticks' = global_sleep_ticks /\ adding' = adding
  BY DEF Links!SetSleep, Links!Calls, With, Insert
<1>3. at \in Nat
  BY <1>1, ListsFacts
<1>4. Parked(l, qs, everyone, t)
  <2> HIDE DEF at
  <2> QED
    BY <1>1, <1>2, <1>3, SleepOk
<1> HIDE DEF l, qs, t
<1>5. Running(lists', queued', everyone, cur', t)
  BY <1>2, <1>4, ToNextOk
<1>6. Running(lists', queued', everyone', cur', sleep_ticks')
  BY <1>2, <1>5
<1> QED
  BY <1>1, <1>2, <1>6, RunsOn

(* A waiter is made ready. *)
LEMMA ReleaseStep ==
    ASSUME ListsInv, adding = Nil, Links!Release
    PROVE  ListsInv'
<1> DEFINE p == lists.q["wait"].top
           w == queued["wait"]
           ps == With(queued, "wait", Tail(w))
           rs == With(ps, "ready", Append(ps["ready"], p))
           m == Links!Push(Links!Pop(lists, "wait"), "ready", p)
<1>1. Running(lists, queued, everyone, cur, sleep_ticks) /\ global_sleep_ticks \in Nat
  BY DEF ListsInv
<1>2. /\ lists.q["wait"].size > 0 /\ lists' = m
      /\ queued' = [queued EXCEPT !["wait"] = Tail(w), !["ready"] = Append(queued["ready"], Head(w))]
      /\ everyone' = everyone /\ cur' = cur /\ sleep_ticks' = sleep_ticks
      /\ global_sleep_ticks' = global_sleep_ticks /\ adding' = adding
  BY DEF Links!Release
<1>3. queued \in Queues /\ w \in Seq(Proc) /\ lists.q["wait"].size = Len(w)
  BY <1>1, QueueNames DEF Running, Threads, Threaded, Queues
<1>4. w # <<>>
  BY <1>2, <1>3, SeqFacts
<1>5. p = Head(w) /\ Running(m, rs, everyone, cur, sleep_ticks)
  BY <1>1, <1>4, ReleaseOk
<1>6. queued' = rs
  <2>1. ps["ready"] = queued["ready"]
    BY <1>3, QueueNames, WithFacts
  <2> DEFINE x == Tail(w)
             y == Append(queued["ready"], p)
  <2>2. queued' = [queued EXCEPT !["wait"] = x, !["ready"] = y]
    BY <1>2, <1>5
  <2>3. rs = With(With(queued, "wait", x), "ready", y)
    BY <2>1
  <2> HIDE DEF x, y, rs
  <2> QED
    BY <2>2, <2>3 DEF With
<1> HIDE DEF m, rs
<1>7. Running(lists', queued', everyone', cur', sleep_ticks')
  BY <1>2, <1>5, <1>6
<1> QED
  BY <1>1, <1>2, <1>7, RunsOn

(* A tick, at the end of a time slice or before. *)
LEMMA TickStep ==
    ASSUME ListsInv, adding = Nil, NEW over \in BOOLEAN, Links!Tick(over)
    PROVE  ListsInv'
<1> DEFINE reaped == Links!Reap(lists)
           q == queued["sleep"]
           now == global_sleep_ticks + 1
           n == Links!Cardinality({i \in DOMAIN q : sleep_ticks[q[i]] <= now})
           l == IF reaped.q["sleep"].size > 0 THEN Links!WakeUp(reaped, now) ELSE reaped
           qs == [queued EXCEPT !["delete"] = <<>>, !["sleep"] = SubSeq(q, n + 1, Len(q)),
                                !["ready"] = queued["ready"] \o SubSeq(q, 1, n)]
           ds == With(queued, "delete", <<>>)
           rs == Awake(ds, n)
           ew == Links!Remaining(everyone, Range(queued["delete"]))
           u == [p \in Proc |-> IF p \in Range(Popped(q, n)) THEN 0 ELSE sleep_ticks[p]]
<1>1. Running(lists, queued, everyone, cur, sleep_ticks) /\ global_sleep_ticks \in Nat
  BY DEF ListsInv
<1>2. now \in Nat
  BY <1>1
<1>3. /\ global_sleep_ticks' \in {now, 0, global_sleep_ticks}
      /\ everyone' = Links!Remaining(everyone, Links!Range(queued["delete"]))
      /\ IF over THEN Links!ToNextProcess(Links!Push(l, "ready", cur), With(qs, "ready", Append(qs["ready"], cur)))
         ELSE lists' = l /\ queued' = qs /\ cur' = cur
      /\ sleep_ticks' = [p \in Proc |-> IF p \in Links!Range(SubSeq(q, 1, n)) THEN 0 ELSE sleep_ticks[p]]
      /\ adding' = adding
  BY DEF Links!Tick, With
<1>4. everyone' = ew /\ sleep_ticks' = u
  BY <1>3, LinksRange DEF Popped
<1>5. queued \in Queues /\ DOMAIN queued = Links!Queue
  BY <1>1 DEF Running, Threads, Queues
<1>6. rs = qs
  <2> DEFINE none == <<>>
             x == Rest(q, n)
             y == queued["ready"] \o Popped(q, n)
  <2>1. ds["sleep"] = q /\ ds["ready"] = queued["ready"]
    <3> HIDE DEF none
    <3>1. ds = With(queued, "delete", none)
      BY DEF none
    <3> HIDE DEF ds
    <3>2. \A j \in Links!Queue \ {"delete"} : With(queued, "delete", none)[j] = queued[j]
      BY <1>5, QueueNames, WithFacts
    <3> QED
      BY <3>1, <3>2, QueueNames
  <2>2. rs = With(With(ds, "sleep", x), "ready", y)
    <3> HIDE DEF ds
    <3> QED
      BY <2>1 DEF Awake
  <2>3. qs = [queued EXCEPT !["delete"] = none, !["sleep"] = x, !["ready"] = y]
    BY DEF Rest, Popped
  <2>4. ds = With(queued, "delete", none)
    OBVIOUS
  <2> HIDE DEF x, y, none, rs, qs, ds
  <2> QED
    BY <2>2, <2>3, <2>4 DEF With
<1>7. Running(l, rs, ew, cur, u)
  <2> HIDE DEF now
  <2> QED
    BY <1>1, <1>2, TickOk
<1>8. Running(l, qs, ew, cur, u)
  BY <1>6, <1>7
<1> HIDE DEF l, qs, ew, u, rs
<1>9. Running(lists', queued', ew, cur', u)
  <2>1. CASE over
    <3> DEFINE a == Links!Push(l, "ready", cur)
               bs == With(qs, "ready", Append(qs["ready"], cur))
    <3>1. Links!ToNextProcess(a, bs)
      BY <1>3, <2>1
    <3>2. Parked(a, bs, ew, u)
      <4>1. "ready" \in Links!Queue \ {"sleep"}
        BY QueueNames
      <4> QED
        BY <1>8, <4>1, ParkOk
    <3> HIDE DEF a, bs
    <3> QED
      BY <3>1, <3>2, ToNextOk
  <2>2. CASE ~over
    <3>1. lists' = l /\ queued' = qs /\ cur' = cur
      BY <1>3, <2>2
    <3> QED
      BY <1>8, <3>1
  <2> QED
    BY <2>1, <2>2
<1>10. Running(lists', queued', everyone', cur', sleep_ticks')
  BY <1>4, <1>9
<1>11. global_sleep_ticks' \in Nat /\ adding' = Nil
  <2> HIDE DEF now
  <2> QED
    BY <1>1, <1>2, <1>3
<1> QED
  BY <1>10, <1>11, RunsOn

(* Every step preserves the invariant. *)
LEMMA ListsNextStep ==
    ASSUME ~AnyPreempt, ListsInv, Links!Next
    PROVE  ListsInv'
<1>1. ASSUME NEW p \in Proc, Links!AddProcess(p) PROVE ListsInv'
  <2>1. adding = Nil
    BY <1>1 DEF Links!AddProcess, Links!Calls, Links!Quiet
  <2> QED
    BY <1>1, <2>1, AddProcessStep
<1>2. ASSUME NEW p \in Proc, Links!KmainLinks(p) PROVE ListsInv'
  BY <1>2, KmainLinksStep
<1>3. ASSUME Links!KmainSetsBottom PROVE ListsInv'
  BY <1>3, KmainSetsBottomStep
<1>4. ASSUME NEW k \in {"ready", "wait", "delete"}, Links!Leave(k) PROVE ListsInv'
  <2>1. adding = Nil
    BY <1>4 DEF Links!Leave, Links!Calls, Links!Quiet
  <2> QED
    BY <1>4, <2>1, LeaveStep
<1>5. ASSUME NEW ticks \in SleepRequests, Links!SetSleep(ticks) PROVE ListsInv'
  <2>1. adding = Nil
    BY <1>5 DEF Links!SetSleep, Links!Calls, Links!Quiet
  <2> QED
    BY <1>5, <2>1, SetSleepStep
<1>6. ASSUME Links!Release PROVE ListsInv'
  <2>1. adding = Nil
    BY <1>6 DEF Links!Release, Links!Calls, Links!Quiet
  <2> QED
    BY <1>6, <2>1, ReleaseStep
<1>7. ASSUME NEW over \in BOOLEAN, Links!Tick(over) PROVE ListsInv'
  <2>1. adding = Nil
    BY <1>7 DEF Links!Tick, Links!Quiet
  <2> QED
    BY <1>7, <2>1, TickStep
<1> QED
  BY <1>1, <1>2, <1>3, <1>4, <1>5, <1>6, <1>7 DEF Links!Next

(* The invariant implies the property. *)
LEMMA ListsInvAgrees ==
    ASSUME ListsInv
    PROVE  ListsAgree
<1>1. Links!QueuesAgree
  <2> SUFFICES ASSUME adding = Nil, NEW k \in Links!Queue
               PROVE  /\ Links!Walk(lists.next, lists.q[k].top) = queued[k]
                      /\ lists.q[k].size = Len(queued[k])
                      /\ queued[k] # <<>> => lists.q[k].bottom = Links!Last(queued[k])
    BY Zenon DEF Links!QueuesAgree
  <2>1. Threads(lists, queued)
    BY DEF ListsInv, Running
  <2> QED
    BY <2>1, QueuesAgreeWith
<1>2. lists \in Lists /\ Global(lists, everyone)
  <2>1. CASE adding = Nil
    BY <2>1 DEF ListsInv, Running, Threads
  <2>2. CASE adding # Nil
    <3> DEFINE f == Finished(lists, adding)
    <3>1. lists \in Lists /\ Global(f, everyone) /\ f \in Lists
      BY <2>2 DEF ListsInv, Running, Threads
    <3>2. ReadyHead(lists, f, adding, lists.q["ready"].size + 1)
      BY <3>1, FinishedHead
    <3> HIDE DEF f
    <3>3. SameGlobal(f, lists)
      BY <3>2 DEF ReadyHead, SameGlobal
    <3> QED
      BY <3>1, <3>3, GlobalSame
  <2> QED
    BY <2>1, <2>2
<1>3. Links!GlobalListAgrees
  BY <1>2, GlobalAgrees DEF Links!GlobalListAgrees
<1> QED
  BY <1>1, <1>3 DEF ListsAgree

(* As long as no tick comes in the middle of kmain's push, the links spell  *)
(* the queues that were pushed, popped, sorted into and emptied, and the    *)
(* global list every live process once, in both directions, for any number  *)
(* of processes, any sleep times and any order of calls and ticks           *)
(* (process_queue.c, and global_list_push, global_list_pop and              *)
(* scheduler_switch of scheduler.c).                                        *)
THEOREM ListsStayTrue == ~AnyPreempt => (DataSpec => []ListsAgree)
<1> SUFFICES ASSUME ~AnyPreempt PROVE DataSpec => []ListsAgree
  OBVIOUS
<1>1. DataInit => ListsInv
  BY ListsStart DEF DataInit
<1>2. ListsInv /\ [DataNext]_dataVars => ListsInv'
  <2> SUFFICES ASSUME ListsInv, [DataNext]_dataVars PROVE ListsInv'
    OBVIOUS
  <2>1. Links!Next \/ UNCHANGED listVars
    BY DEF DataNext, FramesStep, FullStep, GrowingStep, ListsStep, dataVars
  <2>2. CASE UNCHANGED listVars
    <3>1. /\ lists' = lists /\ cur' = cur /\ sleep_ticks' = sleep_ticks /\ adding' = adding
          /\ global_sleep_ticks' = global_sleep_ticks /\ queued' = queued /\ everyone' = everyone
      BY <2>2 DEF listVars
    <3> QED
      BY <3>1 DEF ListsInv
  <2>3. CASE Links!Next
    BY <2>3, ListsNextStep
  <2> QED
    BY <2>1, <2>2, <2>3
<1>3. ListsInv => ListsAgree
  BY ListsInvAgrees
<1> QED
  BY <1>1, <1>2, <1>3, PTL DEF DataSpec
=============================================================================
