------------------------------ MODULE FatTable ------------------------------
(***************************************************************************)
(* The allocation table of a FAT32 partition and the copy of the fsinfo    *)
(* sector the kernel keeps: fat32_allocate_clusters, expand_cluster_chain, *)
(* free_cluster_chain, cut_cluster_chain and count_free_cluster of         *)
(* kernel/src/filesystem/fat32.c.  A table is a record, an operation a     *)
(* function from tables to tables.                                         *)
(*                                                                         *)
(* Reading and writing a sector is one step: the table entry a call works  *)
(* on.  Faults of the disk are ignored by the code and left out.           *)
(***************************************************************************)
EXTENDS Integers, Sequences, FiniteSets, FiniteSetsExt

CONSTANTS
    CLUSTERS,       \* get_total_clusters
    BEHIND,         \* words behind those of the clusters that read as free
    WORD            \* uint32_t is modulo WORD: 2^32 in the code

Cluster == 2..CLUSTERS + 1

(* What get_FAT_entry reads behind the table of the partition, the rest of  *)
(* its last sector and the second table, is free as mkfs leaves it.         *)
Word == 2..CLUSTERS + 1 + BEHIND

FREE == 0                             \* FAT_FREE_CLUSTER
BAD == CLUSTERS + BEHIND + 2          \* FAT_BAD_CLUSTER: below FAT_EOC, no cluster
EOC == CLUSTERS + BEHIND + 3          \* FAT_EOC

(* fat: the table; hint: available_clusters_start; free: free_cluster_count *)
Table == [fat : [Word -> Word \cup {FREE, BAD, EOC}], hint : Word, free : 0..WORD - 1]

(* count_free_cluster *)
CountFree(fat) == Cardinality({c \in Cluster : fat[c] = FREE})

(* The clusters of the chain that starts at c, as get_FAT_entry gives them: *)
(* it ends where the next is FAT_EOC or marked bad.                         *)
ChainOf(fat, c) ==
    LET from[x \in 0..EOC] == IF x \in Word THEN <<x>> \o from[fat[x]] ELSE << >>
    IN from[c]

ClustersOf(fat, c) == LET s == ChainOf(fat, c) IN {s[i] : i \in 1..Len(s)}

(* fat32_get_last_cluster_of_chain *)
LastOf(fat, c) == LET s == ChainOf(fat, c) IN s[Len(s)]

-----------------------------------------------------------------------------
(* The free clusters the search of fat32_allocate_clusters meets, which     *)
(* starts at the hint and never turns back.  Nothing compares the cluster   *)
(* number with the size of the partition: if there are too few the search   *)
(* goes on behind it.                                                       *)
Ahead(t) == {c \in Word : c >= t.hint /\ t.fat[c] = FREE}

(* The first n of them, in ascending order. *)
Found(t, n) ==
    [i \in 1..n |-> CHOOSE c \in Ahead(t) : Cardinality({b \in Ahead(t) : b < c}) = i - 1]

(* fat32_allocate_clusters for n > 0: the chain, ended, and the hint at its *)
(* last cluster.  What it does to clear the clusters is to read them.       *)
Allocate(t, n) ==
    LET s == Found(t, n)
    IN [t EXCEPT
          !.fat  = [c \in Word |->
                      IF c = s[n] THEN EOC
                      ELSE IF \E i \in 1..n : s[i] = c
                           THEN s[(CHOOSE i \in 1..n : s[i] = c) + 1] ELSE @[c]],
          !.hint = s[n],
          !.free = (@ - n) % WORD]

(* expand_cluster_chain: whatever followed cluster end is no longer linked. *)
Expand(t, end, n) == [Allocate(t, n) EXCEPT !.fat[end] = Found(t, n)[1]]

(* free_cluster_chain: the hint moves down to the first cluster of the      *)
(* chain only.  A chain that runs into a bad cluster is freed too, but the  *)
(* counter and the hint stay.                                               *)
FreeChain(t, c) ==
    LET s == ChainOf(t.fat, c)
        f == [x \in Word |-> IF \E i \in 1..Len(s) : s[i] = x THEN FREE ELSE t.fat[x]]
    IN IF s # << >> /\ t.fat[s[Len(s)]] = BAD
       THEN [t EXCEPT !.fat = f]
       ELSE [fat  |-> f,
             hint |-> IF c < t.hint THEN c ELSE t.hint,
             free |-> (t.free + Len(s)) % WORD]

(* cut_cluster_chain: what follows cluster c is freed; c keeps its link if  *)
(* that ran into a bad cluster.                                             *)
CutChain(t, c) ==
    IF t.fat[c] \in {EOC, BAD} THEN t
    ELSE IF t.fat[LastOf(t.fat, c)] = BAD THEN FreeChain(t, t.fat[c])
    ELSE [FreeChain(t, t.fat[c]) EXCEPT !.fat[c] = EOC]

(* A chain with a cluster below its first one and below the hint: nothing   *)
(* finds that cluster again once the chain is freed.                        *)
Hides(t, c) == \E x \in ClustersOf(t.fat, c) : x < c /\ x < t.hint

(* copy_cluster_chain: one cluster first, then one more for every further   *)
(* cluster of the chain.                                                    *)
CopyChain(t, n) ==
    LET copy[k \in 1..n] ==
            IF k = 1 THEN Allocate(t, 1)
            ELSE Expand(copy[k - 1], copy[k - 1].hint, 1)
    IN copy[n]

=============================================================================
